-------------------------- MODULE TaskQueueProofs --------------------------
(* Proofs that the task queue keeps its safety properties for every set of tasks, *)
(* executors and tokens.                                                          *)
EXTENDS TaskQueue, TLAPS

USE TasksAssumption, WorkersAssumption, TokensAssumption, MaxAttemptsAssumption

-----------------------------------------------------------------------------
(* The inductive invariant. *)

\* An executor holds a task and a token exactly while it works on one.
FlowOK ==
    \A w \in Workers :
        /\ pc[w] \in {"down", "idle"} => job[w] = None /\ token[w] = None
        /\ Working(w) => job[w] \in Tasks /\ token[w] \in Tokens
        /\ pc[w] = "finishing" => verdict[w] \in Outcomes
        /\ pc[w] = "deferring" => verdict[w] \in Deferrals

\* A row has a token and a lease exactly while it runs.
RowOK ==
    \A t \in Tasks :
        /\ status[t] = "running" => leaseToken[t] \in Tokens /\ lease[t] # "none"
        /\ status[t] # "running" => leaseToken[t] = None /\ lease[t] = "none"

\* The hold request found its row queued and kept the gate closed since.
HoldRequestOK == admin # None => status[admin.task] # "running"

\* A row is locked by at most one transaction.
OneRowLock ==
    \A x, y \in txns : x.phase = "locked" /\ y.phase = "locked" /\ x.task = y.task => x = y

\* Attempts are counted from the first acquisition on and leave one for every new row.
AttemptsOK ==
    /\ QueuedHasAttempts
    /\ \A t \in Tasks : (status[t] = "absent" => attempt[t] < maxAttempts[t])
                       /\ (status[t] = "running" => attempt[t] > 0)

IInv ==
    /\ TypeOK /\ FlowOK /\ RowOK /\ HoldRequestOK /\ OneRowLock /\ AttemptsOK
    /\ ExclusionPerSource /\ FencedByOwner /\ RunningNeverHeld /\ OneExecutorPerLease

LEMMA InitIInv == Init => IInv
BY DEF Init, IInv, TypeOK, FlowOK, RowOK, HoldRequestOK, OneRowLock, AttemptsOK, QueuedHasAttempts,
       ExclusionPerSource, FencedByOwner, RunningNeverHeld, OneExecutorPerLease,
       Working, Status, Terminal, Holds, Outcomes, Deferrals

-----------------------------------------------------------------------------
(* Frames: what a step keeps by not touching some of the state. *)

LEMMA RowsFrame ==
    ASSUME IInv, UNCHANGED rowVars
    PROVE  RowOK' /\ AttemptsOK' /\ ExclusionPerSource' /\ RunningNeverHeld'
BY DEF IInv, rowVars, RowOK, AttemptsOK, QueuedHasAttempts, ExclusionPerSource, RunningNeverHeld

LEMMA LocksFrame ==
    ASSUME IInv, txns' \subseteq txns, UNCHANGED <<status, leaseToken>>
    PROVE  OneRowLock' /\ FencedByOwner'
BY DEF IInv, OneRowLock, FencedByOwner

LEMMA GateFrame ==
    ASSUME IInv, UNCHANGED admin,
           \A t \in Tasks : status'[t] = "running" => status[t] = "running"
    PROVE  HoldRequestOK'
BY DEF IInv, HoldRequestOK, TypeOK

LEMMA FlowFrame ==
    ASSUME IInv, UNCHANGED workerVars
    PROVE  FlowOK' /\ OneExecutorPerLease'
BY DEF IInv, workerVars, FlowOK, OneExecutorPerLease, Working

LEMMA GotoFlow ==
    ASSUME IInv, NEW w \in Workers, Working(w),
           NEW s \in {"denied", "giveup", "deferring", "finishing"},
           NEW v \in Outcomes \cup Deferrals \cup {None},
           s = "finishing" => v \in Outcomes, s = "deferring" => v \in Deferrals,
           Goto(w, s, v)
    PROVE  FlowOK' /\ OneExecutorPerLease'
BY DEF IInv, TypeOK, FlowOK, OneExecutorPerLease, Working, Goto

LEMMA GoIdleFlow ==
    ASSUME IInv, NEW w \in Workers, NEW s \in {"idle", "down"}, GoIdle(w, s)
    PROVE  FlowOK' /\ OneExecutorPerLease'
BY DEF IInv, TypeOK, FlowOK, OneExecutorPerLease, Working, GoIdle

\* A row that leaves its executor and is not locked keeps everything about the rows.
LEMMA ReleaseRows ==
    ASSUME IInv, NEW t \in Tasks, status[t] = "running",
           NEW st \in {"queued"} \cup Outcomes, NEW att \in Nat, NEW d \in BOOLEAN, NEW h \in Holds,
           att <= maxAttempts[t], st = "queued" => att < maxAttempts[t],
           Release(t, st, att, d, h)
    PROVE  /\ RowOK' /\ AttemptsOK' /\ ExclusionPerSource' /\ RunningNeverHeld'
           /\ UNCHANGED admin => HoldRequestOK'
           /\ (txns' \subseteq txns /\ \A x \in txns' : x.task = t => x.phase # "locked")
                 => OneRowLock' /\ FencedByOwner'
<1>. USE DEF IInv, TypeOK, Release, Outcomes
<1>1. RowOK'
  BY DEF RowOK
<1>2. AttemptsOK'
  BY DEF AttemptsOK, QueuedHasAttempts
<1>3. ExclusionPerSource'
  BY DEF ExclusionPerSource
<1>4. RunningNeverHeld'
  BY DEF RunningNeverHeld
<1>5. UNCHANGED admin => HoldRequestOK'
  BY DEF HoldRequestOK
<1>6. (txns' \subseteq txns /\ \A x \in txns' : x.task = t => x.phase # "locked")
        => OneRowLock' /\ FencedByOwner'
  BY DEF OneRowLock, FencedByOwner, Txns
<1>. QED
  BY <1>1, <1>2, <1>3, <1>4, <1>5, <1>6

-----------------------------------------------------------------------------
(* One lemma per action. *)

LEMMA EnqueueStep == ASSUME IInv, NEW t \in Tasks, Enqueue(t) PROVE IInv'
<1>. USE DEF IInv, Enqueue, workerVars
<1>1. TypeOK'
  BY DEF TypeOK, Status, Terminal, Holds
<1>2. RowOK'
  BY DEF TypeOK, RowOK, FlowOK, Terminal
<1>3. AttemptsOK'
  BY DEF TypeOK, AttemptsOK, QueuedHasAttempts
<1>4. ExclusionPerSource'
  BY DEF TypeOK, ExclusionPerSource, Excludes
<1>5. RunningNeverHeld'
  BY DEF TypeOK, RunningNeverHeld, HoldRequestOK
<1>6. HoldRequestOK'
  BY DEF TypeOK, HoldRequestOK
<1>7. FlowOK' /\ OneExecutorPerLease'
  BY FlowFrame
<1>8. OneRowLock' /\ FencedByOwner'
  BY DEF TypeOK, OneRowLock, FencedByOwner, Txns, RowOK
<1>. QED
  BY <1>1, <1>2, <1>3, <1>4, <1>5, <1>6, <1>7, <1>8

LEMMA CancelStep == ASSUME IInv, NEW t \in Tasks, Cancel(t) PROVE IInv'
<1>. USE DEF IInv, Cancel, workerVars
<1>1. TypeOK'
  BY DEF TypeOK, Status, Terminal, Holds
<1>2. RowOK'
  BY DEF TypeOK, RowOK, FlowOK, Terminal
<1>3. AttemptsOK'
  BY DEF TypeOK, AttemptsOK, QueuedHasAttempts
<1>4. ExclusionPerSource'
  BY DEF TypeOK, ExclusionPerSource, Excludes
<1>5. RunningNeverHeld'
  BY DEF TypeOK, RunningNeverHeld, HoldRequestOK
<1>6. HoldRequestOK'
  BY DEF TypeOK, HoldRequestOK
<1>7. FlowOK' /\ OneExecutorPerLease'
  BY FlowFrame
<1>8. OneRowLock' /\ FencedByOwner'
  BY DEF TypeOK, OneRowLock, FencedByOwner, Txns, RowOK
<1>. QED
  BY <1>1, <1>2, <1>3, <1>4, <1>5, <1>6, <1>7, <1>8

LEMMA HoldReadStep == ASSUME IInv, NEW t \in Tasks, NEW h \in BOOLEAN, HoldRead(t, h) PROVE IInv'
<1>. USE DEF IInv, HoldRead, GateFree, rowVars, workerVars
<1>1. TypeOK'
  BY DEF TypeOK
<1>2. RowOK' /\ AttemptsOK' /\ ExclusionPerSource' /\ RunningNeverHeld'
  BY RowsFrame
<1>3. FlowOK' /\ OneExecutorPerLease'
  BY FlowFrame
<1>4. HoldRequestOK'
  BY DEF HoldRequestOK
<1>5. OneRowLock' /\ FencedByOwner'
  BY LocksFrame
<1>. QED
  BY <1>1, <1>2, <1>3, <1>4, <1>5

LEMMA HoldWriteStep == ASSUME IInv, HoldWrite PROVE IInv'
<1>. USE DEF IInv, HoldWrite, workerVars
<1>1. TypeOK'
  BY DEF TypeOK, Status, Terminal, Holds
<1>2. RowOK'
  BY DEF TypeOK, RowOK, FlowOK, Terminal
<1>3. AttemptsOK'
  BY DEF TypeOK, AttemptsOK, QueuedHasAttempts
<1>4. ExclusionPerSource'
  BY DEF TypeOK, ExclusionPerSource, Excludes
<1>5. RunningNeverHeld'
  BY DEF TypeOK, RunningNeverHeld, HoldRequestOK
<1>6. HoldRequestOK'
  BY DEF TypeOK, HoldRequestOK
<1>7. FlowOK' /\ OneExecutorPerLease'
  BY FlowFrame
<1>8. OneRowLock' /\ FencedByOwner'
  BY LocksFrame
<1>. QED
  BY <1>1, <1>2, <1>3, <1>4, <1>5, <1>6, <1>7, <1>8

LEMMA ReclaimStep == ASSUME IInv, NEW w \in Workers, NEW slots \in SUBSET Sources, Reclaim(w, slots) PROVE IInv'
<1>. USE DEF IInv, Reclaim, ClaimReady, Expired, AfterReclaim, GateFree, RowLocked, workerVars
<1>1. TypeOK'
  BY DEF TypeOK, Status, Terminal, Holds
<1>2. RowOK'
  BY DEF TypeOK, RowOK, FlowOK, Terminal
<1>3. AttemptsOK'
  BY DEF TypeOK, AttemptsOK, QueuedHasAttempts
<1>4. ExclusionPerSource'
  BY DEF TypeOK, ExclusionPerSource, Excludes
<1>5. RunningNeverHeld'
  BY DEF TypeOK, RunningNeverHeld, HoldRequestOK
<1>6. HoldRequestOK'
  BY DEF TypeOK, HoldRequestOK
<1>7. FencedByOwner'
  BY DEF TypeOK, FencedByOwner, RowOK, Txns
<1>8. FlowOK' /\ OneExecutorPerLease'
  BY FlowFrame
<1>9. OneRowLock'
  BY DEF OneRowLock
<1>. QED
  BY <1>1, <1>2, <1>3, <1>4, <1>5, <1>6, <1>7, <1>8, <1>9

LEMMA ClaimStep == ASSUME IInv, NEW w \in Workers, NEW slots \in SUBSET Sources, NEW t \in Tasks, Claim(w, slots, t) PROVE IInv'
<1>. DEFINE k == CHOOSE k \in FreshTokens : TRUE
<1>1. k \in Tokens /\ \A v \in Workers : token[v] # k
  BY DEF Claim, FreshTokens, TokensInUse
<1>. HIDE DEF k
<1>2. /\ status' = [AfterReclaim(slots) EXCEPT ![t] = "running"]
      /\ leaseToken' = [u \in Tasks |-> IF u = t THEN k ELSE IF u \in Expired(slots) \ {t} THEN None ELSE leaseToken[u]]
      /\ token' = [token EXCEPT ![w] = k]
  BY DEF Claim, k
<1>3. /\ attempt' = [attempt EXCEPT ![t] = @ + 1]
      /\ lease' = [u \in Tasks |-> IF u = t THEN "live" ELSE IF u \in Expired(slots) \ {t} THEN "none" ELSE lease[u]]
      /\ job' = [job EXCEPT ![w] = t]
      /\ pc' = [pc EXCEPT ![w] = "busy"] /\ pc[w] = "idle"
      /\ UNCHANGED <<maxAttempts, due, hold, verdict, beats, txns, admin, blocked>>
      /\ Selectable(t, slots, AfterReclaim(slots)) /\ GateFree
      /\ \A u \in Expired(slots) : ~RowLocked(u)
  BY DEF Claim, ClaimReady
<1>. USE <1>1, <1>2, <1>3 DEF IInv, Expired, AfterReclaim, Selectable
<1>4. TypeOK'
  BY DEF TypeOK, Status, Terminal
<1>5. FlowOK'
  BY DEF TypeOK, FlowOK, Working
<1>6. RowOK'
  BY DEF TypeOK, RowOK
<1>7. HoldRequestOK'
  BY DEF HoldRequestOK, GateFree
<1>8. OneRowLock'
  BY DEF OneRowLock
<1>9. AttemptsOK'
  BY DEF TypeOK, AttemptsOK, QueuedHasAttempts
<1>10. ExclusionPerSource'
  BY DEF TypeOK, ExclusionPerSource, Excludes
<1>11. FencedByOwner'
  BY DEF TypeOK, FencedByOwner, RowLocked, RowOK, Txns
<1>12. RunningNeverHeld'
  BY DEF TypeOK, RunningNeverHeld
<1>13. OneExecutorPerLease'
  BY DEF TypeOK, OneExecutorPerLease
<1>. QED
  BY <1>4, <1>5, <1>6, <1>7, <1>8, <1>9, <1>10, <1>11, <1>12, <1>13

LEMMA HeartbeatSendStep == ASSUME IInv, NEW w \in Workers, HeartbeatSend(w) PROVE IInv'
<1>. USE DEF IInv, HeartbeatSend, rowVars, workerVars
<1>1. TypeOK'
  BY DEF TypeOK, FlowOK, Working, Beats
<1>2. RowOK' /\ AttemptsOK' /\ ExclusionPerSource' /\ RunningNeverHeld'
  BY RowsFrame
<1>3. FlowOK' /\ OneExecutorPerLease'
  BY FlowFrame
<1>4. HoldRequestOK'
  BY GateFrame
<1>5. OneRowLock' /\ FencedByOwner'
  BY LocksFrame
<1>. QED
  BY <1>1, <1>2, <1>3, <1>4, <1>5

LEMMA HeartbeatRenewsStep == ASSUME IInv, NEW b \in beats, HeartbeatRenews(b) PROVE IInv'
<1>. USE DEF IInv, HeartbeatRenews, rowVars, workerVars
<1>1. TypeOK'
  BY DEF TypeOK
<1>2. RowOK' /\ AttemptsOK' /\ ExclusionPerSource' /\ RunningNeverHeld'
  BY RowsFrame
<1>3. FlowOK' /\ OneExecutorPerLease'
  BY FlowFrame
<1>4. HoldRequestOK'
  BY GateFrame
<1>5. OneRowLock' /\ FencedByOwner'
  BY LocksFrame
<1>. QED
  BY <1>1, <1>2, <1>3, <1>4, <1>5

LEMMA HeartbeatFailsStep == ASSUME IInv, NEW b \in beats, HeartbeatFails(b) PROVE IInv'
<1>. USE DEF IInv, HeartbeatFails, rowVars
<1>0. b.worker \in Workers
  BY DEF TypeOK, Beats
<1>1. TypeOK'
  BY <1>0 DEF TypeOK, Goto, GoIdle, workerVars, Outcomes
<1>2. RowOK' /\ AttemptsOK' /\ ExclusionPerSource' /\ RunningNeverHeld'
  BY RowsFrame
<1>3. FlowOK' /\ OneExecutorPerLease'
  <2>1. CASE b.worker \notin Async
    BY <1>0, <2>1, GoIdleFlow
  <2>2. CASE b.worker \in Async /\ pc[b.worker] = "busy" /\ token[b.worker] = b.token
    BY <1>0, <2>2, GotoFlow DEF Working, Outcomes
  <2>3. CASE b.worker \in Async /\ ~(pc[b.worker] = "busy" /\ token[b.worker] = b.token)
    BY <2>3, FlowFrame
  <2>. QED
    BY <2>1, <2>2, <2>3
<1>4. HoldRequestOK'
  BY GateFrame
<1>5. OneRowLock' /\ FencedByOwner'
  BY LocksFrame
<1>. QED
  BY <1>1, <1>2, <1>3, <1>4, <1>5

LEMMA FenceBeginStep == ASSUME IInv, NEW w \in Workers, FenceBegin(w) PROVE IInv'
<1>. USE DEF IInv, FenceBegin, LeaseHeld, rowVars, workerVars
<1>1. TypeOK'
  BY DEF TypeOK, FlowOK, Working, Txns
<1>2. RowOK' /\ AttemptsOK' /\ ExclusionPerSource' /\ RunningNeverHeld'
  BY RowsFrame
<1>3. FlowOK' /\ OneExecutorPerLease'
  BY FlowFrame
<1>4. HoldRequestOK'
  BY GateFrame
<1>5. OneRowLock' /\ FencedByOwner'
  BY DEF TypeOK, OneRowLock, FencedByOwner, Txns
<1>. QED
  BY <1>1, <1>2, <1>3, <1>4, <1>5

LEMMA FenceLockStep == ASSUME IInv, NEW x \in txns, FenceLock(x) PROVE IInv'
<1>. USE DEF IInv, FenceLock, RowLocked, rowVars, workerVars
<1>1. TypeOK'
  BY DEF TypeOK, Txns
<1>2. RowOK' /\ AttemptsOK' /\ ExclusionPerSource' /\ RunningNeverHeld'
  BY RowsFrame
<1>3. FlowOK' /\ OneExecutorPerLease'
  BY FlowFrame
<1>4. HoldRequestOK'
  BY GateFrame
<1>5. OneRowLock' /\ FencedByOwner'
  BY DEF TypeOK, OneRowLock, FencedByOwner, Txns
<1>. QED
  BY <1>1, <1>2, <1>3, <1>4, <1>5

LEMMA FenceRefusedStep == ASSUME IInv, NEW x \in txns, FenceRefused(x) PROVE IInv'
<1>. USE DEF IInv, FenceRefused, rowVars
<1>0. x.worker \in Workers
  BY DEF TypeOK, Txns
<1>1. TypeOK'
  BY <1>0 DEF TypeOK, Goto, workerVars, Outcomes
<1>2. RowOK' /\ AttemptsOK' /\ ExclusionPerSource' /\ RunningNeverHeld'
  BY RowsFrame
<1>3. FlowOK' /\ OneExecutorPerLease'
  <2>1. CASE pc[x.worker] = "busy" /\ token[x.worker] = x.token
    BY <1>0, <2>1, GotoFlow DEF Working, Outcomes
  <2>2. CASE ~(pc[x.worker] = "busy" /\ token[x.worker] = x.token)
    BY <2>2, FlowFrame
  <2>. QED
    BY <2>1, <2>2
<1>4. HoldRequestOK'
  BY GateFrame
<1>5. OneRowLock' /\ FencedByOwner'
  BY LocksFrame
<1>. QED
  BY <1>1, <1>2, <1>3, <1>4, <1>5

LEMMA FenceCommitStep == ASSUME IInv, NEW x \in txns, FenceCommit(x) PROVE IInv'
<1>. USE DEF IInv, FenceCommit, rowVars, workerVars
<1>1. TypeOK'
  BY DEF TypeOK
<1>2. RowOK' /\ AttemptsOK' /\ ExclusionPerSource' /\ RunningNeverHeld'
  BY RowsFrame
<1>3. FlowOK' /\ OneExecutorPerLease'
  BY FlowFrame
<1>4. HoldRequestOK'
  BY GateFrame
<1>5. OneRowLock' /\ FencedByOwner'
  BY LocksFrame
<1>. QED
  BY <1>1, <1>2, <1>3, <1>4, <1>5

LEMMA FencePublishStep == ASSUME IInv, NEW x \in txns, FencePublish(x) PROVE IInv'
<1>. DEFINE t == x.task
            att == attempt[t]
            h == hold[t]
<1>1. t \in Tasks /\ status[t] = "running"
  BY DEF IInv, FencePublish, TypeOK, Txns, FencedByOwner
<1>2. /\ txns' \subseteq txns /\ UNCHANGED <<workerVars, beats, admin, blocked>>
      /\ Release(t, "completed", att, FALSE, h)
  BY DEF FencePublish
<1>3. \A y \in txns' : y.task = t => y.phase # "locked"
  BY DEF IInv, OneRowLock, FencePublish
<1>4. att \in Nat /\ h \in Holds /\ att <= maxAttempts[t] /\ "completed" \in {"queued"} \cup Outcomes
  BY <1>1 DEF IInv, TypeOK, AttemptsOK, QueuedHasAttempts, Outcomes
<1>. HIDE DEF t, att, h
<1>5. /\ RowOK' /\ AttemptsOK' /\ ExclusionPerSource' /\ RunningNeverHeld'
      /\ HoldRequestOK' /\ OneRowLock' /\ FencedByOwner'
  BY <1>1, <1>2, <1>3, <1>4, ReleaseRows
<1>6. FlowOK' /\ OneExecutorPerLease'
  BY <1>2, FlowFrame
<1>7. TypeOK'
  BY <1>1, <1>2, <1>4 DEF IInv, TypeOK, Release, workerVars, Status, Terminal
<1>. QED
  BY <1>5, <1>6, <1>7 DEF IInv

LEMMA BodyEndsStep == ASSUME IInv, NEW w \in Workers, NEW outcome \in Outcomes, BodyEnds(w, outcome) PROVE IInv'
<1>. USE DEF IInv, BodyEnds, Goto, rowVars
<1>1. TypeOK'
  BY DEF TypeOK, Outcomes, Deferrals
<1>2. RowOK' /\ AttemptsOK' /\ ExclusionPerSource' /\ RunningNeverHeld'
  BY RowsFrame
<1>3. FlowOK' /\ OneExecutorPerLease'
  BY GotoFlow DEF Working
<1>4. HoldRequestOK'
  BY GateFrame
<1>5. OneRowLock' /\ FencedByOwner'
  BY LocksFrame
<1>. QED
  BY <1>1, <1>2, <1>3, <1>4, <1>5

LEMMA DeniedStep == ASSUME IInv, NEW w \in Workers, Denied(w) PROVE IInv'
<1>. USE DEF IInv, Denied, Goto, rowVars
<1>1. TypeOK'
  BY DEF TypeOK
<1>2. RowOK' /\ AttemptsOK' /\ ExclusionPerSource' /\ RunningNeverHeld'
  BY RowsFrame
<1>3. FlowOK' /\ OneExecutorPerLease'
  BY GotoFlow DEF Working
<1>4. HoldRequestOK'
  BY GateFrame
<1>5. OneRowLock' /\ FencedByOwner'
  BY LocksFrame
<1>. QED
  BY <1>1, <1>2, <1>3, <1>4, <1>5

LEMMA NotRetryableStep == ASSUME IInv, NEW w \in Workers, NotRetryable(w) PROVE IInv'
<1>. USE DEF IInv, NotRetryable, Goto, rowVars
<1>1. TypeOK'
  BY DEF TypeOK
<1>2. RowOK' /\ AttemptsOK' /\ ExclusionPerSource' /\ RunningNeverHeld'
  BY RowsFrame
<1>3. FlowOK' /\ OneExecutorPerLease'
  BY GotoFlow DEF Working
<1>4. HoldRequestOK'
  BY GateFrame
<1>5. OneRowLock' /\ FencedByOwner'
  BY LocksFrame
<1>. QED
  BY <1>1, <1>2, <1>3, <1>4, <1>5

LEMMA CheckRefusedStep == ASSUME IInv, NEW w \in Workers, NEW why \in Deferrals, CheckRefused(w, why) PROVE IInv'
<1>. USE DEF IInv, CheckRefused, Goto, rowVars
<1>1. TypeOK'
  BY DEF TypeOK, Outcomes, Deferrals
<1>2. RowOK' /\ AttemptsOK' /\ ExclusionPerSource' /\ RunningNeverHeld'
  BY RowsFrame
<1>3. FlowOK' /\ OneExecutorPerLease'
  BY GotoFlow DEF Working
<1>4. HoldRequestOK'
  BY GateFrame
<1>5. OneRowLock' /\ FencedByOwner'
  BY LocksFrame
<1>. QED
  BY <1>1, <1>2, <1>3, <1>4, <1>5

LEMMA BlockSourceStep == ASSUME IInv, NEW w \in Workers, BlockSource(w) PROVE IInv'
<1>. USE DEF IInv, BlockSource, Goto, GateFree
<1>1. TypeOK'
  BY DEF TypeOK, Status, Terminal, Holds
<1>2. RowOK'
  BY DEF TypeOK, RowOK, FlowOK, Terminal
<1>3. AttemptsOK'
  BY DEF TypeOK, AttemptsOK, QueuedHasAttempts
<1>4. ExclusionPerSource'
  BY DEF TypeOK, ExclusionPerSource, Excludes
<1>5. RunningNeverHeld'
  BY DEF TypeOK, RunningNeverHeld, HoldRequestOK
<1>6. HoldRequestOK'
  BY DEF TypeOK, HoldRequestOK
<1>7. FlowOK' /\ OneExecutorPerLease'
  BY GotoFlow DEF Working
<1>8. OneRowLock' /\ FencedByOwner'
  BY LocksFrame
<1>. QED
  BY <1>1, <1>2, <1>3, <1>4, <1>5, <1>6, <1>7, <1>8

LEMMA GiveUpStep == ASSUME IInv, NEW w \in Workers, GiveUp(w) PROVE IInv'
<1>. USE DEF IInv, GiveUp
<1>1. job[w] \in Tasks /\ token[w] \in Tokens
  BY DEF FlowOK, Working
<1>2. TypeOK'
  BY <1>1 DEF TypeOK, Goto, Outcomes
<1>3. FlowOK' /\ OneExecutorPerLease'
  BY GotoFlow DEF Working, Outcomes
<1>4. AttemptsOK'
  <2>1. \/ maxAttempts' = maxAttempts
        \/ status[job[w]] = "running" /\ maxAttempts' = [maxAttempts EXCEPT ![job[w]] = attempt[job[w]]]
    <3>. DEFINE mine == IF w \in Async THEN leaseToken[job[w]] = token[w] ELSE LeaseHeld(job[w], token[w])
    <3>1. mine => status[job[w]] = "running"
      BY <1>1 DEF RowOK, LeaseHeld
    <3>2. maxAttempts' = [maxAttempts EXCEPT ![job[w]] = IF mine THEN attempt[job[w]] ELSE maxAttempts[job[w]]]
      OBVIOUS
    <3>. HIDE DEF mine
    <3>. QED
      BY <1>1, <3>1, <3>2 DEF TypeOK
  <2>. QED
    BY <1>1, <2>1 DEF TypeOK, AttemptsOK, QueuedHasAttempts
<1>5. RowOK' /\ ExclusionPerSource' /\ RunningNeverHeld'
  BY DEF RowOK, ExclusionPerSource, RunningNeverHeld
<1>6. HoldRequestOK'
  BY GateFrame
<1>7. OneRowLock' /\ FencedByOwner'
  BY LocksFrame
<1>. QED
  BY <1>2, <1>3, <1>4, <1>5, <1>6, <1>7

LEMMA FinishStep == ASSUME IInv, NEW w \in Workers, Finish(w) PROVE IInv'
<1>. USE DEF IInv
<1>1. job[w] \in Tasks /\ verdict[w] \in Outcomes /\ ~RowLocked(job[w])
  BY DEF Finish, FlowOK, Working
<1>2. GoIdle(w, "idle") /\ UNCHANGED <<beats, txns, admin, blocked>>
  BY DEF Finish
<1>3. FlowOK' /\ OneExecutorPerLease'
  BY <1>2, GoIdleFlow
<1>4. /\ pc' \in [Workers -> {"down", "idle", "busy", "denied", "giveup", "deferring", "finishing"}]
      /\ job' \in [Workers -> Tasks \cup {None}] /\ token' \in [Workers -> Tokens \cup {None}]
      /\ verdict' \in [Workers -> Outcomes \cup Deferrals \cup {None}]
  BY <1>2 DEF GoIdle, TypeOK
<1>5. CASE LeaseHeld(job[w], token[w])
  <2>1. status[job[w]] = "running"
    BY <1>5 DEF LeaseHeld
  <2>. DEFINE st == StatusAfterFinish(job[w], verdict[w])
              att == attempt[job[w]]
              d == FALSE
              h == hold[job[w]]
  <2>3. Release(job[w], st, att, d, h)
    BY <1>5 DEF Finish
  <2>4. /\ st \in {"queued"} \cup Outcomes /\ att \in Nat /\ d \in BOOLEAN /\ h \in Holds
        /\ att <= maxAttempts[job[w]] /\ (st = "queued" => att < maxAttempts[job[w]])
    BY <1>1 DEF StatusAfterFinish, TypeOK, AttemptsOK, QueuedHasAttempts, Outcomes
  <2>. HIDE DEF st, att, d, h
  <2>6. \A x \in txns' : x.task = job[w] => x.phase # "locked"
    BY <1>1, <1>2 DEF RowLocked
  <2>7. /\ RowOK' /\ AttemptsOK' /\ ExclusionPerSource' /\ RunningNeverHeld'
        /\ HoldRequestOK' /\ OneRowLock' /\ FencedByOwner'
    BY <1>1, <1>2, <2>1, <2>3, <2>4, <2>6, ReleaseRows
  <2>8. TypeOK'
    BY <1>1, <1>2, <1>4, <2>3, <2>4 DEF TypeOK, Release, Status, Terminal, Outcomes
  <2>. QED
    BY <1>3, <2>7, <2>8
<1>6. CASE ~LeaseHeld(job[w], token[w])
  <2>1. UNCHANGED rowVars
    BY <1>6 DEF Finish
  <2>2. RowOK' /\ AttemptsOK' /\ ExclusionPerSource' /\ RunningNeverHeld'
    BY <2>1, RowsFrame
  <2>3. HoldRequestOK' /\ OneRowLock' /\ FencedByOwner'
    BY <1>2, <2>1, GateFrame, LocksFrame DEF rowVars
  <2>4. TypeOK'
    BY <1>2, <1>4, <2>1 DEF TypeOK, rowVars
  <2>. QED
    BY <1>3, <2>2, <2>3, <2>4
<1>. QED
  BY <1>5, <1>6

LEMMA DeferStep == ASSUME IInv, NEW w \in Workers, Defer(w) PROVE IInv'
<1>. USE DEF IInv
<1>1. job[w] \in Tasks /\ verdict[w] \in Deferrals /\ ~RowLocked(job[w])
  BY DEF Defer, FlowOK, Working
<1>2. GoIdle(w, "idle") /\ UNCHANGED <<beats, txns, admin, blocked>>
  BY DEF Defer
<1>3. FlowOK' /\ OneExecutorPerLease'
  BY <1>2, GoIdleFlow
<1>4. /\ pc' \in [Workers -> {"down", "idle", "busy", "denied", "giveup", "deferring", "finishing"}]
      /\ job' \in [Workers -> Tasks \cup {None}] /\ token' \in [Workers -> Tokens \cup {None}]
      /\ verdict' \in [Workers -> Outcomes \cup Deferrals \cup {None}]
  BY <1>2 DEF GoIdle, TypeOK
<1>5. CASE LeaseHeld(job[w], token[w])
  <2>1. status[job[w]] = "running"
    BY <1>5 DEF LeaseHeld
  <2>2. PICK d \in BOOLEAN :
          Release(job[w], "queued", AttemptAfterDefer(job[w]), d, HoldAfterDefer(verdict[w]))
    BY <1>5 DEF Defer, DueAfterDefer
  <2>. DEFINE att == AttemptAfterDefer(job[w])
              h == HoldAfterDefer(verdict[w])
  <2>3. Release(job[w], "queued", att, d, h)
    BY <2>2
  <2>4. "queued" \in {"queued"} \cup Outcomes /\ att \in Nat /\ h \in Holds
        /\ att < maxAttempts[job[w]] /\ att <= maxAttempts[job[w]]
    <3>2. h \in Holds
      BY <1>1 DEF HoldAfterDefer, Deferrals, Holds
    <3>3. att \in Nat /\ att < maxAttempts[job[w]] /\ att <= maxAttempts[job[w]]
      BY <1>1, <2>1 DEF AttemptAfterDefer, TypeOK, AttemptsOK, QueuedHasAttempts
    <3>. QED
      BY <3>2, <3>3
  <2>. HIDE DEF att, h
  <2>6. \A x \in txns' : x.task = job[w] => x.phase # "locked"
    BY <1>1, <1>2 DEF RowLocked
  <2>7. /\ RowOK' /\ AttemptsOK' /\ ExclusionPerSource' /\ RunningNeverHeld'
        /\ HoldRequestOK' /\ OneRowLock' /\ FencedByOwner'
    BY <1>1, <1>2, <2>1, <2>3, <2>4, <2>6, ReleaseRows
  <2>8. TypeOK'
    BY <1>1, <1>2, <1>4, <2>3, <2>4 DEF TypeOK, Release, Status, Terminal, Outcomes
  <2>. QED
    BY <1>3, <2>7, <2>8
<1>6. CASE ~LeaseHeld(job[w], token[w])
  <2>1. UNCHANGED rowVars
    BY <1>6 DEF Defer
  <2>2. RowOK' /\ AttemptsOK' /\ ExclusionPerSource' /\ RunningNeverHeld'
    BY <2>1, RowsFrame
  <2>3. HoldRequestOK' /\ OneRowLock' /\ FencedByOwner'
    BY <1>2, <2>1, GateFrame, LocksFrame DEF rowVars
  <2>4. TypeOK'
    BY <1>2, <1>4, <2>1 DEF TypeOK, rowVars
  <2>. QED
    BY <1>3, <2>2, <2>3, <2>4
<1>. QED
  BY <1>5, <1>6

LEMMA ResumeSourceStep == ASSUME IInv, NEW s \in RequestSources, ResumeSource(s) PROVE IInv'
<1>. USE DEF IInv, ResumeSource, GateFree, workerVars
<1>1. TypeOK'
  BY DEF TypeOK, Status, Terminal, Holds
<1>2. RowOK'
  BY DEF TypeOK, RowOK, FlowOK, Terminal
<1>3. AttemptsOK'
  BY DEF TypeOK, AttemptsOK, QueuedHasAttempts
<1>4. ExclusionPerSource'
  BY DEF TypeOK, ExclusionPerSource, Excludes
<1>5. RunningNeverHeld'
  BY DEF TypeOK, RunningNeverHeld, HoldRequestOK
<1>6. HoldRequestOK'
  BY DEF TypeOK, HoldRequestOK
<1>7. FlowOK' /\ OneExecutorPerLease'
  BY FlowFrame
<1>8. OneRowLock' /\ FencedByOwner'
  BY LocksFrame
<1>. QED
  BY <1>1, <1>2, <1>3, <1>4, <1>5, <1>6, <1>7, <1>8

LEMMA ResumeCapacityStep == ASSUME IInv, ResumeCapacity PROVE IInv'
<1>. USE DEF IInv, ResumeCapacity, GateFree, workerVars
<1>1. TypeOK'
  BY DEF TypeOK, Status, Terminal, Holds
<1>2. RowOK'
  BY DEF TypeOK, RowOK, FlowOK, Terminal
<1>3. AttemptsOK'
  BY DEF TypeOK, AttemptsOK, QueuedHasAttempts
<1>4. ExclusionPerSource'
  BY DEF TypeOK, ExclusionPerSource, Excludes
<1>5. RunningNeverHeld'
  BY DEF TypeOK, RunningNeverHeld, HoldRequestOK
<1>6. HoldRequestOK'
  BY DEF TypeOK, HoldRequestOK
<1>7. FlowOK' /\ OneExecutorPerLease'
  BY FlowFrame
<1>8. OneRowLock' /\ FencedByOwner'
  BY LocksFrame
<1>. QED
  BY <1>1, <1>2, <1>3, <1>4, <1>5, <1>6, <1>7, <1>8

LEMMA LeaseExpiresStep == ASSUME IInv, NEW t \in Tasks, LeaseExpires(t) PROVE IInv'
<1>. USE DEF IInv, LeaseExpires, workerVars
<1>1. TypeOK'
  BY DEF TypeOK, Status, Terminal, Holds
<1>2. RowOK'
  BY DEF TypeOK, RowOK, FlowOK, Terminal
<1>3. AttemptsOK'
  BY DEF TypeOK, AttemptsOK, QueuedHasAttempts
<1>4. ExclusionPerSource'
  BY DEF TypeOK, ExclusionPerSource, Excludes
<1>5. RunningNeverHeld'
  BY DEF TypeOK, RunningNeverHeld, HoldRequestOK
<1>6. HoldRequestOK'
  BY DEF TypeOK, HoldRequestOK
<1>7. FlowOK' /\ OneExecutorPerLease'
  BY FlowFrame
<1>8. OneRowLock' /\ FencedByOwner'
  BY LocksFrame
<1>. QED
  BY <1>1, <1>2, <1>3, <1>4, <1>5, <1>6, <1>7, <1>8

LEMMA BecomesDueStep == ASSUME IInv, NEW t \in Tasks, BecomesDue(t) PROVE IInv'
<1>. USE DEF IInv, BecomesDue, workerVars
<1>1. TypeOK'
  BY DEF TypeOK, Status, Terminal, Holds
<1>2. RowOK'
  BY DEF TypeOK, RowOK, FlowOK, Terminal
<1>3. AttemptsOK'
  BY DEF TypeOK, AttemptsOK, QueuedHasAttempts
<1>4. ExclusionPerSource'
  BY DEF TypeOK, ExclusionPerSource, Excludes
<1>5. RunningNeverHeld'
  BY DEF TypeOK, RunningNeverHeld, HoldRequestOK
<1>6. HoldRequestOK'
  BY DEF TypeOK, HoldRequestOK
<1>7. FlowOK' /\ OneExecutorPerLease'
  BY FlowFrame
<1>8. OneRowLock' /\ FencedByOwner'
  BY LocksFrame
<1>. QED
  BY <1>1, <1>2, <1>3, <1>4, <1>5, <1>6, <1>7, <1>8

LEMMA CrashStep == ASSUME IInv, NEW w \in Workers, Crash(w) PROVE IInv'
<1>. USE DEF IInv, Crash, GoIdle, rowVars
<1>1. TypeOK'
  BY DEF TypeOK
<1>2. RowOK' /\ AttemptsOK' /\ ExclusionPerSource' /\ RunningNeverHeld'
  BY RowsFrame
<1>3. FlowOK' /\ OneExecutorPerLease'
  BY GoIdleFlow
<1>4. HoldRequestOK'
  BY GateFrame
<1>5. OneRowLock' /\ FencedByOwner'
  BY LocksFrame
<1>. QED
  BY <1>1, <1>2, <1>3, <1>4, <1>5

LEMMA RestartStep == ASSUME IInv, NEW w \in Workers, Restart(w) PROVE IInv'
<1>. USE DEF IInv, Restart, GoIdle, rowVars
<1>1. TypeOK'
  BY DEF TypeOK
<1>2. RowOK' /\ AttemptsOK' /\ ExclusionPerSource' /\ RunningNeverHeld'
  BY RowsFrame
<1>3. FlowOK' /\ OneExecutorPerLease'
  BY GoIdleFlow
<1>4. HoldRequestOK'
  BY GateFrame
<1>5. OneRowLock' /\ FencedByOwner'
  BY LocksFrame
<1>. QED
  BY <1>1, <1>2, <1>3, <1>4, <1>5

-----------------------------------------------------------------------------
LEMMA NextStep == IInv /\ [Next]_vars => IInv'
<1>. SUFFICES ASSUME IInv, [Next]_vars PROVE IInv'
  OBVIOUS
<1>1. CASE UNCHANGED vars
  BY <1>1, RowsFrame, LocksFrame, GateFrame, FlowFrame DEF vars, rowVars, workerVars, IInv, TypeOK
<1>2. ASSUME NEW t \in Tasks, Enqueue(t) \/ Cancel(t) \/ LeaseExpires(t) \/ BecomesDue(t) PROVE IInv'
  BY <1>2, EnqueueStep, CancelStep, LeaseExpiresStep, BecomesDueStep
<1>3. ASSUME NEW t \in Tasks, NEW h \in BOOLEAN, HoldRead(t, h) PROVE IInv'
  BY <1>3, HoldReadStep
<1>4. CASE HoldWrite
  BY <1>4, HoldWriteStep
<1>5. ASSUME NEW w \in Workers, NEW slots \in SUBSET Sources,
             Reclaim(w, slots) \/ \E t \in Tasks : Claim(w, slots, t) PROVE IInv'
  BY <1>5, ReclaimStep, ClaimStep
<1>6. ASSUME NEW w \in Workers, HeartbeatSend(w) \/ FenceBegin(w) \/ Crash(w) \/ Restart(w) PROVE IInv'
  BY <1>6, HeartbeatSendStep, FenceBeginStep, CrashStep, RestartStep
<1>7. ASSUME NEW w \in Workers,
             \/ \E outcome \in Outcomes : BodyEnds(w, outcome)
             \/ \E why \in Deferrals : CheckRefused(w, why)
             \/ Denied(w) \/ NotRetryable(w) \/ BlockSource(w) \/ GiveUp(w) \/ Finish(w) \/ Defer(w)
      PROVE IInv'
  BY <1>7, BodyEndsStep, CheckRefusedStep, DeniedStep, NotRetryableStep, BlockSourceStep,
     GiveUpStep, FinishStep, DeferStep
<1>8. ASSUME NEW b \in beats, HeartbeatRenews(b) \/ HeartbeatFails(b) PROVE IInv'
  BY <1>8, HeartbeatRenewsStep, HeartbeatFailsStep
<1>9. ASSUME NEW x \in txns, FenceLock(x) \/ FenceRefused(x) \/ FenceCommit(x) \/ FencePublish(x) PROVE IInv'
  BY <1>9, FenceLockStep, FenceRefusedStep, FenceCommitStep, FencePublishStep
<1>10. ASSUME NEW s \in RequestSources, ResumeSource(s) PROVE IInv'
  BY <1>10, ResumeSourceStep
<1>11. CASE ResumeCapacity
  BY <1>11, ResumeCapacityStep
<1>. QED
  BY <1>1, <1>2, <1>3, <1>4, <1>5, <1>6, <1>7, <1>8, <1>9, <1>10, <1>11 DEF Next

-----------------------------------------------------------------------------
(* The theorems. *)

\* The inductive invariant holds in every reachable state.
THEOREM Invariance == Spec => []IInv
BY InitIInv, NextStep, PTL DEF Spec

\* Every field of every row, executor and transaction keeps its type.
THEOREM TypeCorrect == Spec => []TypeOK
<1>1. IInv => TypeOK
  BY DEF IInv
<1>. QED
  BY <1>1, Invariance, PTL

\* "One live task per source across ALL workers" (claim_task), and one for the group
\* of sources that share a slot.
THEOREM Exclusion == Spec => []ExclusionPerSource
<1>1. IInv => ExclusionPerSource
  BY DEF IInv
<1>. QED
  BY <1>1, Invariance, PTL

\* assertTaskLease and fenced: a write transaction that got its row locked belongs to
\* the acquisition that owns the row until it ends.
THEOREM Fencing == Spec => []FencedByOwner
<1>1. IInv => FencedByOwner
  BY DEF IInv
<1>. QED
  BY <1>1, Invariance, PTL

\* No two fenced writers are ever at work for sources that exclude each other.
THEOREM WriteExclusion == Spec => []ExclusiveWrites
<1>1. IInv => ExclusiveWrites
  <2>. SUFFICES ASSUME IInv, NEW x \in txns, NEW y \in txns, x # y,
                       x.phase = "locked", y.phase = "locked"
                PROVE  ~Excludes(SourceOf[x.task], SourceOf[y.task])
    BY DEF ExclusiveWrites
  <2>1. x.task # y.task
    BY DEF IInv, OneRowLock
  <2>2. x.task \in Tasks /\ y.task \in Tasks /\ status[x.task] = "running" /\ status[y.task] = "running"
    BY DEF IInv, TypeOK, Txns, FencedByOwner
  <2>. QED
    BY <2>1, <2>2 DEF IInv, ExclusionPerSource
<1>. QED
  BY <1>1, Invariance, PTL

\* Recovery passes over held rows, and no running row is ever held.
THEOREM NoHeldRunning == Spec => []RunningNeverHeld
<1>1. IInv => RunningNeverHeld
  BY DEF IInv
<1>. QED
  BY <1>1, Invariance, PTL

\* Every queued row can still be attempted.
THEOREM AttemptsLeft == Spec => []QueuedHasAttempts
<1>1. IInv => QueuedHasAttempts
  BY DEF IInv, AttemptsOK
<1>. QED
  BY <1>1, Invariance, PTL

\* No two executors work under the same token.
THEOREM LeaseUniqueness == Spec => []OneExecutorPerLease
<1>1. IInv => OneExecutorPerLease
  BY DEF IInv
<1>. QED
  BY <1>1, Invariance, PTL

-----------------------------------------------------------------------------
(* What a step may never do. *)

\* The statements that change the status, the token or the lease of a row, apart from
\* the passing of time; every other step leaves all three alone.
RowStep ==
    \/ \E t \in Tasks : Enqueue(t) \/ Cancel(t) \/ LeaseExpires(t)
    \/ \E w \in Workers, slots \in SUBSET Sources : Reclaim(w, slots) \/ \E t \in Tasks : Claim(w, slots, t)
    \/ \E w \in Workers : LeaseHeld(job[w], token[w]) /\ (Finish(w) \/ Defer(w))
    \/ \E x \in txns : FencePublish(x)

LEMMA OtherSteps == [Next]_vars => RowStep \/ UNCHANGED <<status, leaseToken, lease>>
<1>1. CASE UNCHANGED vars
  BY <1>1 DEF vars, rowVars
<1>2. CASE \E t \in Tasks : Enqueue(t) \/ Cancel(t) \/ LeaseExpires(t) \/ BecomesDue(t)
  BY <1>2 DEF RowStep, BecomesDue
<1>3. CASE HoldWrite \/ \E t \in Tasks, h \in BOOLEAN : HoldRead(t, h)
  BY <1>3 DEF HoldWrite, HoldRead, rowVars
<1>4. CASE \E w \in Workers, slots \in SUBSET Sources : Reclaim(w, slots) \/ \E t \in Tasks : Claim(w, slots, t)
  BY <1>4 DEF RowStep
<1>5. CASE \E w \in Workers : HeartbeatSend(w) \/ FenceBegin(w) \/ Crash(w) \/ Restart(w)
  BY <1>5 DEF HeartbeatSend, FenceBegin, Crash, Restart, rowVars
<1>6. CASE \E w \in Workers : \/ \E outcome \in Outcomes : BodyEnds(w, outcome)
                              \/ \E why \in Deferrals : CheckRefused(w, why)
                              \/ Denied(w) \/ NotRetryable(w) \/ BlockSource(w) \/ GiveUp(w)
  BY <1>6 DEF BodyEnds, CheckRefused, Denied, NotRetryable, BlockSource, GiveUp, rowVars
<1>7. CASE \E w \in Workers : Finish(w) \/ Defer(w)
  BY <1>7 DEF RowStep, Finish, Defer, rowVars
<1>8. CASE \E b \in beats : HeartbeatRenews(b) \/ HeartbeatFails(b)
  BY <1>8 DEF HeartbeatRenews, HeartbeatFails, rowVars
<1>9. CASE \E x \in txns : FenceLock(x) \/ FenceRefused(x) \/ FenceCommit(x) \/ FencePublish(x)
  BY <1>9 DEF RowStep, FenceLock, FenceRefused, FenceCommit, rowVars
<1>10. CASE ResumeCapacity \/ \E s \in RequestSources : ResumeSource(s)
  BY <1>10 DEF ResumeCapacity, ResumeSource
<1>. QED
  BY <1>1, <1>2, <1>3, <1>4, <1>5, <1>6, <1>7, <1>8, <1>9, <1>10 DEF Next

\* finish_task and the deferrals, when they find their lease, release a running row.
LEMMA OwnerReleases ==
    ASSUME IInv, NEW w \in Workers, LeaseHeld(job[w], token[w]), Finish(w) \/ Defer(w)
    PROVE  /\ job[w] \in Tasks /\ status[job[w]] = "running"
           /\ leaseToken[job[w]] = token[w] /\ token[w] \in Tokens /\ token'[w] = None
           /\ \E st \in {"queued"} \cup Outcomes, att \in Nat, d \in BOOLEAN, h \in Holds :
                 /\ Release(job[w], st, att, d, h)
                 /\ hold[job[w]] = "none"
<1>1. /\ job[w] \in Tasks /\ status[job[w]] = "running"
      /\ leaseToken[job[w]] = token[w] /\ token[w] \in Tokens /\ token'[w] = None
  BY DEF IInv, FlowOK, Working, LeaseHeld, Finish, Defer, GoIdle, TypeOK
<1>2. hold[job[w]] = "none"
  BY <1>1 DEF IInv, RunningNeverHeld
<1>3. CASE Finish(w)
  <2>1. verdict[w] \in Outcomes
    BY <1>3 DEF IInv, FlowOK, Finish
  <2>2. StatusAfterFinish(job[w], verdict[w]) \in {"queued"} \cup Outcomes /\ attempt[job[w]] \in Nat /\ hold[job[w]] \in Holds
    BY <1>1, <2>1 DEF StatusAfterFinish, IInv, TypeOK
  <2>3. Release(job[w], StatusAfterFinish(job[w], verdict[w]), attempt[job[w]], FALSE, hold[job[w]])
    BY <1>3 DEF Finish
  <2>. QED
    BY <1>1, <1>2, <2>2, <2>3
<1>4. CASE Defer(w)
  <2>1. verdict[w] \in Deferrals
    BY <1>4 DEF IInv, FlowOK, Defer
  <2>2. PICK d \in BOOLEAN :
          Release(job[w], "queued", AttemptAfterDefer(job[w]), d, HoldAfterDefer(verdict[w]))
    BY <1>4 DEF Defer, DueAfterDefer
  <2>3. AttemptAfterDefer(job[w]) \in Nat /\ HoldAfterDefer(verdict[w]) \in Holds
    BY <1>1, <2>1 DEF AttemptAfterDefer, HoldAfterDefer, Deferrals, Holds, IInv, TypeOK
  <2>. QED
    BY <1>1, <1>2, <2>2, <2>3
<1>. QED
  BY <1>3, <1>4

LEMMA TerminalStep ==
    ASSUME IInv, [Next]_vars, NEW t \in Tasks, status[t] \in Terminal PROVE status'[t] = status[t]
<1>. USE DEF IInv, TypeOK, Terminal
<1>1. CASE \E u \in Tasks : Enqueue(u) \/ Cancel(u) \/ LeaseExpires(u)
  BY <1>1 DEF Enqueue, Cancel, LeaseExpires
<1>2. ASSUME NEW w \in Workers, NEW slots \in SUBSET Sources,
             Reclaim(w, slots) \/ \E u \in Tasks : Claim(w, slots, u)
      PROVE  status'[t] = status[t]
  <2>1. AfterReclaim(slots)[t] = status[t]
    BY DEF AfterReclaim, Expired
  <2>2. CASE Reclaim(w, slots)
    BY <2>1, <2>2 DEF Reclaim
  <2>3. ASSUME NEW u \in Tasks, Claim(w, slots, u) PROVE status'[t] = status[t]
    <3>1. u # t /\ status' = [AfterReclaim(slots) EXCEPT ![u] = "running"]
      BY <2>1, <2>3 DEF Claim, Selectable
    <3>. QED
      BY <2>1, <3>1 DEF AfterReclaim
  <2>. QED
    BY <1>2, <2>2, <2>3
<1>3. ASSUME NEW w \in Workers, LeaseHeld(job[w], token[w]), Finish(w) \/ Defer(w)
      PROVE  status'[t] = status[t]
  <2>1. job[w] # t /\ \E st \in {"queued"} \cup Outcomes : status' = [status EXCEPT ![job[w]] = st]
    BY <1>3, OwnerReleases DEF Release
  <2>. QED
    BY <2>1
<1>4. CASE \E x \in txns : FencePublish(x)
  BY <1>4 DEF FencePublish, FencedByOwner, Release, Txns
<1>. QED
  BY <1>1, <1>2, <1>3, <1>4, OtherSteps DEF RowStep

LEMMA LiveLeaseStep ==
    ASSUME IInv, [Next]_vars, NEW t \in Tasks, lease[t] = "live", leaseToken'[t] # leaseToken[t]
    PROVE  \/ \E w \in Workers : token[w] = leaseToken[t] /\ token'[w] # token[w]
           \/ \E x \in txns : x.token = leaseToken[t] /\ x \notin txns'
<1>. USE DEF IInv, TypeOK
<1>1. CASE \E u \in Tasks : Enqueue(u) \/ Cancel(u) \/ LeaseExpires(u)
  BY <1>1 DEF Enqueue, Cancel, LeaseExpires
<1>2. ASSUME NEW w \in Workers, NEW slots \in SUBSET Sources, Reclaim(w, slots) PROVE FALSE
  BY <1>2 DEF Reclaim, Expired
<1>3. ASSUME NEW w \in Workers, NEW slots \in SUBSET Sources, NEW u \in Tasks, Claim(w, slots, u) PROVE FALSE
  <2>1. u # t
    BY <1>3 DEF Claim, Selectable, AfterReclaim, Expired, RowOK
  <2>2. leaseToken'[t] = IF t \in Expired(slots) \ {u} THEN None ELSE leaseToken[t]
    BY <1>3, <2>1 DEF Claim
  <2>. QED
    BY <2>2 DEF Expired
<1>4. ASSUME NEW w \in Workers, LeaseHeld(job[w], token[w]), Finish(w) \/ Defer(w)
      PROVE  token[w] = leaseToken[t] /\ token'[w] # token[w]
  <2>1. /\ leaseToken' = [leaseToken EXCEPT ![job[w]] = None]
        /\ leaseToken[job[w]] = token[w] /\ token[w] \in Tokens /\ token'[w] = None
    BY <1>4, OwnerReleases DEF Release
  <2>. QED
    BY <2>1
<1>5. ASSUME NEW x \in txns, FencePublish(x) PROVE x.token = leaseToken[t] /\ x \notin txns'
  BY <1>5 DEF FencePublish, FencedByOwner, Release, Txns
<1>. QED
  BY <1>1, <1>2, <1>3, <1>4, <1>5, OtherSteps DEF RowStep

LEMMA AdminHoldStep ==
    ASSUME IInv, [Next]_vars, NEW t \in Tasks, hold[t] = "admin", hold'[t] # "admin"
    PROVE  admin # None /\ admin.task = t /\ ~admin.hold
<1>. USE DEF IInv, TypeOK
<1>1. CASE HoldWrite
  BY <1>1 DEF HoldWrite
<1>2. ASSUME NEW w \in Workers, BlockSource(w) PROVE FALSE
  BY <1>2 DEF BlockSource
<1>3. ASSUME NEW w \in Workers, Finish(w) \/ Defer(w) PROVE FALSE
  <2>1. CASE LeaseHeld(job[w], token[w])
    <3>1. hold[job[w]] = "none" /\ \E h \in Holds : hold' = [hold EXCEPT ![job[w]] = h]
      BY <1>3, <2>1, OwnerReleases DEF Release
    <3>. QED
      BY <3>1
  <2>2. CASE ~LeaseHeld(job[w], token[w])
    BY <1>3, <2>2 DEF Finish, Defer, rowVars
  <2>. QED
    BY <2>1, <2>2
<1>4. ASSUME NEW x \in txns, FencePublish(x) PROVE FALSE
  BY <1>4 DEF FencePublish, Release
<1>5. CASE ResumeCapacity \/ \E s \in RequestSources : ResumeSource(s)
  BY <1>5 DEF ResumeCapacity, ResumeSource
<1>6. CASE UNCHANGED vars
  BY <1>6 DEF vars, rowVars
<1>7. CASE \/ \E u \in Tasks : Enqueue(u) \/ Cancel(u) \/ LeaseExpires(u) \/ BecomesDue(u)
           \/ \E u \in Tasks, h \in BOOLEAN : HoldRead(u, h)
           \/ \E w \in Workers, slots \in SUBSET Sources : Reclaim(w, slots) \/ \E u \in Tasks : Claim(w, slots, u)
  BY <1>7 DEF Enqueue, Cancel, LeaseExpires, BecomesDue, HoldRead, Reclaim, Claim, rowVars
<1>8. CASE \E w \in Workers : \/ HeartbeatSend(w) \/ FenceBegin(w) \/ Crash(w) \/ Restart(w)
                              \/ \E outcome \in Outcomes : BodyEnds(w, outcome)
                              \/ \E why \in Deferrals : CheckRefused(w, why)
                              \/ Denied(w) \/ NotRetryable(w) \/ GiveUp(w)
  BY <1>8 DEF HeartbeatSend, FenceBegin, Crash, Restart, BodyEnds, CheckRefused, Denied, NotRetryable,
              GiveUp, rowVars
<1>9. CASE \/ \E b \in beats : HeartbeatRenews(b) \/ HeartbeatFails(b)
           \/ \E x \in txns : FenceLock(x) \/ FenceRefused(x) \/ FenceCommit(x)
  BY <1>9 DEF HeartbeatRenews, HeartbeatFails, FenceLock, FenceRefused, FenceCommit, rowVars
<1>. QED
  BY <1>1, <1>2, <1>3, <1>4, <1>5, <1>6, <1>7, <1>8, <1>9 DEF Next

\* No late finish, cancel, recovery or hold reopens a finished task.
THEOREM Finality == Spec => TerminalIsFinal
<1>1. IInv /\ [Next]_vars => [\A t \in Tasks : status[t] \in Terminal => status'[t] = status[t]]_vars
  BY TerminalStep
<1>. QED
  BY <1>1, Invariance, PTL DEF Spec, TerminalIsFinal

\* Only the administrator's own release lifts the administrator's hold.
THEOREM AdminHolds == Spec => AdminHoldStands
<1>1. IInv /\ [Next]_vars
        => [\A t \in Tasks : hold[t] = "admin" /\ hold'[t] # "admin"
               => admin # None /\ admin.task = t /\ ~admin.hold]_vars
  BY AdminHoldStep
<1>. QED
  BY <1>1, Invariance, PTL DEF Spec, AdminHoldStands

\* A live lease is never taken away: it ends by its own executor or its own publication.
THEOREM LeaseProtection == Spec => LiveLeaseEndsByOwner
<1>1. IInv /\ [Next]_vars
        => [\A t \in Tasks : lease[t] = "live" /\ leaseToken'[t] # leaseToken[t]
               => \/ \E w \in Workers : token[w] = leaseToken[t] /\ token'[w] # token[w]
                  \/ \E x \in txns : x.token = leaseToken[t] /\ x \notin txns']_vars
  BY LiveLeaseStep
<1>. QED
  BY <1>1, Invariance, PTL DEF Spec, LiveLeaseEndsByOwner

-----------------------------------------------------------------------------
(* Every step of the queue is a step of TaskOwnership or none it can see. *)

AbstractPhase == [t \in Tasks |-> PhaseOf(status[t])]
AbstractWriters == {[task |-> x.task, owner |-> x.token] : x \in {y \in txns : y.phase = "locked"}}

\* What is written in the abstraction is locked in the queue.
LEMMA WrittenIsLocked == ASSUME NEW t \in Tasks PROVE Ownership!Written(t) <=> RowLocked(t)
<1>1. ASSUME NEW x \in txns, x.task = t, x.phase = "locked" PROVE Ownership!Written(t)
  <2>1. [task |-> x.task, owner |-> x.token] \in AbstractWriters
    BY <1>1 DEF AbstractWriters
  <2>. QED
    BY <1>1, <2>1 DEF AbstractWriters, Ownership!Written
<1>2. ASSUME NEW z \in AbstractWriters, z.task = t PROVE RowLocked(t)
  <2>1. PICK x \in {y \in txns : y.phase = "locked"} : z = [task |-> x.task, owner |-> x.token]
    BY DEF AbstractWriters
  <2>. QED
    BY <1>2, <2>1 DEF RowLocked
<1>. QED
  BY <1>1, <1>2 DEF RowLocked, Ownership!Written, AbstractWriters

\* Nothing the abstraction sees has changed.
LEMMA StutterStep ==
    ASSUME UNCHANGED <<status, leaseToken>>, AbstractWriters' = AbstractWriters
    PROVE  [Ownership!Next]_Ownership!vars
BY DEF AbstractWriters, Ownership!vars

LEMMA EndWritesStep ==
    ASSUME UNCHANGED <<status, leaseToken>>, txns' \subseteq txns PROVE Ownership!Next
<1>1. AbstractWriters' \subseteq AbstractWriters
  BY DEF AbstractWriters
<1>. QED
  BY <1>1 DEF AbstractWriters, Ownership!Next, Ownership!EndWrites

LEMMA InitRefines == Init => Ownership!Init
BY DEF Init, Ownership!Init, PhaseOf, Terminal

LEMMA PhaseValues ==
    /\ PhaseOf("absent") = "absent" /\ PhaseOf("queued") = "waiting" /\ PhaseOf("running") = "owned"
    /\ PhaseOf("cancelled") = "done"
BY DEF PhaseOf, Terminal

LEMMA PhaseType == ASSUME TypeOK PROVE AbstractPhase \in [Tasks -> Ownership!Phases]
BY DEF TypeOK, AbstractPhase, PhaseOf, Ownership!Phases, Status, Terminal

\* A row that is released and not locked is given back.
LEMMA ReleaseGivesBack ==
    ASSUME IInv, IInv', UNCHANGED txns, NEW t \in Tasks, status[t] = "running", ~RowLocked(t),
           NEW st \in {"queued"} \cup Terminal, NEW att, NEW d, NEW h, Release(t, st, att, d, h)
    PROVE  Ownership!Next
<1>1. AbstractWriters' = AbstractWriters
  BY DEF AbstractWriters
<1>2. AbstractPhase' \in [Tasks -> Ownership!Phases] /\ leaseToken' \in [Tasks -> Tokens \cup {None}]
  <2>1. TypeOK'
    BY DEF IInv
  <2>. QED
    BY <2>1, PhaseType DEF TypeOK, AbstractPhase, PhaseOf, Ownership!Phases, Status, Terminal
<1>3. Ownership!GivesBack(t)
  <2>1. PhaseOf(status[t]) = "owned" /\ PhaseOf(status'[t]) \in {"waiting", "done"} /\ leaseToken'[t] = None
    BY DEF PhaseOf, Terminal, Release, IInv, TypeOK
  <2>. QED
    BY <2>1, WrittenIsLocked DEF Ownership!GivesBack
<1>4. ASSUME NEW u \in Tasks, u # t PROVE Ownership!Keeps(u)
  BY <1>4 DEF Ownership!Keeps, Release, IInv, TypeOK
<1>. QED
  BY <1>1, <1>2, <1>3, <1>4 DEF Ownership!Next, Ownership!ChangeHands, AbstractPhase, AbstractWriters

LEMMA ReclaimRefines ==
    ASSUME IInv, IInv', NEW w \in Workers, NEW slots \in SUBSET Sources, Reclaim(w, slots)
    PROVE  Ownership!Next
<1>1. AbstractWriters' = AbstractWriters
  BY DEF AbstractWriters, Reclaim
<1>2. AbstractPhase' \in [Tasks -> Ownership!Phases] /\ leaseToken' \in [Tasks -> Tokens \cup {None}]
  BY DEF IInv, TypeOK, AbstractPhase, PhaseOf, Ownership!Phases, Status, Terminal
<1>3. ASSUME NEW t \in Tasks PROVE Ownership!Keeps(t) \/ Ownership!GivesBack(t)
  <2>1. CASE t \in Expired(slots)
    <3>1. PhaseOf(status[t]) = "owned" /\ PhaseOf(status'[t]) \in {"waiting", "done"} /\ leaseToken'[t] = None
      BY <2>1 DEF PhaseOf, Terminal, Reclaim, AfterReclaim, Expired
    <3>2. ~RowLocked(t)
      BY <2>1 DEF Reclaim, ClaimReady
    <3>. QED
      BY <3>1, <3>2, WrittenIsLocked DEF Ownership!GivesBack
  <2>2. CASE t \notin Expired(slots)
    BY <2>2 DEF Ownership!Keeps, Reclaim, AfterReclaim
  <2>. QED
    BY <2>1, <2>2
<1>. QED
  BY <1>1, <1>2, <1>3 DEF Ownership!Next, Ownership!ChangeHands, AbstractPhase, AbstractWriters

LEMMA ClaimRefines ==
    ASSUME IInv, IInv', NEW w \in Workers, NEW slots \in SUBSET Sources, NEW t \in Tasks, Claim(w, slots, t)
    PROVE  Ownership!Next
<1>. DEFINE k == CHOOSE k \in FreshTokens : TRUE
<1>1. k \in Tokens /\ \A u \in Tasks : leaseToken[u] # k
  BY DEF Claim, FreshTokens, TokensInUse
<1>. HIDE DEF k
<1>2. /\ status' = [AfterReclaim(slots) EXCEPT ![t] = "running"]
      /\ leaseToken' = [u \in Tasks |-> IF u = t THEN k ELSE IF u \in Expired(slots) \ {t} THEN None ELSE leaseToken[u]]
      /\ Selectable(t, slots, AfterReclaim(slots))
      /\ \A u \in Expired(slots) : ~RowLocked(u)
      /\ UNCHANGED txns
  BY DEF Claim, ClaimReady, k
<1>3. AbstractWriters' = AbstractWriters
  BY <1>2 DEF AbstractWriters
<1>4. AbstractPhase' \in [Tasks -> Ownership!Phases] /\ leaseToken' \in [Tasks -> Tokens \cup {None}]
  BY DEF IInv, TypeOK, AbstractPhase, PhaseOf, Ownership!Phases, Status, Terminal
<1>5. Ownership!Takes(t)
  <2>1. PhaseOf(status[t]) = "waiting" \/ (PhaseOf(status[t]) = "owned" /\ ~RowLocked(t))
    BY <1>2 DEF Selectable, AfterReclaim, Expired, PhaseOf, Terminal
  <2>2. PhaseOf(status'[t]) = "owned" /\ leaseToken'[t] = k
    BY <1>2 DEF PhaseOf, Terminal, AfterReclaim
  <2>3. ASSUME NEW u \in Tasks \ {t}, PhaseOf(status'[u]) = "owned" PROVE ~TaskConflict(t, u)
    <3>1. status'[u] = AfterReclaim(slots)[u]
      BY <1>2 DEF AfterReclaim
    <3>2. status'[u] = "running"
      BY <2>3 DEF PhaseOf, Terminal, IInv, TypeOK, Status
    <3>. QED
      BY <1>2, <3>1, <3>2 DEF Selectable, TaskConflict
  <2>. QED
    BY <1>1, <2>1, <2>2, <2>3, WrittenIsLocked DEF Ownership!Takes
<1>6. ASSUME NEW u \in Tasks, u # t PROVE Ownership!Keeps(u) \/ Ownership!GivesBack(u)
  <2>1. CASE u \in Expired(slots)
    <3>1. PhaseOf(status[u]) = "owned" /\ PhaseOf(status'[u]) \in {"waiting", "done"} /\ leaseToken'[u] = None
      BY <1>2, <1>6, <2>1 DEF PhaseOf, Terminal, AfterReclaim, Expired
    <3>. QED
      BY <1>2, <2>1, <3>1, WrittenIsLocked DEF Ownership!GivesBack
  <2>2. CASE u \notin Expired(slots)
    BY <1>2, <1>6, <2>2 DEF Ownership!Keeps, AfterReclaim
  <2>. QED
    BY <2>1, <2>2
<1>. QED
  BY <1>3, <1>4, <1>5, <1>6 DEF Ownership!Next, Ownership!ChangeHands, AbstractPhase, AbstractWriters

LEMMA FenceLockRefines == ASSUME IInv, NEW x \in txns, FenceLock(x) PROVE Ownership!Next
<1>1. x.task \in Tasks /\ PhaseOf(status[x.task]) = "owned" /\ leaseToken[x.task] = x.token
  BY DEF IInv, TypeOK, Txns, FenceLock, PhaseOf, Terminal
<1>. DEFINE y == [x EXCEPT !.phase = "locked"]
<1>2. txns' = (txns \ {x}) \cup {y} /\ x.phase = "begun" /\ ~RowLocked(x.task)
  BY DEF FenceLock
<1>3. y.task = x.task /\ y.token = x.token /\ y.phase = "locked"
  BY DEF IInv, TypeOK, Txns
<1>. HIDE DEF y
<1>4. AbstractWriters' = AbstractWriters \cup {[task |-> x.task, owner |-> leaseToken[x.task]]}
  BY <1>1, <1>2, <1>3 DEF AbstractWriters
<1>. QED
  BY <1>1, <1>2, <1>4, WrittenIsLocked
  DEF Ownership!Next, Ownership!BeginWrite, FenceLock, rowVars, AbstractWriters

LEMMA FencePublishRefines == ASSUME IInv, NEW x \in txns, FencePublish(x) PROVE Ownership!Next
<1>. DEFINE z == [task |-> x.task, owner |-> x.token]
<1>1. z \in AbstractWriters
  BY DEF AbstractWriters, FencePublish
<1>2. AbstractWriters' = AbstractWriters \ {z}
  <2>1. ASSUME NEW y \in txns, y.phase = "locked", y # x PROVE y.task # x.task
    BY <2>1 DEF IInv, OneRowLock, FencePublish
  <2>2. txns' = txns \ {x} /\ x.phase = "locked"
    BY DEF FencePublish
  <2>. QED
    BY <2>1, <2>2 DEF AbstractWriters
<1>3. AbstractPhase' = [AbstractPhase EXCEPT ![x.task] = "done"]
  BY DEF IInv, TypeOK, FencePublish, Release, AbstractPhase, PhaseOf, Terminal
<1>4. leaseToken' = [leaseToken EXCEPT ![x.task] = None]
  BY DEF FencePublish, Release
<1>5. z.task = x.task
  OBVIOUS
<1>. HIDE DEF z
<1>. QED
  BY <1>1, <1>2, <1>3, <1>4, <1>5
  DEF Ownership!Next, Ownership!Publish, AbstractPhase, AbstractWriters

\* The steps the abstraction does not see: nothing changes in the rows' status and
\* token, nor in what is locked.
LEMMA FenceRefusedRefines == ASSUME NEW x \in txns, FenceRefused(x) PROVE [Ownership!Next]_Ownership!vars
<1>1. AbstractWriters' = AbstractWriters
  BY DEF AbstractWriters, FenceRefused
<1>. QED
  BY <1>1, StutterStep DEF FenceRefused, rowVars

LEMMA FenceBeginRefines == ASSUME NEW w \in Workers, FenceBegin(w) PROVE [Ownership!Next]_Ownership!vars
<1>1. AbstractWriters' = AbstractWriters
  BY DEF AbstractWriters, FenceBegin
<1>. QED
  BY <1>1, StutterStep DEF FenceBegin, rowVars

LEMMA HiddenStep ==
    ASSUME UNCHANGED <<status, leaseToken, txns>> PROVE [Ownership!Next]_Ownership!vars
BY StutterStep DEF AbstractWriters

LEMMA OwnerEndRefines ==
    ASSUME IInv, IInv', NEW w \in Workers, Finish(w) \/ Defer(w) PROVE [Ownership!Next]_Ownership!vars
<1>1. CASE LeaseHeld(job[w], token[w])
  <2>1. ~RowLocked(job[w]) /\ UNCHANGED txns
    BY DEF Finish, Defer
  <2>2. job[w] \in Tasks /\ status[job[w]] = "running"
    BY <1>1, OwnerReleases
  <2>3. PICK st \in {"queued"} \cup Outcomes, att \in Nat, d \in BOOLEAN, h \in Holds :
          Release(job[w], st, att, d, h)
    BY <1>1, OwnerReleases
  <2>4. st \in {"queued"} \cup Terminal
    BY DEF Outcomes, Terminal
  <2>. QED
    BY <2>1, <2>2, <2>3, <2>4, ReleaseGivesBack
<1>2. CASE ~LeaseHeld(job[w], token[w])
  BY <1>2, HiddenStep DEF Finish, Defer, rowVars
<1>. QED
  BY <1>1, <1>2

\* Every step of the queue is a step of the abstraction or hidden from it.
LEMMA StepRefines == IInv /\ IInv' /\ [Next]_vars => [Ownership!Next]_Ownership!vars
<1>. SUFFICES ASSUME IInv, IInv', [Next]_vars PROVE [Ownership!Next]_Ownership!vars
  OBVIOUS
<1>1. CASE UNCHANGED vars
  BY <1>1, HiddenStep DEF vars, rowVars
<1>2. ASSUME NEW t \in Tasks, Enqueue(t) PROVE Ownership!Next
  <2>1. AbstractPhase' = [AbstractPhase EXCEPT ![t] = "waiting"] /\ AbstractPhase[t] = "absent"
    BY <1>2, PhaseValues DEF Enqueue, IInv, TypeOK, AbstractPhase
  <2>2. AbstractWriters' = AbstractWriters /\ UNCHANGED leaseToken
    BY <1>2 DEF Enqueue, AbstractWriters
  <2>3. Ownership!Submit(t)
    BY <2>1, <2>2 DEF Ownership!Submit, AbstractPhase, AbstractWriters
  <2>. QED
    BY <2>3 DEF Ownership!Next
<1>3. ASSUME NEW t \in Tasks, Cancel(t) PROVE Ownership!Next
  <2>1. AbstractPhase' = [AbstractPhase EXCEPT ![t] = "done"] /\ AbstractPhase[t] = "waiting"
    BY <1>3, PhaseValues DEF Cancel, IInv, TypeOK, AbstractPhase
  <2>2. AbstractWriters' = AbstractWriters /\ UNCHANGED leaseToken
    BY <1>3 DEF Cancel, AbstractWriters
  <2>3. Ownership!Withdraw(t)
    BY <2>1, <2>2 DEF Ownership!Withdraw, AbstractPhase, AbstractWriters
  <2>. QED
    BY <2>3 DEF Ownership!Next
<1>4. CASE \/ HoldWrite \/ ResumeCapacity
           \/ \E t \in Tasks : LeaseExpires(t) \/ BecomesDue(t)
           \/ \E t \in Tasks, h \in BOOLEAN : HoldRead(t, h)
           \/ \E s \in RequestSources : ResumeSource(s)
           \/ \E b \in beats : HeartbeatRenews(b)
  BY <1>4, HiddenStep DEF HoldWrite, ResumeCapacity, LeaseExpires, BecomesDue, HoldRead, ResumeSource,
                          HeartbeatRenews, rowVars
<1>5. CASE \E w \in Workers : \/ HeartbeatSend(w) \/ Restart(w)
                              \/ \E outcome \in Outcomes : BodyEnds(w, outcome)
                              \/ \E why \in Deferrals : CheckRefused(w, why)
                              \/ Denied(w) \/ NotRetryable(w) \/ BlockSource(w) \/ GiveUp(w)
  BY <1>5, HiddenStep DEF HeartbeatSend, Restart, BodyEnds, CheckRefused, Denied, NotRetryable,
                          BlockSource, GiveUp, rowVars
<1>6. ASSUME NEW w \in Workers, Crash(w) PROVE Ownership!Next
  BY <1>6, EndWritesStep DEF Crash, rowVars
<1>7. ASSUME NEW b \in beats, HeartbeatFails(b) PROVE Ownership!Next
  BY <1>7, EndWritesStep DEF HeartbeatFails, rowVars
<1>8. ASSUME NEW x \in txns, FenceCommit(x) PROVE Ownership!Next
  BY <1>8, EndWritesStep DEF FenceCommit, rowVars
<1>9. ASSUME NEW x \in txns, FenceLock(x) \/ FenceRefused(x) \/ FencePublish(x)
      PROVE  [Ownership!Next]_Ownership!vars
  BY <1>9, FenceLockRefines, FenceRefusedRefines, FencePublishRefines
<1>10. ASSUME NEW w \in Workers, NEW slots \in SUBSET Sources,
              Reclaim(w, slots) \/ \E t \in Tasks : Claim(w, slots, t) PROVE Ownership!Next
  BY <1>10, ReclaimRefines, ClaimRefines
<1>11. ASSUME NEW w \in Workers, FenceBegin(w) \/ Finish(w) \/ Defer(w)
       PROVE  [Ownership!Next]_Ownership!vars
  BY <1>11, FenceBeginRefines, OwnerEndRefines
<1>. QED
  BY <1>1, <1>2, <1>3, <1>4, <1>5, <1>6, <1>7, <1>8, <1>9, <1>10, <1>11 DEF Next

\* The queue implements exclusive ownership: a task changes hands only while nobody
\* writes for it, tasks that exclude each other are never owned together, and only the
\* owner writes.
THEOREM Refinement == Spec => OwnershipSpec
BY InitRefines, StepRefines, Invariance, PTL DEF Spec, OwnershipSpec, Ownership!Spec
=============================================================================
