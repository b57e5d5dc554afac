------------------------- MODULE CatalogSyncProofs -------------------------
(***************************************************************************)
(* Proofs about CatalogSync for any executors, pages, listings and batch   *)
(* size.  The properties are not inductive: a body works on the copy of    *)
(* the row it read, so the invariant ties every copy held by the owner of  *)
(* a running step to the row (BodySeesItsRow), which in turn rests on the  *)
(* cycle having one active step and on nobody leaving "ready" under it.    *)
(***************************************************************************)
EXTENDS CatalogSync, SequenceTheorems, TLAPS

\* The copy a body works on is consistent with itself.
BodyConsistent ==
    \A e \in Executors :
        /\ body[e].phase \in {"discovery", "batch"} => body[e].done <= BatchLength(body[e].seen)
        /\ body[e].phase = "discovery" =>
              /\ body[e].seen.cursor = 0 /\ body[e].seen.snapshot = <<>> /\ body[e].done = 0

\* A cycle given up by the coordinator is limited.
StallIsLimited == notAdvancing => status = "limited"

IInv == TypeOK /\ OneActiveStep /\ BodySeesItsRow /\ BodyConsistent /\ CursorCoversKnown /\ StallIsLimited

-----------------------------------------------------------------------------
(* Lemmas on the rows of the steps. *)

\* StartOf names a checkpoint.
LEMMA StartTyped == ASSUME NEW p \in 1..Pages PROVE StartOf(p) \in Checkpoints
  BY DEF StartOf, Checkpoints

\* A sequence of one element.
LEMMA SingletonSeq ==
  ASSUME NEW S, NEW x \in S
  PROVE  <<x>> \in Seq(S) /\ DOMAIN <<x>> = 1..1 /\ <<x>>[1] = x
  OBVIOUS

\* A batch never reaches beyond its listing.
LEMMA BatchBound ==
  ASSUME NEW seen \in Checkpoints
  PROVE  /\ BatchLength(seen) \in Nat
         /\ seen.cursor <= Len(seen.snapshot) => seen.cursor + BatchLength(seen) <= Len(seen.snapshot)
  BY BatchAssumption DEF BatchLength, Checkpoints

\* The cycle begins in the invariant.
LEMMA InitIInv == Init => IInv
<1> SUFFICES ASSUME Init PROVE IInv
  OBVIOUS
<1> USE DEF Init
<1>1. StartOf(1) \in Checkpoints
  BY StartTyped, CyclePagesAssumption
<1>2. NewStep(StartOf(1), FALSE) \in Step
  BY <1>1 DEF NewStep, Step, Holds
<1>3. steps \in Seq(Step) /\ DOMAIN steps = 1..1 /\ steps[1] = NewStep(StartOf(1), FALSE)
  <2>1. steps = <<NewStep(StartOf(1), FALSE)>>
    OBVIOUS
  <2> HIDE DEF Init
  <2> QED BY <1>2, <2>1, SingletonSeq
<1>4. Idle \in Body /\ Idle.phase = "idle"
  BY <1>1 DEF Idle, BodyAt, Body
<1>5. body \in [Executors -> Body] /\ \A e \in Executors : body[e].phase = "idle"
  BY <1>4
<1>6. TypeOK
  <2>1. autoContinue \in BOOLEAN
    BY AutomaticAssumption
  <2>2. latest \in DOMAIN steps
    BY <1>3
  <2>3. status \in Status /\ known \subseteq Candidates
    BY DEF Status
  <2> QED BY <1>1, <1>3, <1>5, <2>1, <2>2, <2>3 DEF TypeOK
<1>7. OneActiveStep
  BY <1>3 DEF OneActiveStep, Active, Queued, Running
<1>8. BodySeesItsRow /\ BodyConsistent
  BY <1>5 DEF BodySeesItsRow, BodyConsistent
<1>9. CursorCoversKnown /\ StallIsLimited
  BY DEF CursorCoversKnown, StallIsLimited, StartOf
<1> QED BY <1>6, <1>7, <1>8, <1>9 DEF IInv

-----------------------------------------------------------------------------
(* What an action may do to the steps: afterwards there is still one active   *)
(* step, and whoever is running was running before for the same executor,     *)
(* unless e has just acquired it.                                             *)

StepsMove(e) ==
    /\ steps' \in Seq(Step)
    /\ latest' \in DOMAIN steps'
    /\ DOMAIN steps \subseteq DOMAIN steps'
    /\ OneActiveStep'
    /\ \A s \in DOMAIN steps : steps'[s].status = "running" =>
          \/ steps[s].status = "running" /\ steps'[s].owner = steps[s].owner
          \/ steps'[s].owner = e

\* The steps are left alone.
LEMMA StepsStay == ASSUME IInv, NEW e, UNCHANGED <<steps, latest>> PROVE StepsMove(e)
  BY DEF IInv, TypeOK, StepsMove, OneActiveStep, Active, Queued, Running

\* A new step comes only when none is active.
LEMMA EnqueueMoves ==
  ASSUME IInv, NEW e, NEW h \in Checkpoints, NEW a \in BOOLEAN, NoActiveStep, Enqueue(h, a)
  PROVE  StepsMove(e)
<1> USE DEF IInv, TypeOK, Enqueue
<1>1. NewStep(h, a) \in Step
  BY DEF NewStep, Step, Holds
<1>2. /\ steps' \in Seq(Step) /\ Len(steps') = Len(steps) + 1
      /\ \A s \in DOMAIN steps : steps'[s] = steps[s]
      /\ steps'[Len(steps) + 1] = NewStep(h, a)
  BY <1>1
<1>3. DOMAIN steps' = DOMAIN steps \cup {Len(steps) + 1} /\ latest' = Len(steps) + 1
  BY <1>2
<1>4. \A s \in DOMAIN steps : steps'[s].status \notin {"queued", "running"}
  BY <1>2 DEF NoActiveStep, Active, Queued, Running
<1>5. OneActiveStep'
  BY <1>3, <1>4 DEF OneActiveStep, Active, Queued, Running
<1> QED BY <1>2, <1>3, <1>5 DEF StepsMove

\* Holding and releasing change no status.
LEMMA HoldMoves ==
  ASSUME IInv, NEW e, NEW S \in SUBSET (DOMAIN steps), NEW h \in Holds, SetHold(S, h)
  PROVE  StepsMove(e)
<1> USE DEF IInv, TypeOK, SetHold
<1>1. DOMAIN steps = 1..Len(steps) /\ Len(steps) \in Nat
  OBVIOUS
<1>2. \A s \in DOMAIN steps : [steps[s] EXCEPT !.hold = h] \in Step /\ steps[s] \in Step
  <2> SUFFICES ASSUME NEW s \in DOMAIN steps PROVE [steps[s] EXCEPT !.hold = h] \in Step /\ steps[s] \in Step
    OBVIOUS
  <2>1. steps[s] \in Step
    OBVIOUS
  <2> QED BY <2>1 DEF Step
<1>3. steps' \in [1..Len(steps) -> Step]
  BY <1>1, <1>2
<1>4. steps' \in Seq(Step)
  BY <1>3, <1>1, SeqDef
<1>5. \A s \in DOMAIN steps : steps'[s].status = steps[s].status /\ steps'[s].owner = steps[s].owner
  BY <1>2 DEF Step
<1>6. DOMAIN steps' = DOMAIN steps /\ latest' \in DOMAIN steps'
  OBVIOUS
<1>7. OneActiveStep'
  BY <1>5, <1>6 DEF OneActiveStep, Active, Queued, Running
<1> QED BY <1>4, <1>5, <1>6, <1>7 DEF StepsMove

\* An active step becomes queued again or terminal.
LEMMA BecomesMoves ==
  ASSUME IInv, NEW e, NEW s \in Active, NEW st \in {"queued", "completed", "failed", "cancelled"},
         NEW h \in Holds, Becomes(s, st, h)
  PROVE  StepsMove(e)
<1> USE DEF IInv, TypeOK, Becomes
<1>1. s \in DOMAIN steps /\ steps[s] \in Step
  BY DEF Active, Queued, Running
<1>2. /\ steps' = [steps EXCEPT ![s] = [steps[s] EXCEPT !.status = st, !.hold = h, !.owner = None]]
      /\ [steps[s] EXCEPT !.status = st, !.hold = h, !.owner = None] \in Step
  BY <1>1 DEF Step
<1>3. steps' \in Seq(Step) /\ DOMAIN steps' = DOMAIN steps /\ latest' \in DOMAIN steps'
  <2> DEFINE row == [steps[s] EXCEPT !.status = st, !.hold = h, !.owner = None]
  <2>1. row \in Step /\ steps' = [steps EXCEPT ![s] = row] /\ latest' = s
    BY <1>2
  <2> HIDE DEF row
  <2>2. steps \in Seq(Step) /\ s \in 1..Len(steps)
    BY <1>1
  <2> HIDE DEF IInv, TypeOK, Becomes
  <2> QED BY <1>1, <2>1, <2>2, ExceptSeq
<1>4. \A t \in DOMAIN steps : t # s => steps'[t] = steps[t]
  BY <1>2
<1>5. steps'[s].status = st
  BY <1>1, <1>2 DEF Step
<1>6. Active' \subseteq Active
  BY <1>1, <1>3, <1>4 DEF Active, Queued, Running
<1>7. OneActiveStep'
  BY <1>6 DEF OneActiveStep
<1> QED BY <1>3, <1>4, <1>5, <1>7 DEF StepsMove

-----------------------------------------------------------------------------
(* An action that leaves the checkpoint alone, and every copy of it but the   *)
(* one e gives up, keeps the invariant if it leaves "ready" only while no     *)
(* step is running.                                                           *)

Quiet(e) ==
    /\ StepsMove(e)
    /\ UNCHANGED <<checkpoint, known>>
    /\ status' \in Status /\ pauseRequested' \in BOOLEAN /\ autoContinue' \in BOOLEAN
    /\ notAdvancing' \in BOOLEAN /\ blocked' \in BOOLEAN
    /\ notAdvancing' => status' = "limited"
    /\ status = "ready" /\ Running # {} => status' = "ready"
    /\ body' \in [Executors -> Body]
    /\ \A f \in Executors : f # e => body'[f] = body[f]
    /\ e \in Executors =>
          /\ body'[e].phase \notin {"discovery", "batch"}
          /\ body'[e].phase # "idle" => body'[e].step \in DOMAIN steps

\* A quiet action keeps the invariant.
LEMMA QuietStep == ASSUME IInv, NEW e, Quiet(e) PROVE IInv'
<1> USE DEF IInv
<1>1. TypeOK'
  BY DEF TypeOK, Quiet, StepsMove
<1>2. BodySeesItsRow'
  <2> SUFFICES ASSUME NEW f \in Executors, body'[f].phase \in {"discovery", "batch"}, Fenced(f)'
               PROVE  /\ status' = "ready"
                      /\ checkpoint' = [body'[f].seen EXCEPT !.cursor = @ + body'[f].done]
    BY DEF BodySeesItsRow
  <2>1. f # e /\ body'[f] = body[f]
    BY DEF Quiet
  <2>2. body[f].step \in DOMAIN steps
    BY <2>1 DEF TypeOK
  <2>3. Fenced(f) /\ body[f].step \in Running
    BY <2>1, <2>2 DEF Fenced, Quiet, StepsMove, Running
  <2>4. status = "ready" /\ checkpoint = [body[f].seen EXCEPT !.cursor = @ + body[f].done]
    BY <2>1, <2>3 DEF BodySeesItsRow
  <2> QED BY <2>1, <2>3, <2>4 DEF Quiet
<1>3. BodyConsistent'
  BY DEF BodyConsistent, Quiet, BatchLength
<1>4. CursorCoversKnown'
  BY DEF CursorCoversKnown, Quiet
<1>5. StallIsLimited' /\ OneActiveStep'
  BY DEF StallIsLimited, Quiet, StepsMove
<1> QED BY <1>1, <1>2, <1>3, <1>4, <1>5

-----------------------------------------------------------------------------
(* Requests, the gate, the coordinator and recovery are quiet.                *)

\* A request touches the body of no executor.
LEMMA BodiesStay == ASSUME IInv, UNCHANGED body
                    PROVE  /\ body' \in [Executors -> Body]
                           /\ \A f \in Executors : f # None => body'[f] = body[f]
                           /\ None \notin Executors
  BY ExecutorsAssumption DEF IInv, TypeOK

\* Every request of the API, and closing the gate, is quiet.
LEMMA RequestQuiet == ASSUME IInv, Administer \/ BlockSource PROVE Quiet(None)
<1> USE DEF IInv, rowVars
<1>1. CASE ContinueSync
  <2>1. StepsMove(None)
    BY <1>1, EnqueueMoves DEF ContinueSync, TypeOK
  <2> QED BY <1>1, <2>1, BodiesStay DEF Quiet, ContinueSync, TypeOK, StallIsLimited
<1>2. CASE \E s \in DOMAIN steps : RetryStep(s)
  <2> PICK s \in DOMAIN steps : RetryStep(s)
    BY <1>2
  <2>1. steps[s].checkpointHash \in Checkpoints
    <3>1. steps[s] \in Step
      BY DEF TypeOK
    <3> QED BY <3>1 DEF Step
  <2>2. StepsMove(None)
    BY <2>1, EnqueueMoves DEF RetryStep
  <2> QED BY <2>2, BodiesStay DEF Quiet, RetryStep, TypeOK, StallIsLimited
<1>3. CASE PauseSync
  <2>1. StepsMove(None)
    BY <1>3, HoldMoves DEF PauseSync, QueuedHeld, Queued, Holds
  <2>2. status' \in Status /\ (status = "ready" /\ Running # {} => status' = "ready")
    BY <1>3 DEF PauseSync, Status
  <2>3. ~notAdvancing
    BY <1>3 DEF PauseSync, StallIsLimited, Ends
  <2> QED BY <1>3, <2>1, <2>2, <2>3, BodiesStay DEF Quiet, PauseSync, TypeOK
<1>4. CASE ResumeSync
  <2>1. StepsMove(None)
    <3>1. CASE NoActiveStep
      BY <1>4, <3>1, EnqueueMoves DEF ResumeSync, TypeOK
    <3>2. CASE ~NoActiveStep
      BY <1>4, <3>2, HoldMoves DEF ResumeSync, QueuedHeld, Queued, Holds
    <3> QED BY <3>1, <3>2
  <2>2. ~notAdvancing
    BY <1>4 DEF ResumeSync, StallIsLimited, Ends
  <2> QED BY <1>4, <2>1, <2>2, BodiesStay DEF Quiet, ResumeSync, TypeOK, Status
<1>5. CASE CancelCycle
  <2>1. /\ steps' \in Seq(Step) /\ DOMAIN steps' = DOMAIN steps
        /\ \A s \in DOMAIN steps : steps'[s].status \in {steps[s].status, "cancelled"}
                                   /\ steps'[s].owner = steps[s].owner
    <3> DEFINE row(s) == IF s \in Queued THEN [steps[s] EXCEPT !.status = "cancelled"] ELSE steps[s]
    <3>1. DOMAIN steps = 1..Len(steps) /\ Len(steps) \in Nat
      BY DEF TypeOK
    <3>2. ASSUME NEW s \in DOMAIN steps
          PROVE  row(s) \in Step /\ row(s).status \in {steps[s].status, "cancelled"} /\ row(s).owner = steps[s].owner
      <4>1. steps[s] \in Step
        BY DEF TypeOK
      <4> QED BY <4>1 DEF Step
    <3>3. steps' = [s \in DOMAIN steps |-> row(s)]
      BY <1>5 DEF CancelCycle
    <3> HIDE DEF row
    <3>4. steps' \in [1..Len(steps) -> Step]
      BY <3>1, <3>2, <3>3
    <3>5. steps' \in Seq(Step)
      BY <3>1, <3>4, SeqDef
    <3>6. DOMAIN steps' = DOMAIN steps /\ \A s \in DOMAIN steps : steps'[s] = row(s)
      BY <3>3
    <3> QED BY <3>2, <3>5, <3>6
  <2>2. latest' \in DOMAIN steps'
    BY <1>5, <2>1 DEF CancelCycle, Queued, TypeOK
  <2>3. OneActiveStep'
    BY <2>1 DEF OneActiveStep, Active, Queued, Running
  <2>4. StepsMove(None)
    BY <2>1, <2>2, <2>3 DEF StepsMove
  <2>5. status' \in Status /\ (notAdvancing' => status' = "limited")
    BY <1>5 DEF CancelCycle, TypeOK, Status, Ends, StallIsLimited
  <2> QED BY <1>5, <2>4, <2>5, BodiesStay DEF Quiet, CancelCycle, TypeOK
<1>6. CASE \E s \in DOMAIN steps : CancelStep(s)
  <2> PICK s \in DOMAIN steps : CancelStep(s)
    BY <1>6
  <2>1. s \in Active /\ steps[s].hold \in Holds
    <3>1. steps[s] \in Step
      BY DEF TypeOK
    <3> QED BY <3>1 DEF CancelStep, Active, Step
  <2>2. StepsMove(None)
    BY <2>1, BecomesMoves DEF CancelStep
  <2> QED BY <2>2, BodiesStay DEF Quiet, CancelStep, TypeOK, StallIsLimited
<1>7. CASE \E s \in DOMAIN steps : HoldStep(s) \/ ReleaseStep(s)
  <2> PICK s \in DOMAIN steps : HoldStep(s) \/ ReleaseStep(s)
    BY <1>7
  <2>1. StepsMove(None)
    <3>1. {s} \in SUBSET DOMAIN steps /\ "admin" \in Holds /\ None \in Holds
      BY DEF Holds
    <3> QED BY <3>1, HoldMoves DEF HoldStep, ReleaseStep
  <2> QED BY <2>1, BodiesStay DEF Quiet, HoldStep, ReleaseStep, TypeOK, StallIsLimited
<1>8. CASE ResumeSource
  <2>1. StepsMove(None)
    BY <1>8, HoldMoves DEF ResumeSource, QueuedHeld, Queued, Holds
  <2> QED BY <1>8, <2>1, BodiesStay DEF Quiet, ResumeSource, TypeOK, StallIsLimited
<1>9. CASE BlockSource
  <2>1. StepsMove(None)
    BY <1>9, HoldMoves DEF BlockSource, QueuedHeld, Queued, Holds
  <2> QED BY <1>9, <2>1, BodiesStay DEF Quiet, BlockSource, TypeOK, StallIsLimited
<1> QED BY <1>1, <1>2, <1>3, <1>4, <1>5, <1>6, <1>7, <1>8, <1>9 DEF Administer

\* The coordinator leaves ready only when no step is running.
LEMMA CoordinateQuiet == ASSUME IInv, Coordinate PROVE Quiet(None)
<1> USE DEF IInv, Coordinate
<1>1. CASE CoordinatePause
  BY <1>1, StepsStay, BodiesStay DEF Quiet, CoordinatePause, TypeOK, Status, StallIsLimited
<1>2. CASE CoordinateFailure
  BY <1>2, StepsStay, BodiesStay DEF Quiet, CoordinateFailure, Coordinable, NoActiveStep, Active, TypeOK, Status
<1>3. CASE CoordinateStall
  BY <1>3, StepsStay, BodiesStay
     DEF Quiet, CoordinateStall, Coordinable, NoActiveStep, Active, TypeOK, Status, Ends
<1>4. CASE CoordinateSuccessor
  <2>1. StepsMove(None)
    BY <1>4, EnqueueMoves DEF CoordinateSuccessor, Coordinable, TypeOK
  <2> QED BY <1>4, <2>1, BodiesStay DEF Quiet, CoordinateSuccessor, rowVars, TypeOK, StallIsLimited
<1> QED BY <1>1, <1>2, <1>3, <1>4

\* A recovered step is no longer running: its late executor is fenced off.
LEMMA RecoverQuiet == ASSUME IInv, NEW s \in DOMAIN steps, Recover(s) PROVE Quiet(None)
<1> USE DEF IInv, Recover
<1>1. StepsMove(None)
  BY BecomesMoves DEF Active, Holds
<1> QED BY <1>1, BodiesStay DEF Quiet, rowVars, TypeOK, StallIsLimited

-----------------------------------------------------------------------------
(* What an executor does without its copy of the row is quiet as well.        *)

\* A body without a copy of the row is a body.
LEMMA BodyAtTyped ==
  ASSUME NEW p \in {"idle", "claimed", "stage", "batched"}, NEW s \in Nat
  PROVE  BodyAt(p, s) \in Body /\ BodyAt(p, s).phase = p /\ BodyAt(p, s).step = s
  BY StartTyped, CyclePagesAssumption DEF BodyAt, Body

\* The acquired step was queued, and the only active one.
LEMMA ClaimQuiet ==
  ASSUME IInv, NEW e \in Executors, NEW s \in DOMAIN steps, Claim(e, s) PROVE Quiet(e)
<1> USE DEF IInv, Claim
<1>1. s \in Queued /\ s \in Nat /\ steps[s] \in Step /\ s \in 1..Len(steps)
  BY DEF QueuedHeld, Queued, TypeOK
<1>2. StepsMove(e)
  <2> DEFINE row == [steps[s] EXCEPT !.status = "running", !.owner = e]
  <2>1. row \in Step /\ row.owner = e
    BY <1>1 DEF Step, Running
  <2>7. steps' = [steps EXCEPT ![s] = row] /\ latest' = s
    OBVIOUS
  <2>2. steps \in Seq(Step)
    BY DEF TypeOK
  <2> HIDE DEF row, Claim, IInv
  <2>3. steps' \in Seq(Step) /\ DOMAIN steps' = DOMAIN steps /\ \A t \in DOMAIN steps : t # s => steps'[t] = steps[t]
    BY <1>1, <2>1, <2>2, <2>7, ExceptSeq
  <2>4. steps'[s].owner = e
    BY <1>1, <2>1, <2>7
  <2>5. Active' \subseteq Active
    BY <1>1, <2>3 DEF Active, Queued, Running
  <2>6. OneActiveStep'
    BY <2>5 DEF OneActiveStep, IInv
  <2> QED BY <1>1, <2>3, <2>4, <2>6, <2>7 DEF StepsMove
<1>3. BodyAt("claimed", s) \in Body /\ BodyAt("claimed", s).phase = "claimed" /\ BodyAt("claimed", s).step = s
  BY <1>1, BodyAtTyped
<1>4. /\ body' \in [Executors -> Body] /\ body'[e] = BodyAt("claimed", s)
      /\ \A f \in Executors : f # e => body'[f] = body[f]
  BY <1>3 DEF Become, TypeOK
<1> QED BY <1>2, <1>3, <1>4 DEF Quiet, rowVars, TypeOK, StallIsLimited

\* An idle executor has a body as well.
LEMMA IdleTyped == Idle \in Body /\ Idle.phase = "idle"
  BY BodyAtTyped DEF Idle

\* However a body ends, its step is at most queued again.
LEMMA EndQuiet ==
  ASSUME IInv, NEW e \in Executors, FinishStep(e) \/ FailStep(e) \/ Crash(e) PROVE Quiet(e)
<1> USE DEF IInv
<1>1. body[e].phase # "idle" /\ body[e].step \in DOMAIN steps
  BY DEF TypeOK, FinishStep, FailStep, Crash
<1>2. /\ body' \in [Executors -> Body] /\ body'[e] = Idle
      /\ \A f \in Executors : f # e => body'[f] = body[f]
  BY IdleTyped DEF Become, TypeOK, FinishStep, FailStep, Crash
<1>3. Fenced(e) => body[e].step \in Active
  BY <1>1 DEF Fenced, Active, Running
<1>4. StepsMove(e)
  <2>1. CASE UNCHANGED <<steps, latest>>
    BY <2>1, StepsStay
  <2>2. CASE FailStep(e) /\ Fenced(e)
    BY <1>3, <2>2, BecomesMoves DEF FailStep, Holds
  <2>3. CASE FinishStep(e) /\ Fenced(e)
    <3> DEFINE s == body[e].step
               stg == IF body[e].phase = "stage" THEN "not_ready" ELSE "catalog_batch"
               row == [steps[s] EXCEPT !.status = "completed", !.owner = None, !.stage = stg]
    <3>1. steps' = [steps EXCEPT ![s] = row] /\ latest' = s
      BY <2>3 DEF FinishStep
    <3>2. steps[s] \in Step /\ steps \in Seq(Step) /\ s \in 1..Len(steps)
      BY <1>1 DEF TypeOK
    <3>3. row \in Step /\ row.status = "completed"
      BY <3>2 DEF Step
    <3> HIDE DEF row, s
    <3>4. /\ steps' \in Seq(Step) /\ DOMAIN steps' = DOMAIN steps
          /\ \A t \in DOMAIN steps : steps'[t] = IF t = s THEN row ELSE steps[t]
      BY <3>1, <3>2, <3>3, ExceptSeq
    <3>5. Active' \subseteq Active
      BY <3>3, <3>4 DEF Active, Queued, Running
    <3>6. OneActiveStep'
      BY <3>5 DEF OneActiveStep
    <3> QED BY <3>1, <3>2, <3>3, <3>4, <3>6 DEF StepsMove
  <2> QED BY <2>1, <2>2, <2>3 DEF FinishStep, FailStep, Crash
<1> QED BY <1>2, <1>4, IdleTyped DEF Quiet, FinishStep, FailStep, Crash, rowVars, TypeOK, StallIsLimited

-----------------------------------------------------------------------------
(* The owner of the running step works alone: it may move the row, because no *)
(* other body is fenced while it is, and it carries its own copy along.       *)

\* Two executors that own running steps are one.
LEMMA OwnerAlone ==
  ASSUME IInv, NEW e \in Executors, NEW f \in Executors,
         body[e].phase # "idle", body[f].phase # "idle", Fenced(e), Fenced(f)
  PROVE  e = f
<1>1. body[e].step \in Active /\ body[f].step \in Active
  BY DEF IInv, TypeOK, Fenced, Active, Running
<1> QED BY <1>1 DEF IInv, OneActiveStep, Fenced

Consistent(b) ==
    /\ b.phase \in {"discovery", "batch"} => b.done <= BatchLength(b.seen)
    /\ b.phase = "discovery" => b.seen.cursor = 0 /\ b.seen.snapshot = <<>> /\ b.done = 0

Moves(e) ==
    /\ UNCHANGED <<pauseRequested, autoContinue, notAdvancing, steps, latest, blocked>>
    /\ body[e].phase # "idle"
    /\ body' \in [Executors -> Body] /\ body'[e].step = body[e].step
    /\ \A f \in Executors : f # e => body'[f] = body[f]
    /\ UNCHANGED <<status, checkpoint>> \/ Fenced(e)
    /\ status' \in Status /\ checkpoint' \in Checkpoints /\ known' \subseteq Candidates
    /\ StallIsLimited' /\ CursorCoversKnown'
    /\ Consistent(body'[e])
    /\ body'[e].phase \in {"discovery", "batch"} /\ Fenced(e) =>
          /\ status' = "ready"
          /\ checkpoint' = [body'[e].seen EXCEPT !.cursor = @ + body'[e].done]

\* An action of the owner keeps the invariant.
LEMMA MoveStep == ASSUME IInv, NEW e \in Executors, Moves(e) PROVE IInv'
<1> USE DEF IInv
<1>1. TypeOK'
  BY DEF TypeOK, Moves
<1>2. OneActiveStep'
  BY DEF OneActiveStep, Active, Queued, Running, Moves
<1>3. BodySeesItsRow'
  <2> SUFFICES ASSUME NEW f \in Executors, body'[f].phase \in {"discovery", "batch"}, Fenced(f)'
               PROVE  /\ status' = "ready"
                      /\ checkpoint' = [body'[f].seen EXCEPT !.cursor = @ + body'[f].done]
    BY DEF BodySeesItsRow
  <2>1. Fenced(f)
    BY DEF Fenced, Moves
  <2>2. CASE f = e
    BY <2>1, <2>2 DEF Moves
  <2>3. CASE f # e
    <3>1. body'[f] = body[f]
      BY <2>3 DEF Moves
    <3>2. UNCHANGED <<status, checkpoint>>
      BY <2>1, <2>3, <3>1, OwnerAlone DEF Moves
    <3> QED BY <2>1, <3>1, <3>2 DEF BodySeesItsRow
  <2> QED BY <2>2, <2>3
<1>4. BodyConsistent'
  BY DEF BodyConsistent, Consistent, Moves, BatchLength
<1>5. CursorCoversKnown' /\ StallIsLimited'
  BY DEF Moves
<1> QED BY <1>1, <1>2, <1>3, <1>4, <1>5

\* A checkpoint whose cursor has moved by d.
LEMMA Shifted ==
  ASSUME NEW c \in Checkpoints, NEW d \in Nat
  PROVE  /\ [c EXCEPT !.cursor = @ + d] \in Checkpoints
         /\ [c EXCEPT !.cursor = @ + d].cursor = c.cursor + d
         /\ [c EXCEPT !.cursor = @ + d].page = c.page
         /\ [c EXCEPT !.cursor = @ + d].snapshot = c.snapshot
         /\ d = 0 => [c EXCEPT !.cursor = @ + d] = c
  BY DEF Checkpoints

\* A body reads the row and has its copy.
LEMMA ReadMoves == ASSUME IInv, NEW e \in Executors, ReadSync(e) PROVE Moves(e)
<1> USE DEF IInv
<1>1. body[e].step \in Nat /\ body[e].phase = "claimed" /\ checkpoint \in Checkpoints
  BY DEF TypeOK, ReadSync
<1>2. \A f \in Executors : f # e => body'[f] = body[f]
  BY DEF ReadSync, Become, TypeOK
<1>3. CASE status # "ready"
  <2>1. BodyAt("stage", body[e].step) \in Body /\ BodyAt("stage", body[e].step).phase = "stage"
        /\ BodyAt("stage", body[e].step).step = body[e].step
    BY <1>1, BodyAtTyped
  <2>2. body' \in [Executors -> Body] /\ body'[e] = BodyAt("stage", body[e].step)
    BY <1>3, <2>1 DEF ReadSync, Become, TypeOK
  <2> QED BY <1>1, <1>2, <2>1, <2>2
          DEF Moves, Consistent, ReadSync, rowVars, TypeOK, StallIsLimited, CursorCoversKnown
<1>4. CASE status = "ready"
  <2> DEFINE b == [phase |-> IF checkpoint.snapshot = <<>> /\ checkpoint.cursor = 0 THEN "discovery" ELSE "batch",
                   step |-> body[e].step, seen |-> checkpoint, done |-> 0]
  <2>1. b \in Body /\ b.step = body[e].step /\ b.seen = checkpoint /\ b.done = 0
    BY <1>1 DEF Body
  <2>2. Consistent(b)
    BY <1>1, BatchBound DEF Consistent
  <2>3. body' \in [Executors -> Body] /\ body'[e] = b
    BY <1>4, <2>1 DEF ReadSync, Become, TypeOK
  <2>4. checkpoint = [b.seen EXCEPT !.cursor = @ + b.done]
    BY <1>1, <2>1, Shifted
  <2> HIDE DEF b
  <2> QED BY <1>1, <1>2, <1>4, <2>1, <2>2, <2>3, <2>4
          DEF Moves, ReadSync, rowVars, TypeOK, StallIsLimited, CursorCoversKnown
<1> QED BY <1>3, <1>4

\* The listing is stored in the row and in the copy.
LEMMA DiscoverMoves == ASSUME IInv, NEW e \in Executors, Discover(e) PROVE Moves(e)
<1> USE DEF IInv
<1> DEFINE seen == body[e].seen
<1>1. /\ body[e] \in Body /\ seen \in Checkpoints /\ body[e].phase = "discovery" /\ Fenced(e)
      /\ body[e].done = 0 /\ checkpoint \in Checkpoints
      /\ status = "ready" /\ checkpoint = [seen EXCEPT !.cursor = @ + body[e].done]
  BY DEF TypeOK, Discover, Body, BodySeesItsRow, BodyConsistent
<1>2. checkpoint = seen /\ checkpoint.cursor = 0
  <2>1. seen.cursor = 0
    BY <1>1 DEF BodyConsistent
  <2>2. checkpoint = [seen EXCEPT !.cursor = @ + 0]
    BY <1>1
  <2> QED BY <1>1, <2>1, <2>2, Shifted
<1>3. PICK rows \in Listings[seen.page] :
        /\ checkpoint' = [checkpoint EXCEPT !.snapshot = rows]
        /\ body' = [body EXCEPT ![e] = [body[e] EXCEPT !.phase = "batch", !.seen = checkpoint']]
  BY DEF Discover, Become
<1>4. rows \in Seq(Candidates)
  BY <1>1, CycleListingsAssumption DEF Checkpoints
<1>5. checkpoint' \in Checkpoints /\ checkpoint'.cursor = 0 /\ checkpoint'.snapshot = rows
  BY <1>1, <1>2, <1>3, <1>4 DEF Checkpoints
<1>6. CursorCoversKnown'
  BY <1>4, <1>5 DEF CursorCoversKnown
<1> DEFINE b == [body[e] EXCEPT !.phase = "batch", !.seen = checkpoint']
<1>7. b \in Body /\ b.step = body[e].step /\ b.seen = checkpoint' /\ b.done = 0 /\ b.phase = "batch"
  BY <1>1, <1>5 DEF Body
<1>8. /\ body' \in [Executors -> Body] /\ body'[e] = b
      /\ \A f \in Executors : f # e => body'[f] = body[f]
  BY <1>3, <1>7 DEF TypeOK
<1> HIDE DEF b
<1>9. Consistent(b)
  BY <1>5, <1>7, BatchBound DEF Consistent
<1>10. checkpoint' = [b.seen EXCEPT !.cursor = @ + b.done]
  <2>1. checkpoint' = [checkpoint' EXCEPT !.cursor = @ + 0]
    BY <1>5 DEF Checkpoints
  <2> QED BY <1>7, <2>1
<1> QED BY <1>1, <1>5, <1>6, <1>7, <1>8, <1>9, <1>10
        DEF Moves, Discover, rowVars, TypeOK, StallIsLimited

\* What the owner knows in a batch: the row is its copy, moved by what it has done.
LEMMA BatchFacts ==
  ASSUME IInv, NEW e \in Executors, body[e].phase = "batch", Fenced(e)
  PROVE  /\ body[e] \in Body /\ body[e].seen \in Checkpoints /\ body[e].done \in Nat
         /\ checkpoint \in Checkpoints /\ status = "ready"
         /\ checkpoint = [body[e].seen EXCEPT !.cursor = @ + body[e].done]
         /\ checkpoint.cursor = body[e].seen.cursor + body[e].done
         /\ checkpoint.page = body[e].seen.page
         /\ checkpoint.snapshot = body[e].seen.snapshot
         /\ body[e].done <= BatchLength(body[e].seen)
         /\ BatchLength(body[e].seen) \in Nat
         /\ body[e].seen.cursor <= Len(body[e].seen.snapshot)
<1> USE DEF IInv
<1>1. body[e] \in Body /\ body[e].seen \in Checkpoints /\ body[e].done \in Nat
  BY DEF TypeOK, Body
<1>2. /\ checkpoint \in Checkpoints /\ status = "ready"
      /\ checkpoint = [body[e].seen EXCEPT !.cursor = @ + body[e].done]
      /\ body[e].done <= BatchLength(body[e].seen)
  BY DEF TypeOK, BodySeesItsRow, BodyConsistent
<1>3. /\ checkpoint.cursor = body[e].seen.cursor + body[e].done
      /\ checkpoint.page = body[e].seen.page
      /\ checkpoint.snapshot = body[e].seen.snapshot
  BY <1>1, <1>2, Shifted
<1>4. body[e].seen.cursor <= Len(body[e].seen.snapshot)
  <2>1. checkpoint.cursor <= Len(checkpoint.snapshot)
    BY DEF CursorCoversKnown
  <2>2. body[e].seen.cursor \in Nat /\ Len(body[e].seen.snapshot) \in Nat
    BY <1>1 DEF Checkpoints
  <2> QED BY <1>1, <1>3, <2>1, <2>2
<1> QED BY <1>1, <1>2, <1>3, <1>4, BatchBound

\* The cursor of the row and the count of the body advance together.
LEMMA ProcessMoves == ASSUME IInv, NEW e \in Executors, ProcessCandidate(e) PROVE Moves(e)
<1> DEFINE seen == body[e].seen
           done == body[e].done
           i == seen.cursor + done + 1
<1>1. /\ body[e].phase = "batch" /\ Fenced(e) /\ done < BatchLength(seen)
      /\ known' = known \cup {seen.snapshot[i]}
      /\ checkpoint' = [checkpoint EXCEPT !.cursor = @ + 1]
      /\ body' = [body EXCEPT ![e] = [body[e] EXCEPT !.done = @ + 1]]
      /\ UNCHANGED <<rowVars, steps, latest, blocked>>
  BY DEF ProcessCandidate, Become
<1>2. /\ body[e] \in Body /\ seen \in Checkpoints /\ done \in Nat /\ checkpoint \in Checkpoints
      /\ status = "ready" /\ checkpoint = [seen EXCEPT !.cursor = @ + done]
      /\ checkpoint.cursor = seen.cursor + done /\ checkpoint.snapshot = seen.snapshot
      /\ BatchLength(seen) \in Nat /\ seen.cursor <= Len(seen.snapshot)
  BY <1>1, BatchFacts
<1>3. seen.cursor \in Nat /\ seen.snapshot \in Seq(Candidates) /\ Len(seen.snapshot) \in Nat
  BY <1>2 DEF Checkpoints
<1>4. i \in 1..Len(seen.snapshot) /\ i = checkpoint.cursor + 1
  <2>1. seen.cursor + BatchLength(seen) <= Len(seen.snapshot)
    BY <1>2, BatchBound
  <2>2. done < BatchLength(seen)
    BY <1>1
  <2> HIDE DEF seen, done
  <2> QED BY <1>2, <1>3, <2>1, <2>2
<1>5. /\ checkpoint' \in Checkpoints /\ checkpoint'.cursor = i /\ checkpoint'.snapshot = seen.snapshot
      /\ checkpoint' = [seen EXCEPT !.cursor = @ + (done + 1)]
  <2> HIDE DEF seen, done
  <2>1. checkpoint' = [checkpoint EXCEPT !.cursor = @ + 1]
    BY <1>1
  <2>2. checkpoint' \in Checkpoints /\ checkpoint'.cursor = i /\ checkpoint'.snapshot = seen.snapshot
    BY <1>2, <1>4, <2>1, Shifted
  <2>3. checkpoint' = [seen EXCEPT !.cursor = @ + (done + 1)]
    <3>1. checkpoint' = [seen EXCEPT !.cursor = (seen.cursor + done) + 1]
      BY <1>2, <1>3, <2>1 DEF Checkpoints
    <3>2. (seen.cursor + done) + 1 = seen.cursor + (done + 1)
      BY <1>2, <1>3
    <3> QED BY <3>1, <3>2
  <2> QED BY <2>2, <2>3
<1>6. known' \subseteq Candidates
  <2>1. seen.snapshot[i] \in Candidates
    BY <1>3, <1>4
  <2> QED BY <1>1, <2>1 DEF IInv, TypeOK
<1>7. CursorCoversKnown'
  BY <1>1, <1>2, <1>3, <1>4, <1>5 DEF CursorCoversKnown, IInv
<1> DEFINE b == [body[e] EXCEPT !.done = done + 1]
<1>8. b \in Body /\ b.step = body[e].step /\ b.seen = seen /\ b.done = done + 1 /\ b.phase = "batch"
  BY <1>1, <1>2 DEF Body
<1>9. /\ body' \in [Executors -> Body] /\ body'[e] = b
      /\ \A f \in Executors : f # e => body'[f] = body[f]
  BY <1>1, <1>8 DEF TypeOK, IInv
<1> HIDE DEF b
<1>10. Consistent(b)
  BY <1>1, <1>2, <1>8 DEF Consistent
<1>11. StallIsLimited' /\ status' \in Status
  BY <1>1 DEF StallIsLimited, rowVars, IInv, TypeOK
<1> QED BY <1>1, <1>2, <1>5, <1>6, <1>7, <1>8, <1>9, <1>10, <1>11 DEF Moves, rowVars

\* The batch over, the row turns its page or ends, and the copy is given up.
LEMMA ConcludeMoves == ASSUME IInv, NEW e \in Executors, ConcludeBatch(e) PROVE Moves(e)
<1>1. body[e].phase = "batch" /\ Fenced(e)
  BY DEF ConcludeBatch
<1>2. body[e] \in Body /\ body[e].seen \in Checkpoints /\ checkpoint \in Checkpoints /\ status = "ready"
      /\ checkpoint.page = body[e].seen.page
  BY <1>1, BatchFacts
<1>3. ~notAdvancing
  BY <1>2 DEF IInv, StallIsLimited
<1> DEFINE b == BodyAt("batched", body[e].step)
<1>4. b \in Body /\ b.phase = "batched" /\ b.step = body[e].step
  <2>1. body[e].step \in Nat
    BY <1>2 DEF Body
  <2> QED BY <2>1, BodyAtTyped
<1> HIDE DEF b
<1>5. /\ body' \in [Executors -> Body] /\ body'[e] = b
      /\ \A f \in Executors : f # e => body'[f] = body[f]
  BY <1>4 DEF ConcludeBatch, Become, b, IInv, TypeOK
<1>6. checkpoint' \in Checkpoints /\ CursorCoversKnown'
  <2>1. CASE UNCHANGED checkpoint
    BY <1>2, <2>1 DEF ConcludeBatch, CursorCoversKnown, IInv
  <2>2. CASE body[e].seen.page < Pages /\ checkpoint' = StartOf(checkpoint.page + 1)
    <3>1. checkpoint.page + 1 \in 1..Pages
      BY <1>2, <2>2, CyclePagesAssumption DEF Checkpoints
    <3>2. checkpoint' \in Checkpoints
      BY <2>2, <3>1, StartTyped
    <3> QED BY <2>2, <3>2 DEF CursorCoversKnown, StartOf
  <2> QED BY <2>1, <2>2 DEF ConcludeBatch
<1>7. status' \in Status
  BY <1>2 DEF ConcludeBatch, Status, Ends
<1>8. UNCHANGED <<pauseRequested, autoContinue, notAdvancing, known, steps, latest, blocked>>
  BY DEF ConcludeBatch
<1> QED BY <1>1, <1>3, <1>4, <1>5, <1>6, <1>7, <1>8 DEF Moves, Consistent, StallIsLimited, IInv, TypeOK

-----------------------------------------------------------------------------
(* Every step keeps the invariant. *)

\* The invariant depends on nothing but the variables.
LEMMA StutterKeeps == ASSUME IInv, UNCHANGED vars PROVE IInv'
  BY DEF IInv, vars, rowVars, TypeOK, OneActiveStep, Active, Queued, Running, BodySeesItsRow, Fenced,
         BodyConsistent, BatchLength, CursorCoversKnown, StallIsLimited

\* The invariant is inductive.
LEMMA NextKeeps == IInv /\ [Next]_vars => IInv'
<1> SUFFICES ASSUME IInv, [Next]_vars PROVE IInv'
  OBVIOUS
<1>1. CASE Administer \/ BlockSource
  BY <1>1, RequestQuiet, QuietStep
<1>2. CASE Coordinate
  BY <1>2, CoordinateQuiet, QuietStep
<1>3. ASSUME NEW e \in Executors, Works(e) PROVE IInv'
  BY <1>3, ReadMoves, DiscoverMoves, ProcessMoves, ConcludeMoves, MoveStep, EndQuiet, QuietStep DEF Works
<1>4. ASSUME NEW e \in Executors, FailStep(e) \/ Crash(e) PROVE IInv'
  BY <1>4, EndQuiet, QuietStep
<1>5. ASSUME NEW s \in DOMAIN steps, Recover(s) PROVE IInv'
  BY <1>5, RecoverQuiet, QuietStep
<1>6. ASSUME NEW s \in DOMAIN steps, NEW e \in Executors, Claim(e, s) PROVE IInv'
  BY <1>6, ClaimQuiet, QuietStep
<1>7. CASE UNCHANGED vars
  BY <1>7, StutterKeeps
<1> QED BY <1>1, <1>2, <1>3, <1>4, <1>5, <1>6, <1>7 DEF Next

\* The inductive invariant holds in every state a cycle reaches.
THEOREM Invariance == Spec => []IInv
  BY InitIInv, NextKeeps, PTL DEF Spec

\* Every variable keeps to its type: checkpoints name pages, bodies name steps.
THEOREM TypeCorrect == Spec => []TypeOK
  BY Invariance, PTL DEF IInv

\* However requests, coordinators and executors interleave, a cycle has at most one
\* step queued or running.
THEOREM OneStep == Spec => []OneActiveStep
  BY Invariance, PTL DEF IInv

\* The copy of the row an executor works on is never stale while it owns its step.
THEOREM SeesRow == Spec => []BodySeesItsRow
  BY Invariance, PTL DEF IInv

\* What precedes the cursor is known: the coverage a cycle reports is never ahead of
\* its candidates.
THEOREM Covers == Spec => []CursorCoversKnown
  BY Invariance, PTL DEF IInv

-----------------------------------------------------------------------------
(* What a step may do to the checkpoint, the candidates and the status. *)

\* Only the three actions of the owner move the row, and only of a ready cycle.
LEMMA MoverIsReady ==
  ASSUME IInv, NEW e \in Executors, Discover(e) \/ ProcessCandidate(e) \/ ConcludeBatch(e)
  PROVE  status = "ready"
  BY DEF IInv, BodySeesItsRow, Discover, ProcessCandidate, ConcludeBatch

\* Everything else leaves the checkpoint and the candidates alone, an end included.
Other ==
    \/ Administer \/ BlockSource \/ Coordinate
    \/ \E e \in Executors : ReadSync(e) \/ FinishStep(e) \/ FailStep(e) \/ Crash(e)
    \/ \E s \in DOMAIN steps : Recover(s) \/ \E e \in Executors : Claim(e, s)
    \/ UNCHANGED vars

\* None of them writes the row's checkpoint or a candidate.
LEMMA OtherStays == ASSUME Other PROVE UNCHANGED <<checkpoint, known>>
  BY DEF Other, Administer, ContinueSync, PauseSync, ResumeSync, CancelCycle, RetryStep, CancelStep,
         HoldStep, ReleaseStep, ResumeSource, BlockSource, Coordinate, ReadSync, FinishStep, FailStep,
         Crash, Recover, Claim, vars

\* A step is one of those, or one of the owner's three.
LEMMA NextCases ==
  [Next]_vars => Other \/ \E e \in Executors : Discover(e) \/ ProcessCandidate(e) \/ ConcludeBatch(e)
  BY DEF Next, Other, Works

\* How the status and the verdict of the coordinator may change there.
LEMMA OtherStatus ==
  ASSUME IInv, Other
  PROVE  \/ UNCHANGED <<status, notAdvancing>>
         \/ status \notin Ends /\ ~notAdvancing' /\ status' \in {"ready", "paused", "blocked"}
         \/ status \notin Ends /\ status' = "cancelled"
         \/ status = "ready" /\ status' = "limited" /\ notAdvancing'
<1> USE DEF IInv, StallIsLimited, Ends
<1>1. CASE PauseSync
  BY <1>1 DEF PauseSync
<1>2. CASE ResumeSync
  BY <1>2 DEF ResumeSync
<1>3. CASE CancelCycle
  BY <1>3 DEF CancelCycle, TypeOK, Status
<1>4. CASE CoordinatePause
  BY <1>4 DEF CoordinatePause
<1>5. CASE CoordinateFailure
  BY <1>5 DEF CoordinateFailure, Coordinable
<1>6. CASE CoordinateStall
  BY <1>6 DEF CoordinateStall, Coordinable
<1>7. CASE CoordinateSuccessor \/ ContinueSync \/ ResumeSource \/ BlockSource \/ UNCHANGED vars
  BY <1>7 DEF CoordinateSuccessor, ContinueSync, ResumeSource, BlockSource, vars, rowVars
<1>8. CASE \E s \in DOMAIN steps : RetryStep(s) \/ CancelStep(s) \/ HoldStep(s) \/ ReleaseStep(s) \/ Recover(s)
  BY <1>8 DEF RetryStep, CancelStep, HoldStep, ReleaseStep, Recover, rowVars
<1>9. CASE \E e \in Executors : ReadSync(e) \/ FinishStep(e) \/ FailStep(e) \/ Crash(e)
  BY <1>9 DEF ReadSync, FinishStep, FailStep, Crash, rowVars
<1>10. CASE \E s \in DOMAIN steps, e \in Executors : Claim(e, s)
  BY <1>10 DEF Claim, rowVars
<1> QED BY <1>1, <1>2, <1>3, <1>4, <1>5, <1>6, <1>7, <1>8, <1>9, <1>10 DEF Other, Administer, Coordinate

\* Nothing moves a cycle that is paused, blocked or over.
THEOREM PausedStandsStill == Spec => StandsStill
<1>1. IInv /\ [Next]_vars => (status # "ready" => UNCHANGED <<checkpoint, known>>)
  BY NextCases, OtherStays, MoverIsReady
<1>2. IInv /\ [Next]_vars => [status # "ready" => UNCHANGED <<checkpoint, known>>]_vars
  BY <1>1
<1> QED BY <1>2, Invariance, PTL DEF Spec, StandsStill

\* A cycle that is over stays over.
THEOREM EndsForGood == Spec => EndIsFinal
<1>1. IInv /\ [Next]_vars => (status \in Ends => status' = status)
  BY NextCases, OtherStatus, MoverIsReady DEF Ends
<1>2. IInv /\ [Next]_vars => [(status \in Ends) => (status' = status)]_vars
  BY <1>1
<1> QED BY <1>2, Invariance, PTL DEF Spec, EndIsFinal

-----------------------------------------------------------------------------
(* The cycle implements the walk. *)

Outcome == IF status = "cancelled" \/ notAdvancing THEN "stopped"
           ELSE IF status \in {"completed", "limited"} THEN "complete" ELSE "open"

\* A new cycle is at the start of its walk.
LEMMA InitWalks == Init => Walk!WalkInit
  BY DEF Init, Walk!WalkInit, StartOf

\* All but the owner's actions stutter or stop the walk.
LEMMA OtherWalks == ASSUME IInv, Other PROVE [Walk!WalkNext]_(Walk!walkVars)
<1>1. UNCHANGED <<checkpoint, known>>
  BY OtherStays
<1>2. Outcome' = Outcome \/ (Outcome = "open" /\ Outcome' = "stopped")
  BY OtherStatus DEF Outcome, Ends, IInv, StallIsLimited
<1>3. CASE Outcome' = Outcome
  BY <1>1, <1>3 DEF Walk!walkVars, Outcome
<1>4. CASE Outcome = "open" /\ Outcome' = "stopped"
  BY <1>1, <1>4 DEF Walk!WalkNext, Walk!Stop, Outcome
<1> QED BY <1>2, <1>3, <1>4

\* The walk of a ready cycle goes on.
LEMMA ReadyIsOpen == ASSUME IInv, status = "ready" PROVE ~notAdvancing /\ Outcome = "open"
  BY DEF IInv, StallIsLimited, Outcome

\* Discovery stores the listing of a page that has none.
LEMMA DiscoverWalks == ASSUME IInv, NEW e \in Executors, Discover(e) PROVE Walk!StoreListing
<1>1. status = "ready" /\ Outcome = "open" /\ UNCHANGED <<status, notAdvancing, known>>
  BY MoverIsReady, ReadyIsOpen DEF Discover, rowVars
<1>2. body[e].seen \in Checkpoints /\ checkpoint \in Checkpoints
      /\ body[e].seen.cursor = 0 /\ body[e].seen.snapshot = <<>>
      /\ checkpoint = [body[e].seen EXCEPT !.cursor = @ + 0]
  BY DEF IInv, TypeOK, Body, BodySeesItsRow, BodyConsistent, Discover
<1>3. checkpoint = body[e].seen
  <2>1. [body[e].seen EXCEPT !.cursor = @ + 0] = body[e].seen
    BY <1>2 DEF Checkpoints
  <2> QED BY <1>2, <2>1
<1>4. \E rows \in Listings[checkpoint.page] : checkpoint' = [checkpoint EXCEPT !.snapshot = rows]
  BY <1>3 DEF Discover
<1> QED BY <1>1, <1>2, <1>3, <1>4 DEF Walk!StoreListing, Outcome

\* A processed candidate is the next one of the row.
LEMMA ProcessWalks == ASSUME IInv, NEW e \in Executors, ProcessCandidate(e) PROVE Walk!VisitCandidate
<1>1. body[e].phase = "batch" /\ Fenced(e) /\ body[e].done < BatchLength(body[e].seen)
  BY DEF ProcessCandidate
<1>2. /\ body[e].seen \in Checkpoints /\ body[e].done \in Nat /\ status = "ready"
      /\ checkpoint.cursor = body[e].seen.cursor + body[e].done
      /\ checkpoint.snapshot = body[e].seen.snapshot
      /\ BatchLength(body[e].seen) \in Nat /\ body[e].seen.cursor <= Len(body[e].seen.snapshot)
  BY <1>1, BatchFacts
<1>3. body[e].seen.cursor \in Nat /\ Len(body[e].seen.snapshot) \in Nat
  BY <1>2 DEF Checkpoints
<1>4. body[e].seen.cursor + BatchLength(body[e].seen) <= Len(body[e].seen.snapshot)
  BY <1>2, BatchBound
<1>5. checkpoint.cursor < Len(checkpoint.snapshot)
  BY <1>1, <1>2, <1>3, <1>4
<1>6. /\ checkpoint' = [checkpoint EXCEPT !.cursor = @ + 1]
      /\ known' = known \cup {body[e].seen.snapshot[body[e].seen.cursor + body[e].done + 1]}
      /\ UNCHANGED <<status, notAdvancing>>
  BY DEF ProcessCandidate, rowVars
<1>7. known' = known \cup {checkpoint.snapshot[checkpoint.cursor + 1]}
  BY <1>2, <1>6
<1>8. Outcome = "open" /\ UNCHANGED Outcome
  BY <1>2, <1>6, ReadyIsOpen DEF Outcome
<1> QED BY <1>5, <1>6, <1>7, <1>8 DEF Walk!VisitCandidate, Outcome

\* The batch is done: the copy tells whether the page of the row is.
LEMMA FinishedPage ==
  ASSUME IInv, NEW e \in Executors, ConcludeBatch(e), PageFinished(body[e].seen)
  PROVE  checkpoint.cursor = Len(checkpoint.snapshot)
<1>1. body[e].phase = "batch" /\ Fenced(e) /\ body[e].done = BatchLength(body[e].seen)
  BY DEF ConcludeBatch
<1>2. /\ body[e].seen \in Checkpoints
      /\ checkpoint.cursor = body[e].seen.cursor + body[e].done
      /\ checkpoint.snapshot = body[e].seen.snapshot
      /\ BatchLength(body[e].seen) \in Nat /\ body[e].seen.cursor <= Len(body[e].seen.snapshot)
  BY <1>1, BatchFacts
<1>3. body[e].seen.cursor \in Nat /\ Len(body[e].seen.snapshot) \in Nat
  BY <1>2 DEF Checkpoints
<1>4. body[e].seen.cursor + BatchLength(body[e].seen) <= Len(body[e].seen.snapshot)
  BY <1>2, BatchBound
<1> QED BY <1>1, <1>2, <1>3, <1>4 DEF PageFinished

\* The end of a batch stutters, turns the page, or completes the walk.
LEMMA ConcludeWalks ==
  ASSUME IInv, NEW e \in Executors, ConcludeBatch(e) PROVE [Walk!WalkNext]_(Walk!walkVars)
<1>1. status = "ready" /\ ~notAdvancing /\ Outcome = "open" /\ UNCHANGED <<notAdvancing, known>>
  BY MoverIsReady, ReadyIsOpen DEF ConcludeBatch
<1>2. body[e].seen \in Checkpoints /\ checkpoint \in Checkpoints /\ checkpoint.page = body[e].seen.page
  BY BatchFacts DEF ConcludeBatch
<1>3. CASE UNCHANGED <<status, checkpoint>>
  BY <1>1, <1>3 DEF Walk!walkVars
<1>4. CASE /\ PageFinished(body[e].seen) /\ body[e].seen.page < Pages
           /\ checkpoint' = StartOf(checkpoint.page + 1) /\ UNCHANGED status
  <2>1. checkpoint.cursor = Len(checkpoint.snapshot)
    BY <1>4, FinishedPage
  <2>2. Walk!TurnPage
    BY <1>1, <1>2, <1>4, <2>1 DEF Walk!TurnPage, Walk!PageDone, StartOf, Outcome
  <2> QED BY <2>2 DEF Walk!WalkNext
<1>5. CASE /\ PageFinished(body[e].seen) /\ body[e].seen.page >= Pages
           /\ status' \in {"completed", "limited"} /\ UNCHANGED checkpoint
  <2>1. checkpoint.cursor = Len(checkpoint.snapshot)
    BY <1>5, FinishedPage
  <2>2. checkpoint.page = Pages
    BY <1>2, <1>5, CyclePagesAssumption DEF Checkpoints
  <2>3. Walk!Complete
    BY <1>1, <1>5, <2>1, <2>2 DEF Walk!Complete, Walk!PageDone, Outcome
  <2> QED BY <2>3 DEF Walk!WalkNext
<1> QED BY <1>3, <1>4, <1>5 DEF ConcludeBatch

\* Whatever happens to its steps, a cycle visits the candidates of each listing in
\* order, each once, and is complete only after the last one of the last page.
THEOREM Refinement == Spec => WalkSpec
<1>1. IInv /\ [Next]_vars => [Walk!WalkNext]_(Walk!walkVars)
  <2> SUFFICES ASSUME IInv, [Next]_vars PROVE [Walk!WalkNext]_(Walk!walkVars)
    OBVIOUS
  <2>1. CASE Other
    BY <2>1, OtherWalks
  <2>2. ASSUME NEW e \in Executors, Discover(e) PROVE Walk!WalkNext
    BY <2>2, DiscoverWalks DEF Walk!WalkNext
  <2>3. ASSUME NEW e \in Executors, ProcessCandidate(e) PROVE Walk!WalkNext
    BY <2>3, ProcessWalks DEF Walk!WalkNext
  <2>4. ASSUME NEW e \in Executors, ConcludeBatch(e) PROVE [Walk!WalkNext]_(Walk!walkVars)
    BY <2>4, ConcludeWalks
  <2> QED BY <2>1, <2>2, <2>3, <2>4, NextCases
<1> QED BY <1>1, InitWalks, Invariance, PTL DEF Spec, WalkSpec, Walk!WalkSpec
-----------------------------------------------------------------------------
(* What comes after a step.  A step that did its batch has moved the           *)
(* checkpoint beyond that of every step so far, so its successor has a new key *)
(* and the coordinator sees an advance; that needs the checkpoints of the      *)
(* steps to be ordered behind the one of the row (HashesReached) and the last  *)
(* step to be the newest one (NewestLast).                                     *)

\* The walk has come to or beyond c.
Reached(c) ==
    \/ c.page < checkpoint.page
    \/ c.page = checkpoint.page /\ c = StartOf(c.page)
    \/ c.page = checkpoint.page /\ c.snapshot = checkpoint.snapshot /\ c.cursor <= checkpoint.cursor

HashesReached == \A s \in DOMAIN steps : Reached(steps[s].checkpointHash)

\* The last step is the newest, and no other is active.
NewestLast == latest = Len(steps) /\ Active \subseteq {Len(steps)}

\* No step was enqueued at the checkpoint.
Fresh == \A s \in DOMAIN steps : steps[s].checkpointHash # checkpoint

\* An owner that did a candidate, or a whole batch, has moved the checkpoint.
HasAdvanced(e) ==
    body[e].phase # "idle" /\ Fenced(e) =>
        /\ body[e].phase = "batch" /\ body[e].done > 0 => Fresh
        /\ body[e].phase = "batched" => status \in Ends \/ Fresh
Advanced == \A e \in Executors : HasAdvanced(e)

\* A completed step says how, and one that did its batch left a new checkpoint.
EndsMarked == \A s \in DOMAIN steps : steps[s].status = "completed" => steps[s].stage # None
BatchAdvanced ==
    status \notin Ends /\ Last.status = "completed" /\ Last.stage = "catalog_batch" => Fresh

\* Where a successor was enqueued, a last step of another checkpoint is a retry.
Repeats ==
    AutoKeyTaken /\ Last.checkpointHash # checkpoint =>
        \E s \in DOMAIN steps :
            s # latest /\ steps[s].status = "failed" /\ steps[s].checkpointHash = Last.checkpointHash

JInv == IInv /\ HashesReached /\ NewestLast /\ Advanced /\ EndsMarked /\ BatchAdvanced /\ Repeats

-----------------------------------------------------------------------------
(* What a step does to the rows: no new one, or one more.                      *)

\* The rows keep their keys, and one that is over stays as it is.
Kept ==
    /\ DOMAIN steps' = DOMAIN steps
    /\ \A s \in DOMAIN steps :
          /\ steps'[s].checkpointHash = steps[s].checkpointHash /\ steps'[s].auto = steps[s].auto
          /\ s \notin Active => steps'[s].status = steps[s].status /\ steps'[s].stage = steps[s].stage
    /\ latest' = latest \/ latest' \in Active

NoneCompletes == \A s \in DOMAIN steps : steps'[s].status = "completed" => steps[s].status = "completed"

\* A new step is of this checkpoint or of a failed step, the coordinator's of this one.
Added ==
    /\ NoActiveStep
    /\ UNCHANGED checkpoint
    /\ \E h \in Checkpoints, a \in BOOLEAN :
          /\ Enqueue(h, a)
          /\ \/ h = checkpoint
             \/ ~a /\ \E s \in DOMAIN steps : steps[s].status = "failed" /\ steps[s].checkpointHash = h

\* Holding and releasing keep the rows.
LEMMA HoldKeeps ==
  ASSUME IInv, NEW S \in SUBSET Queued, NEW h \in Holds, SetHold(S, h)
  PROVE  Kept /\ NoneCompletes
<1>1. ASSUME NEW s \in DOMAIN steps
      PROVE  /\ steps'[s].checkpointHash = steps[s].checkpointHash /\ steps'[s].auto = steps[s].auto
             /\ steps'[s].status = steps[s].status /\ steps'[s].stage = steps[s].stage
  <2>1. steps[s] \in Step /\ steps'[s] \in {steps[s], [steps[s] EXCEPT !.hold = h]}
    BY DEF SetHold, IInv, TypeOK
  <2> QED BY <2>1 DEF Step
<1>2. DOMAIN steps' = DOMAIN steps /\ (latest' = latest \/ latest' \in Active)
  BY DEF SetHold, Active
<1> QED BY <1>1, <1>2 DEF Kept, NoneCompletes

\* An active step that does not complete keeps its key.
LEMMA BecomesKeeps ==
  ASSUME IInv, NEW s \in Active, NEW st \in {"queued", "failed", "cancelled"}, NEW h \in Holds,
         Becomes(s, st, h)
  PROVE  Kept /\ NoneCompletes
<1>1. s \in DOMAIN steps /\ steps[s] \in Step
  BY DEF Active, Queued, Running, IInv, TypeOK
<1>2. /\ steps' = [steps EXCEPT ![s] = [steps[s] EXCEPT !.status = st, !.hold = h, !.owner = None]]
      /\ latest' = s
  BY <1>1 DEF Becomes, Step
<1>3. steps'[s] = [steps[s] EXCEPT !.status = st, !.hold = h, !.owner = None]
  BY <1>1, <1>2
<1>4. /\ steps'[s].checkpointHash = steps[s].checkpointHash /\ steps'[s].auto = steps[s].auto
      /\ steps'[s].status = st
  BY <1>1, <1>3 DEF Step
<1>5. DOMAIN steps' = DOMAIN steps /\ \A t \in DOMAIN steps : t # s => steps'[t] = steps[t]
  BY <1>2
<1> QED BY <1>1, <1>2, <1>4, <1>5 DEF Kept, NoneCompletes

\* Nothing happens to the rows.
LEMMA NothingKeeps == ASSUME UNCHANGED <<steps, latest>> PROVE Kept /\ NoneCompletes
  BY DEF Kept, NoneCompletes
\* A request keeps the rows or adds one.
LEMMA RequestRows == ASSUME IInv, Administer \/ BlockSource PROVE (Kept /\ NoneCompletes) \/ Added
<1> USE DEF IInv
<1>1. CASE ContinueSync
  BY <1>1, AutomaticAssumption DEF ContinueSync, Added, TypeOK
<1>2. CASE \E s \in DOMAIN steps : RetryStep(s)
  <2> PICK s \in DOMAIN steps : RetryStep(s)
    BY <1>2
  <2>1. steps[s].checkpointHash \in Checkpoints
    <3>1. steps[s] \in Step
      BY DEF TypeOK
    <3> QED BY <3>1 DEF Step
  <2> QED BY <2>1 DEF RetryStep, Added
<1>3. CASE PauseSync
  BY <1>3, HoldKeeps DEF PauseSync, QueuedHeld, Holds
<1>4. CASE ResumeSync
  <2>1. CASE NoActiveStep
    BY <1>4, <2>1 DEF ResumeSync, Added, TypeOK
  <2>2. CASE ~NoActiveStep
    BY <1>4, <2>2, HoldKeeps DEF ResumeSync, QueuedHeld, Holds
  <2> QED BY <2>1, <2>2
<1>5. CASE CancelCycle
  <2>1. ASSUME NEW s \in DOMAIN steps
        PROVE  /\ steps'[s].checkpointHash = steps[s].checkpointHash /\ steps'[s].auto = steps[s].auto
               /\ s \notin Queued => steps'[s] = steps[s]
               /\ s \in Queued => steps'[s].status = "cancelled"
    <3>1. steps[s] \in Step /\ steps'[s] = IF s \in Queued THEN [steps[s] EXCEPT !.status = "cancelled"] ELSE steps[s]
      BY <1>5 DEF CancelCycle, TypeOK
    <3> QED BY <3>1 DEF Step
  <2>2. DOMAIN steps' = DOMAIN steps /\ (latest' = latest \/ latest' \in Active)
    BY <1>5 DEF CancelCycle, Active
  <2> QED BY <2>1, <2>2 DEF Kept, NoneCompletes, Active
<1>6. CASE \E s \in DOMAIN steps : CancelStep(s)
  <2> PICK s \in DOMAIN steps : CancelStep(s)
    BY <1>6
  <2>1. s \in Active /\ steps[s].hold \in Holds
    <3>1. steps[s] \in Step
      BY DEF TypeOK
    <3> QED BY <3>1 DEF CancelStep, Active, Step
  <2> QED BY <2>1, BecomesKeeps DEF CancelStep
<1>7. CASE \E s \in DOMAIN steps : HoldStep(s) \/ ReleaseStep(s)
  <2> PICK s \in DOMAIN steps : HoldStep(s) \/ ReleaseStep(s)
    BY <1>7
  <2>1. {s} \in SUBSET Queued /\ "admin" \in Holds /\ None \in Holds
    BY DEF Holds, HoldStep, ReleaseStep, QueuedHeld
  <2> QED BY <2>1, HoldKeeps DEF HoldStep, ReleaseStep
<1>8. CASE ResumeSource
  BY <1>8, HoldKeeps DEF ResumeSource, QueuedHeld, Holds
<1>9. CASE BlockSource
  BY <1>9, HoldKeeps DEF BlockSource, QueuedHeld, Holds
<1> QED BY <1>1, <1>2, <1>3, <1>4, <1>5, <1>6, <1>7, <1>8, <1>9 DEF Administer

\* The acquired step keeps its key.
LEMMA ClaimRows ==
  ASSUME IInv, NEW e \in Executors, NEW s \in DOMAIN steps, Claim(e, s) PROVE Kept /\ NoneCompletes
<1>1. s \in Active /\ steps[s] \in Step
  BY DEF Claim, QueuedHeld, Active, IInv, TypeOK
<1>2. steps' = [steps EXCEPT ![s].status = "running", ![s].owner = e] /\ latest' = s
  BY DEF Claim
<1>3. steps'[s] = [steps[s] EXCEPT !.status = "running", !.owner = e]
  BY <1>1, <1>2 DEF Step
<1>4. /\ steps'[s].checkpointHash = steps[s].checkpointHash /\ steps'[s].auto = steps[s].auto
      /\ steps'[s].status = "running"
  BY <1>1, <1>3 DEF Step
<1>5. DOMAIN steps' = DOMAIN steps /\ \A t \in DOMAIN steps : t # s => steps'[t] = steps[t]
  BY <1>2
<1> QED BY <1>1, <1>2, <1>4, <1>5 DEF Kept, NoneCompletes

\* What the step of a fenced body completes with.
LEMMA FinishRows ==
  ASSUME IInv, NEW e \in Executors, FinishStep(e), Fenced(e)
  PROVE  /\ Kept
         /\ latest' = body[e].step /\ body[e].step \in Running
         /\ steps'[latest'].stage = IF body[e].phase = "stage" THEN "not_ready" ELSE "catalog_batch"
         /\ \A s \in DOMAIN steps : s # body[e].step => steps'[s] = steps[s]
<1> DEFINE s == body[e].step
           stg == IF body[e].phase = "stage" THEN "not_ready" ELSE "catalog_batch"
<1>1. s \in Running /\ s \in Active /\ s \in DOMAIN steps /\ steps[s] \in Step
  BY DEF FinishStep, IInv, TypeOK, Fenced, Active, Running
<1>2. steps' = [steps EXCEPT ![s].status = "completed", ![s].owner = None, ![s].stage = stg] /\ latest' = s
  BY DEF FinishStep
<1>3. steps'[s] = [steps[s] EXCEPT !.status = "completed", !.owner = None, !.stage = stg]
  BY <1>1, <1>2 DEF Step
<1>4. /\ steps'[s].checkpointHash = steps[s].checkpointHash /\ steps'[s].auto = steps[s].auto
      /\ steps'[s].stage = stg
  BY <1>1, <1>3 DEF Step
<1>5. DOMAIN steps' = DOMAIN steps /\ \A t \in DOMAIN steps : t # s => steps'[t] = steps[t]
  BY <1>2
<1>6. Kept
  BY <1>1, <1>2, <1>4, <1>5 DEF Kept
<1> QED BY <1>1, <1>2, <1>4, <1>5, <1>6

\* The rows after any step: kept, one more, or one of them finished by its owner.
LEMMA RowCases ==
  ASSUME IInv, [Next]_vars
  PROVE  \/ Kept /\ NoneCompletes
         \/ Added
         \/ \E e \in Executors : FinishStep(e) /\ Fenced(e)
<1> USE DEF IInv
<1>1. CASE Administer \/ BlockSource
  BY <1>1, RequestRows
<1>2. CASE Coordinate
  <2>1. CASE CoordinateSuccessor
    BY <1>2, <2>1 DEF CoordinateSuccessor, Coordinate, Coordinable, Added, TypeOK
  <2>2. CASE CoordinatePause \/ CoordinateFailure \/ CoordinateStall
    BY <2>2, NothingKeeps DEF CoordinatePause, CoordinateFailure, CoordinateStall
  <2> QED BY <1>2, <2>1, <2>2 DEF Coordinate
<1>3. ASSUME NEW e \in Executors, ReadSync(e) \/ Discover(e) \/ ProcessCandidate(e) \/ ConcludeBatch(e) \/ Crash(e)
      PROVE  Kept /\ NoneCompletes
  BY <1>3, NothingKeeps DEF ReadSync, Discover, ProcessCandidate, ConcludeBatch, Crash
<1>4. ASSUME NEW e \in Executors, FinishStep(e), ~Fenced(e) PROVE Kept /\ NoneCompletes
  BY <1>4, NothingKeeps DEF FinishStep
<1>5. ASSUME NEW e \in Executors, FailStep(e) PROVE Kept /\ NoneCompletes
  <2>1. CASE Fenced(e)
    <3>1. body[e].step \in Active
      BY <1>5, <2>1 DEF FailStep, TypeOK, Fenced, Active, Running
    <3> QED BY <1>5, <2>1, <3>1, BecomesKeeps DEF FailStep, Holds
  <2>2. CASE ~Fenced(e)
    BY <1>5, <2>2, NothingKeeps DEF FailStep
  <2> QED BY <2>1, <2>2
<1>6. ASSUME NEW s \in DOMAIN steps, Recover(s) PROVE Kept /\ NoneCompletes
  BY <1>6, BecomesKeeps DEF Recover, Active, Holds
<1>7. ASSUME NEW s \in DOMAIN steps, NEW e \in Executors, Claim(e, s) PROVE Kept /\ NoneCompletes
  BY <1>7, ClaimRows
<1>8. CASE UNCHANGED vars
  BY <1>8, NothingKeeps DEF vars
<1> QED BY <1>1, <1>2, <1>3, <1>4, <1>5, <1>6, <1>7, <1>8 DEF Next, Works
-----------------------------------------------------------------------------
(* What a step does to the checkpoint: nothing, or it goes beyond all that was *)
(* reached.                                                                    *)

Onward == \A c \in Checkpoints : Reached(c) => Reached(c)' /\ c # checkpoint'

\* The row has reached its own checkpoint.
LEMMA ReachesItself == ASSUME checkpoint \in Checkpoints PROVE Reached(checkpoint)
  BY DEF Reached, Checkpoints

\* A stored listing is a new checkpoint unless it is empty.
LEMMA DiscoverOnward ==
  ASSUME IInv, NEW e \in Executors, Discover(e) PROVE UNCHANGED checkpoint \/ Onward
<1>1. /\ body[e].seen \in Checkpoints /\ checkpoint \in Checkpoints
      /\ body[e].seen.cursor = 0 /\ body[e].seen.snapshot = <<>> /\ body[e].done = 0
      /\ checkpoint = [body[e].seen EXCEPT !.cursor = @ + body[e].done]
  BY DEF IInv, TypeOK, Body, BodySeesItsRow, BodyConsistent, Discover
<1>2. checkpoint.cursor = 0 /\ checkpoint.snapshot = <<>>
  BY <1>1 DEF Checkpoints
<1>3. PICK rows : checkpoint' = [checkpoint EXCEPT !.snapshot = rows]
  BY DEF Discover
<1>4. /\ checkpoint'.page = checkpoint.page /\ checkpoint'.cursor = 0 /\ checkpoint'.snapshot = rows
      /\ rows = <<>> => checkpoint' = checkpoint
  BY <1>1, <1>2, <1>3 DEF Checkpoints
<1>5. CASE rows # <<>>
  <2> SUFFICES ASSUME NEW c \in Checkpoints, Reached(c) PROVE Reached(c)' /\ c # checkpoint'
    BY DEF Onward
  <2>1. CASE c.page < checkpoint.page
    BY <1>4, <2>1, <1>1 DEF Reached, Checkpoints
  <2>2. CASE c.page = checkpoint.page /\ c = StartOf(c.page)
    BY <1>4, <1>5, <2>2 DEF Reached, StartOf
  <2>3. CASE c.page = checkpoint.page /\ c.snapshot = checkpoint.snapshot /\ c.cursor <= checkpoint.cursor
    <3>1. c = StartOf(c.page)
      BY <1>2, <2>3 DEF StartOf, Checkpoints
    <3> QED BY <2>2, <2>3, <3>1
  <2> QED BY <2>1, <2>2, <2>3 DEF Reached
<1> QED BY <1>4, <1>5

\* A candidate moves the cursor.
LEMMA ProcessOnward ==
  ASSUME IInv, NEW e \in Executors, ProcessCandidate(e) PROVE Onward /\ checkpoint' # checkpoint
<1>1. checkpoint \in Checkpoints
  BY DEF IInv, TypeOK
<1>2. checkpoint' = [checkpoint EXCEPT !.cursor = @ + 1]
  BY DEF ProcessCandidate
<1>3. /\ checkpoint'.page = checkpoint.page /\ checkpoint'.snapshot = checkpoint.snapshot
      /\ checkpoint'.cursor = checkpoint.cursor + 1 /\ checkpoint.cursor \in Nat /\ checkpoint.page \in Nat
  BY <1>1, <1>2, CyclePagesAssumption DEF Checkpoints
<1>4. ASSUME NEW c \in Checkpoints, Reached(c) PROVE Reached(c)' /\ c # checkpoint'
  <2>1. c.cursor \in Nat /\ c.page \in Nat
    BY CyclePagesAssumption DEF Checkpoints
  <2>2. CASE c.page < checkpoint.page
    BY <1>3, <2>1, <2>2 DEF Reached
  <2>3. CASE c.page = checkpoint.page /\ c = StartOf(c.page)
    <3>1. c.cursor = 0
      BY <2>3 DEF StartOf
    <3> QED BY <1>3, <2>1, <2>3, <3>1 DEF Reached
  <2>4. CASE c.page = checkpoint.page /\ c.snapshot = checkpoint.snapshot /\ c.cursor <= checkpoint.cursor
    BY <1>3, <2>1, <2>4 DEF Reached
  <2> QED BY <1>4, <2>2, <2>3, <2>4 DEF Reached
<1> QED BY <1>3, <1>4 DEF Onward

\* A finished page is left behind; a batch that is not the last of its page or cycle
\* had a candidate.
LEMMA ConcludeOnward ==
  ASSUME IInv, NEW e \in Executors, ConcludeBatch(e)
  PROVE  \/ Onward /\ UNCHANGED status
         \/ UNCHANGED checkpoint /\ status' \in Ends
         \/ UNCHANGED <<checkpoint, status>> /\ body[e].done > 0
<1>1. /\ body[e].seen \in Checkpoints /\ body[e].done \in Nat /\ checkpoint \in Checkpoints
      /\ body[e].done = BatchLength(body[e].seen)
  BY BatchFacts DEF ConcludeBatch
<1>2. body[e].seen.cursor \in Nat /\ Len(body[e].seen.snapshot) \in Nat
  BY <1>1 DEF Checkpoints
<1>3. CASE ~PageFinished(body[e].seen) /\ UNCHANGED <<status, checkpoint>>
  BY <1>1, <1>2, <1>3, BatchAssumption DEF PageFinished, BatchLength
<1>4. CASE checkpoint' = StartOf(checkpoint.page + 1) /\ UNCHANGED status
  <2>1. checkpoint'.page = checkpoint.page + 1 /\ checkpoint.page \in Nat
    BY <1>1, <1>4, CyclePagesAssumption DEF StartOf, Checkpoints
  <2>2. ASSUME NEW c \in Checkpoints, Reached(c) PROVE c.page < checkpoint'.page /\ c.page \in Nat
    BY <2>1, <2>2, CyclePagesAssumption DEF Reached, Checkpoints
  <2>3. ASSUME NEW c \in Checkpoints, Reached(c) PROVE Reached(c)' /\ c # checkpoint'
    BY <2>1, <2>2, <2>3 DEF Reached
  <2> QED BY <1>4, <2>3 DEF Onward
<1>5. CASE UNCHANGED checkpoint /\ status' \in {"completed", "limited"}
  BY <1>5 DEF Ends
<1> QED BY <1>3, <1>4, <1>5 DEF ConcludeBatch

\* Whoever moves the checkpoint owns a running step and leaves the rows alone.
Mover(e) == Discover(e) \/ ProcessCandidate(e) \/ ConcludeBatch(e)

LEMMA Motion ==
  ASSUME IInv, [Next]_vars
  PROVE  \/ UNCHANGED checkpoint
         \/ Onward /\ \E e \in Executors : Mover(e)
  BY NextCases, OtherStays, DiscoverOnward, ProcessOnward, ConcludeOnward DEF Mover

\* A mover owns its step, which is running.
LEMMA MoverOwns ==
  ASSUME IInv, NEW e \in Executors, Mover(e)
  PROVE  /\ body[e].phase \in {"discovery", "batch"} /\ Fenced(e)
         /\ body[e].step \in Running
         /\ UNCHANGED <<steps, latest>>
  BY DEF Mover, Discover, ProcessCandidate, ConcludeBatch, IInv, TypeOK, Fenced, Running
-----------------------------------------------------------------------------
(* The invariant is inductive, part by part. *)

\* A new cycle has one step, at its checkpoint.
LEMMA JInit == Init => JInv
<1> SUFFICES ASSUME Init PROVE JInv
  OBVIOUS
<1>1. IInv
  BY InitIInv
<1>2. /\ steps = <<NewStep(StartOf(1), FALSE)>> /\ latest = 1 /\ checkpoint = StartOf(1)
      /\ \A e \in Executors : body[e] = Idle
  BY DEF Init
<1>3. Len(steps) = 1 /\ DOMAIN steps = 1..1 /\ steps[1] = NewStep(StartOf(1), FALSE)
  BY <1>2
<1>4. /\ steps[1].checkpointHash = checkpoint /\ steps[1].status = "queued" /\ ~steps[1].auto
  BY <1>2, <1>3 DEF NewStep
<1>5. HashesReached
  <2>1. Reached(checkpoint)
    BY <1>1, ReachesItself DEF IInv, TypeOK
  <2>2. \A s \in DOMAIN steps : s = 1
    BY <1>3
  <2>3. \A s \in DOMAIN steps : Reached(steps[s].checkpointHash)
    BY <1>4, <2>1, <2>2
  <2> QED BY <2>3 DEF HashesReached
<1>6. NewestLast
  BY <1>2, <1>3 DEF NewestLast, Active, Queued, Running
<1>7. Advanced
  BY <1>2, IdleTyped DEF Advanced, HasAdvanced
<1>8. EndsMarked /\ BatchAdvanced /\ Repeats
  <2>1. \A s \in DOMAIN steps : s = 1
    BY <1>3
  <2> QED BY <1>2, <1>4, <2>1 DEF EndsMarked, BatchAdvanced, Repeats, AutoKeyTaken, Last
<1> QED BY <1>1, <1>5, <1>6, <1>7, <1>8 DEF JInv

\* The row that was added: the rest is as it was.
LEMMA AddedRow ==
  ASSUME IInv, Added
  PROVE  /\ Len(steps) \in Nat /\ DOMAIN steps = 1..Len(steps)
         /\ Len(steps') = Len(steps) + 1 /\ latest' = Len(steps) + 1
         /\ DOMAIN steps' = DOMAIN steps \cup {latest'} /\ latest' \notin DOMAIN steps
         /\ \A s \in DOMAIN steps : steps'[s] = steps[s]
         /\ steps'[latest'].status = "queued" /\ steps'[latest'].stage = None
         /\ \/ steps'[latest'].checkpointHash = checkpoint
            \/ /\ ~steps'[latest'].auto
               /\ \E s \in DOMAIN steps :
                     steps[s].status = "failed" /\ steps[s].checkpointHash = steps'[latest'].checkpointHash
<1>1. PICK h \in Checkpoints, a \in BOOLEAN :
        /\ Enqueue(h, a)
        /\ \/ h = checkpoint
           \/ ~a /\ \E s \in DOMAIN steps : steps[s].status = "failed" /\ steps[s].checkpointHash = h
  BY DEF Added
<1>2. steps \in Seq(Step) /\ NewStep(h, a) \in Step
  BY DEF IInv, TypeOK, NewStep, Step, Holds
<1>3. /\ steps' = Append(steps, NewStep(h, a)) /\ latest' = Len(steps) + 1
  BY <1>1 DEF Enqueue
<1> DEFINE row == NewStep(h, a)
<1>4. row.checkpointHash = h /\ row.auto = a /\ row.status = "queued" /\ row.stage = None
  BY DEF NewStep
<1> HIDE DEF row
<1>5. /\ Len(steps) \in Nat /\ DOMAIN steps = 1..Len(steps)
      /\ Len(steps') = Len(steps) + 1 /\ DOMAIN steps' = 1..(Len(steps) + 1)
      /\ \A s \in DOMAIN steps : steps'[s] = steps[s]
      /\ steps'[Len(steps) + 1] = row
  BY <1>2, <1>3 DEF row
<1> QED BY <1>1, <1>3, <1>4, <1>5

\* The rows that were kept are as many, and none becomes active.
LEMMA KeptRows ==
  ASSUME IInv, IInv', Kept
  PROVE  Len(steps') = Len(steps) /\ Active' \subseteq Active
<1>1. steps \in Seq(Step) /\ steps' \in Seq(Step)
  BY DEF IInv, TypeOK
<1>2. Len(steps') = Len(steps)
  BY <1>1 DEF Kept
<1> QED BY <1>2 DEF Kept, Active, Queued, Running

\* Finishing keeps the rows.
LEMMA RowsKeptOrAdded == ASSUME IInv, [Next]_vars PROVE Kept \/ Added
  BY RowCases, FinishRows

\* The last step stays the newest.
LEMMA NewestStep == ASSUME JInv, IInv', [Next]_vars PROVE NewestLast'
<1> USE DEF JInv
<1>1. CASE Kept
  BY <1>1, KeptRows DEF NewestLast, Kept
<1>2. CASE Added
  <2>1. \A s \in DOMAIN steps : s \notin Active'
    BY <1>2, AddedRow DEF Added, NoActiveStep, Active, Queued, Running
  <2> QED BY <1>2, <2>1, AddedRow DEF NewestLast, Active, Queued, Running
<1> QED BY <1>1, <1>2, RowsKeptOrAdded

\* The keys of the steps lie behind the checkpoint.
LEMMA HashesStep == ASSUME JInv, IInv', [Next]_vars PROVE HashesReached'
<1> USE DEF JInv
<1>1. ASSUME NEW s \in DOMAIN steps PROVE steps[s].checkpointHash \in Checkpoints
  <2>1. steps[s] \in Step
    BY DEF IInv, TypeOK
  <2> QED BY <2>1 DEF Step
<1>2. ASSUME NEW c \in Checkpoints, Reached(c) PROVE Reached(c)'
  BY <1>2, Motion DEF Onward, Reached
<1>3. CASE Kept
  BY <1>1, <1>2, <1>3 DEF HashesReached, Kept
<1>4. CASE Added
  <2>1. checkpoint \in Checkpoints /\ Reached(checkpoint)
    BY ReachesItself DEF IInv, TypeOK
  <2>2. Reached(steps'[latest'].checkpointHash)
    BY <1>4, <2>1, AddedRow DEF HashesReached
  <2>3. UNCHANGED checkpoint
    BY <1>4 DEF Added
  <2>4. ASSUME NEW s \in DOMAIN steps' PROVE Reached(steps'[s].checkpointHash)
    BY <1>4, <2>2, AddedRow DEF HashesReached
  <2> QED BY <2>3, <2>4 DEF HashesReached, Reached
<1> QED BY <1>3, <1>4, RowsKeptOrAdded

\* Beyond what was reached there is no step.
LEMMA OnwardIsFresh == ASSUME JInv, Kept, Onward PROVE Fresh'
<1>1. ASSUME NEW s \in DOMAIN steps PROVE steps[s].checkpointHash \in Checkpoints
  <2>1. steps[s] \in Step
    BY DEF JInv, IInv, TypeOK
  <2> QED BY <2>1 DEF Step
<1> QED BY <1>1 DEF JInv, HashesReached, Fresh, Onward, Kept

\* With the checkpoint and the keys as they were, so is this.
LEMMA FreshStays == ASSUME Kept, Fresh, UNCHANGED checkpoint PROVE Fresh'
  BY DEF Fresh, Kept

\* An end lasts.
LEMMA EndLasts == ASSUME IInv, [Next]_vars, status \in Ends PROVE status' = status
  BY NextCases, OtherStatus, MoverIsReady DEF Ends

\* Completed steps go on saying how.
LEMMA MarkedStep == ASSUME JInv, IInv', [Next]_vars PROVE EndsMarked'
<1> USE DEF JInv
<1>1. CASE Kept /\ NoneCompletes
  BY <1>1 DEF Kept, NoneCompletes, EndsMarked, Active, Queued, Running
<1>2. CASE Added
  BY <1>2, AddedRow DEF EndsMarked
<1>3. ASSUME NEW e \in Executors, FinishStep(e), Fenced(e) PROVE EndsMarked'
  BY <1>3, FinishRows DEF EndsMarked, Kept, None
<1> QED BY <1>1, <1>2, <1>3, RowCases

\* What a completed batch left is still there: who moves the checkpoint is running.
LEMMA BatchStep == ASSUME JInv, IInv', [Next]_vars PROVE BatchAdvanced'
<1> USE DEF JInv
<1> SUFFICES ASSUME status' \notin Ends, Last'.status = "completed", Last'.stage = "catalog_batch"
             PROVE  Fresh'
  BY DEF BatchAdvanced
<1>1. status \notin Ends
  BY EndLasts
<1>2. CASE Kept /\ NoneCompletes
  <2>1. latest' \in DOMAIN steps /\ steps[latest'].status = "completed"
    BY <1>2 DEF Kept, NoneCompletes, Last, IInv, TypeOK
  <2>2. latest' \notin Active
    BY <2>1 DEF Active, Queued, Running
  <2>3. latest' = latest /\ Last.status = "completed" /\ Last.stage = "catalog_batch"
    BY <1>2, <2>1, <2>2 DEF Kept, Last
  <2>4. Active = {}
    BY <2>2, <2>3 DEF NewestLast
  <2>5. UNCHANGED checkpoint
    BY <2>4, Motion, MoverOwns DEF Active
  <2> QED BY <1>1, <1>2, <2>3, <2>5, FreshStays DEF BatchAdvanced
<1>3. CASE Added
  BY <1>3, AddedRow DEF Last
<1>4. ASSUME NEW e \in Executors, FinishStep(e), Fenced(e) PROVE Fresh'
  <2>1. body[e].phase = "batched"
    BY <1>4, FinishRows DEF Last, FinishStep
  <2>2. Fresh
    BY <1>1, <1>4, <2>1 DEF Advanced, HasAdvanced
  <2>3. Kept /\ UNCHANGED checkpoint
    BY <1>4, FinishRows DEF FinishStep
  <2> QED BY <2>2, <2>3, FreshStays
<1> QED BY <1>2, <1>3, <1>4, RowCases

\* The failed step that a retry repeats stays failed.
LEMMA RepeatsStep == ASSUME JInv, IInv', [Next]_vars PROVE Repeats'
<1> USE DEF JInv
<1> SUFFICES ASSUME AutoKeyTaken', Last'.checkpointHash # checkpoint'
             PROVE  \E s \in DOMAIN steps' : /\ s # latest' /\ steps'[s].status = "failed"
                                             /\ steps'[s].checkpointHash = Last'.checkpointHash
  BY DEF Repeats
<1>1. CASE Kept
  <2>1. UNCHANGED checkpoint
    BY <1>1, Motion, OnwardIsFresh DEF AutoKeyTaken, Fresh
  <2>2. AutoKeyTaken
    BY <1>1, <2>1 DEF AutoKeyTaken, Kept
  <2>3. latest' = latest /\ latest \in DOMAIN steps
    BY <1>1, KeptRows, NewestStep DEF NewestLast, IInv, TypeOK
  <2>4. Last'.checkpointHash = Last.checkpointHash
    BY <1>1, <2>3 DEF Last, Kept
  <2>5. PICK s \in DOMAIN steps :
          s # latest /\ steps[s].status = "failed" /\ steps[s].checkpointHash = Last.checkpointHash
    BY <2>1, <2>2, <2>4 DEF Repeats
  <2>6. s \notin Active
    BY <2>5 DEF Active, Queued, Running
  <2> QED BY <1>1, <2>3, <2>4, <2>5, <2>6 DEF Kept
<1>2. CASE Added
  <2>1. UNCHANGED checkpoint
    BY <1>2 DEF Added
  <2> QED BY <1>2, <2>1, AddedRow DEF Last
<1> QED BY <1>1, <1>2, RowsKeptOrAdded
\* A body that another action than the owner's three leaves in a batch, or after it,
\* with something done was there before.
LEMMA OtherBodies ==
  ASSUME IInv, Other, NEW f \in Executors, body'[f].phase \in {"batch", "batched"},
         ~(body'[f].phase = "batch" /\ body'[f].done = 0)
  PROVE  body'[f] = body[f]
<1> USE DEF IInv, TypeOK
<1>1. CASE UNCHANGED body
  BY <1>1
<1>2. ASSUME NEW e \in Executors, NEW b, Become(e, b),
             b.phase \in {"idle", "claimed", "stage", "discovery"} \/ (b.phase = "batch" /\ b.done = 0)
      PROVE  body'[f] = body[f]
  BY <1>2 DEF Become
<1>3. CASE Administer \/ BlockSource \/ Coordinate \/ (\E s \in DOMAIN steps : Recover(s)) \/ UNCHANGED vars
  <2>1. UNCHANGED body
    BY <1>3 DEF Administer, ContinueSync, PauseSync, ResumeSync, CancelCycle, RetryStep, CancelStep,
                HoldStep, ReleaseStep, ResumeSource, BlockSource, Coordinate, Recover, vars
  <2> QED BY <1>1, <2>1
<1>4. ASSUME NEW e \in Executors, FinishStep(e) \/ FailStep(e) \/ Crash(e) PROVE body'[f] = body[f]
  <2>1. Become(e, Idle)
    BY <1>4 DEF FinishStep, FailStep, Crash
  <2> QED BY <1>2, <2>1, IdleTyped
<1>5. ASSUME NEW e \in Executors, NEW s \in DOMAIN steps, Claim(e, s) PROVE body'[f] = body[f]
  <2>1. Become(e, BodyAt("claimed", s)) /\ BodyAt("claimed", s).phase = "claimed"
    BY <1>5 DEF Claim, BodyAt
  <2> QED BY <1>2, <2>1
<1>6. ASSUME NEW e \in Executors, ReadSync(e) PROVE body'[f] = body[f]
  <2>1. CASE status # "ready"
    <3>1. Become(e, BodyAt("stage", body[e].step)) /\ BodyAt("stage", body[e].step).phase = "stage"
      BY <1>6, <2>1 DEF ReadSync, BodyAt
    <3> QED BY <1>2, <3>1
  <2>2. CASE status = "ready"
    <3> DEFINE b == [phase |-> IF checkpoint.snapshot = <<>> /\ checkpoint.cursor = 0 THEN "discovery" ELSE "batch",
                     step |-> body[e].step, seen |-> checkpoint, done |-> 0]
    <3>1. Become(e, b) /\ b.phase \in {"discovery", "batch"} /\ b.done = 0
      BY <1>6, <2>2 DEF ReadSync
    <3> HIDE DEF b
    <3> QED BY <1>2, <3>1
  <2> QED BY <2>1, <2>2
<1> QED BY <1>3, <1>4, <1>5, <1>6 DEF Other

\* There the owner of a running step was its owner before, unless it has just claimed it.
LEMMA OtherOwners ==
  ASSUME IInv, Other, NEW f \in Executors, body'[f] = body[f], body[f].phase \in {"batch", "batched"}, Fenced(f)'
  PROVE  Fenced(f)
<1>1. body[f].step \in DOMAIN steps /\ body[f].phase \notin {"idle", "claimed"}
  BY DEF IInv, TypeOK
<1>2. ASSUME NEW e, StepsMove(e), e # f PROVE Fenced(f)
  BY <1>1, <1>2 DEF Fenced, StepsMove
<1>3. CASE Administer \/ BlockSource \/ Coordinate \/ \E s \in DOMAIN steps : Recover(s)
  <2>1. StepsMove(None)
    BY <1>3, RequestQuiet, CoordinateQuiet, RecoverQuiet DEF Quiet
  <2> QED BY <1>2, <2>1, ExecutorsAssumption
<1>4. ASSUME NEW e \in Executors, FinishStep(e) \/ FailStep(e) \/ Crash(e) PROVE Fenced(f)
  <2>1. StepsMove(e)
    BY <1>4, EndQuiet DEF Quiet
  <2>2. e # f
    <3>1. body'[e] = Idle
      BY <1>4 DEF FinishStep, FailStep, Crash, Become, IInv, TypeOK
    <3> QED BY <1>1, <3>1, IdleTyped
  <2> QED BY <1>2, <2>1, <2>2
<1>5. ASSUME NEW e \in Executors, NEW s \in DOMAIN steps, Claim(e, s) PROVE Fenced(f)
  <2>1. StepsMove(e)
    BY <1>5, ClaimQuiet DEF Quiet
  <2>2. e # f
    <3>1. body[e].phase = "idle"
      BY <1>5 DEF Claim
    <3> QED BY <1>1, <3>1
  <2> QED BY <1>2, <2>1, <2>2
<1>6. CASE (\E e \in Executors : ReadSync(e)) \/ UNCHANGED vars
  <2>1. UNCHANGED <<steps, latest>>
    BY <1>6 DEF ReadSync, vars
  <2> QED BY <2>1 DEF Fenced
<1> QED BY <1>3, <1>4, <1>5, <1>6 DEF Other

\* What an owner has moved stays moved while it owns its step.
LEMMA AdvancedStep == ASSUME JInv, IInv', [Next]_vars PROVE Advanced'
<1> USE DEF JInv
<1> SUFFICES ASSUME NEW f \in Executors, body'[f].phase # "idle", Fenced(f)' PROVE HasAdvanced(f)'
  BY DEF Advanced, HasAdvanced
<1>1. CASE Other
  <2> SUFFICES ASSUME body'[f].phase \in {"batch", "batched"}, ~(body'[f].phase = "batch" /\ body'[f].done = 0)
               PROVE  status' \in Ends \/ Fresh'
    <3>1. body'[f].phase = "batch" => status' = "ready"
      BY DEF IInv, BodySeesItsRow
    <3>2. body'[f].done \in Nat
      BY DEF IInv, TypeOK, Body
    <3> QED BY <3>1, <3>2 DEF HasAdvanced, Ends
  <2>1. body'[f] = body[f]
    BY <1>1, OtherBodies
  <2>2. Fenced(f) /\ body[f].step \in Active
    BY <1>1, <2>1, OtherOwners DEF IInv, TypeOK, Fenced, Active, Running
  <2>3. Kept
    BY <2>2, RowsKeptOrAdded DEF Added, NoActiveStep
  <2>4. UNCHANGED checkpoint
    BY <1>1, OtherStays
  <2>5. status \in Ends \/ Fresh
    <3>1. body[f].done \in Nat
      BY DEF IInv, TypeOK, Body
    <3> QED BY <2>1, <2>2, <3>1 DEF Advanced, HasAdvanced
  <2> QED BY <2>3, <2>4, <2>5, EndLasts, FreshStays
<1>2. ASSUME NEW e \in Executors, Mover(e) PROVE HasAdvanced(f)'
  <2>1. /\ body[e].phase \in {"discovery", "batch"} /\ Fenced(e) /\ UNCHANGED <<steps, latest>>
    BY <1>2, MoverOwns
  <2>2. \A g \in Executors : g # e => body'[g] = body[g]
    BY <1>2 DEF Mover, Discover, ProcessCandidate, ConcludeBatch, Become, IInv, TypeOK
  <2>3. f = e
    <3>1. f # e => body[f].phase # "idle" /\ Fenced(f)
      BY <2>1, <2>2 DEF Fenced
    <3> QED BY <2>1, <3>1, OwnerAlone
  <2>4. Kept
    BY <2>1, NothingKeeps
  <2>5. CASE Discover(e)
    <3>1. body'[e].phase = "batch" /\ body'[e].done = 0
      BY <2>5 DEF Discover, Become, IInv, TypeOK, Body, BodyConsistent
    <3> QED BY <2>3, <3>1 DEF HasAdvanced
  <2>6. CASE ProcessCandidate(e)
    <3>1. Fresh'
      BY <2>4, <2>6, ProcessOnward, OnwardIsFresh
    <3> QED BY <3>1 DEF HasAdvanced
  <2>7. CASE ConcludeBatch(e)
    <3>1. body'[e].phase = "batched"
      BY <2>7 DEF ConcludeBatch, Become, BodyAt, IInv, TypeOK
    <3>2. CASE Onward
      BY <2>3, <2>4, <3>2, OnwardIsFresh DEF HasAdvanced
    <3>3. CASE status' \in Ends
      BY <2>3, <3>1, <3>3 DEF HasAdvanced
    <3>4. CASE UNCHANGED checkpoint /\ body[e].done > 0
      <4>1. Fresh
        BY <2>1, <2>7, <3>4 DEF Advanced, HasAdvanced, ConcludeBatch
      <4> QED BY <2>4, <3>4, <4>1, FreshStays DEF HasAdvanced
    <3> QED BY <2>7, <3>2, <3>3, <3>4, ConcludeOnward
  <2> QED BY <1>2, <2>5, <2>6, <2>7 DEF Mover
<1> QED BY <1>1, <1>2, NextCases DEF Mover

\* No step loses what the ones before it established.
LEMMA JStep == JInv /\ [Next]_vars => JInv'
<1> SUFFICES ASSUME JInv, [Next]_vars PROVE JInv'
  OBVIOUS
<1>1. IInv'
  BY NextKeeps DEF JInv
<1> QED BY <1>1, NewestStep, HashesStep, AdvancedStep, MarkedStep, BatchStep, RepeatsStep DEF JInv

\* The order of the checkpoints holds in every state a cycle reaches.
LEMMA JInvariance == Spec => []JInv
  BY JInit, JStep, PTL DEF Spec

\* After a step that did its batch the coordinator can always enqueue the successor,
\* under a key no step has, or the cycle has ended: it neither stalls nor is stranded.
THEOREM BatchFollowed == Spec => []BatchIsFollowed
<1>1. JInv => BatchIsFollowed
  <2> SUFFICES ASSUME JInv, Resting, Last.status = "completed", Last.stage = "catalog_batch"
               PROVE  Last.checkpointHash # checkpoint /\ ~AutoKeyTaken
    BY DEF BatchIsFollowed
  <2>1. Fresh
    BY DEF JInv, BatchAdvanced, Resting, Ends
  <2> QED BY <2>1 DEF JInv, IInv, TypeOK, Fresh, Last, AutoKeyTaken
<1> QED BY <1>1, JInvariance, PTL

\* Nothing strands a cycle but the retry of a failed step of an earlier checkpoint
\* which met the cycle paused; in every other state in which an automatic cycle rests
\* and its last step is not held, a branch of the coordinator applies.
THEOREM StrandedByRepeat == Spec => []OnlyRepeatsStrand
<1>1. JInv => OnlyRepeatsStrand
  <2> SUFFICES ASSUME JInv, Stranded
               PROVE  /\ Last.stage = "not_ready"
                      /\ \E s \in DOMAIN steps : /\ s # latest /\ steps[s].status = "failed"
                                                 /\ steps[s].checkpointHash = Last.checkpointHash
    BY DEF OnlyRepeatsStrand
  <2>1. Last \in Step /\ Last.status = "completed" /\ latest \in DOMAIN steps
    BY DEF JInv, IInv, TypeOK, Stranded, Last
  <2>2. Last.stage \in {None, "catalog_batch", "not_ready"} /\ Last.stage # None
    BY <2>1 DEF Step, JInv, EndsMarked, Last
  <2>3. Last.stage # "catalog_batch"
    BY <2>1 DEF JInv, BatchAdvanced, Stranded, Resting, Ends, Fresh, AutoKeyTaken
  <2>4. \E s \in DOMAIN steps : /\ s # latest /\ steps[s].status = "failed"
                                /\ steps[s].checkpointHash = Last.checkpointHash
    BY DEF JInv, Repeats, Stranded
  <2> QED BY <2>2, <2>3, <2>4
<1> QED BY <1>1, JInvariance, PTL
=============================================================================
