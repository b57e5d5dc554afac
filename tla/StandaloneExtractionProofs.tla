--------------------- MODULE StandaloneExtractionProofs ---------------------
(***************************************************************************)
(* Proofs about StandaloneExtraction for any runs of a job, events,        *)
(* groups, pages and restarts.                                             *)
(*                                                                         *)
(* Runs that overlap share the rows of the job, so each works on reads     *)
(* that another may have overtaken. What saves the job is that rows of     *)
(* athletes are only added: what a coroutine has seen stored stays stored  *)
(* (Grows). The invariant says that a checkpoint covers its pages          *)
(* (GroupTrue), and for each coroutine that the cursor it holds, or has    *)
(* read before an await and will write back, is covered as well            *)
(* (FetchTrue). An event is marked completed from groups that were read    *)
(* before; an absent group counts as done, which is sound because each     *)
(* group its run has been through has left a row, or came whole with the   *)
(* page of the event (Touched), and because what was whole stays whole     *)
(* (RunTrue).                                                              *)
(***************************************************************************)
EXTENDS StandaloneExtraction, TLAPS

-----------------------------------------------------------------------------
(* The inductive invariant. *)

RunState == [at: Steps, resume: BOOLEAN, stored: BOOLEAN, todo: SUBSET Events, on: SUBSET Events, whole: BOOLEAN]
FetchState == [at: Phases, offset: Nat, extracted: Nat, noise: 0..1, seen: GroupRow]

\* The first pages of a group are stored; all of them are.
Covered(e, g, n) == \A i \in 1..n : <<e, g, i>> \in rows
Whole(e, g) == Covered(e, g, PagesOf[e][g])

\* A checkpoint covers what is stored, and a completed group is whole.
GroupTrue ==
    \A e \in Events, g \in Groups :
        /\ group[e][g].next <= PagesOf[e][g]
        /\ Covered(e, g, group[e][g].next)
        /\ group[e][g].status = "completed" => group[e][g].next = PagesOf[e][g]

\* What was fetched once has a row, unless it came with the page of the event.
Touched(e, g) == group[e][g].status # "absent" \/ Whole(e, g)

\* What a coroutine has read of its group, or stored, is stored.
FetchTrue(r, e, g) ==
    LET f == fetch[r][g]
    IN  /\ f.at \in {"checked", "fetching", "inserting"} => f.offset <= PagesOf[e][g] /\ Covered(e, g, f.offset)
        /\ f.at = "inserting" => f.offset < PagesOf[e][g] /\ <<e, g, f.offset + 1>> \in rows
        /\ f.at = "failing" => f.seen.next <= PagesOf[e][g] /\ Covered(e, g, f.seen.next)
        /\ f.at \notin {"idle", "checked"} => Touched(e, g)

\* A run is at one event; its coroutines rest between events; what it concluded
\* of an event it is about to mark is still so.
RunTrue(r) ==
    /\ run[r].at \notin {"scraping", "gathered", "judged"} => \A g \in Groups : fetch[r][g].at = "idle"
    /\ \A a, b \in run[r].on : a = b
    /\ \A e \in run[r].on, g \in Groups :
         /\ FetchTrue(r, e, g)
         /\ run[r].at = "gathered" => Touched(e, g)
         /\ run[r].at = "judged" /\ run[r].whole => Whole(e, g)

\* A run that was admitted has a record.
MemoryKnown == \A r \in Runs : run[r].at \notin {"unasked", "read", "ended"} => memory.status # "none"

EventsTrue == \A e \in Events : event[e] = "completed" => \A g \in Groups : Whole(e, g)

IInv == TypeOK /\ GroupTrue /\ EventsTrue /\ MemoryKnown /\ \A r \in Runs : RunTrue(r)

-----------------------------------------------------------------------------
(* Lemmas. *)

LEMMA PagesTyped ==
  ASSUME NEW e \in Events, NEW g \in Groups
  PROVE  PagesOf[e][g] \in Nat \ {0}
BY PagesAssumption

LEMMA WholeRows ==
  ASSUME NEW e \in Events
  PROVE  RowsOf(e) \subseteq rows <=> \A g \in Groups : Whole(e, g)
BY DEF RowsOf, PagesIn, Whole, Covered

LEMMA Typed ==
  TypeOK =>
    /\ run \in [Runs -> RunState]
    /\ fetch \in [Runs -> [Groups -> FetchState]]
BY DEF TypeOK, RunState, FetchState

\* What a write of another coroutine changes of an insertion is its count only.
LEMMA DisturbedKeeps ==
  ASSUME NEW f \in [Runs -> [Groups -> FetchState]]
  PROVE  /\ Disturbed(f) \in [Runs -> [Groups -> FetchState]]
         /\ \A s \in Runs, h \in Groups :
              /\ Disturbed(f)[s][h].at = f[s][h].at
              /\ Disturbed(f)[s][h].offset = f[s][h].offset
              /\ Disturbed(f)[s][h].seen = f[s][h].seen
<1>1. \A s \in Runs, h \in Groups :
        LET x == IF f[s][h].at = "inserting" THEN [f[s][h] EXCEPT !.noise = 1] ELSE f[s][h]
        IN  x \in FetchState /\ x.at = f[s][h].at /\ x.offset = f[s][h].offset /\ x.seen = f[s][h].seen
  BY DEF FetchState
<1> QED
  BY <1>1 DEF Disturbed

\* The same coroutine, but for the count.
Same(s, h) == /\ fetch'[s][h].at = fetch[s][h].at
              /\ fetch'[s][h].offset = fetch[s][h].offset
              /\ fetch'[s][h].seen = fetch[s][h].seen
Alike(s) == \A h \in Groups : Same(s, h)

\* Rows are only added, and a group that has a row keeps one.
Grows ==
    /\ rows \subseteq rows'
    /\ \A e \in Events, g \in Groups : group[e][g].status # "absent" => group'[e][g].status # "absent"

LEMMA CoveredGrows ==
  ASSUME Grows, NEW e, NEW g, NEW n, Covered(e, g, n)
  PROVE  Covered(e, g, n)'
BY DEF Grows, Covered

LEMMA OnTyped ==
  ASSUME TypeOK, NEW r \in Runs, NEW e \in run[r].on
  PROVE  e \in Events
BY Typed DEF RunState

\* What is known of an event stays true while the coroutine stays where it is.
LEMMA StaysTrue ==
  ASSUME Grows, NEW s \in Runs, NEW e \in Events, NEW g \in Groups
  PROVE  /\ Whole(e, g) => Whole(e, g)'
         /\ Touched(e, g) => Touched(e, g)'
         /\ FetchTrue(s, e, g) /\ Same(s, g) => FetchTrue(s, e, g)'
<1>1. Whole(e, g) => Whole(e, g)'
  BY CoveredGrows DEF Whole
<1>2. Touched(e, g) => Touched(e, g)'
  BY <1>1 DEF Touched, Grows
<1>3. FetchTrue(s, e, g) /\ Same(s, g) => FetchTrue(s, e, g)'
  BY <1>2, CoveredGrows DEF FetchTrue, Same, Grows
<1> QED
  BY <1>1, <1>2, <1>3

\* A step of another run leaves what a run knows true.
LEMMA OthersStay ==
  ASSUME TypeOK, NEW s \in Runs, RunTrue(s), run'[s] = run[s], Alike(s), Grows
  PROVE  RunTrue(s)'
<1>1. /\ run[s].at \notin {"scraping", "gathered", "judged"} => \A g \in Groups : fetch'[s][g].at = "idle"
      /\ \A a, b \in run[s].on : a = b
  BY DEF RunTrue, Alike, Same
<1>2. ASSUME NEW e \in run[s].on, NEW g \in Groups
      PROVE  /\ FetchTrue(s, e, g)'
             /\ run[s].at = "gathered" => Touched(e, g)'
             /\ run[s].at = "judged" /\ run[s].whole => Whole(e, g)'
  BY OnTyped, StaysTrue DEF RunTrue, Alike
<1> QED
  BY <1>1, <1>2 DEF RunTrue

\* What a step of a run has to show.
LEMMA Keeps ==
  ASSUME IInv, TypeOK', NEW r \in Runs, Grows,
         \A s \in Runs \ {r} : run'[s] = run[s] /\ Alike(s),
         RunTrue(r)', GroupTrue', MemoryKnown',
         \A e \in Events : event'[e] = "completed" => event[e] = "completed" \/ \A g \in Groups : Whole(e, g)
  PROVE  IInv'
<1>1. \A s \in Runs : RunTrue(s)'
  BY OthersStay DEF IInv
<1>2. EventsTrue'
  BY CoveredGrows DEF IInv, EventsTrue, Whole
<1> QED
  BY <1>1, <1>2 DEF IInv

-----------------------------------------------------------------------------
(* Steps between the fetches. *)

\* A step that stores nothing and leaves the coroutines of its run where they are.
LEMMA QuietKeeps ==
  ASSUME IInv, TypeOK', NEW r \in Runs, UNCHANGED <<group, rows>>,
         \A s \in Runs : Alike(s), \A s \in Runs \ {r} : run'[s] = run[s],
         RunTrue(r)', MemoryKnown',
         \A e \in Events : event'[e] = "completed" => event[e] = "completed" \/ \A g \in Groups : Whole(e, g)
  PROVE  IInv'
<1>1. Grows
  BY DEF Grows
<1>2. GroupTrue'
  BY DEF IInv, GroupTrue, Covered
<1> QED
  BY <1>1, <1>2, Keeps

LEMMA FetchSame ==
  ASSUME TypeOK, fetch' = fetch \/ fetch' = Disturbed(fetch)
  PROVE  fetch' \in [Runs -> [Groups -> FetchState]] /\ \A s \in Runs : Alike(s)
BY Typed, DisturbedKeeps DEF Alike, Same

\* A run that moves where its coroutines rest.
LEMMA RestTrue ==
  ASSUME NEW r \in Runs, RunTrue(r), Alike(r),
         run[r].at \notin {"scraping", "gathered", "judged"},
         run'[r].at \notin {"gathered", "judged"},
         \A a, b \in run'[r].on : a = b
  PROVE  RunTrue(r)'
<1>1. \A g \in Groups : fetch'[r][g].at = "idle"
  BY DEF RunTrue, Alike, Same
<1>2. \A e \in run'[r].on, g \in Groups : FetchTrue(r, e, g)'
  BY <1>1 DEF FetchTrue
<1> QED
  BY <1>1, <1>2 DEF RunTrue

LEMMA ReadJobKeeps ==
  ASSUME IInv, NEW r \in Runs, ReadJob(r)
  PROVE  IInv'
<1>1. /\ run[r].at = "unasked" /\ UNCHANGED <<job, event, group, rows, memory, fetch, restarts>>
      /\ run' = [run EXCEPT ![r].at = "read", ![r].resume = TRUE, ![r].stored = job.warned]
  BY DEF ReadJob, disk
<1>2. TypeOK /\ run \in [Runs -> RunState] /\ job.warned \in BOOLEAN /\ RunTrue(r)
  BY Typed DEF IInv, TypeOK
<1>3. /\ run' \in [Runs -> RunState] /\ run'[r].at = "read" /\ run'[r].on = run[r].on
      /\ \A s \in Runs \ {r} : run'[s] = run[s]
  <2> DEFINE new == [run[r] EXCEPT !.at = "read", !.resume = TRUE, !.stored = job.warned]
  <2>1. new \in RunState /\ new.at = "read" /\ new.on = run[r].on
    BY <1>2 DEF RunState, Steps
  <2>2. run' = [run EXCEPT ![r] = new]
    BY <1>1, <1>2
  <2> HIDE DEF new
  <2> QED
    BY <1>2, <2>1, <2>2
<1>4. TypeOK'
  BY <1>1, <1>2, <1>3 DEF TypeOK, RunState
<1>5. \A s \in Runs : Alike(s)
  BY <1>1, <1>2, FetchSame
<1>6. RunTrue(r)'
  BY <1>1, <1>2, <1>3, <1>5, RestTrue DEF RunTrue
<1>7. MemoryKnown'
  BY <1>1, <1>3 DEF IInv, MemoryKnown
<1> QED
  BY <1>1, <1>3, <1>4, <1>5, <1>6, <1>7, QuietKeeps

LEMMA ResumeKeeps ==
  ASSUME IInv, NEW r \in Runs, Resume(r)
  PROVE  IInv'
<1>1. /\ run[r].at = "read" /\ UNCHANGED <<event, group, rows, restarts>>
      /\ memory' = [status |-> "queued", warned |-> IF memory = NoRecord THEN run[r].stored ELSE memory.warned]
      /\ job' = [job EXCEPT !.status = "queued"]
      /\ run' = [run EXCEPT ![r].at = "waiting", ![r].stored = FALSE]
      /\ fetch' = Disturbed(fetch)
  BY DEF Resume
<1>2. TypeOK /\ run \in [Runs -> RunState] /\ RunTrue(r)
  BY Typed DEF IInv
<1>3. /\ run' \in [Runs -> RunState] /\ run'[r].at = "waiting" /\ run'[r].on = run[r].on
      /\ \A s \in Runs \ {r} : run'[s] = run[s]
  <2> DEFINE new == [run[r] EXCEPT !.at = "waiting", !.stored = FALSE]
  <2>1. new \in RunState /\ new.at = "waiting" /\ new.on = run[r].on
    BY <1>2 DEF RunState, Steps
  <2>2. run' = [run EXCEPT ![r] = new]
    BY <1>1
  <2> HIDE DEF new
  <2> QED
    BY <1>2, <2>1, <2>2
<1>4. fetch' \in [Runs -> [Groups -> FetchState]] /\ \A s \in Runs : Alike(s)
  BY <1>1, <1>2, FetchSame
<1>5. memory'.status = "queued" /\ memory' \in [status: JobStatus \cup {"none"}, warned: BOOLEAN]
  BY <1>1, <1>2 DEF TypeOK, RunState, JobStatus
<1>6. job' \in [status: JobStatus, warned: BOOLEAN]
  BY <1>1, <1>2 DEF TypeOK, JobStatus
<1>7. TypeOK'
  BY <1>1, <1>2, <1>3, <1>4, <1>5, <1>6 DEF TypeOK, RunState, FetchState
<1>8. RunTrue(r)'
  BY <1>1, <1>2, <1>3, <1>4, RestTrue DEF RunTrue
<1>9. MemoryKnown'
  BY <1>5 DEF MemoryKnown
<1> QED
  BY <1>1, <1>3, <1>4, <1>7, <1>8, <1>9, QuietKeeps

LEMMA BeginKeeps ==
  ASSUME IInv, NEW r \in Runs, Begin(r)
  PROVE  IInv'
<1>1. /\ run[r].at = "waiting" /\ UNCHANGED <<job, group, rows, restarts>>
      /\ memory' = [memory EXCEPT !.status = "running"]
      /\ event' = [e \in Events |-> IF event[e] = "absent" THEN "pending" ELSE event[e]]
      /\ run' = [run EXCEPT ![r].at = "selecting"]
      /\ fetch' = Disturbed(fetch)
  BY DEF Begin
<1>2. TypeOK /\ run \in [Runs -> RunState] /\ RunTrue(r)
  BY Typed DEF IInv
<1>3. /\ run' \in [Runs -> RunState] /\ run'[r].at = "selecting" /\ run'[r].on = run[r].on
      /\ \A s \in Runs \ {r} : run'[s] = run[s]
  BY <1>1, <1>2 DEF RunState, Steps
<1>4. fetch' \in [Runs -> [Groups -> FetchState]] /\ \A s \in Runs : Alike(s)
  BY <1>1, <1>2, FetchSame
<1>5. memory'.status = "running" /\ memory' \in [status: JobStatus \cup {"none"}, warned: BOOLEAN]
  BY <1>1, <1>2 DEF TypeOK, JobStatus
<1>6. event' \in [Events -> EventStatus] /\ \A e \in Events : event'[e] = "completed" => event[e] = "completed"
  BY <1>1, <1>2 DEF TypeOK, EventStatus
<1>7. TypeOK'
  BY <1>1, <1>2, <1>3, <1>4, <1>5, <1>6 DEF TypeOK, RunState, FetchState
<1>8. RunTrue(r)'
  BY <1>1, <1>2, <1>3, <1>4, RestTrue DEF RunTrue
<1>9. MemoryKnown'
  BY <1>5 DEF MemoryKnown
<1> QED
  BY <1>1, <1>3, <1>4, <1>6, <1>7, <1>8, <1>9, QuietKeeps

LEMMA SelectKeeps ==
  ASSUME IInv, NEW r \in Runs, Select(r)
  PROVE  IInv'
<1> DEFINE todo == IF run[r].resume THEN {e \in Events : event[e] \notin {"completed", "skipped"}} ELSE Events
<1>1. /\ run[r].at = "selecting" /\ UNCHANGED <<job, event, group, rows, memory, fetch, restarts>>
      /\ run' = [run EXCEPT ![r].at = "picking", ![r].todo = todo]
  BY DEF Select, disk
<1>2. TypeOK /\ run \in [Runs -> RunState] /\ RunTrue(r) /\ todo \in SUBSET Events
  BY Typed DEF IInv
<1> HIDE DEF todo
<1>3. /\ run' \in [Runs -> RunState] /\ run'[r].at = "picking" /\ run'[r].on = run[r].on
      /\ \A s \in Runs \ {r} : run'[s] = run[s]
  <2> DEFINE new == [run[r] EXCEPT !.at = "picking", !.todo = todo]
  <2>1. new \in RunState /\ new.at = "picking" /\ new.on = run[r].on
    BY <1>2 DEF RunState, Steps
  <2>2. run' = [run EXCEPT ![r] = new]
    BY <1>1
  <2> HIDE DEF new
  <2> QED
    BY <1>2, <2>1, <2>2
<1>4. TypeOK'
  BY <1>1, <1>2, <1>3 DEF TypeOK, RunState
<1>5. \A s \in Runs : Alike(s)
  BY <1>1, <1>2, FetchSame
<1>6. RunTrue(r)'
  BY <1>1, <1>2, <1>3, <1>5, RestTrue DEF RunTrue
<1>7. MemoryKnown'
  BY <1>1, <1>3 DEF IInv, MemoryKnown
<1> QED
  BY <1>1, <1>3, <1>4, <1>5, <1>6, <1>7, QuietKeeps

LEMMA StartEventKeeps ==
  ASSUME IInv, NEW r \in Runs, NEW e \in Events, StartEvent(r, e)
  PROVE  IInv'
<1>1. /\ run[r].at = "picking" /\ UNCHANGED <<job, memory, group, rows, restarts>>
      /\ event' = [event EXCEPT ![e] = "processing"]
      /\ run' = [run EXCEPT ![r].at = "metadata", ![r].todo = @ \ {e}, ![r].on = {e}]
      /\ fetch' = Disturbed(fetch)
  BY DEF StartEvent
<1>2. TypeOK /\ run \in [Runs -> RunState] /\ RunTrue(r)
  BY Typed DEF IInv
<1>3. /\ run' \in [Runs -> RunState] /\ run'[r].at = "metadata" /\ run'[r].on = {e}
      /\ \A s \in Runs \ {r} : run'[s] = run[s]
  <2> DEFINE new == [run[r] EXCEPT !.at = "metadata", !.todo = run[r].todo \ {e}, !.on = {e}]
  <2>1. new \in RunState /\ new.at = "metadata" /\ new.on = {e}
    BY <1>2 DEF RunState, Steps
  <2>2. run' = [run EXCEPT ![r] = new]
    BY <1>1, <1>2
  <2> HIDE DEF new
  <2> QED
    BY <1>2, <2>1, <2>2
<1>4. fetch' \in [Runs -> [Groups -> FetchState]] /\ \A s \in Runs : Alike(s)
  BY <1>1, <1>2, FetchSame
<1>5. event' \in [Events -> EventStatus] /\ \A x \in Events : event'[x] = "completed" => event[x] = "completed"
  BY <1>1, <1>2 DEF TypeOK, EventStatus
<1>6. TypeOK'
  BY <1>1, <1>2, <1>3, <1>4, <1>5 DEF TypeOK, RunState, FetchState
<1>7. RunTrue(r)'
  BY <1>1, <1>2, <1>3, <1>4, RestTrue
<1>8. MemoryKnown'
  BY <1>1, <1>3 DEF IInv, MemoryKnown
<1> QED
  BY <1>1, <1>3, <1>4, <1>5, <1>6, <1>7, <1>8, QuietKeeps

LEMMA SkipEventKeeps ==
  ASSUME IInv, NEW r \in Runs, NEW e \in Events, SkipEvent(r, e)
  PROVE  IInv'
<1>1. /\ run[r].at = "metadata" /\ UNCHANGED <<job, group, rows, restarts>>
      /\ memory' = [memory EXCEPT !.warned = TRUE]
      /\ event' = [event EXCEPT ![e] = "skipped"]
      /\ run' = [run EXCEPT ![r].at = "picking", ![r].on = {}]
      /\ fetch' = Disturbed(fetch)
  BY DEF SkipEvent
<1>2. TypeOK /\ run \in [Runs -> RunState] /\ RunTrue(r)
  BY Typed DEF IInv
<1>3. /\ run' \in [Runs -> RunState] /\ run'[r].at = "picking" /\ run'[r].on = {}
      /\ \A s \in Runs \ {r} : run'[s] = run[s]
  <2> DEFINE new == [run[r] EXCEPT !.at = "picking", !.on = {}]
  <2>1. new \in RunState /\ new.at = "picking" /\ new.on = {}
    BY <1>2 DEF RunState, Steps
  <2>2. run' = [run EXCEPT ![r] = new]
    BY <1>1
  <2> HIDE DEF new
  <2> QED
    BY <1>2, <2>1, <2>2
<1>4. fetch' \in [Runs -> [Groups -> FetchState]] /\ \A s \in Runs : Alike(s)
  BY <1>1, <1>2, FetchSame
<1>5. event' \in [Events -> EventStatus] /\ \A x \in Events : event'[x] = "completed" => event[x] = "completed"
  BY <1>1, <1>2 DEF TypeOK, EventStatus
<1>6. memory' \in [status: JobStatus \cup {"none"}, warned: BOOLEAN] /\ memory'.status = memory.status
  BY <1>1, <1>2 DEF TypeOK
<1>7. TypeOK'
  BY <1>1, <1>2, <1>3, <1>4, <1>5, <1>6 DEF TypeOK, RunState, FetchState
<1>8. RunTrue(r)'
  BY <1>1, <1>2, <1>3, <1>4, RestTrue
<1>9. MemoryKnown'
  BY <1>1, <1>3, <1>6 DEF IInv, MemoryKnown
<1> QED
  BY <1>1, <1>3, <1>4, <1>5, <1>7, <1>8, <1>9, QuietKeeps

\* A record a working run has may be written to the row.
LEMMA RowTyped ==
  ASSUME IInv, NEW r \in Runs, run[r].at \notin {"unasked", "read", "ended"}
  PROVE  memory \in [status: JobStatus, warned: BOOLEAN]
BY DEF IInv, MemoryKnown, TypeOK

LEMMA ScrapeKeeps ==
  ASSUME IInv, NEW r \in Runs, Scrape(r)
  PROVE  IInv'
<1>1. /\ run[r].at = "metadata" /\ UNCHANGED <<memory, event, group, rows, restarts>>
      /\ job' = memory /\ run' = [run EXCEPT ![r].at = "scraping"] /\ fetch' = Disturbed(fetch)
  BY DEF Scrape, Reported
<1>2. TypeOK /\ run \in [Runs -> RunState] /\ RunTrue(r)
  BY Typed DEF IInv
<1>3. /\ run' \in [Runs -> RunState] /\ run'[r].at = "scraping" /\ run'[r].on = run[r].on
      /\ \A s \in Runs \ {r} : run'[s] = run[s]
  BY <1>1, <1>2 DEF RunState, Steps
<1>4. fetch' \in [Runs -> [Groups -> FetchState]] /\ \A s \in Runs : Alike(s)
  BY <1>1, <1>2, FetchSame
<1>5. job' \in [status: JobStatus, warned: BOOLEAN]
  BY <1>1, RowTyped
<1>6. TypeOK'
  BY <1>1, <1>2, <1>3, <1>4, <1>5 DEF TypeOK, RunState, FetchState
<1>7. RunTrue(r)'
  BY <1>1, <1>2, <1>3, <1>4, RestTrue DEF RunTrue
<1>8. MemoryKnown'
  BY <1>1, <1>3 DEF IInv, MemoryKnown
<1> QED
  BY <1>1, <1>3, <1>4, <1>6, <1>7, <1>8, QuietKeeps

LEMMA ReportKeeps ==
  ASSUME IInv, NEW r \in Runs, Report(r)
  PROVE  IInv'
<1>1. /\ run[r].at = "reporting" /\ UNCHANGED <<memory, event, group, rows, restarts>>
      /\ job' = memory /\ run' = [run EXCEPT ![r].at = "picking"] /\ fetch' = Disturbed(fetch)
  BY DEF Report, Reported
<1>2. TypeOK /\ run \in [Runs -> RunState] /\ RunTrue(r)
  BY Typed DEF IInv
<1>3. /\ run' \in [Runs -> RunState] /\ run'[r].at = "picking" /\ run'[r].on = run[r].on
      /\ \A s \in Runs \ {r} : run'[s] = run[s]
  BY <1>1, <1>2 DEF RunState, Steps
<1>4. fetch' \in [Runs -> [Groups -> FetchState]] /\ \A s \in Runs : Alike(s)
  BY <1>1, <1>2, FetchSame
<1>5. job' \in [status: JobStatus, warned: BOOLEAN]
  BY <1>1, RowTyped
<1>6. TypeOK'
  BY <1>1, <1>2, <1>3, <1>4, <1>5 DEF TypeOK, RunState, FetchState
<1>7. RunTrue(r)'
  BY <1>1, <1>2, <1>3, <1>4, RestTrue DEF RunTrue
<1>8. MemoryKnown'
  BY <1>1, <1>3 DEF IInv, MemoryKnown
<1> QED
  BY <1>1, <1>3, <1>4, <1>6, <1>7, <1>8, QuietKeeps

\* The end of a run, with or without a workbook.
LEMMA EndKeeps ==
  ASSUME IInv, NEW r \in Runs, run[r].at = "picking", UNCHANGED <<event, group, rows, restarts>>,
         NEW status \in JobStatus, NEW warned \in BOOLEAN,
         memory' = [status |-> status, warned |-> warned], job' = memory',
         run' = [run EXCEPT ![r] = [IdleRun EXCEPT !.at = "ended"]], fetch' = Disturbed(fetch)
  PROVE  IInv'
<1>2. TypeOK /\ run \in [Runs -> RunState] /\ RunTrue(r)
  BY Typed DEF IInv
<1>3. /\ run' \in [Runs -> RunState] /\ run'[r].at = "ended" /\ run'[r].on = {}
      /\ \A s \in Runs \ {r} : run'[s] = run[s]
  <2> DEFINE ended == [IdleRun EXCEPT !.at = "ended"]
  <2>1. ended \in RunState /\ ended.at = "ended" /\ ended.on = {}
    BY DEF IdleRun, RunState, Steps
  <2> HIDE DEF ended
  <2>2. run' = [run EXCEPT ![r] = ended]
    BY DEF ended
  <2> QED
    BY <1>2, <2>1, <2>2
<1>4. fetch' \in [Runs -> [Groups -> FetchState]] /\ \A s \in Runs : Alike(s)
  BY <1>2, FetchSame
<1>5. /\ job' \in [status: JobStatus, warned: BOOLEAN]
      /\ memory' \in [status: JobStatus \cup {"none"}, warned: BOOLEAN]
      /\ memory'.status # "none"
  BY DEF JobStatus
<1>6. TypeOK'
  BY <1>2, <1>3, <1>4, <1>5 DEF TypeOK, RunState, FetchState
<1>7. RunTrue(r)'
  BY <1>2, <1>3, <1>4, RestTrue DEF RunTrue
<1>8. MemoryKnown'
  BY <1>5 DEF MemoryKnown
<1> QED
  BY <1>3, <1>4, <1>6, <1>7, <1>8, QuietKeeps

LEMMA FinishKeeps ==
  ASSUME IInv, NEW r \in Runs, Finish(r)
  PROVE  IInv'
<1> DEFINE status == IF memory.warned \/ rows = {} THEN "completed_with_warnings" ELSE "completed"
           warned == memory.warned \/ rows = {}
<1>1. memory \in [status: JobStatus \cup {"none"}, warned: BOOLEAN]
  BY DEF IInv, TypeOK
<1>2. status \in JobStatus /\ warned \in BOOLEAN
  BY DEF JobStatus
<1>3. memory' = [memory EXCEPT !.status = status, !.warned = warned]
  BY DEF Finish
<1>4. /\ run[r].at = "picking" /\ job' = memory' /\ run' = [run EXCEPT ![r] = [IdleRun EXCEPT !.at = "ended"]]
      /\ fetch' = Disturbed(fetch) /\ UNCHANGED <<event, group, rows, restarts>>
  BY DEF Finish
<1> HIDE DEF status, warned
<1>5. memory' = [status |-> status, warned |-> warned]
  BY <1>1, <1>3
<1> QED
  BY <1>2, <1>4, <1>5, EndKeeps

LEMMA FailKeeps ==
  ASSUME IInv, NEW r \in Runs, Fail(r)
  PROVE  IInv'
<1>1. memory \in [status: JobStatus \cup {"none"}, warned: BOOLEAN] /\ "failed" \in JobStatus
  BY DEF IInv, TypeOK, JobStatus
<1>2. memory' = [status |-> "failed", warned |-> memory.warned] /\ memory.warned \in BOOLEAN
  BY <1>1 DEF Fail
<1>3. /\ run[r].at = "picking" /\ job' = memory' /\ run' = [run EXCEPT ![r] = [IdleRun EXCEPT !.at = "ended"]]
      /\ fetch' = Disturbed(fetch) /\ UNCHANGED <<event, group, rows, restarts>>
  BY DEF Fail
<1> QED
  BY <1>1, <1>2, <1>3, EndKeeps

-----------------------------------------------------------------------------
(* The end of an event. *)

LEMMA GatherKeeps ==
  ASSUME IInv, NEW r \in Runs, Gather(r)
  PROVE  IInv'
<1>1. /\ run[r].at = "scraping" /\ Gathered(r) /\ UNCHANGED <<memory, event, group, rows, restarts>>
      /\ job' = memory /\ run' = [run EXCEPT ![r].at = "gathered"] /\ fetch' = Disturbed(fetch)
  BY DEF Gather, Reported
<1>2. TypeOK /\ run \in [Runs -> RunState] /\ RunTrue(r)
  BY Typed DEF IInv
<1>3. /\ run' \in [Runs -> RunState] /\ run'[r].at = "gathered" /\ run'[r].on = run[r].on
      /\ \A s \in Runs \ {r} : run'[s] = run[s]
  BY <1>1, <1>2 DEF RunState, Steps
<1>4. fetch' \in [Runs -> [Groups -> FetchState]] /\ \A s \in Runs : Alike(s)
  BY <1>1, <1>2, FetchSame
<1>5. job' \in [status: JobStatus, warned: BOOLEAN]
  BY <1>1, RowTyped
<1>6. TypeOK'
  BY <1>1, <1>2, <1>3, <1>4, <1>5 DEF TypeOK, RunState, FetchState
<1>7. RunTrue(r)'
  <2>1. ASSUME NEW e \in run[r].on, NEW g \in Groups
        PROVE  FetchTrue(r, e, g)' /\ Touched(e, g)'
    <3>1. e \in Events /\ FetchTrue(r, e, g)
      BY <1>2, OnTyped DEF RunTrue
    <3>2. Touched(e, g)
      BY <1>1, <3>1 DEF Gathered, FetchTrue
    <3>3. Grows
      BY <1>1 DEF Grows
    <3> QED
      BY <1>4, <3>1, <3>2, <3>3, StaysTrue DEF Alike
  <2> QED
    BY <1>2, <1>3, <2>1 DEF RunTrue
<1>8. MemoryKnown'
  BY <1>1, <1>3 DEF IInv, MemoryKnown
<1> QED
  BY <1>1, <1>3, <1>4, <1>6, <1>7, <1>8, QuietKeeps

LEMMA JudgeEventKeeps ==
  ASSUME IInv, NEW r \in Runs, NEW e \in Events, JudgeEvent(r, e)
  PROVE  IInv'
<1> DEFINE warned == memory.warned \/ \E g \in Groups :
                       \/ fetch[r][g].at = "raised"
                       \/ fetch[r][g].at = "done" /\ fetch[r][g].extracted # PagesOf[e][g]
           whole == \A g \in Groups : group[e][g].status \in {"completed", "absent"}
<1>1. /\ run[r].at = "gathered" /\ e \in run[r].on /\ UNCHANGED <<job, event, group, rows, fetch, restarts>>
      /\ memory' = [memory EXCEPT !.warned = warned]
      /\ run' = [run EXCEPT ![r].at = "judged", ![r].whole = whole]
  BY DEF JudgeEvent, disk
<1>2. TypeOK /\ run \in [Runs -> RunState] /\ RunTrue(r)
  BY Typed DEF IInv
<1>3. warned \in BOOLEAN /\ whole \in BOOLEAN
  BY <1>2 DEF TypeOK
<1>4. whole => \A g \in Groups : Whole(e, g)
  <2>1. SUFFICES ASSUME whole, NEW g \in Groups
                 PROVE  Whole(e, g)
    OBVIOUS
  <2>2. Touched(e, g)
    BY <1>1, <1>2 DEF RunTrue
  <2>3. group[e][g].status = "completed" => Whole(e, g)
    BY DEF IInv, GroupTrue, Whole
  <2> QED
    BY <2>1, <2>2, <2>3 DEF Touched
<1> HIDE DEF warned, whole
<1>5. /\ run' \in [Runs -> RunState] /\ run'[r].at = "judged" /\ run'[r].on = run[r].on /\ run'[r].whole = whole
      /\ \A s \in Runs \ {r} : run'[s] = run[s]
  <2> DEFINE new == [run[r] EXCEPT !.at = "judged", !.whole = whole]
  <2>1. new \in RunState /\ new.at = "judged" /\ new.on = run[r].on /\ new.whole = whole
    BY <1>2, <1>3 DEF RunState, Steps
  <2>2. run' = [run EXCEPT ![r] = new]
    BY <1>1, <1>2
  <2> HIDE DEF new
  <2> QED
    BY <1>2, <2>1, <2>2
<1>6. \A s \in Runs : Alike(s)
  BY <1>1, <1>2, FetchSame
<1>7. memory' \in [status: JobStatus \cup {"none"}, warned: BOOLEAN] /\ memory'.status = memory.status
  BY <1>1, <1>2, <1>3 DEF TypeOK
<1>8. TypeOK'
  BY <1>1, <1>2, <1>5, <1>7 DEF TypeOK, RunState
<1>9. RunTrue(r)'
  <2>1. \A x \in run[r].on : x = e
    BY <1>1, <1>2 DEF RunTrue
  <2>2. Grows
    BY <1>1 DEF Grows
  <2>3. \A g \in Groups : FetchTrue(r, e, g)' /\ (whole => Whole(e, g)')
    BY <1>1, <1>2, <1>4, <1>6, <2>2, StaysTrue DEF RunTrue, Alike
  <2> QED
    BY <1>5, <2>1, <2>3 DEF RunTrue
<1>10. MemoryKnown'
  BY <1>1, <1>5, <1>7 DEF IInv, MemoryKnown
<1> QED
  BY <1>1, <1>5, <1>6, <1>8, <1>9, <1>10, QuietKeeps

\* An event is left: the coroutines of its groups are gone.
Left(r) == [fetch EXCEPT ![r] = [g \in Groups |-> IdleFetch]]

LEMMA LeftTrue ==
  ASSUME TypeOK, NEW r \in Runs, fetch' = Disturbed(Left(r))
  PROVE  /\ fetch' \in [Runs -> [Groups -> FetchState]]
         /\ \A g \in Groups : fetch'[r][g].at = "idle"
         /\ \A s \in Runs \ {r} : Alike(s)
<1>1. IdleFetch \in FetchState /\ IdleFetch.at = "idle"
  BY DEF IdleFetch, FetchState, NoGroup, GroupRow, GroupStatus, Phases
<1>2. /\ Left(r) \in [Runs -> [Groups -> FetchState]]
      /\ \A g \in Groups : Left(r)[r][g] = IdleFetch
      /\ \A s \in Runs \ {r} : Left(r)[s] = fetch[s]
  BY <1>1, Typed DEF Left
<1>3. /\ fetch' \in [Runs -> [Groups -> FetchState]]
      /\ \A x \in Runs, h \in Groups :
            /\ fetch'[x][h].at = Left(r)[x][h].at
            /\ fetch'[x][h].offset = Left(r)[x][h].offset
            /\ fetch'[x][h].seen = Left(r)[x][h].seen
  BY <1>2, DisturbedKeeps
<1>4. \A g \in Groups : fetch'[r][g].at = "idle"
  BY <1>1, <1>2, <1>3
<1>5. \A s \in Runs \ {r} : Alike(s)
  BY <1>2, <1>3 DEF Alike, Same
<1> QED
  BY <1>3, <1>4, <1>5

LEMMA LeaveKeeps ==
  ASSUME IInv, NEW r \in Runs, NEW e \in Events, NEW status \in {"completed", "partial"},
         UNCHANGED <<job, group, rows, restarts>>,
         run[r].at \in {"metadata", "scraping", "judged"},
         memory' \in [status: JobStatus \cup {"none"}, warned: BOOLEAN], memory'.status = memory.status,
         event' = [event EXCEPT ![e] = status],
         run' = [run EXCEPT ![r].at = "reporting", ![r].on = {}, ![r].whole = FALSE],
         fetch' = Disturbed(Left(r)),
         status = "completed" => \A g \in Groups : Whole(e, g)
  PROVE  IInv'
<1>1. TypeOK /\ run \in [Runs -> RunState] /\ fetch \in [Runs -> [Groups -> FetchState]]
  BY Typed DEF IInv
<1>2. /\ run' \in [Runs -> RunState] /\ run'[r].at = "reporting" /\ run'[r].on = {}
      /\ \A s \in Runs \ {r} : run'[s] = run[s]
  <2> DEFINE new == [run[r] EXCEPT !.at = "reporting", !.on = {}, !.whole = FALSE]
  <2>1. new \in RunState /\ new.at = "reporting" /\ new.on = {}
    BY <1>1 DEF RunState, Steps
  <2>2. run' = [run EXCEPT ![r] = new]
    BY <1>1
  <2> HIDE DEF new
  <2> QED
    BY <1>1, <2>1, <2>2
<1>3. /\ fetch' \in [Runs -> [Groups -> FetchState]]
      /\ \A g \in Groups : fetch'[r][g].at = "idle"
      /\ \A s \in Runs \ {r} : Alike(s)
  BY <1>1, LeftTrue
<1>4. event' \in [Events -> EventStatus] /\ \A x \in Events \ {e} : event'[x] = event[x]
  BY <1>1 DEF TypeOK, EventStatus
<1>5. TypeOK'
  BY <1>1, <1>2, <1>3, <1>4 DEF TypeOK, RunState, FetchState
<1>6. RunTrue(r)'
  BY <1>2, <1>3 DEF RunTrue
<1>7. MemoryKnown'
  BY <1>2 DEF IInv, MemoryKnown
<1>8. Grows /\ GroupTrue'
  BY DEF IInv, Grows, GroupTrue, Covered
<1>9. \A x \in Events : event'[x] = "completed" => event[x] = "completed" \/ \A g \in Groups : Whole(x, g)
  BY <1>1, <1>4 DEF TypeOK
<1> QED
  BY <1>2, <1>3, <1>5, <1>6, <1>7, <1>8, <1>9, Keeps

LEMMA EventFailsKeeps ==
  ASSUME IInv, NEW r \in Runs, NEW e \in Events, EventFails(r, e)
  PROVE  IInv'
<1>1. memory' \in [status: JobStatus \cup {"none"}, warned: BOOLEAN] /\ memory'.status = memory.status
  BY DEF IInv, TypeOK, EventFails
<1>2. /\ run[r].at \in {"metadata", "scraping", "judged"} /\ UNCHANGED <<job, group, rows, restarts>>
      /\ event' = [event EXCEPT ![e] = "partial"]
      /\ run' = [run EXCEPT ![r].at = "reporting", ![r].on = {}, ![r].whole = FALSE]
      /\ fetch' = Disturbed(Left(r))
  BY DEF EventFails, Left
<1> QED
  BY <1>1, <1>2, LeaveKeeps

LEMMA MarkEventKeeps ==
  ASSUME IInv, NEW r \in Runs, NEW e \in Events, MarkEvent(r, e)
  PROVE  IInv'
<1> DEFINE status == IF run[r].whole THEN "completed" ELSE "partial"
<1>1. /\ run[r].at = "judged" /\ e \in run[r].on /\ UNCHANGED <<job, memory, group, rows, restarts>>
      /\ event' = [event EXCEPT ![e] = status]
      /\ run' = [run EXCEPT ![r].at = "reporting", ![r].on = {}, ![r].whole = FALSE]
      /\ fetch' = Disturbed(Left(r))
  BY DEF MarkEvent, Left
<1>2. status \in {"completed", "partial"} /\ (status = "completed" => \A g \in Groups : Whole(e, g))
  BY <1>1 DEF IInv, RunTrue
<1>3. memory' \in [status: JobStatus \cup {"none"}, warned: BOOLEAN] /\ memory'.status = memory.status
  BY <1>1 DEF IInv, TypeOK
<1>4. run[r].at \in {"metadata", "scraping", "judged"} /\ UNCHANGED <<job, group, rows, restarts>>
  BY <1>1
<1> HIDE DEF status
<1> QED
  BY <1>1, <1>2, <1>3, <1>4, LeaveKeeps

-----------------------------------------------------------------------------
(* The coroutine of a group. *)

\* The coroutine of one group moves.
Moved(r, g, new) == [fetch EXCEPT ![r][g] = new]

LEMMA MovedTrue ==
  ASSUME TypeOK, NEW r \in Runs, NEW g \in Groups, NEW new \in FetchState,
         fetch' = Moved(r, g, new) \/ fetch' = Disturbed(Moved(r, g, new))
  PROVE  /\ fetch' \in [Runs -> [Groups -> FetchState]]
         /\ fetch'[r][g].at = new.at /\ fetch'[r][g].offset = new.offset /\ fetch'[r][g].seen = new.seen
         /\ \A s \in Runs, h \in Groups : s # r \/ h # g => Same(s, h)
<1>1. /\ Moved(r, g, new) \in [Runs -> [Groups -> FetchState]]
      /\ Moved(r, g, new)[r][g] = new
      /\ \A s \in Runs, h \in Groups : s # r \/ h # g => Moved(r, g, new)[s][h] = fetch[s][h]
  BY Typed DEF Moved
<1>2. CASE fetch' = Moved(r, g, new)
  BY <1>1, <1>2 DEF Same
<1>3. CASE fetch' = Disturbed(Moved(r, g, new))
  <2>1. /\ fetch' \in [Runs -> [Groups -> FetchState]]
        /\ \A x \in Runs, h \in Groups :
              /\ fetch'[x][h].at = Moved(r, g, new)[x][h].at
              /\ fetch'[x][h].offset = Moved(r, g, new)[x][h].offset
              /\ fetch'[x][h].seen = Moved(r, g, new)[x][h].seen
    BY <1>1, <1>3, DisturbedKeeps
  <2>2. fetch'[r][g].at = new.at /\ fetch'[r][g].offset = new.offset /\ fetch'[r][g].seen = new.seen
    BY <1>1, <2>1
  <2>3. \A s \in Runs, h \in Groups : s # r \/ h # g => Same(s, h)
    BY <1>1, <2>1 DEF Same
  <2> QED
    BY <2>1, <2>2, <2>3
<1> QED
  BY <1>2, <1>3

\* What a step of the coroutine of a group has to show.
LEMMA GroupKeeps ==
  ASSUME IInv, NEW r \in Runs, NEW e \in Events, NEW g \in Groups, NEW new \in FetchState,
         run[r].at = "scraping", e \in run[r].on, UNCHANGED <<memory, event, run, restarts>>,
         job' \in [status: JobStatus, warned: BOOLEAN],
         fetch' = Moved(r, g, new) \/ fetch' = Disturbed(Moved(r, g, new)),
         group' \in [Events -> [Groups -> GroupRow]], rows' \subseteq Events \X Groups \X (Nat \ {0}),
         Grows, GroupTrue', FetchTrue(r, e, g)'
  PROVE  IInv'
<1>1. TypeOK /\ RunTrue(r)
  BY DEF IInv
<1>2. /\ fetch' \in [Runs -> [Groups -> FetchState]]
      /\ \A s \in Runs, h \in Groups : s # r \/ h # g => Same(s, h)
  BY <1>1, MovedTrue
<1>3. TypeOK'
  <2>1. \A x \in Events, h \in Groups : group'[x][h].next <= PagesOf[x][h]
    BY DEF GroupTrue
  <2> QED
    BY <1>1, <1>2, <2>1 DEF TypeOK, FetchState
<1>4. \A s \in Runs \ {r} : run'[s] = run[s] /\ Alike(s)
  BY <1>2 DEF Alike
<1>5. RunTrue(r)'
  <2>1. \A x \in run[r].on : x = e
    BY <1>1 DEF RunTrue
  <2>2. ASSUME NEW h \in Groups
        PROVE  FetchTrue(r, e, h)'
    <3>1. FetchTrue(r, e, h)
      BY <1>1 DEF RunTrue
    <3>2. CASE h # g
      BY <1>2, <3>1, <3>2, StaysTrue
    <3>3. CASE h = g
      BY <3>3
    <3> QED
      BY <3>2, <3>3
  <2> QED
    BY <2>1, <2>2 DEF RunTrue
<1>6. MemoryKnown'
  BY DEF IInv, MemoryKnown
<1>7. \A x \in Events : event'[x] = "completed" => event[x] = "completed"
  OBVIOUS
<1> QED
  BY <1>3, <1>4, <1>5, <1>6, <1>7, Keeps

\* What is known of the group at work.
LEMMA AtGroup ==
  ASSUME IInv, NEW r \in Runs, NEW e \in Events, NEW g \in Groups, e \in run[r].on
  PROVE  /\ TypeOK /\ fetch[r][g] \in FetchState /\ group[e][g] \in GroupRow
         /\ group \in [Events -> [Groups -> GroupRow]]
         /\ FetchTrue(r, e, g) /\ PagesOf[e][g] \in Nat \ {0}
         /\ job \in [status: JobStatus, warned: BOOLEAN]
         /\ rows \subseteq Events \X Groups \X (Nat \ {0})
BY Typed, PagesTyped DEF IInv, RunTrue, TypeOK

\* The row of a group is written.
LEMMA GroupWritten ==
  ASSUME IInv, NEW e \in Events, NEW g \in Groups, NEW row \in GroupRow,
         group' = [group EXCEPT ![e][g] = row], row.status # "absent",
         rows' = rows,
         row.next <= PagesOf[e][g], Covered(e, g, row.next),
         row.status = "completed" => row.next = PagesOf[e][g]
  PROVE  /\ group' \in [Events -> [Groups -> GroupRow]] /\ Grows /\ GroupTrue'
         /\ group'[e][g] = row /\ Touched(e, g)'
<1>1. group \in [Events -> [Groups -> GroupRow]]
  BY DEF IInv, TypeOK
<1>2. /\ group' \in [Events -> [Groups -> GroupRow]] /\ group'[e][g] = row
      /\ \A x \in Events, h \in Groups : x # e \/ h # g => group'[x][h] = group[x][h]
  BY <1>1
<1>3. Grows
  BY <1>2 DEF Grows
<1>4. GroupTrue'
  <2>1. ASSUME NEW x \in Events, NEW h \in Groups
        PROVE  /\ group'[x][h].next <= PagesOf[x][h]
               /\ Covered(x, h, group'[x][h].next)
               /\ group'[x][h].status = "completed" => group'[x][h].next = PagesOf[x][h]
    <3>1. CASE x = e /\ h = g
      BY <1>2, <3>1
    <3>2. CASE x # e \/ h # g
      BY <1>2, <3>2 DEF IInv, GroupTrue
    <3> QED
      BY <3>1, <3>2
  <2> QED
    BY <2>1 DEF GroupTrue, Covered
<1> QED
  BY <1>2, <1>3, <1>4 DEF Touched

LEMMA ReadGroupKeeps ==
  ASSUME IInv, NEW r \in Runs, NEW e \in Events, NEW g \in Groups, ReadGroup(r, e, g)
  PROVE  IInv'
<1> DEFINE new == [IdleFetch EXCEPT !.at = IF group[e][g].status = "completed" THEN "kept" ELSE "checked",
                                    !.offset = group[e][g].next, !.extracted = group[e][g].extracted]
<1>1. /\ run[r].at = "scraping" /\ e \in run[r].on
      /\ fetch' = Moved(r, g, new) /\ UNCHANGED <<job, event, group, rows, memory, run, restarts>>
  BY DEF ReadGroup, disk, Moved
<1>2. /\ TypeOK /\ group[e][g] \in GroupRow /\ group \in [Events -> [Groups -> GroupRow]]
      /\ job \in [status: JobStatus, warned: BOOLEAN] /\ rows \subseteq Events \X Groups \X (Nat \ {0})
  BY <1>1, AtGroup
<1>3. /\ new \in FetchState /\ new.offset = group[e][g].next
      /\ new.at = IF group[e][g].status = "completed" THEN "kept" ELSE "checked"
  <2>1. IdleFetch \in FetchState
    BY DEF IdleFetch, FetchState, NoGroup, GroupRow, GroupStatus, Phases
  <2>2. group[e][g].next \in Nat /\ group[e][g].extracted \in Nat
    BY <1>2 DEF GroupRow
  <2> DEFINE at == IF group[e][g].status = "completed" THEN "kept" ELSE "checked"
  <2>3. at \in Phases
    BY DEF Phases
  <2> HIDE DEF at
  <2>4. new = [IdleFetch EXCEPT !.at = at, !.offset = group[e][g].next, !.extracted = group[e][g].extracted]
    BY DEF at
  <2>5. new \in FetchState /\ new.offset = group[e][g].next /\ new.at = at
    BY <2>1, <2>2, <2>3, <2>4 DEF FetchState
  <2> QED
    BY <2>5 DEF at
<1> HIDE DEF new
<1>4. fetch'[r][g].at = new.at /\ fetch'[r][g].offset = new.offset
  BY <1>1, <1>2, <1>3, MovedTrue
<1>5. Grows /\ GroupTrue'
  BY <1>1 DEF IInv, Grows, GroupTrue, Covered
<1>6. FetchTrue(r, e, g)'
  <2>1. /\ group[e][g].next <= PagesOf[e][g] /\ Covered(e, g, group[e][g].next)
        /\ group[e][g].status = "completed" => group[e][g].next = PagesOf[e][g]
    BY DEF IInv, GroupTrue
  <2>2. Covered(e, g, group[e][g].next)' /\ (group[e][g].status = "completed" => Touched(e, g)')
    BY <1>1, <2>1 DEF Covered, Touched
  <2>3. Covered(e, g, fetch[r][g].offset)'
    BY <1>1, <1>3, <1>4, <2>2 DEF Covered
  <2> QED
    BY <1>3, <1>4, <2>1, <2>2, <2>3 DEF FetchTrue
<1> QED
  BY <1>1, <1>2, <1>3, <1>5, <1>6, GroupKeeps

LEMMA OpenGroupKeeps ==
  ASSUME IInv, NEW r \in Runs, NEW e \in Events, NEW g \in Groups, OpenGroup(r, e, g)
  PROVE  IInv'
<1> DEFINE f == fetch[r][g]
           new == [f EXCEPT !.at = "fetching"]
           row == [status |-> "processing", next |-> f.offset, extracted |-> f.extracted]
<1>1. /\ run[r].at = "scraping" /\ e \in run[r].on /\ f.at = "checked"
      /\ group' = [group EXCEPT ![e][g] = row]
      /\ UNCHANGED <<job, rows, memory, event, run, restarts>>
  BY DEF OpenGroup
<1>2. /\ TypeOK /\ f \in FetchState /\ FetchTrue(r, e, g)
      /\ job \in [status: JobStatus, warned: BOOLEAN] /\ rows \subseteq Events \X Groups \X (Nat \ {0})
  BY <1>1, AtGroup
<1>3. fetch' = Disturbed(Moved(r, g, new))
  <2>1. [fetch EXCEPT ![r][g].at = "fetching"] = Moved(r, g, new)
    BY <1>2, Typed DEF Moved, FetchState
  <2> QED
    BY <2>1 DEF OpenGroup
<1>4. new \in FetchState /\ new.at = "fetching" /\ new.offset = f.offset
  BY <1>2 DEF FetchState, Phases
<1>5. row \in GroupRow /\ row.status = "processing" /\ row.next = f.offset
  BY <1>2 DEF FetchState, GroupRow, GroupStatus
<1>6. f.offset <= PagesOf[e][g] /\ Covered(e, g, f.offset)
  BY <1>1, <1>2 DEF FetchTrue
<1> HIDE DEF new, row
<1>7. /\ group' \in [Events -> [Groups -> GroupRow]] /\ Grows /\ GroupTrue' /\ Touched(e, g)'
  BY <1>1, <1>5, <1>6, GroupWritten
<1>8. fetch'[r][g].at = new.at /\ fetch'[r][g].offset = new.offset
  BY <1>2, <1>3, <1>4, MovedTrue
<1>9. FetchTrue(r, e, g)'
  <2>1. Covered(e, g, fetch[r][g].offset)'
    BY <1>1, <1>4, <1>6, <1>8 DEF Covered
  <2> QED
    BY <1>4, <1>6, <1>7, <1>8, <2>1 DEF FetchTrue
<1> QED
  BY <1>1, <1>2, <1>3, <1>4, <1>7, <1>9, GroupKeeps

LEMMA FetchTyped ==
  ASSUME NEW f \in FetchState, NEW at \in Phases, NEW offset \in Nat, NEW extracted \in Nat
  PROVE  /\ [f EXCEPT !.at = at, !.noise = 0, !.extracted = extracted] \in FetchState
         /\ [f EXCEPT !.at = at, !.offset = offset, !.extracted = extracted, !.noise = 0] \in FetchState
<1>1. \A x \in FetchState : [x EXCEPT !.at = at] \in FetchState
  BY DEF FetchState
<1>2. \A x \in FetchState : [x EXCEPT !.noise = 0] \in FetchState
  BY DEF FetchState
<1>3. \A x \in FetchState : [x EXCEPT !.extracted = extracted] \in FetchState
  BY DEF FetchState
<1>4. \A x \in FetchState : [x EXCEPT !.offset = offset] \in FetchState
  BY DEF FetchState
<1>5. [f EXCEPT !.at = at, !.noise = 0, !.extracted = extracted]
      = [[[f EXCEPT !.at = at] EXCEPT !.noise = 0] EXCEPT !.extracted = extracted]
  BY Zenon
<1>6. [f EXCEPT !.at = at, !.offset = offset, !.extracted = extracted, !.noise = 0]
      = [[[[f EXCEPT !.at = at] EXCEPT !.offset = offset] EXCEPT !.extracted = extracted] EXCEPT !.noise = 0]
  BY Zenon
<1> QED
  BY <1>1, <1>2, <1>3, <1>4, <1>5, <1>6

LEMMA InsertPageKeeps ==
  ASSUME IInv, NEW r \in Runs, NEW e \in Events, NEW g \in Groups, InsertPage(r, e, g)
  PROVE  IInv'
<1> DEFINE f == fetch[r][g]
           page == <<e, g, f.offset + 1>>
           extracted == f.extracted + (IF page \in rows THEN 0 ELSE 1)
           new == [f EXCEPT !.at = "inserting", !.noise = 0, !.extracted = extracted]
<1>1. /\ run[r].at = "scraping" /\ e \in run[r].on /\ f.at = "fetching" /\ f.offset < PagesOf[e][g]
      /\ rows' = rows \cup {page}
      /\ UNCHANGED <<job, group, memory, event, run, restarts>>
  BY DEF InsertPage
<1>2. /\ TypeOK /\ f \in FetchState /\ FetchTrue(r, e, g) /\ group \in [Events -> [Groups -> GroupRow]]
      /\ job \in [status: JobStatus, warned: BOOLEAN] /\ rows \subseteq Events \X Groups \X (Nat \ {0})
  BY <1>1, AtGroup
<1>3. f.offset \in Nat /\ extracted \in Nat
  BY <1>2 DEF FetchState
<1>4. fetch' = Moved(r, g, new)
  <2>1. fetch \in [Runs -> [Groups -> FetchState]]
    BY <1>2, Typed
  <2>2. fetch' = [fetch EXCEPT ![r][g].at = "inserting", ![r][g].noise = 0, ![r][g].extracted = extracted]
    BY DEF InsertPage
  <2> HIDE DEF extracted
  <2> QED
    BY <2>1, <2>2 DEF Moved, FetchState
<1> HIDE DEF extracted
<1>5. new \in FetchState /\ new.at = "inserting" /\ new.offset = f.offset
  <2>1. "inserting" \in Phases
    BY DEF Phases
  <2>2. new \in FetchState
    BY <1>2, <1>3, <2>1, FetchTyped
  <2> QED
    BY <1>2, <2>2 DEF FetchState
<1> HIDE DEF new
<1>6. fetch'[r][g].at = new.at /\ fetch'[r][g].offset = new.offset
  BY <1>2, <1>4, <1>5, MovedTrue
<1>7. rows' \subseteq Events \X Groups \X (Nat \ {0})
  BY <1>1, <1>2, <1>3
<1>8. Grows
  BY <1>1 DEF Grows
<1>9. GroupTrue'
  BY <1>1, <1>8, CoveredGrows DEF IInv, GroupTrue, Covered
<1>10. FetchTrue(r, e, g)'
  <2>1. Covered(e, g, f.offset) /\ Touched(e, g) /\ f.offset <= PagesOf[e][g]
    BY <1>1, <1>2 DEF FetchTrue
  <2>2. Covered(e, g, fetch[r][g].offset)' /\ Touched(e, g)'
    BY <1>1, <1>5, <1>6, <1>8, <2>1, StaysTrue DEF Covered
  <2>3. fetch'[r][g].at = "inserting" /\ fetch'[r][g].offset = f.offset /\ page \in rows'
    BY <1>1, <1>5, <1>6
  <2> HIDE DEF f
  <2> QED
    BY <1>1, <2>1, <2>2, <2>3 DEF FetchTrue
<1> QED
  BY <1>1, <1>2, <1>4, <1>5, <1>7, <1>8, <1>9, <1>10, GroupKeeps

LEMMA ConfirmPageKeeps ==
  ASSUME IInv, NEW r \in Runs, NEW e \in Events, NEW g \in Groups, ConfirmPage(r, e, g)
  PROVE  IInv'
<1> DEFINE f == fetch[r][g]
           last == f.offset + 1 = PagesOf[e][g]
           at == IF last THEN "confirmed" ELSE "fetching"
           extracted == f.extracted + f.noise
           row == [status |-> IF last THEN "completed" ELSE "processing", next |-> f.offset + 1, extracted |-> extracted]
           new == [f EXCEPT !.at = at, !.offset = f.offset + 1, !.extracted = extracted, !.noise = 0]
<1>1. /\ run[r].at = "scraping" /\ e \in run[r].on /\ f.at = "inserting"
      /\ group' = [group EXCEPT ![e][g] = row]
      /\ UNCHANGED <<job, rows, memory, event, run, restarts>>
  BY DEF ConfirmPage
<1>2. /\ TypeOK /\ f \in FetchState /\ FetchTrue(r, e, g) /\ PagesOf[e][g] \in Nat \ {0}
      /\ job \in [status: JobStatus, warned: BOOLEAN] /\ rows \subseteq Events \X Groups \X (Nat \ {0})
  BY <1>1, AtGroup
<1>3. f.offset \in Nat /\ extracted \in Nat /\ at \in Phases
  BY <1>2 DEF FetchState, Phases
<1>4. fetch' = Disturbed(Moved(r, g, new))
  <2>1. fetch \in [Runs -> [Groups -> FetchState]]
    BY <1>2, Typed
  <2> HIDE DEF at, extracted
  <2>2. [fetch EXCEPT ![r][g].at = at, ![r][g].offset = f.offset + 1, ![r][g].extracted = extracted,
                      ![r][g].noise = 0] = Moved(r, g, new)
    BY <2>1 DEF Moved, FetchState
  <2>3. fetch' = Disturbed([fetch EXCEPT ![r][g].at = at, ![r][g].offset = @ + 1, ![r][g].extracted = extracted,
                                         ![r][g].noise = 0])
    BY DEF ConfirmPage, at, extracted
  <2>4. [fetch EXCEPT ![r][g].at = at, ![r][g].offset = @ + 1, ![r][g].extracted = extracted, ![r][g].noise = 0]
        = [fetch EXCEPT ![r][g].at = at, ![r][g].offset = f.offset + 1, ![r][g].extracted = extracted,
                        ![r][g].noise = 0]
    BY <2>1 DEF FetchState
  <2> QED
    BY <2>2, <2>3, <2>4
<1>5. /\ f.offset < PagesOf[e][g] /\ Covered(e, g, f.offset) /\ <<e, g, f.offset + 1>> \in rows
  BY <1>1, <1>2 DEF FetchTrue
<1>6. Covered(e, g, f.offset + 1)
  BY <1>3, <1>5 DEF Covered
<1>7. /\ row \in GroupRow /\ row.status # "absent" /\ row.next = f.offset + 1
      /\ row.status = "completed" => row.next = PagesOf[e][g]
  BY <1>3 DEF GroupRow, GroupStatus
<1>8. f.offset + 1 <= PagesOf[e][g]
  BY <1>2, <1>3, <1>5
<1> HIDE DEF extracted, at
<1>9. new \in FetchState /\ new.at = at /\ new.offset = f.offset + 1
  <2>1. new \in FetchState
    <3> DEFINE offset == f.offset + 1
    <3>1. offset \in Nat
      BY <1>3
    <3> HIDE DEF offset
    <3>2. [f EXCEPT !.at = at, !.offset = offset, !.extracted = extracted, !.noise = 0] \in FetchState
      BY <1>2, <1>3, <3>1, FetchTyped
    <3> QED
      BY <3>2 DEF offset
  <2> QED
    BY <1>2, <2>1 DEF FetchState
<1> HIDE DEF new, row
<1>10. /\ group' \in [Events -> [Groups -> GroupRow]] /\ Grows /\ GroupTrue' /\ Touched(e, g)'
  <2>1. row.next <= PagesOf[e][g] /\ Covered(e, g, row.next)
    BY <1>6, <1>7, <1>8
  <2> QED
    BY <1>1, <1>7, <2>1, GroupWritten
<1>11. fetch'[r][g].at = new.at /\ fetch'[r][g].offset = new.offset
  BY <1>2, <1>4, <1>9, MovedTrue
<1>12. FetchTrue(r, e, g)'
  <2>1. Covered(e, g, fetch[r][g].offset)'
    BY <1>1, <1>6, <1>9, <1>11 DEF Covered
  <2>2. fetch'[r][g].at \in {"fetching", "confirmed"} /\ fetch'[r][g].offset = f.offset + 1
    BY <1>9, <1>11 DEF at
  <2> HIDE DEF f
  <2> QED
    BY <1>8, <1>10, <2>1, <2>2 DEF FetchTrue
<1> QED
  BY <1>1, <1>2, <1>4, <1>9, <1>10, <1>12, GroupKeeps

LEMMA EmptyPageKeeps ==
  ASSUME IInv, NEW r \in Runs, NEW e \in Events, NEW g \in Groups, EmptyPage(r, e, g)
  PROVE  IInv'
<1> DEFINE f == fetch[r][g]
           new == [f EXCEPT !.at = "confirmed"]
           row == [status |-> "completed", next |-> f.offset, extracted |-> f.extracted]
<1>1. /\ run[r].at = "scraping" /\ e \in run[r].on /\ f.at = "fetching" /\ f.offset = PagesOf[e][g]
      /\ group' = [group EXCEPT ![e][g] = row]
      /\ UNCHANGED <<job, rows, memory, event, run, restarts>>
  BY DEF EmptyPage
<1>2. /\ TypeOK /\ f \in FetchState /\ FetchTrue(r, e, g)
      /\ job \in [status: JobStatus, warned: BOOLEAN] /\ rows \subseteq Events \X Groups \X (Nat \ {0})
  BY <1>1, AtGroup
<1>3. fetch' = Disturbed(Moved(r, g, new))
  <2>1. [fetch EXCEPT ![r][g].at = "confirmed"] = Moved(r, g, new)
    BY <1>2, Typed DEF Moved, FetchState
  <2> QED
    BY <2>1 DEF EmptyPage
<1>4. new \in FetchState /\ new.at = "confirmed"
  BY <1>2 DEF FetchState, Phases
<1>5. row \in GroupRow /\ row.status = "completed" /\ row.next = f.offset
  BY <1>2 DEF FetchState, GroupRow, GroupStatus
<1>6. f.offset <= PagesOf[e][g] /\ Covered(e, g, f.offset)
  BY <1>1, <1>2 DEF FetchTrue
<1> HIDE DEF new, row
<1>7. /\ group' \in [Events -> [Groups -> GroupRow]] /\ Grows /\ GroupTrue' /\ Touched(e, g)'
  BY <1>1, <1>5, <1>6, GroupWritten
<1>8. fetch'[r][g].at = "confirmed"
  BY <1>2, <1>3, <1>4, MovedTrue
<1>9. FetchTrue(r, e, g)'
  BY <1>7, <1>8 DEF FetchTrue
<1> QED
  BY <1>1, <1>2, <1>3, <1>4, <1>7, <1>9, GroupKeeps

LEMMA ReportGroupKeeps ==
  ASSUME IInv, NEW r \in Runs, NEW e \in Events, NEW g \in Groups, ReportGroup(r, e, g)
  PROVE  IInv'
<1> DEFINE f == fetch[r][g]
           new == [IdleFetch EXCEPT !.at = "done", !.extracted = f.extracted]
<1>1. /\ run[r].at = "scraping" /\ e \in run[r].on /\ f.at = "confirmed" /\ job' = memory
      /\ UNCHANGED <<group, rows, memory, event, run, restarts>>
  BY DEF ReportGroup, Reported
<1>2. /\ TypeOK /\ f \in FetchState /\ FetchTrue(r, e, g) /\ group \in [Events -> [Groups -> GroupRow]]
      /\ rows \subseteq Events \X Groups \X (Nat \ {0})
  BY <1>1, AtGroup
<1>3. fetch' = Disturbed(Moved(r, g, new))
  BY Zenon DEF ReportGroup, Moved
<1>4. new \in FetchState /\ new.at = "done"
  <2> DEFINE extracted == f.extracted
  <2>1. IdleFetch \in FetchState /\ "done" \in Phases
    BY DEF IdleFetch, FetchState, NoGroup, GroupRow, GroupStatus, Phases
  <2>2. extracted \in Nat
    BY <1>2 DEF FetchState
  <2> HIDE DEF extracted
  <2>3. LET x == [IdleFetch EXCEPT !.at = "done", !.extracted = extracted]
        IN  x \in FetchState /\ x.at = "done"
    BY <2>1, <2>2 DEF FetchState
  <2> QED
    BY <2>3 DEF extracted
<1>5. job' \in [status: JobStatus, warned: BOOLEAN]
  BY <1>1, RowTyped
<1>6. Grows /\ GroupTrue'
  BY <1>1 DEF IInv, Grows, GroupTrue, Covered
<1> HIDE DEF new
<1>7. fetch'[r][g].at = "done"
  BY <1>2, <1>3, <1>4, MovedTrue
<1>8. Touched(e, g)'
  BY <1>1, <1>2, <1>6, StaysTrue DEF FetchTrue
<1>9. FetchTrue(r, e, g)'
  BY <1>7, <1>8 DEF FetchTrue
<1> QED
  BY <1>1, <1>2, <1>3, <1>4, <1>5, <1>6, <1>9, GroupKeeps

LEMMA FetchFailsKeeps ==
  ASSUME IInv, NEW r \in Runs, NEW e \in Events, NEW g \in Groups, FetchFails(r, e, g)
  PROVE  IInv'
<1> DEFINE f == fetch[r][g]
           new == [IdleFetch EXCEPT !.at = "failing", !.seen = group[e][g]]
<1>1. /\ run[r].at = "scraping" /\ e \in run[r].on /\ f.at = "fetching"
      /\ UNCHANGED <<job, group, rows, memory, event, run, restarts>>
  BY DEF FetchFails, disk
<1>2. /\ TypeOK /\ f \in FetchState /\ FetchTrue(r, e, g) /\ group \in [Events -> [Groups -> GroupRow]]
      /\ group[e][g] \in GroupRow /\ job \in [status: JobStatus, warned: BOOLEAN]
      /\ rows \subseteq Events \X Groups \X (Nat \ {0})
  BY <1>1, AtGroup
<1>3. fetch' = Moved(r, g, new)
  BY Zenon DEF FetchFails, Moved
<1>4. new \in FetchState /\ new.at = "failing" /\ new.seen = group[e][g]
  <2> DEFINE row == group[e][g]
  <2>1. IdleFetch \in FetchState /\ "failing" \in Phases
    BY DEF IdleFetch, FetchState, NoGroup, GroupRow, GroupStatus, Phases
  <2>2. row \in GroupRow
    BY <1>2
  <2> HIDE DEF row
  <2>3. LET x == [IdleFetch EXCEPT !.at = "failing", !.seen = row]
        IN  x \in FetchState /\ x.at = "failing" /\ x.seen = row
    BY <2>1, <2>2 DEF FetchState
  <2> QED
    BY <2>3 DEF row
<1>5. Grows /\ GroupTrue'
  BY <1>1 DEF IInv, Grows, GroupTrue, Covered
<1> HIDE DEF new
<1>6. fetch'[r][g].at = "failing" /\ fetch'[r][g].seen = group'[e][g]
  BY <1>1, <1>2, <1>3, <1>4, MovedTrue
<1>7. Touched(e, g)'
  BY <1>1, <1>2, <1>5, StaysTrue DEF FetchTrue
<1>8. group'[e][g].next <= PagesOf[e][g] /\ Covered(e, g, group[e][g].next)'
  BY <1>5 DEF GroupTrue
<1>9. FetchTrue(r, e, g)'
  BY <1>6, <1>7, <1>8 DEF FetchTrue, Covered
<1> QED
  BY <1>1, <1>2, <1>3, <1>4, <1>5, <1>9, GroupKeeps

LEMMA MarkPartialKeeps ==
  ASSUME IInv, NEW r \in Runs, NEW e \in Events, NEW g \in Groups, MarkPartial(r, e, g)
  PROVE  IInv'
<1> DEFINE f == fetch[r][g]
           new == [IdleFetch EXCEPT !.at = "raised"]
           row == [f.seen EXCEPT !.status = "partial"]
<1>1. /\ run[r].at = "scraping" /\ e \in run[r].on /\ f.at = "failing"
      /\ group' = [group EXCEPT ![e][g] = row]
      /\ fetch' = Disturbed(Moved(r, g, new))
      /\ UNCHANGED <<job, rows, memory, event, run, restarts>>
  BY DEF MarkPartial, Moved
<1>2. /\ TypeOK /\ f \in FetchState /\ FetchTrue(r, e, g)
      /\ job \in [status: JobStatus, warned: BOOLEAN] /\ rows \subseteq Events \X Groups \X (Nat \ {0})
  BY <1>1, AtGroup
<1>3. new \in FetchState /\ new.at = "raised"
  BY DEF IdleFetch, FetchState, NoGroup, GroupRow, GroupStatus, Phases
<1>4. row \in GroupRow /\ row.status = "partial" /\ row.next = f.seen.next
  BY <1>2 DEF FetchState, GroupRow, GroupStatus
<1>5. f.seen.next <= PagesOf[e][g] /\ Covered(e, g, f.seen.next)
  BY <1>1, <1>2 DEF FetchTrue
<1> HIDE DEF new, row
<1>6. /\ group' \in [Events -> [Groups -> GroupRow]] /\ Grows /\ GroupTrue' /\ Touched(e, g)'
  BY <1>1, <1>4, <1>5, GroupWritten
<1>7. fetch'[r][g].at = "raised"
  BY <1>1, <1>2, <1>3, MovedTrue
<1>8. FetchTrue(r, e, g)'
  BY <1>6, <1>7 DEF FetchTrue
<1> QED
  BY <1>1, <1>2, <1>3, <1>6, <1>8, GroupKeeps

-----------------------------------------------------------------------------
(* Steps of no coroutine. *)

\* An event without an endpoint: all its coroutines keep what is there.
Kept(r) == [fetch EXCEPT ![r] = [g \in Groups |-> [IdleFetch EXCEPT !.at = "kept"]]]

LEMMA ScrapePageKeeps ==
  ASSUME IInv, NEW r \in Runs, NEW e \in Events, ScrapePage(r, e)
  PROVE  IInv'
<1> DEFINE new == [IdleFetch EXCEPT !.at = "kept"]
<1>1. /\ run[r].at = "scraping" /\ e \in run[r].on /\ UNCHANGED <<job, memory, event, group, restarts>>
      /\ rows' = rows \cup RowsOf(e) /\ run' = [run EXCEPT ![r].at = "gathered"] /\ fetch' = Kept(r)
  BY DEF ScrapePage, Kept
<1>2. TypeOK /\ run \in [Runs -> RunState] /\ fetch \in [Runs -> [Groups -> FetchState]] /\ RunTrue(r)
  BY Typed DEF IInv
<1>3. new \in FetchState /\ new.at = "kept"
  BY DEF IdleFetch, FetchState, NoGroup, GroupRow, GroupStatus, Phases
<1>4. /\ fetch' \in [Runs -> [Groups -> FetchState]]
      /\ \A g \in Groups : fetch'[r][g].at = "kept"
      /\ \A s \in Runs \ {r} : fetch'[s] = fetch[s]
  <2> HIDE DEF new
  <2>1. Kept(r) = [fetch EXCEPT ![r] = [g \in Groups |-> new]]
    BY DEF Kept, new
  <2> QED
    BY <1>1, <1>2, <1>3, <2>1
<1>5. /\ run' \in [Runs -> RunState] /\ run'[r].at = "gathered" /\ run'[r].on = run[r].on
      /\ \A s \in Runs \ {r} : run'[s] = run[s]
  BY <1>1, <1>2 DEF RunState, Steps
<1>6. RowsOf(e) \subseteq Events \X Groups \X (Nat \ {0})
  BY PagesTyped DEF RowsOf, PagesIn
<1>7. TypeOK'
  BY <1>1, <1>2, <1>4, <1>5, <1>6 DEF TypeOK, RunState, FetchState
<1>8. Grows
  BY <1>1 DEF Grows
<1>9. \A g \in Groups : Touched(e, g)'
  BY <1>1 DEF RowsOf, PagesIn, Touched, Whole, Covered
<1>10. RunTrue(r)'
  <2>1. \A x \in run[r].on : x = e
    BY <1>1, <1>2 DEF RunTrue
  <2>2. \A g \in Groups : FetchTrue(r, e, g)'
    BY <1>4, <1>9 DEF FetchTrue
  <2> QED
    BY <1>5, <1>9, <2>1, <2>2 DEF RunTrue
<1>11. \A s \in Runs \ {r} : Alike(s)
  BY <1>4 DEF Alike, Same
<1>12. GroupTrue'
  BY <1>1, <1>8, CoveredGrows DEF IInv, GroupTrue, Covered
<1>13. MemoryKnown'
  BY <1>1, <1>5 DEF IInv, MemoryKnown
<1> QED
  BY <1>1, <1>5, <1>7, <1>8, <1>10, <1>11, <1>12, <1>13, Keeps

\* The row of a group a new process finds.
Interrupted(row) == IF row.status = "processing" THEN [row EXCEPT !.status = "partial"] ELSE row

LEMMA InterruptedTyped ==
  ASSUME NEW row \in GroupRow
  PROVE  /\ Interrupted(row) \in GroupRow /\ Interrupted(row).next = row.next
         /\ Interrupted(row).status = "completed" => row.status = "completed"
BY DEF Interrupted, GroupRow, GroupStatus

\* A restart takes what the coroutines know, never what is stored.
LEMMA RestartKeeps ==
  ASSUME IInv, Restart
  PROVE  IInv'
<1>1. /\ memory' = NoRecord /\ rows' = rows /\ restarts < MaxRestarts /\ restarts' = restarts + 1
      /\ job' = [job EXCEPT !.status = IF @ = "running" THEN "interrupted" ELSE @]
      /\ event' = [e \in Events |-> IF event[e] = "processing" THEN "partial" ELSE event[e]]
      /\ group' = [e \in Events |-> [g \in Groups |-> Interrupted(group[e][g])]]
      /\ run' = [r \in Runs |-> IF run[r].at = "unasked" THEN run[r] ELSE [IdleRun EXCEPT !.at = "ended"]]
      /\ fetch' = [r \in Runs |-> [g \in Groups |-> IdleFetch]]
  BY DEF Restart, Interrupted
<1>2. /\ TypeOK /\ run \in [Runs -> RunState]
      /\ group \in [Events -> [Groups -> GroupRow]] /\ job \in [status: JobStatus, warned: BOOLEAN]
  BY Typed DEF IInv, TypeOK
<1>3. IdleFetch \in FetchState /\ IdleFetch.at = "idle"
  BY DEF IdleFetch, FetchState, NoGroup, GroupRow, GroupStatus, Phases
<1>4. fetch' \in [Runs -> [Groups -> FetchState]] /\ \A r \in Runs, g \in Groups : fetch'[r][g].at = "idle"
  BY <1>1, <1>3
<1>5. /\ run' \in [Runs -> RunState]
      /\ \A r \in Runs : run'[r].at \in {"unasked", "ended"} /\ (run'[r] = run[r] \/ run'[r].on = {})
  <2> DEFINE ended == [IdleRun EXCEPT !.at = "ended"]
  <2>1. ended \in RunState /\ ended.at = "ended" /\ ended.on = {}
    BY DEF IdleRun, RunState, Steps
  <2>2. run' = [r \in Runs |-> IF run[r].at = "unasked" THEN run[r] ELSE ended]
    BY <1>1
  <2> HIDE DEF ended
  <2> QED
    BY <1>2, <2>1, <2>2
<1>6. \A e \in Events, g \in Groups :
        /\ group'[e][g] \in GroupRow /\ group'[e][g].next = group[e][g].next
        /\ group'[e][g].status = "completed" => group[e][g].status = "completed"
  <2>1. \A e \in Events, g \in Groups : group'[e][g] = Interrupted(group[e][g]) /\ group[e][g] \in GroupRow
    BY <1>1, <1>2
  <2>2. ASSUME NEW e \in Events, NEW g \in Groups
        PROVE  /\ group'[e][g] \in GroupRow /\ group'[e][g].next = group[e][g].next
               /\ group'[e][g].status = "completed" => group[e][g].status = "completed"
    <3>1. group'[e][g] = Interrupted(group[e][g]) /\ group[e][g] \in GroupRow
      BY <2>1
    <3> QED
      BY <3>1, InterruptedTyped
  <2> QED
    BY <2>2
<1>7. group' \in [Events -> [Groups -> GroupRow]]
  BY <1>1, <1>6
<1>8. /\ event' \in [Events -> EventStatus]
      /\ \A e \in Events : event'[e] = "completed" => event[e] = "completed"
  BY <1>1, <1>2 DEF TypeOK, EventStatus
<1>9. job' \in [status: JobStatus, warned: BOOLEAN]
  BY <1>1, <1>2 DEF JobStatus
<1>10. /\ memory' \in [status: JobStatus \cup {"none"}, warned: BOOLEAN]
       /\ restarts' \in 0..MaxRestarts
  <2>1. restarts \in 0..MaxRestarts
    BY <1>2 DEF TypeOK
  <2>2. restarts' \in 0..MaxRestarts
    BY <1>1, <2>1, RestartsAssumption
  <2> QED
    BY <1>1, <2>2 DEF NoRecord
<1>11. GroupTrue'
  BY <1>1, <1>6 DEF IInv, GroupTrue, Covered
<1>12. TypeOK'
  BY <1>1, <1>2, <1>4, <1>5, <1>7, <1>8, <1>9, <1>10, <1>11 DEF TypeOK, GroupTrue, RunState, FetchState
<1>13. EventsTrue'
  BY <1>1, <1>8 DEF IInv, EventsTrue, Whole, Covered
<1>14. MemoryKnown'
  BY <1>5 DEF MemoryKnown
<1>15. \A r \in Runs : RunTrue(r)'
  <2>1. SUFFICES ASSUME NEW r \in Runs
                 PROVE  RunTrue(r)'
    OBVIOUS
  <2>2. \A a, b \in run'[r].on : a = b
    BY <1>5 DEF IInv, RunTrue
  <2>3. \A e \in run'[r].on, g \in Groups : FetchTrue(r, e, g)'
    BY <1>4 DEF FetchTrue
  <2> QED
    BY <1>4, <1>5, <2>2, <2>3 DEF RunTrue
<1> QED
  BY <1>11, <1>12, <1>13, <1>14, <1>15 DEF IInv

-----------------------------------------------------------------------------
(* The invariance. *)

LEMMA Initial == MaxRestarts \in Nat /\ Init => IInv
<1> SUFFICES ASSUME MaxRestarts \in Nat, Init
             PROVE  IInv
  OBVIOUS
<1>1. IdleFetch \in FetchState /\ IdleFetch.at = "idle"
  BY DEF IdleFetch, FetchState, NoGroup, GroupRow, GroupStatus, Phases
<1>2. fetch \in [Runs -> [Groups -> FetchState]] /\ \A r \in Runs, g \in Groups : fetch[r][g].at = "idle"
  BY <1>1 DEF Init
<1>3. run \in [Runs -> RunState] /\ \A r \in Runs : run[r].at \in {"unasked", "waiting"} /\ run[r].on = {}
  BY DEF Init, IdleRun, RunState, Steps
<1>4. NoGroup \in GroupRow /\ NoGroup.next = 0 /\ NoGroup.status = "absent"
  BY DEF NoGroup, GroupRow, GroupStatus
<1>5. /\ group \in [Events -> [Groups -> GroupRow]]
      /\ \A e \in Events, g \in Groups : group[e][g].next = 0 /\ group[e][g].status = "absent"
  BY <1>4 DEF Init
<1>6. GroupTrue
  BY <1>5, PagesTyped DEF GroupTrue, Covered
<1>7. TypeOK
  BY <1>2, <1>3, <1>5, <1>6 DEF Init, TypeOK, GroupTrue, RunState, FetchState, JobStatus, EventStatus
<1>8. EventsTrue /\ MemoryKnown
  BY DEF Init, EventsTrue, MemoryKnown
<1>9. \A r \in Runs : RunTrue(r)
  BY <1>2, <1>3 DEF RunTrue
<1> QED
  BY <1>6, <1>7, <1>8, <1>9 DEF IInv

LEMMA Step == IInv /\ [Next]_vars => IInv'
<1> SUFFICES ASSUME IInv, [Next]_vars
             PROVE  IInv'
  OBVIOUS
<1>1. CASE Restart
  BY <1>1, RestartKeeps
<1>2. ASSUME NEW r \in Runs, ReadJob(r)
      PROVE  IInv'
  BY <1>2, ReadJobKeeps
<1>3. ASSUME NEW r \in Runs, RunStep(r)
      PROVE  IInv'
  <2>1. ASSUME NEW e \in Events, NEW g \in Groups, GroupStep(r, e, g)
        PROVE  IInv'
    BY <2>1, ReadGroupKeeps, OpenGroupKeeps, InsertPageKeeps, ConfirmPageKeeps, EmptyPageKeeps, ReportGroupKeeps,
       FetchFailsKeeps, MarkPartialKeeps DEF GroupStep
  <2> QED
    BY <1>3, <2>1, ResumeKeeps, BeginKeeps, SelectKeeps, ScrapeKeeps, GatherKeeps, ReportKeeps, FinishKeeps,
       FailKeeps, StartEventKeeps, SkipEventKeeps, EventFailsKeeps, ScrapePageKeeps, JudgeEventKeeps, MarkEventKeeps
       DEF RunStep
<1>4. CASE UNCHANGED vars
  <2>1. \A r \in Runs : RunTrue(r) => RunTrue(r)'
    BY <1>4 DEF vars, RunTrue, FetchTrue, Touched, Whole, Covered
  <2>2. TypeOK' /\ GroupTrue' /\ EventsTrue' /\ MemoryKnown'
    BY <1>4 DEF IInv, vars, TypeOK, GroupTrue, EventsTrue, MemoryKnown, Whole, Covered
  <2> QED
    BY <2>1, <2>2 DEF IInv
<1> QED
  BY <1>1, <1>2, <1>3, <1>4 DEF Next

LEMMA Invariance == Spec => []IInv
<1>1. Init => IInv
  BY Initial, RestartsAssumption
<1> QED
  BY <1>1, Step, PTL DEF Spec

\* In every state, whatever was interrupted, the rows the job keeps in SQLite and
\* what its coroutines remember of them have their types, and no checkpoint lies
\* past the last page of its group (`save_page`, `save_group`).
THEOREM TypeCorrect == Spec => []TypeOK
BY Invariance, PTL DEF IInv

\* The cursor of a group never passes a page that is not stored: `_fetch_group_persistent`
\* inserts before it confirms, and what it marks partial, even from a row it read
\* before another run wrote, says no more than was stored then.
THEOREM CursorCovered == Spec => []RowsCoverCursor
<1>1. IInv => RowsCoverCursor
  BY DEF IInv, GroupTrue, Covered, RowsCoverCursor
<1> QED
  BY <1>1, Invariance, PTL

\* An event the job calls completed, and never reads again when it is resumed, has all
\* the athletes of all its groups: `groups_completed` is read before the event is
\* marked, and what it found stays so, though another run may write in between.
THEOREM CompletedWhole == Spec => []CompletedEventWhole
<1>1. IInv => CompletedEventWhole
  BY WholeRows DEF IInv, EventsTrue, CompletedEventWhole
<1> QED
  BY <1>1, Invariance, PTL

=============================================================================
