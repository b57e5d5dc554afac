------------------------ MODULE SourceImportProofs ------------------------
(***************************************************************************)
(* Proofs about SourceImport for any executions, tasks, pages and runs.    *)
(*                                                                         *)
(* What a body remembers between two of its statements is the whole        *)
(* matter. The invariant says, for each place a body can be at, what of    *)
(* its local state is still true although tasks, runs and sources were     *)
(* written since: a hash it is about to record was saved from (saved only  *)
(* grows), candidates it counted as ended are still ended (none becomes    *)
(* pending again, except in a run that did not exist), and the pages of a  *)
(* calendar it has counted or has still to take lie after those of its     *)
(* earlier batches. Each is one of the conjuncts of Stands; a step moves   *)
(* one body, whose facts are proved action by action, and leaves to the    *)
(* others what Grows says of the shared state.                             *)
(***************************************************************************)
EXTENDS SourceImport, FiniteSetTheorems, TLAPS

-----------------------------------------------------------------------------
(* The inductive invariant. *)

\* A hash that a source may be recorded with.
Recorded(i, hash) == hash \in saved[i] \/ <<i, hash>> \in Abroad

\* What a body knows of the page it is at.
KnowsPage(b) ==
    LET i == body[b].item
    IN  /\ body[b].at \in Checking => i \in PageIds
        /\ body[b].at \in {"comparing", "curating", "marking"} => body[b].hash \in 1..Versions[i]
        /\ body[b].at = "marking" => body[b].hash \in saved[i]
        /\ body[b].last # 0 => /\ body[b].at \in {"fetching", "comparing"}
                               /\ Recorded(i, body[b].last)
PagesKnown == \A b \in Bodies : KnowsPage(b)

\* What a body has counted of its run: candidates never become pending again.
RunPlaces == {"telling", "opening", "processing", "counting", "closing", "rereading"}
Counted(b) ==
    LET r == body[b].run
    IN  /\ r \in Runs => run[r].status # "none"
        /\ body[b].at \in RunPlaces => r \in Runs
        /\ body[b].at \in RunPlaces \cup {"creating"} => OverCandidates(b)
        /\ body[b].at \in {"picking"} \cup Checking /\ OverCandidates(b) => r \in Runs
        /\ body[b].at \in {"counting", "closing"} /\ body[b].left = 0 => Pending(r) = {}
        /\ body[b].at = "closing" => /\ body[b].done \in 0..Pages /\ body[b].bad \in 0..Pages
                                     /\ body[b].left = 0 => body[b].done = Pages
RunsCounted ==
    /\ \A b \in Bodies : Counted(b)
    /\ \A t \in Tasks : task[t].run \in Runs => run[task[t].run].status # "none"

\* The pages of a calendar a body has counted or has still to take follow those
\* of the batches before.
Busy(b) == IF body[b].at \in Checking THEN 1 ELSE 0
InCalendar(b) ==
    /\ body[b].task # None => task[body[b].task].status # "absent"
    /\ body[b].at = "listing" => body[b].done = 0 /\ KindOf(b) = "calendar"
    /\ body[b].at \in {"picking"} \cup Checking /\ KindOf(b) = "calendar" =>
           body[b].offset + body[b].done + Cardinality(body[b].todo) + Busy(b) <= Pages
WithinCalendar == \A b \in Bodies : InCalendar(b)

IInv == TypeOK /\ PagesKnown /\ RunsCounted /\ WithinCalendar /\ EndedRunIsWhole /\ HashWasSaved

-----------------------------------------------------------------------------
(* Lemmas about parts of a step. *)

LEMMA PagesFinite ==
  /\ IsFiniteSet(PageIds) /\ Cardinality(PageIds) = Pages
  /\ \A S \in SUBSET PageIds :
        IsFiniteSet(S) /\ Cardinality(S) \in 0..Pages /\ (Cardinality(S) = 0 <=> S = {})
<1>1. Pages \in Nat
  BY CountsAssumption
<1>2. IsFiniteSet(PageIds) /\ Cardinality(PageIds) = Pages
  BY <1>1, FS_Interval DEF PageIds
<1>3. ASSUME NEW S \in SUBSET PageIds
      PROVE  IsFiniteSet(S) /\ Cardinality(S) \in 0..Pages /\ (Cardinality(S) = 0 <=> S = {})
  <2>1. IsFiniteSet(S) /\ Cardinality(S) <= Pages
    BY <1>2, FS_Subset
  <2>2. Cardinality(S) \in Nat
    BY <2>1, FS_CardinalityType
  <2> QED
    BY <1>1, <2>1, <2>2, FS_EmptySet
<1> QED
  BY <1>2, <1>3

LEMMA IdleTyped == Idle \in Body /\ Idle.at = "idle" /\ Idle.last = 0 /\ Idle.run = 0
  BY CountsAssumption DEF Idle, Body, Places, Checking

\* What is left of a body whose check of a page is over.
LEMMA SettledBody ==
  ASSUME TypeOK, NEW b \in Bodies, NEW outcome \in {"fine", "failed", "thrown"},
         Settled(b, outcome), body[b].item \in PageIds, body[b].at # "idle"
  PROVE  /\ body' \in [Bodies -> Body]
         /\ \A c \in Bodies \ {b} : body'[c] = body[c]
         /\ body'[b].task = body[b].task /\ body'[b].run = body[b].run
         /\ body'[b].todo = body[b].todo /\ body'[b].offset = body[b].offset
         /\ body'[b].last = 0
         /\ body'[b].at \in {"settling", "picking", "finishing"}
         /\ body'[b].at = "settling" => body'[b].item = body[b].item
         /\ KindOf(b) = "calendar" => body'[b].at = "picking" /\ body'[b].done \in {body[b].done, body[b].done + 1}
<1> DEFINE clean == [body[b] EXCEPT !.found = FALSE, !.last = 0, !.hash = 0]
<1>1. body \in [Bodies -> Body] /\ body[b] \in Body
  BY DEF TypeOK
<1>2. clean \in Body /\ clean.task = body[b].task /\ clean.run = body[b].run /\ clean.todo = body[b].todo
      /\ clean.offset = body[b].offset /\ clean.last = 0 /\ clean.item = body[b].item /\ clean.done = body[b].done
  BY <1>1, CountsAssumption DEF Body
<1>3. 0 \in 0..Pages
  BY CountsAssumption
<1>8. "picking" \in Places /\ "settling" \in Places /\ "finishing" \in Places
  BY DEF Places, Checking
<1> HIDE DEF clean
<1>4. CASE OverCandidates(b)
  <2> DEFINE after == [clean EXCEPT !.at = "settling", !.outcome = outcome]
  <2>1. Become(b, after)
    BY <1>4 DEF Settled, clean, OverCandidates
  <2>2. KindOf(b) # "calendar"
    BY <1>4 DEF OverCandidates
  <2>3. /\ after \in Body /\ after.task = clean.task /\ after.run = clean.run /\ after.todo = clean.todo
        /\ after.offset = clean.offset /\ after.last = 0 /\ after.at = "settling" /\ after.item = clean.item
    BY <1>2, <1>8 DEF Body
  <2> HIDE DEF after
  <2> QED
    BY <1>1, <1>2, <2>1, <2>2, <2>3 DEF Become
<1>5. CASE ~OverCandidates(b) /\ KindOf(b) = "calendar"
  <2> DEFINE after == [clean EXCEPT !.at = "picking", !.item = 0, !.bad = @ + (IF outcome = "fine" THEN 0 ELSE 1),
                                    !.done = @ + (IF outcome = "thrown" THEN 0 ELSE 1)]
  <2>1. Become(b, after)
    BY <1>5 DEF Settled, clean, OverCandidates
  <2>2. clean.bad + (IF outcome = "fine" THEN 0 ELSE 1) \in Nat
        /\ clean.done + (IF outcome = "thrown" THEN 0 ELSE 1) \in {clean.done, clean.done + 1}
    BY <1>2 DEF Body
  <2>3. clean.done + (IF outcome = "thrown" THEN 0 ELSE 1) \in Nat
    BY <1>2, <2>2 DEF Body
  <2>4. after = [clean EXCEPT !.at = "picking", !.item = 0,
                              !.bad = clean.bad + (IF outcome = "fine" THEN 0 ELSE 1),
                              !.done = clean.done + (IF outcome = "thrown" THEN 0 ELSE 1)]
    BY <1>2 DEF Body
  <2>5. after \in Body
    <3> DEFINE bad == clean.bad + (IF outcome = "fine" THEN 0 ELSE 1)
               done == clean.done + (IF outcome = "thrown" THEN 0 ELSE 1)
    <3>1. bad \in Nat /\ done \in Nat /\ after = [clean EXCEPT !.at = "picking", !.item = 0, !.bad = bad, !.done = done]
      BY <2>2, <2>3, <2>4
    <3> HIDE DEF bad, done, after
    <3> QED
      BY <1>2, <1>3, <1>8, <3>1 DEF Body
  <2>6. /\ after.task = clean.task /\ after.run = clean.run /\ after.todo = clean.todo
        /\ after.offset = clean.offset /\ after.last = 0 /\ after.at = "picking"
        /\ after.done \in {clean.done, clean.done + 1}
    BY <1>2, <2>2, <2>4 DEF Body
  <2> HIDE DEF after
  <2> QED
    BY <1>1, <1>2, <2>1, <2>5, <2>6 DEF Become
<1>6. CASE ~OverCandidates(b) /\ KindOf(b) = "check-source"
  <2> DEFINE bad == IF outcome = "fine" THEN 0 ELSE 1
             after == [clean EXCEPT !.at = "finishing", !.item = 0, !.bad = bad]
  <2>1. Become(b, after)
    BY <1>6 DEF Settled, clean, OverCandidates
  <2>2. /\ after \in Body /\ after.task = clean.task /\ after.run = clean.run /\ after.todo = clean.todo
        /\ after.offset = clean.offset /\ after.last = 0 /\ after.at = "finishing"
    <3>1. bad \in Nat
      OBVIOUS
    <3> HIDE DEF bad
    <3> QED
      BY <1>2, <1>3, <1>8, <3>1 DEF Body
  <2> HIDE DEF after
  <2> QED
    BY <1>1, <1>2, <1>6, <2>1, <2>2 DEF Become
<1>7. CASE ~OverCandidates(b) /\ KindOf(b) \notin {"calendar", "check-source"}
  <2> DEFINE after == [clean EXCEPT !.at = "picking", !.item = 0]
  <2>1. Become(b, after)
    BY <1>7 DEF Settled, clean, OverCandidates
  <2>2. /\ after \in Body /\ after.task = clean.task /\ after.run = clean.run /\ after.todo = clean.todo
        /\ after.offset = clean.offset /\ after.last = 0 /\ after.at = "picking"
    BY <1>2, <1>3, <1>8 DEF Body
  <2> HIDE DEF after
  <2> QED
    BY <1>1, <1>2, <1>7, <2>1, <2>2 DEF Become
<1> QED
  BY <1>4, <1>5, <1>6, <1>7

-----------------------------------------------------------------------------
(* Type correctness and where bodies stand, step by step.                    *)

LEMMA InitStart == Init => IInv
<1> SUFFICES ASSUME Init PROVE IInv
  OBVIOUS
<1>1. CatalogOK
  BY CountsAssumption DEF Init, CatalogOK, PageIds
<1>2. TypeOK
  BY <1>1, IdleTyped, CountsAssumption DEF Init, TypeOK, RunRow, TaskRow, NoRun
<1>3. PagesKnown /\ WithinCalendar
  BY IdleTyped DEF Init, PagesKnown, KnowsPage, WithinCalendar, InCalendar, Checking, Idle
<1>4. RunsCounted
  BY IdleTyped DEF Init, RunsCounted, Counted, Runs, RunPlaces, Checking
<1>5. EndedRunIsWhole /\ HashWasSaved
  BY DEF Init, EndedRunIsWhole, HashWasSaved, Ended, NoRun
<1> QED
  BY <1>2, <1>3, <1>4, <1>5 DEF IInv

\* A body moves: the others stay where they are.
LEMMA Moved ==
  ASSUME TypeOK, NEW b \in Bodies, NEW after \in Body, Become(b, after)
  PROVE  /\ body' \in [Bodies -> Body] /\ body'[b] = after
         /\ \A c \in Bodies \ {b} : body'[c] = body[c]
         /\ after.at = "idle" \/ after.task # None
                => \A c \in Bodies : body'[c].at # "idle" => body'[c].task # None
  BY DEF Become, TypeOK

LEMMA EndTaskTyped ==
  ASSUME TypeOK, NEW b \in Bodies, NEW statuses, statuses \subseteq {"queued", "completed", "partial", "failed"},
         EndTask(b, statuses)
  PROVE  task' \in [Tasks -> TaskRow] /\ Become(b, Idle)
<1>1. task \in [Tasks -> TaskRow]
  BY DEF TypeOK
<1>2. CASE Holds(b)
  <2>1. PICK s \in statuses : task' = [task EXCEPT ![body[b].task].status = s, ![body[b].task].holder = None]
    BY <1>2 DEF EndTask
  <2>2. CASE body[b].task \in Tasks
    <3>1. task[body[b].task] \in TaskRow
      BY <1>1, <2>2
    <3>2. task' = [task EXCEPT ![body[b].task] = [task[body[b].task] EXCEPT !.status = s, !.holder = None]]
      BY <1>1, <2>1, <2>2 DEF TaskRow
    <3>3. [task[body[b].task] EXCEPT !.status = s, !.holder = None] \in TaskRow
      BY <3>1 DEF TaskRow
    <3> QED
      BY <1>1, <3>2, <3>3 DEF EndTask
  <2>3. CASE body[b].task \notin Tasks
    BY <1>1, <2>1, <2>3 DEF EndTask
  <2> QED
    BY <2>2, <2>3
<1>3. CASE ~Holds(b)
  BY <1>1, <1>3 DEF EndTask
<1> QED
  BY <1>2, <1>3

\* The three ways a body starts: from the payload, from a run, with a page.
LEMMA ClaimTyped ==
  ASSUME TypeOK, NEW b \in Bodies, NEW t \in Tasks, Claim(b, t)
  PROVE  \E start \in Body :
           /\ Take(b, t, start) /\ start.last = 0
           /\ \/ start.at = "creating" /\ start.run = 0 /\ task[t].kind = "catalog"
              \/ start.at = "telling" /\ start.run \in Runs /\ task[t].kind \in {"catalog", "catalog-process"}
                 /\ (start.run = task[t].run \/ run[start.run].status # "none")
              \/ start.at = "listing" /\ start.done = 0 /\ start.run = 0 /\ task[t].kind = "calendar"
              \/ start.at = "reading" /\ start.item \in PageIds /\ start.run = 0 /\ task[t].kind = "check-source"
              \/ start.at = "picking" /\ start.run = 0 /\ task[t].kind = "curate-batch"
<1>1. Idle \in Body /\ Idle.last = 0 /\ Idle.run = 0 /\ Idle.done = 0
  BY IdleTyped DEF Idle
<1>2. CASE task[t].kind = "calendar" /\ Take(b, t, [Idle EXCEPT !.at = "listing"])
  <2>1. [Idle EXCEPT !.at = "listing"] \in Body
    BY <1>1 DEF Body, Places
  <2> QED
    BY <1>1, <1>2, <2>1 DEF Body
<1>3. CASE /\ task[t].kind = "catalog"
           /\ Take(b, t, [Idle EXCEPT !.at = IF task[t].run = 0 THEN "creating" ELSE "telling", !.run = task[t].run])
  <2> DEFINE start == [Idle EXCEPT !.at = IF task[t].run = 0 THEN "creating" ELSE "telling", !.run = task[t].run]
  <2>1. task[t].run \in 0..MaxRuns
    BY DEF TypeOK, TaskRow
  <2>2. CASE task[t].run = 0
    <3>1. start = [Idle EXCEPT !.at = "creating", !.run = 0]
      BY <2>2
    <3>2. Take(b, t, start)
      BY <1>3
    <3>3. start \in Body /\ start.at = "creating" /\ start.run = 0 /\ start.last = 0
      BY <1>1, <3>1, CountsAssumption DEF Body, Places
    <3> HIDE DEF start
    <3> QED
      BY <1>3, <3>2, <3>3
  <2>3. CASE task[t].run # 0
    <3>1. start = [Idle EXCEPT !.at = "telling", !.run = task[t].run] /\ task[t].run \in Runs
      BY <2>1, <2>3, CountsAssumption DEF Runs
    <3>2. Take(b, t, start)
      BY <1>3
    <3>3. start \in Body /\ start.at = "telling" /\ start.run = task[t].run /\ start.last = 0
      BY <1>1, <2>1, <3>1 DEF Body, Places
    <3> HIDE DEF start
    <3> QED
      BY <1>3, <3>1, <3>2, <3>3
  <2> QED
    BY <2>2, <2>3
<1>4. ASSUME NEW r \in Runs, run[r].status # "none", Take(b, t, [Idle EXCEPT !.at = "telling", !.run = r])
      PROVE  \E start \in Body :
               /\ Take(b, t, start) /\ start.last = 0 /\ start.at = "telling" /\ start.run = r
  <2>1. r \in 0..MaxRuns /\ "telling" \in Places
    BY CountsAssumption DEF Places, Runs
  <2>2. [Idle EXCEPT !.at = "telling", !.run = r] \in Body
    BY <1>1, <2>1 DEF Body
  <2> QED
    BY <1>1, <1>4, <2>2 DEF Body
<1>5. ASSUME NEW i \in PageIds, Take(b, t, [Idle EXCEPT !.at = "reading", !.item = i])
      PROVE  \E start \in Body :
               /\ Take(b, t, start) /\ start.last = 0 /\ start.at = "reading" /\ start.run = 0 /\ start.item = i
  <2>1. i \in 0..Pages /\ "reading" \in Places
    BY CountsAssumption DEF Places, Checking, PageIds
  <2>2. [Idle EXCEPT !.at = "reading", !.item = i] \in Body
    BY <1>1, <2>1 DEF Body
  <2> QED
    BY <1>1, <1>5, <2>2 DEF Body
<1>6. ASSUME NEW chosen \in SUBSET PageIds, Take(b, t, [Idle EXCEPT !.at = "picking", !.todo = chosen])
      PROVE  \E start \in Body :
               /\ Take(b, t, start) /\ start.last = 0 /\ start.at = "picking" /\ start.run = 0
  <2>1. [Idle EXCEPT !.at = "picking", !.todo = chosen] \in Body
    BY <1>1 DEF Body, Places
  <2> QED
    BY <1>1, <1>6, <2>1 DEF Body
<1>7. CASE task[t].kind = "catalog-process" /\ \E r \in Runs : /\ run[r].status # "none"
                                              /\ Take(b, t, [Idle EXCEPT !.at = "telling", !.run = r])
  <2>1. PICK r \in Runs : /\ run[r].status # "none"
                          /\ Take(b, t, [Idle EXCEPT !.at = "telling", !.run = r])
    BY <1>7
  <2>2. PICK start \in Body :
               /\ Take(b, t, start) /\ start.last = 0 /\ start.at = "telling" /\ start.run = r
    BY <1>4, <2>1
  <2> QED
    BY <1>7, <2>1, <2>2
<1>8. CASE task[t].kind = "check-source" /\ \E i \in PageIds : /\ source[i].known
                                           /\ Take(b, t, [Idle EXCEPT !.at = "reading", !.item = i])
  BY <1>5, <1>8
<1>9. CASE task[t].kind = "curate-batch" /\ \E chosen \in SUBSET {i \in PageIds : edition[i] # 0} :
                                              Take(b, t, [Idle EXCEPT !.at = "picking", !.todo = chosen])
  BY <1>6, <1>9
<1> QED
  BY <1>2, <1>3, <1>7, <1>8, <1>9 DEF Claim

-----------------------------------------------------------------------------
(* Type correctness. *)

\* The counts of a body are numbers.
LEMMA CountsTyped ==
  ASSUME TypeOK, NEW b \in Bodies
  PROVE  body[b].offset \in Nat /\ body[b].done \in Nat /\ Cardinality(body[b].todo) \in Nat /\ Pages \in Nat
<1>1. body[b] \in Body /\ Pages \in Nat
  BY CountsAssumption DEF TypeOK
<1>2. body[b].todo \in SUBSET PageIds /\ body[b].done \in Nat /\ body[b].offset \in 0..Pages
  BY <1>1 DEF Body
<1>3. Cardinality(body[b].todo) \in 0..Pages
  BY <1>2, PagesFinite
<1> QED
  BY <1>1, <1>2, <1>3

LEMMA ItemsTyped ==
  /\ PageIds \subseteq 0..Pages /\ 0 \in 0..Pages /\ Runs \subseteq 0..MaxRuns /\ PageIds \subseteq Nat \ {0}
  /\ {"telling", "opening", "processing", "picking", "counting", "closing", "rereading", "finishing", "listing",
      "registering", "reading", "fetching", "comparing", "curating", "marking"} \subseteq Places
  BY CountsAssumption DEF PageIds, Runs, Places, Checking

\* Bodies that end, and the tasks they end.
LEMMA EndsTyped ==
  ASSUME TypeOK, NEW b \in Bodies, Die(b) \/ Finish(b) \/ Defer(b) \/ Refused(b)
  PROVE  task' \in [Tasks -> TaskRow] /\ Become(b, Idle) /\ UNCHANGED <<page, catalog, run>>
<1>1. Outcome(b) \subseteq {"queued", "completed", "partial", "failed"}
  BY DEF Outcome, Failed
<1>2. Failed \subseteq {"queued", "completed", "partial", "failed"}
  BY DEF Failed
<1>3. CASE Die(b)
  BY <1>3 DEF Die, TypeOK
<1>4. ASSUME NEW statuses, statuses \subseteq {"queued", "completed", "partial", "failed"}, EndTask(b, statuses)
      PROVE  task' \in [Tasks -> TaskRow] /\ Become(b, Idle) /\ UNCHANGED <<page, catalog, run>>
  BY <1>4, EndTaskTyped DEF EndTask
<1> QED
  BY <1>1, <1>2, <1>3, <1>4 DEF Finish, Defer, Refused

\* The steps of a body that only it sees.
Local(b) ==
    \/ OpenBatch(b) \/ CountPending(b) \/ CountEnded(b) \/ ReadRun(b) \/ ListPages(b) \/ EndBatch(b)
    \/ ReadSource(b) \/ Fetch(b)
    \/ \E i \in PageIds : FindSource(b, i) \/ Recall(b, i)

LEMMA LocalTyped ==
  ASSUME IInv, NEW b \in Bodies, Local(b)
  PROVE  /\ \E after \in Body : Become(b, after) /\ after.task = body[b].task /\ after.task # None
         /\ UNCHANGED <<page, catalog, run, task>>
<1>0. TypeOK /\ PagesKnown /\ RunsCounted /\ WithinCalendar /\ body[b] \in Body /\ (body[b].at # "idle" => body[b].task # None)
  BY DEF IInv, TypeOK
<1> DEFINE Goes(after) == Become(b, after) /\ after \in Body /\ after.task = body[b].task
<1>1. CASE OpenBatch(b)
  <2>1. PICK chosen \in SUBSET Pending(body[b].run) : Become(b, [body[b] EXCEPT !.at = "processing", !.todo = chosen])
    BY <1>1 DEF OpenBatch
  <2>2. chosen \in SUBSET PageIds
    BY DEF Pending
  <2>3. Goes([body[b] EXCEPT !.at = "processing", !.todo = chosen])
    BY <1>0, <2>1, <2>2, ItemsTyped DEF Body
  <2> QED
    BY <1>0, <1>1, <2>3 DEF OpenBatch
<1>2. CASE CountPending(b)
  <2>1. Cardinality(Pending(body[b].run)) \in Nat
    BY PagesFinite, CountsAssumption DEF Pending
  <2>2. Goes([body[b] EXCEPT !.at = "counting", !.left = Cardinality(Pending(body[b].run))])
    BY <1>0, <1>2, <2>1, ItemsTyped DEF CountPending, Body
  <2> QED
    BY <1>0, <1>2, <2>2 DEF CountPending
<1>3. CASE CountEnded(b)
  <2> DEFINE done == Cardinality({i \in PageIds : run[body[b].run].cand[i] # "pending"})
             bad == Cardinality({i \in PageIds : run[body[b].run].cand[i] = "failed"})
  <2>1. done \in Nat /\ bad \in Nat
    BY PagesFinite, CountsAssumption
  <2>2. Become(b, [body[b] EXCEPT !.at = "closing", !.done = done, !.bad = bad])
    BY <1>3 DEF CountEnded
  <2> HIDE DEF done, bad
  <2>3. Goes([body[b] EXCEPT !.at = "closing", !.done = done, !.bad = bad])
    BY <1>0, <2>1, <2>2, ItemsTyped DEF Body
  <2> QED
    BY <1>0, <1>3, <2>3 DEF CountEnded
<1>4. CASE ReadRun(b)
  <2> DEFINE again == run[body[b].run].status = "ready"
             at == IF again THEN "telling" ELSE "finishing"
             bad == IF again THEN 0 ELSE run[body[b].run].failed
  <2>1. body[b].run \in Runs
    BY <1>0, <1>4 DEF ReadRun, RunsCounted, Counted, RunPlaces
  <2>2. run[body[b].run].failed \in Nat
    BY <1>0, <2>1, CountsAssumption DEF TypeOK, RunRow
  <2>3. at \in Places /\ bad \in Nat
    BY <2>2, ItemsTyped
  <2>4. Become(b, [body[b] EXCEPT !.at = at, !.bad = bad])
    BY <1>4 DEF ReadRun
  <2> HIDE DEF at, bad
  <2>5. Goes([body[b] EXCEPT !.at = at, !.bad = bad])
    BY <1>0, <2>3, <2>4 DEF Body
  <2> QED
    BY <1>0, <1>4, <2>5 DEF ReadRun
<1>5. CASE ListPages(b)
  <2> DEFINE size == Least(Batch, Quantity - body[b].total)
             batch == (body[b].offset + 1)..Least(body[b].offset + size, Pages)
             at == IF batch = {} THEN "finishing" ELSE "picking"
  <2>1. batch \in SUBSET PageIds
    <3>1. body[b].offset \in Nat /\ body[b].total \in Nat
      BY <1>0, CountsAssumption DEF Body
    <3>2. size \in Int
      BY <3>1, CountsAssumption DEF Least
    <3> HIDE DEF size
    <3>3. Least(body[b].offset + size, Pages) \in Int /\ Least(body[b].offset + size, Pages) <= Pages
      BY <3>1, <3>2, CountsAssumption DEF Least
    <3> QED
      BY <3>1, <3>3, CountsAssumption DEF PageIds
  <2>2. at \in Places
    BY ItemsTyped
  <2>3. Become(b, [body[b] EXCEPT !.at = at, !.todo = batch])
    BY <1>5 DEF ListPages
  <2> HIDE DEF at, batch
  <2>4. Goes([body[b] EXCEPT !.at = at, !.todo = batch])
    BY <1>0, <2>1, <2>2, <2>3 DEF Body
  <2> QED
    BY <1>0, <1>5, <2>4 DEF ListPages
<1>6. CASE EndBatch(b)
  <2> DEFINE total == body[b].total + body[b].done
             offset == body[b].offset + body[b].done
             at == IF body[b].done = 0 \/ total >= Quantity THEN "finishing" ELSE "listing"
  <2>1. body[b].offset + body[b].done + Cardinality(body[b].todo) + Busy(b) <= Pages
    BY <1>0, <1>6 DEF EndBatch, WithinCalendar, InCalendar
  <2>2. Cardinality(body[b].todo) \in Nat /\ Busy(b) \in Nat
    BY <1>0, PagesFinite, CountsAssumption DEF Busy, Body
  <2>3. body[b].offset \in Nat /\ body[b].done \in Nat /\ body[b].total \in Nat
    BY <1>0, CountsAssumption DEF Body
  <2>4. offset \in 0..Pages /\ total \in Nat
    <3>1. \A x, y, c, d \in Nat : x + y + c + d <= Pages => x + y \in 0..Pages
      BY CountsAssumption
    <3> QED
      BY <2>1, <2>2, <2>3, <3>1
  <2>5. at \in Places
    BY ItemsTyped
  <2>6. Become(b, [body[b] EXCEPT !.at = at, !.total = total, !.offset = offset, !.done = 0])
    BY <1>0, <1>6 DEF EndBatch, Body
  <2> HIDE DEF at, total, offset
  <2>7. Goes([body[b] EXCEPT !.at = at, !.total = total, !.offset = offset, !.done = 0])
    BY <1>0, <2>4, <2>5, <2>6 DEF Body
  <2> QED
    BY <1>0, <1>6, <2>7 DEF EndBatch
<1>7. CASE ReadSource(b) \/ Fetch(b)
  <2>1. body[b].item \in PageIds
    BY <1>0, <1>7 DEF ReadSource, Fetch, PagesKnown, KnowsPage, Checking
  <2>2. source[body[b].item].hash \in Nat /\ page[body[b].item] \in Nat
    BY <1>0, <2>1 DEF TypeOK, CatalogOK
  <2>3. CASE ReadSource(b)
    <3>1. Goes([body[b] EXCEPT !.at = "fetching", !.last = source[body[b].item].hash])
      BY <1>0, <2>2, <2>3, ItemsTyped DEF ReadSource, Body
    <3> QED
      BY <1>0, <2>3, <3>1 DEF ReadSource
  <2>4. CASE Fetch(b)
    <3>1. Goes([body[b] EXCEPT !.at = "comparing", !.hash = page[body[b].item]])
      BY <1>0, <2>2, <2>4, ItemsTyped DEF Fetch, Body
    <3> QED
      BY <1>0, <2>4, <3>1 DEF Fetch
  <2> QED
    BY <1>7, <2>3, <2>4
<1>8. ASSUME NEW i \in PageIds, FindSource(b, i)
      PROVE  /\ \E after \in Body : Become(b, after) /\ after.task = body[b].task /\ after.task # None
             /\ UNCHANGED <<page, catalog, run, task>>
  <2> DEFINE todo == body[b].todo \ {i}
             found == source[i].known
  <2>1. todo \in SUBSET PageIds /\ found \in BOOLEAN
    BY <1>0 DEF Body, TypeOK, CatalogOK
  <2>2. Become(b, [body[b] EXCEPT !.at = "registering", !.todo = todo, !.item = i, !.found = found])
    BY <1>0, <1>8 DEF FindSource, Body
  <2> HIDE DEF todo, found
  <2>3. Goes([body[b] EXCEPT !.at = "registering", !.todo = todo, !.item = i, !.found = found])
    BY <1>0, <2>1, <2>2, ItemsTyped DEF Body
  <2> QED
    BY <1>0, <1>8, <2>3 DEF FindSource
<1>9. ASSUME NEW i \in PageIds, Recall(b, i)
      PROVE  /\ \E after \in Body : Become(b, after) /\ after.task = body[b].task /\ after.task # None
             /\ UNCHANGED <<page, catalog, run, task>>
  <2> DEFINE todo == body[b].todo \ {i}
             at == IF raw[i] = 0 THEN "picking" ELSE "curating"
             item == IF raw[i] = 0 THEN 0 ELSE i
  <2>1. todo \in SUBSET PageIds /\ at \in Places /\ item \in 0..Pages /\ raw[i] \in Nat
    BY <1>0, ItemsTyped DEF Body, TypeOK, CatalogOK
  <2>2. Become(b, [body[b] EXCEPT !.at = at, !.todo = todo, !.item = item, !.hash = raw[i]])
    BY <1>0, <1>9 DEF Recall, Body
  <2> HIDE DEF todo, at, item
  <2>3. Goes([body[b] EXCEPT !.at = at, !.todo = todo, !.item = item, !.hash = raw[i]])
    BY <1>0, <2>1, <2>2 DEF Body
  <2> QED
    BY <1>0, <1>9, <2>3 DEF Recall
<1> QED
  BY <1>1, <1>2, <1>3, <1>4, <1>5, <1>6, <1>7, <1>8, <1>9 DEF Local

\* The steps of a check that write the catalogue or are over with a page.
Catalogued(b) ==
    \/ RegisterSource(b) \/ RegisterFails(b) \/ CheckFails(b) \/ Unchanged(b) \/ SaveRaw(b)
    \/ SaveRefused(b) \/ SkipAbroad(b) \/ SaveEdition(b) \/ MarkSource(b)

LEMMA CatalogTyped ==
  ASSUME IInv, NEW b \in Bodies, Catalogued(b)
  PROVE  /\ body' \in [Bodies -> Body] /\ \A c \in Bodies : body'[c].at # "idle" => body'[c].task # None
         /\ CatalogOK' /\ UNCHANGED <<page, run, task>>
<1> DEFINE i == body[b].item
           BodiesTyped == body' \in [Bodies -> Body] /\ \A c \in Bodies : body'[c].at # "idle" => body'[c].task # None
<1>0. /\ TypeOK /\ PagesKnown /\ CatalogOK /\ body[b] \in Body
      /\ body[b].at # "idle" => body[b].task # None
  BY DEF IInv, TypeOK
<1>1. i \in PageIds /\ body[b].at # "idle"
  BY <1>0 DEF Catalogued, RegisterSource, RegisterFails, CheckFails, Unchanged, SaveRaw, SaveRefused,
              SkipAbroad, SaveEdition, MarkSource, PagesKnown, KnowsPage, Checking
<1>2. body[b].at \in {"comparing", "curating", "marking"} =>
          body[b].hash \in 1..Versions[i] /\ body[b].hash \in Nat \ {0} /\ body[b].hash <= Versions[i]
  <2>1. Versions[i] \in Nat
    BY <1>1, CountsAssumption DEF PageIds
  <2> QED
    BY <1>0, <2>1 DEF PagesKnown, KnowsPage
<1>3. ASSUME NEW outcome \in {"fine", "failed", "thrown"}, Settled(b, outcome) PROVE BodiesTyped
  <2>1. body' \in [Bodies -> Body] /\ body'[b].task = body[b].task /\ \A c \in Bodies \ {b} : body'[c] = body[c]
    BY <1>0, <1>1, <1>3, SettledBody
  <2> QED
    BY <1>0, <1>1, <2>1 DEF TypeOK
<1>4. ASSUME NEW after \in Body, Become(b, after), after.task = body[b].task PROVE BodiesTyped
  BY <1>0, <1>1, <1>4, Moved
<1> HIDE DEF BodiesTyped
<1>5. CASE RegisterSource(b)
  <2>1. [body[b] EXCEPT !.at = "reading", !.found = FALSE] \in Body
        /\ [body[b] EXCEPT !.at = "reading", !.found = FALSE].task = body[b].task
    BY <1>0, ItemsTyped DEF Body
  <2>2. BodiesTyped
    BY <1>4, <1>5, <2>1 DEF RegisterSource
  <2>3. source' \in [PageIds -> [known: BOOLEAN, hash: Nat]] /\ \A j \in PageIds : source'[j].hash = source[j].hash
    BY <1>0, <1>5 DEF RegisterSource, CatalogOK
  <2> QED
    BY <1>0, <1>5, <2>2, <2>3 DEF RegisterSource, CatalogOK, BodiesTyped
<1>6. CASE RegisterFails(b) \/ CheckFails(b) \/ SaveRefused(b)
  <2>1. BodiesTyped
    BY <1>3, <1>6 DEF RegisterFails, CheckFails, SaveRefused
  <2> QED
    BY <1>0, <1>6, <2>1 DEF RegisterFails, CheckFails, SaveRefused, CatalogOK, BodiesTyped, catalog
<1>7. ASSUME source' \in {source, [source EXCEPT ![i].hash = body[b].hash]},
             body[b].at \in {"comparing", "curating", "marking"}, UNCHANGED <<page, raw, edition, saved, run, task>>
      PROVE  CatalogOK' /\ UNCHANGED <<page, run, task>>
  <2>1. source' \in [PageIds -> [known: BOOLEAN, hash: Nat]]
    BY <1>0, <1>2, <1>7 DEF CatalogOK
  <2>2. \A j \in PageIds : source'[j].hash \in 0..Versions[j]
    BY <1>0, <1>1, <1>2, <1>7 DEF CatalogOK
  <2> QED
    BY <1>0, <1>7, <2>1, <2>2 DEF CatalogOK
<1>8. CASE Unchanged(b) \/ SkipAbroad(b) \/ MarkSource(b)
  <2>1. BodiesTyped
    BY <1>3, <1>8 DEF Unchanged, SkipAbroad, MarkSource
  <2> QED
    BY <1>7, <1>8, <2>1 DEF Unchanged, SkipAbroad, MarkSource, BodiesTyped
<1>9. CASE SaveRaw(b)
  <2>1. [body[b] EXCEPT !.at = "curating", !.last = 0] \in Body
        /\ [body[b] EXCEPT !.at = "curating", !.last = 0].task = body[b].task
    BY <1>0, ItemsTyped DEF Body
  <2>2. BodiesTyped
    BY <1>4, <1>9, <2>1 DEF SaveRaw
  <2>3. raw' \in [PageIds -> Nat] /\ \A j \in PageIds : raw'[j] \in 0..Versions[j]
    BY <1>0, <1>1, <1>2, <1>9 DEF SaveRaw, CatalogOK
  <2>4. CatalogOK'
    BY <1>0, <1>9, <2>3 DEF SaveRaw, CatalogOK
  <2> QED
    BY <1>9, <2>2, <2>4 DEF SaveRaw, BodiesTyped
<1>10. CASE SaveEdition(b)
  <2>1. [body[b] EXCEPT !.at = "marking"] \in Body /\ [body[b] EXCEPT !.at = "marking"].task = body[b].task
    BY <1>0, ItemsTyped DEF Body
  <2>2. BodiesTyped
    BY <1>3, <1>4, <1>10, <2>1 DEF SaveEdition
  <2>3. /\ edition' \in [PageIds -> Nat] /\ saved' \in [PageIds -> SUBSET (Nat \ {0})]
        /\ UNCHANGED <<page, source, raw, run, task>>
    BY <1>0, <1>2, <1>10 DEF SaveEdition, CatalogOK
  <2>4. \A j \in PageIds : edition'[j] \in 0..Versions[j] /\ saved'[j] \subseteq 0..Versions[j]
    BY <1>0, <1>2, <1>10 DEF SaveEdition, CatalogOK
  <2>5. CatalogOK'
    BY <1>0, <2>3, <2>4 DEF CatalogOK
  <2> QED
    BY <2>2, <2>3, <2>5 DEF BodiesTyped
<1> QED
  BY <1>5, <1>6, <1>8, <1>9, <1>10 DEF Catalogued

\* The steps of a body that write its run or report it.
Reported(b) ==
    \/ \E r \in Runs : CreateRun(b, r)
    \/ TellRun(b) \/ MarkProcessing(b) \/ SettleCandidate(b) \/ CloseBatch(b)
    \/ \E i \in PageIds : Simulate(b, i)

LEMMA RunTyped ==
  ASSUME IInv, NEW b \in Bodies, Reported(b)
  PROVE  /\ \E after \in Body : Become(b, after) /\ after.task = body[b].task /\ after.task # None
         /\ run' \in [Runs -> RunRow] /\ task' \in [Tasks -> TaskRow] /\ UNCHANGED <<page, catalog>>
<1> DEFINE Goes(after) == Become(b, after) /\ after \in Body /\ after.task = body[b].task
<1>0. /\ TypeOK /\ RunsCounted /\ body[b] \in Body
      /\ run \in [Runs -> RunRow] /\ task \in [Tasks -> TaskRow]
      /\ body[b].at # "idle" => body[b].task # None
  BY DEF IInv, TypeOK
<1>1. ASSUME NEW r \in Runs, CreateRun(b, r)
      PROVE  /\ \E after \in Body : Become(b, after) /\ after.task = body[b].task /\ after.task # None
             /\ run' \in [Runs -> RunRow] /\ task' \in [Tasks -> TaskRow] /\ UNCHANGED <<page, catalog>>
  <2>1. Goes([body[b] EXCEPT !.at = "telling", !.run = r])
    BY <1>0, <1>1, ItemsTyped DEF CreateRun, Body
  <2>2. \A simulate \in BOOLEAN : [NoRun EXCEPT !.status = "ready", !.simulate = simulate] \in RunRow
    BY ItemsTyped DEF NoRun, RunRow
  <2> QED
    BY <1>0, <1>1, <2>1, <2>2 DEF CreateRun
<1>2. CASE TellRun(b)
  <2>1. Goes([body[b] EXCEPT !.at = "opening"])
    BY <1>0, <1>2, ItemsTyped DEF TellRun, Body
  <2>2. task' \in [Tasks -> TaskRow]
    BY <1>0, <1>2 DEF TellRun, TaskRow, Body
  <2> QED
    BY <1>0, <1>2, <2>1, <2>2 DEF TellRun
<1>3. CASE MarkProcessing(b)
  <2>1. Goes([body[b] EXCEPT !.at = "picking"])
    BY <1>0, <1>3, ItemsTyped DEF MarkProcessing, Body
  <2>2. run' \in [Runs -> RunRow]
    BY <1>0, <1>3 DEF MarkProcessing, RunRow
  <2> QED
    BY <1>0, <1>3, <2>1, <2>2 DEF MarkProcessing
<1>4. CASE SettleCandidate(b)
  <2>1. Goes([body[b] EXCEPT !.at = "picking", !.item = 0, !.outcome = "fine"])
    BY <1>0, <1>4, ItemsTyped DEF SettleCandidate, Body
  <2>2. run' \in [Runs -> RunRow]
    <3> DEFINE q == body[b].run
               s == IF body[b].outcome = "fine" THEN "processed" ELSE "failed"
               row == [run[q] EXCEPT !.cand = [run[q].cand EXCEPT ![body[b].item] = s]]
    <3>1. q \in Runs => row \in RunRow
      BY <1>0 DEF RunRow
    <3>2. run' = [run EXCEPT ![q] = row]
      BY <1>4 DEF SettleCandidate
    <3> HIDE DEF row
    <3> QED
      BY <1>0, <3>1, <3>2
  <2> QED
    BY <1>0, <1>4, <2>1, <2>2 DEF SettleCandidate
<1>5. CASE CloseBatch(b)
  <2>1. Goes([body[b] EXCEPT !.at = "rereading", !.left = 0, !.done = 0, !.bad = 0])
    BY <1>0, <1>5, ItemsTyped DEF CloseBatch, Body
  <2>2. body[b].done \in 0..Pages /\ body[b].bad \in 0..Pages
    BY <1>0, <1>5 DEF CloseBatch, RunsCounted, Counted
  <2>3. run' \in [Runs -> RunRow]
    <3> DEFINE status == IF body[b].left > 0 THEN "ready" ELSE IF body[b].bad > 0 THEN "partial_success" ELSE "success"
               row == [run[body[b].run] EXCEPT !.status = status, !.processed = body[b].done, !.failed = body[b].bad]
    <3>1. status \in {"ready"} \cup Ended
      BY DEF Ended
    <3>2. run' = [run EXCEPT ![body[b].run] = row]
      BY <1>5 DEF CloseBatch
    <3> HIDE DEF status
    <3>3. body[b].run \in Runs => row \in RunRow
      BY <1>0, <2>2, <3>1 DEF RunRow
    <3> HIDE DEF row
    <3> QED
      BY <1>0, <3>2, <3>3
  <2> QED
    BY <1>0, <1>5, <2>1, <2>3 DEF CloseBatch
<1>6. ASSUME NEW i \in PageIds, Simulate(b, i)
      PROVE  /\ \E after \in Body : Become(b, after) /\ after.task = body[b].task /\ after.task # None
             /\ run' \in [Runs -> RunRow] /\ task' \in [Tasks -> TaskRow] /\ UNCHANGED <<page, catalog>>
  <2>1. Goes([body[b] EXCEPT !.todo = body[b].todo \ {i}])
    BY <1>0, <1>6 DEF Simulate, Body
  <2>2. run' \in [Runs -> RunRow]
    <3>1. body[b].run \in Runs
      BY <1>0, <1>6 DEF Simulate, RunsCounted, Counted
    <3>2. PICK s \in {"processed", "failed"} : run' = [run EXCEPT ![body[b].run].cand[i] = s]
      BY <1>6 DEF Simulate
    <3> QED
      BY <1>0, <3>1, <3>2 DEF RunRow
  <2> QED
    BY <1>0, <1>6, <2>1, <2>2 DEF Simulate
<1> QED
  BY <1>1, <1>2, <1>3, <1>4, <1>5, <1>6 DEF Reported

\* A body that ends its task or is cut off.
Ends(b) == Die(b) \/ Finish(b) \/ Defer(b) \/ Refused(b)

LEMMA StepCases ==
  ASSUME Next
  PROVE  \/ \E i \in PageIds : ChangePage(i)
         \/ \E t \in Tasks : Request(t) \/ Lapse(t)
         \/ \E b \in Bodies : \/ \E t \in Tasks : Claim(b, t)
                              \/ Ends(b) \/ Local(b) \/ Reported(b) \/ Catalogued(b)
  BY DEF Next, ImportRunStep, Check, Ends, Local, Reported, Catalogued

LEMMA TypeStep ==
  ASSUME IInv, [Next]_vars
  PROVE  TypeOK'
<1>0. TypeOK /\ CatalogOK /\ body \in [Bodies -> Body]
  BY DEF IInv, TypeOK
<1>1. CASE UNCHANGED vars
  BY <1>0, <1>1 DEF TypeOK, CatalogOK, vars
<1>2. ASSUME NEW i \in PageIds, ChangePage(i) PROVE TypeOK'
  <2>1. Versions[i] \in Nat /\ page[i] \in Nat /\ page[i] < Versions[i]
    BY <1>0, <1>2, CountsAssumption DEF ChangePage, CatalogOK, PageIds
  <2>2. page' \in [PageIds -> Nat \ {0}] /\ \A j \in PageIds : page'[j] \in 0..Versions[j]
    BY <1>0, <1>2, <2>1 DEF ChangePage, CatalogOK
  <2>3. CatalogOK'
    BY <1>0, <1>2, <2>2 DEF ChangePage, CatalogOK, catalog
  <2> QED
    BY <1>0, <1>2, <2>3 DEF ChangePage, TypeOK
<1>3. ASSUME NEW t \in Tasks, Request(t) \/ Lapse(t) PROVE TypeOK'
  <2>1. task' \in [Tasks -> TaskRow]
    <3>1. task \in [Tasks -> TaskRow]
      BY <1>0 DEF TypeOK
    <3>2. CASE Request(t)
      <4>1. PICK kind \in Kinds[t] : task' = [task EXCEPT ![t].kind = kind, ![t].status = "queued"]
        BY <3>2 DEF Request
      <4>2. kind \in AllKinds
        BY <4>1, KindsAssumption
      <4> QED
        <5> DEFINE row == [task[t] EXCEPT !.kind = kind, !.status = "queued"]
        <5>1. row \in TaskRow
          BY <3>1, <4>2 DEF TaskRow
        <5>2. task' = [task EXCEPT ![t] = row]
          BY <4>1
        <5> HIDE DEF row
        <5> QED
          BY <3>1, <5>1, <5>2
    <3>3. CASE Lapse(t)
      <4> DEFINE row == [task[t] EXCEPT !.status = "queued", !.holder = None]
      <4>1. row \in TaskRow
        BY <3>1 DEF TaskRow
      <4>2. task' = [task EXCEPT ![t] = row]
        BY <3>3 DEF Lapse
      <4> HIDE DEF row
      <4> QED
        BY <3>1, <4>1, <4>2
    <3> QED
      BY <1>3, <3>2, <3>3
  <2>2. CatalogOK'
    BY <1>0, <1>3 DEF Request, Lapse, CatalogOK, catalog
  <2> QED
    BY <1>0, <1>3, <2>1, <2>2 DEF Request, Lapse, TypeOK
<1>4. ASSUME NEW b \in Bodies, NEW t \in Tasks, Claim(b, t) PROVE TypeOK'
  <2>1. PICK start \in Body : Take(b, t, start)
    BY <1>0, <1>4, ClaimTyped
  <2>2. [start EXCEPT !.task = t] \in Body /\ [start EXCEPT !.task = t].task # None
    BY NoneAssumption DEF Body
  <2>3. body' \in [Bodies -> Body] /\ \A c \in Bodies : body'[c].at # "idle" => body'[c].task # None
    BY <1>0, <2>1, <2>2, Moved DEF Take
  <2>4. task' \in [Tasks -> TaskRow]
    <3> DEFINE row == [task[t] EXCEPT !.status = "running", !.holder = b]
    <3>1. task \in [Tasks -> TaskRow]
      BY <1>0 DEF TypeOK
    <3>2. row \in TaskRow
      BY <3>1 DEF TaskRow
    <3>3. task' = [task EXCEPT ![t] = row]
      BY <2>1 DEF Take
    <3> HIDE DEF row
    <3> QED
      BY <3>1, <3>2, <3>3
  <2>5. CatalogOK'
    BY <1>0, <2>1 DEF Take, CatalogOK, catalog
  <2> QED
    BY <1>0, <2>1, <2>3, <2>4, <2>5 DEF Take, TypeOK
<1>5. ASSUME NEW b \in Bodies, Ends(b) PROVE TypeOK'
  <2>1. task' \in [Tasks -> TaskRow] /\ Become(b, Idle) /\ UNCHANGED <<page, catalog, run>>
    BY <1>0, <1>5, EndsTyped DEF Ends
  <2>2. body' \in [Bodies -> Body] /\ \A c \in Bodies : body'[c].at # "idle" => body'[c].task # None
    BY <1>0, <2>1, IdleTyped, Moved
  <2>3. CatalogOK'
    BY <1>0, <2>1 DEF CatalogOK, catalog
  <2> QED
    BY <1>0, <2>1, <2>2, <2>3 DEF TypeOK
<1>6. ASSUME NEW b \in Bodies, Local(b) \/ Reported(b) PROVE TypeOK'
  <2>1. PICK after \in Body : Become(b, after) /\ after.task = body[b].task /\ after.task # None
    BY <1>6, LocalTyped, RunTyped
  <2>2. run' \in [Runs -> RunRow] /\ task' \in [Tasks -> TaskRow] /\ UNCHANGED <<page, catalog>>
    BY <1>0, <1>6, LocalTyped, RunTyped DEF TypeOK
  <2>3. body' \in [Bodies -> Body] /\ \A c \in Bodies : body'[c].at # "idle" => body'[c].task # None
    BY <1>0, <2>1, Moved
  <2>4. CatalogOK'
    BY <1>0, <2>2 DEF CatalogOK, catalog
  <2> QED
    BY <2>2, <2>3, <2>4 DEF TypeOK
<1>7. ASSUME NEW b \in Bodies, Catalogued(b) PROVE TypeOK'
  BY <1>0, <1>7, CatalogTyped DEF TypeOK
<1> QED
  BY <1>1, <1>2, <1>3, <1>4, <1>5, <1>6, <1>7, StepCases

-----------------------------------------------------------------------------
(* What only grows, and the bodies that stay where they are. *)

LEMMA Grows ==
  ASSUME IInv, [Next]_vars
  PROVE  /\ \A i \in PageIds : saved[i] \subseteq saved'[i]
         /\ \A r \in Runs : run[r].status # "none" =>
               /\ run'[r].status # "none"
               /\ \A i \in PageIds : run[r].cand[i] # "pending" => run'[r].cand[i] # "pending"
         /\ \A t \in Tasks : task[t].status # "absent" =>
               task'[t].status # "absent" /\ task'[t].kind = task[t].kind
<1> DEFINE Saved == \A i \in PageIds : saved[i] \subseteq saved'[i]
           Ran == \A r \in Runs : run[r].status # "none" =>
                    /\ run'[r].status # "none"
                    /\ \A i \in PageIds : run[r].cand[i] # "pending" => run'[r].cand[i] # "pending"
           Tasked == \A t \in Tasks : task[t].status # "absent" =>
                       task'[t].status # "absent" /\ task'[t].kind = task[t].kind
<1>0. TypeOK /\ CatalogOK /\ run \in [Runs -> RunRow] /\ task \in [Tasks -> TaskRow]
  BY DEF IInv, TypeOK
<1>1. CASE UNCHANGED vars
  BY <1>1 DEF vars
<1>2. ASSUME NEW i \in PageIds, ChangePage(i) PROVE Saved /\ Ran /\ Tasked
  BY <1>2 DEF ChangePage, catalog
<1>3. ASSUME NEW t \in Tasks, Request(t) \/ Lapse(t) PROVE Saved /\ Ran /\ Tasked
  <2>1. CASE Request(t)
    <3>1. PICK kind \in Kinds[t] : task' = [task EXCEPT ![t].kind = kind, ![t].status = "queued"]
      BY <2>1 DEF Request
    <3>2. task[t].status = "absent" /\ \A u \in Tasks \ {t} : task'[u] = task[u]
      BY <1>0, <2>1, <3>1 DEF Request
    <3>3. Tasked
      BY <3>2
    <3> QED
      BY <2>1, <3>3 DEF Request, catalog
  <2>2. CASE Lapse(t)
    <3>1. Tasked
      BY <1>0, <2>2 DEF Lapse, TaskRow
    <3> QED
      BY <2>2, <3>1 DEF Lapse, catalog
  <2> QED
    BY <1>3, <2>1, <2>2
<1>4. ASSUME NEW b \in Bodies, NEW t \in Tasks, Claim(b, t) PROVE Saved /\ Ran /\ Tasked
  <2>1. PICK start \in Body : Take(b, t, start)
    BY <1>0, <1>4, ClaimTyped
  <2>2. Tasked
    BY <1>0, <2>1 DEF Take, TaskRow
  <2> QED
    BY <2>1, <2>2 DEF Take, catalog
<1>5. ASSUME NEW b \in Bodies, Ends(b) PROVE Saved /\ Ran /\ Tasked
  <2>1. UNCHANGED <<page, catalog, run>>
    BY <1>0, <1>5, EndsTyped DEF Ends
  <2>2. ASSUME NEW statuses, "absent" \notin statuses, EndTask(b, statuses) PROVE Tasked
    <3>1. CASE Holds(b)
      <4>1. PICK s \in statuses : task' = [task EXCEPT ![body[b].task].status = s, ![body[b].task].holder = None]
        BY <2>2, <3>1 DEF EndTask
      <4>2. s # "absent"
        BY <2>2, <4>1
      <4> QED
        BY <1>0, <4>1, <4>2 DEF TaskRow
    <3>2. CASE ~Holds(b)
      BY <2>2, <3>2 DEF EndTask
    <3> QED
      BY <3>1, <3>2
  <2>3. "absent" \notin Outcome(b) /\ "absent" \notin Failed
    BY DEF Outcome, Failed
  <2>4. Tasked
    BY <1>5, <2>2, <2>3 DEF Ends, Die, Finish, Defer, Refused
  <2> QED
    BY <2>1, <2>4 DEF catalog
<1>6. ASSUME NEW b \in Bodies, Local(b) PROVE Saved /\ Ran /\ Tasked
  BY <1>6, LocalTyped DEF catalog
<1>7. ASSUME NEW b \in Bodies, Reported(b) PROVE Saved /\ Ran /\ Tasked
  <2>1. UNCHANGED <<page, catalog>>
    BY <1>7, RunTyped
  <2>2. ASSUME NEW r \in Runs, CreateRun(b, r) PROVE Ran /\ Tasked
    <3>1. PICK simulate \in BOOLEAN : run' = [run EXCEPT ![r] = [NoRun EXCEPT !.status = "ready", !.simulate = simulate]]
      BY <2>2 DEF CreateRun
    <3>2. run[r].status = "none" /\ \A q \in Runs \ {r} : run'[q] = run[q]
      BY <1>0, <2>2, <3>1 DEF CreateRun
    <3> QED
      BY <2>2, <3>2 DEF CreateRun
  <2>3. CASE TellRun(b)
    <3>1. Tasked
      BY <1>0, <2>3 DEF TellRun, TaskRow
    <3> QED
      BY <2>3, <3>1 DEF TellRun, catalog
  <2> DEFINE q == body[b].run
  <2>4. CASE MarkProcessing(b)
    <3>1. \A r \in Runs : /\ run'[r].cand = run[r].cand
                          /\ run'[r].status \in {run[r].status, "processing"}
      BY <1>0, <2>4 DEF MarkProcessing, RunRow
    <3> QED
      BY <2>4, <3>1 DEF MarkProcessing, catalog
  <2>5. CASE SettleCandidate(b)
    <3>1. PICK s \in {"processed", "failed"} : run' = [run EXCEPT ![q].cand[body[b].item] = s]
      BY <2>5 DEF SettleCandidate
    <3>2. \A r \in Runs : /\ run'[r].status = run[r].status
                          /\ \A i \in PageIds : run'[r].cand[i] \in {run[r].cand[i], s}
      BY <1>0, <3>1 DEF RunRow
    <3> QED
      BY <2>5, <3>1, <3>2 DEF SettleCandidate, catalog
  <2>6. CASE CloseBatch(b)
    <3>1. \A r \in Runs : /\ run'[r].cand = run[r].cand
                          /\ run'[r].status \in {run[r].status, "ready", "partial_success", "success"}
      BY <1>0, <2>6 DEF CloseBatch, RunRow
    <3> QED
      BY <2>6, <3>1 DEF CloseBatch, catalog
  <2>7. ASSUME NEW i \in PageIds, Simulate(b, i) PROVE Ran /\ Tasked
    <3>1. PICK s \in {"processed", "failed"} : run' = [run EXCEPT ![q].cand[i] = s]
      BY <2>7 DEF Simulate
    <3>2. \A r \in Runs : /\ run'[r].status = run[r].status
                          /\ \A j \in PageIds : run'[r].cand[j] \in {run[r].cand[j], s}
      BY <1>0, <3>1 DEF RunRow
    <3> QED
      BY <2>7, <3>1, <3>2 DEF Simulate, catalog
  <2>8. Ran /\ Tasked
    BY <1>7, <2>2, <2>3, <2>4, <2>5, <2>6, <2>7 DEF Reported
  <2> QED
    BY <2>1, <2>8 DEF catalog
<1>8. ASSUME NEW b \in Bodies, Catalogued(b) PROVE Saved /\ Ran /\ Tasked
  <2>1. UNCHANGED <<page, run, task>>
    BY <1>8, CatalogTyped
  <2>2. Saved
    <3>1. CASE SaveEdition(b)
      BY <1>0, <3>1 DEF SaveEdition, CatalogOK
    <3>2. CASE ~SaveEdition(b)
      BY <1>8, <3>2 DEF Catalogued, RegisterSource, RegisterFails, CheckFails, Unchanged, SaveRaw, SaveRefused, SkipAbroad,
                        MarkSource, catalog
    <3> QED
      BY <3>1, <3>2
  <2> QED
    BY <2>1, <2>2
<1> QED
  BY <1>1, <1>2, <1>3, <1>4, <1>5, <1>6, <1>7, <1>8, StepCases

\* What a body knows and has counted holds while it stays where it is.
Stands(c) == KnowsPage(c) /\ Counted(c) /\ InCalendar(c)

LEMMA Stays ==
  ASSUME IInv, [Next]_vars, NEW c \in Bodies, body'[c] = body[c]
  PROVE  Stands(c)'
<1>0. /\ KnowsPage(c) /\ Counted(c) /\ InCalendar(c) /\ body[c] \in Body
      /\ body[c].at # "idle" => body[c].task # None
  BY DEF IInv, TypeOK, PagesKnown, RunsCounted, WithinCalendar
<1>1. KnowsPage(c)'
  <2>1. body[c].last # 0 => body[c].item \in PageIds
    BY <1>0 DEF KnowsPage, Checking
  <2> QED
    BY <1>0, <2>1, Grows DEF KnowsPage, Recorded, Checking
<1>2. body[c].at # "idle" => KindOf(c)' = KindOf(c)
  BY <1>0, Grows DEF InCalendar, KindOf, Body
<1>3. Counted(c)'
  <2>1. body[c].at # "idle" => OverCandidates(c)' = OverCandidates(c)
    BY <1>2 DEF OverCandidates
  <2>2. body[c].run \in Runs /\ Pending(body[c].run) = {} => Pending(body[c].run)' = {}
    BY <1>0, Grows DEF Counted, Pending
  <2> QED
    BY <1>0, <2>1, <2>2, Grows DEF Counted, RunPlaces, Checking
<1>4. InCalendar(c)'
  BY <1>0, <1>2, Grows DEF InCalendar, Busy, Checking, Body
<1> QED
  BY <1>1, <1>3, <1>4 DEF Stands

-----------------------------------------------------------------------------
(* The body that moves. *)

LEMMA EndsStand ==
  ASSUME IInv, NEW b \in Bodies, Ends(b)
  PROVE  Stands(b)' /\ \A c \in Bodies \ {b} : body'[c] = body[c]
<1>1. TypeOK
  BY DEF IInv
<1>2. body'[b] = Idle /\ \A c \in Bodies \ {b} : body'[c] = body[c]
  BY <1>1, EndsTyped, IdleTyped, Moved DEF Ends
<1>3. Idle.at = "idle" /\ Idle.last = 0 /\ Idle.run \notin Runs /\ Idle.task = None
  BY DEF Idle, Runs
<1> QED
  BY <1>2, <1>3 DEF Stands, KnowsPage, Counted, InCalendar, RunPlaces, Checking

LEMMA ClaimStands ==
  ASSUME IInv, NEW b \in Bodies, NEW t \in Tasks, Claim(b, t)
  PROVE  Stands(b)' /\ \A c \in Bodies \ {b} : body'[c] = body[c]
<1>0. TypeOK /\ RunsCounted /\ task \in [Tasks -> TaskRow]
  BY DEF IInv, TypeOK
<1>1. PICK start \in Body :
        /\ Take(b, t, start) /\ start.last = 0
        /\ \/ start.at = "creating" /\ start.run = 0 /\ task[t].kind = "catalog"
           \/ start.at = "telling" /\ start.run \in Runs /\ task[t].kind \in {"catalog", "catalog-process"}
                 /\ (start.run = task[t].run \/ run[start.run].status # "none")
           \/ start.at = "listing" /\ start.done = 0 /\ start.run = 0 /\ task[t].kind = "calendar"
           \/ start.at = "reading" /\ start.item \in PageIds /\ start.run = 0 /\ task[t].kind = "check-source"
           \/ start.at = "picking" /\ start.run = 0 /\ task[t].kind = "curate-batch"
  BY <1>0, ClaimTyped
<1> DEFINE after == [start EXCEPT !.task = t]
<1>2. /\ after \in Body /\ after.task = t /\ after.at = start.at /\ after.run = start.run /\ after.done = start.done
      /\ after.item = start.item /\ after.last = start.last
  BY DEF Body
<1>3. body'[b] = after /\ \A c \in Bodies \ {b} : body'[c] = body[c]
  BY <1>0, <1>1, <1>2, Moved DEF Take
<1> HIDE DEF after
<1>4. task'[t].kind = task[t].kind /\ task'[t].status = "running" /\ run' = run /\ t # None /\ 0 \notin Runs
  BY <1>0, <1>1, NoneAssumption DEF Take, TaskRow, Runs
<1>5. KnowsPage(b)'
  BY <1>1, <1>2, <1>3 DEF KnowsPage, Checking
<1>6. KindOf(b)' = task[t].kind
  BY <1>2, <1>3, <1>4 DEF KindOf
<1>7. Counted(b)'
  BY <1>0, <1>1, <1>2, <1>3, <1>4, <1>6 DEF Counted, RunsCounted, RunPlaces, Checking, OverCandidates
<1>8. InCalendar(b)'
  BY <1>1, <1>2, <1>3, <1>4, <1>6 DEF InCalendar, Checking
<1> QED
  BY <1>3, <1>5, <1>7, <1>8 DEF Stands

\* The kind of the task of a body stays.
LEMMA KindStays ==
  ASSUME IInv, [Next]_vars, NEW b \in Bodies, body[b].at # "idle", body'[b].task = body[b].task
  PROVE  /\ KindOf(b)' = KindOf(b) /\ OverCandidates(b)' = OverCandidates(b)
         /\ body'[b].task # None => task'[body'[b].task].status # "absent"
<1>1. body[b].task \in Tasks /\ task[body[b].task].status # "absent"
  BY DEF IInv, TypeOK, Body, WithinCalendar, InCalendar
<1> QED
  BY <1>1, Grows DEF KindOf, OverCandidates

LEMMA LocalStands ==
  ASSUME IInv, [Next]_vars, NEW b \in Bodies, Local(b)
  PROVE  Stands(b)' /\ \A c \in Bodies \ {b} : body'[c] = body[c]
<1>0. /\ TypeOK /\ CatalogOK /\ body[b] \in Body /\ body \in [Bodies -> Body]
      /\ KnowsPage(b) /\ Counted(b) /\ InCalendar(b) /\ HashWasSaved
  BY DEF IInv, TypeOK, PagesKnown, RunsCounted, WithinCalendar
<1>1. UNCHANGED <<page, catalog, run, task>>
  BY LocalTyped
<1>2. UNCHANGED <<page, source, saved, run, task>>
  BY <1>1 DEF catalog
<1>3. PICK after \in Body : Become(b, after) /\ after.task = body[b].task /\ after.task # None
  BY LocalTyped
<1>4. body'[b] = after /\ \A c \in Bodies \ {b} : body'[c] = body[c]
  BY <1>0, <1>3, Moved
<1>5. body[b].at # "idle"
  BY DEF Local, OpenBatch, CountPending, CountEnded, ReadRun, ListPages, EndBatch, ReadSource, Fetch, FindSource, Recall
<1>6. /\ KindOf(b)' = KindOf(b) /\ OverCandidates(b)' = OverCandidates(b)
      /\ body'[b].task # None => task'[body'[b].task].status # "absent"
  BY <1>3, <1>4, <1>5, KindStays
<1>7. CASE OpenBatch(b)
  <2>1. PICK chosen : Become(b, [body[b] EXCEPT !.at = "processing", !.todo = chosen])
    BY <1>7 DEF OpenBatch
  <2>2. body'[b].at = "processing" /\ body'[b].last = body[b].last /\ body'[b].run = body[b].run
    BY <1>0, <2>1 DEF Become, Body
  <2> QED
    BY <1>0, <1>2, <1>4, <1>6, <1>7, <2>2
       DEF OpenBatch, Stands, KnowsPage, Counted, InCalendar, RunPlaces, Checking
<1>8. CASE CountPending(b)
  <2> DEFINE left == Cardinality(Pending(body[b].run))
  <2>1. left = 0 => Pending(body[b].run) = {}
    BY PagesFinite DEF Pending
  <2>2. body'[b].at = "counting" /\ body'[b].last = body[b].last /\ body'[b].run = body[b].run /\ body'[b].left = left
    BY <1>0, <1>8 DEF CountPending, Become, Body
  <2>3. Pending(body[b].run)' = Pending(body[b].run)
    BY <1>2, <2>2 DEF Pending
  <2> HIDE DEF left
  <2> QED
    BY <1>0, <1>2, <1>4, <1>6, <1>8, <2>1, <2>2, <2>3
       DEF CountPending, Stands, KnowsPage, Counted, InCalendar, RunPlaces, Checking
<1>9. CASE CountEnded(b)
  <2> DEFINE r == body[b].run
             done == Cardinality({i \in PageIds : run[r].cand[i] # "pending"})
             bad == Cardinality({i \in PageIds : run[r].cand[i] = "failed"})
  <2>1. done \in 0..Pages /\ bad \in 0..Pages
    BY PagesFinite
  <2>2. Pending(r) = {} => done = Pages
    <3>1. Pending(r) = {} => {i \in PageIds : run[r].cand[i] # "pending"} = PageIds
      BY DEF Pending
    <3> QED
      BY <3>1, PagesFinite
  <2>3. Become(b, [body[b] EXCEPT !.at = "closing", !.done = done, !.bad = bad])
    BY <1>9 DEF CountEnded
  <2> HIDE DEF done, bad
  <2>4. /\ body'[b].at = "closing" /\ body'[b].last = body[b].last /\ body'[b].run = r
        /\ body'[b].left = body[b].left /\ body'[b].done = done /\ body'[b].bad = bad
    BY <1>0, <2>3 DEF Become, Body
  <2>5. Pending(r)' = Pending(r)
    BY <1>2, <2>4 DEF Pending
  <2> QED
    BY <1>0, <1>2, <1>4, <1>6, <1>9, <2>1, <2>2, <2>4, <2>5
       DEF CountEnded, Stands, KnowsPage, Counted, InCalendar, RunPlaces, Checking
<1>10. CASE ReadRun(b)
  <2>1. body'[b].at \in {"telling", "finishing"} /\ body'[b].last = body[b].last /\ body'[b].run = body[b].run
    BY <1>0, <1>10 DEF ReadRun, Become, Body
  <2> QED
    BY <1>0, <1>2, <1>4, <1>6, <1>10, <2>1
       DEF ReadRun, Stands, KnowsPage, Counted, InCalendar, RunPlaces, Checking
<1>11. CASE ListPages(b)
  <2> DEFINE last == Least(body[b].offset + Least(Batch, Quantity - body[b].total), Pages)
             batch == (body[b].offset + 1)..last
  <2>1. /\ body'[b].at \in {"picking", "finishing"} /\ body'[b].last = body[b].last /\ body'[b].run = body[b].run
        /\ body'[b].offset = body[b].offset /\ body'[b].done = body[b].done /\ body'[b].todo = batch
    BY <1>0, <1>11 DEF ListPages, Become, Body
  <2>2. Cardinality(batch) \in Nat /\ body[b].offset + Cardinality(batch) <= Pages
    <3>1. body[b].offset \in 0..Pages /\ body[b].total \in Nat /\ Pages \in Nat
      BY <1>0, CountsAssumption DEF Body
    <3>2. Least(Batch, Quantity - body[b].total) \in Int
      BY <3>1, CountsAssumption DEF Least
    <3>3. last \in Int /\ last <= Pages
      BY <3>1, <3>2 DEF Least
    <3> HIDE DEF last
    <3>4. Cardinality(batch) = IF body[b].offset + 1 > last THEN 0 ELSE last - (body[b].offset + 1) + 1
      <4>1. body[b].offset + 1 \in Int
        BY <3>1
      <4> QED
        BY <3>3, <4>1, FS_Interval
    <3> QED
      BY <3>1, <3>3, <3>4
  <2> HIDE DEF batch
  <2>3. body[b].done = 0 /\ body[b].offset \in Nat /\ Pages \in Nat /\ KindOf(b) = "calendar"
    BY <1>0, <1>11, CountsAssumption DEF ListPages, InCalendar, Body
  <2>4. Busy(b)' = 0
    BY <2>1 DEF Busy, Checking
  <2>5. body'[b].offset + body'[b].done + Cardinality(body'[b].todo) + Busy(b)' <= Pages
    BY <2>1, <2>2, <2>3, <2>4
  <2>6. InCalendar(b)'
    BY <1>6, <2>1, <2>5 DEF InCalendar, Checking
  <2>7. KnowsPage(b)' /\ Counted(b)'
    BY <1>0, <1>2, <1>6, <1>11, <2>1, <2>3 DEF ListPages, KnowsPage, Counted, RunPlaces, Checking, OverCandidates
  <2> QED
    BY <1>4, <2>6, <2>7 DEF Stands
<1>12. CASE EndBatch(b)
  <2>1. /\ body'[b].at \in {"listing", "finishing"} /\ body'[b].last = body[b].last /\ body'[b].run = body[b].run
        /\ body'[b].done = 0
    BY <1>0, <1>12 DEF EndBatch, Become, Body
  <2> QED
    BY <1>0, <1>2, <1>4, <1>6, <1>12, <2>1
       DEF EndBatch, Stands, KnowsPage, Counted, InCalendar, RunPlaces, Checking
<1>13. CASE ReadSource(b) \/ Fetch(b)
  <2>1. body[b].item \in PageIds
    BY <1>0, <1>13 DEF ReadSource, Fetch, KnowsPage, Checking
  <2>2. CASE ReadSource(b)
    <3>1. /\ body'[b].at = "fetching" /\ body'[b].last = source[body[b].item].hash /\ body[b].at = "reading"
          /\ body'[b].run = body[b].run /\ body'[b].item = body[b].item /\ body'[b].offset = body[b].offset
          /\ body'[b].done = body[b].done /\ body'[b].todo = body[b].todo
      BY <1>0, <2>2 DEF ReadSource, Become, Body
    <3>2. KnowsPage(b)'
      BY <1>0, <1>2, <2>1, <3>1 DEF KnowsPage, Recorded, HashWasSaved, Checking
    <3>3. Counted(b)' /\ InCalendar(b)'
      BY <1>0, <1>2, <1>6, <3>1 DEF Counted, InCalendar, Busy, RunPlaces, Checking
    <3> QED
      BY <1>4, <3>2, <3>3 DEF Stands
  <2>3. CASE Fetch(b)
    <3>1. /\ body'[b].at = "comparing" /\ body'[b].last = body[b].last /\ body[b].at = "fetching"
          /\ body'[b].hash = page[body[b].item]
          /\ body'[b].run = body[b].run /\ body'[b].item = body[b].item /\ body'[b].offset = body[b].offset
          /\ body'[b].done = body[b].done /\ body'[b].todo = body[b].todo
      BY <1>0, <2>3 DEF Fetch, Become, Body
    <3>2. page[body[b].item] \in 1..Versions[body[b].item]
      <4>1. body[b].item \in PageIds /\ page[body[b].item] \in Nat \ {0} /\ Versions[body[b].item] \in Nat
        BY <1>0, <2>1, CountsAssumption DEF CatalogOK, PageIds
      <4>2. page[body[b].item] \in 0..Versions[body[b].item]
        BY <1>0, <4>1 DEF CatalogOK
      <4> QED
        BY <4>1, <4>2
    <3>3. KnowsPage(b)'
      BY <1>0, <1>2, <2>1, <3>1, <3>2 DEF KnowsPage, Recorded, Checking
    <3>4. Counted(b)' /\ InCalendar(b)'
      BY <1>0, <1>2, <1>6, <3>1 DEF Counted, InCalendar, Busy, RunPlaces, Checking
    <3> QED
      BY <1>4, <3>3, <3>4 DEF Stands
  <2> QED
    BY <1>13, <2>2, <2>3
<1>14. ASSUME NEW i \in PageIds, FindSource(b, i)
       PROVE  Stands(b)' /\ \A c \in Bodies \ {b} : body'[c] = body[c]
  <2>1. /\ body'[b].at = "registering" /\ body'[b].item = i /\ body'[b].todo = body[b].todo \ {i}
        /\ body'[b].run = body[b].run /\ body'[b].last = body[b].last /\ body'[b].offset = body[b].offset
        /\ body'[b].done = body[b].done /\ body[b].at = "picking" /\ i \in body[b].todo
    BY <1>0, <1>14 DEF FindSource, Become, Body
  <2>2. /\ Cardinality(body[b].todo) \in Nat /\ Cardinality(body[b].todo \ {i}) = Cardinality(body[b].todo) - 1
    <3>1. body[b].todo \in SUBSET PageIds
      BY <1>0 DEF Body
    <3>2. IsFiniteSet(body[b].todo) /\ Cardinality(body[b].todo) \in 0..Pages
      BY <3>1, PagesFinite
    <3>3. Cardinality(body[b].todo \ {i}) =
            IF i \in body[b].todo THEN Cardinality(body[b].todo) - 1 ELSE Cardinality(body[b].todo)
      BY <3>2, FS_RemoveElement
    <3>4. Cardinality(body[b].todo) \in Nat
      BY <3>2, CountsAssumption
    <3> QED
      BY <2>1, <3>3, <3>4
  <2>3. Busy(b) = 0 /\ Busy(b)' = 1
    BY <2>1 DEF Busy, Checking
  <2>4. body[b].offset \in Nat /\ body[b].done \in Nat /\ Pages \in Nat
    BY <1>0, CountsAssumption DEF Body
  <2>5. KindOf(b) = "calendar" => body'[b].offset + body'[b].done + Cardinality(body'[b].todo) + Busy(b)' <= Pages
    <3>1. KindOf(b) = "calendar" => body[b].offset + body[b].done + Cardinality(body[b].todo) + Busy(b) <= Pages
      BY <1>0, <2>1 DEF InCalendar
    <3> QED
      BY <2>1, <2>2, <2>3, <2>4, <3>1
  <2>6. InCalendar(b)'
    BY <1>6, <2>1, <2>5 DEF InCalendar, Checking
  <2>7. KnowsPage(b)' /\ Counted(b)'
    BY <1>0, <1>2, <1>6, <2>1 DEF KnowsPage, Counted, RunPlaces, Checking
  <2> QED
    BY <1>4, <2>6, <2>7 DEF Stands
<1>15. ASSUME NEW i \in PageIds, Recall(b, i)
       PROVE  Stands(b)' /\ \A c \in Bodies \ {b} : body'[c] = body[c]
  <2>1. /\ body'[b].run = body[b].run /\ body'[b].last = body[b].last
        /\ body'[b].hash = raw[i] /\ body[b].at = "picking" /\ KindOf(b) = "curate-batch"
        /\ \/ body'[b].at = "picking"
           \/ body'[b].at = "curating" /\ body'[b].item = i /\ raw[i] # 0
    BY <1>0, <1>15 DEF Recall, Become, Body
  <2>2. raw[i] # 0 => raw[i] \in 1..Versions[i]
    BY <1>0, CountsAssumption DEF CatalogOK, PageIds
  <2>3. KnowsPage(b)' /\ Counted(b)' /\ InCalendar(b)'
    BY <1>0, <1>2, <1>6, <2>1, <2>2 DEF KnowsPage, Counted, InCalendar, RunPlaces, Checking, OverCandidates
  <2> QED
    BY <1>4, <2>3 DEF Stands
<1> QED
  BY <1>7, <1>8, <1>9, <1>10, <1>11, <1>12, <1>13, <1>14, <1>15 DEF Local

LEMMA ReportedStands ==
  ASSUME IInv, [Next]_vars, NEW b \in Bodies, Reported(b)
  PROVE  Stands(b)' /\ \A c \in Bodies \ {b} : body'[c] = body[c]
<1>0. /\ TypeOK /\ body[b] \in Body /\ body \in [Bodies -> Body] /\ run \in [Runs -> RunRow]
      /\ KnowsPage(b) /\ Counted(b) /\ InCalendar(b)
  BY DEF IInv, TypeOK, PagesKnown, RunsCounted, WithinCalendar
<1>1. UNCHANGED <<page, source, saved>>
  BY RunTyped DEF catalog
<1>2. PICK after \in Body : Become(b, after) /\ after.task = body[b].task /\ after.task # None
  BY RunTyped
<1>3. body'[b] = after /\ \A c \in Bodies \ {b} : body'[c] = body[c]
  BY <1>0, <1>2, Moved
<1>4. body[b].at # "idle"
  BY DEF Reported, CreateRun, TellRun, MarkProcessing, SettleCandidate, CloseBatch, Simulate
<1>5. /\ KindOf(b)' = KindOf(b) /\ OverCandidates(b)' = OverCandidates(b)
      /\ body'[b].task # None => task'[body'[b].task].status # "absent"
  BY <1>2, <1>3, <1>4, KindStays
<1>6. body[b].run \in Runs => run'[body[b].run].status # "none"
  BY <1>0, Grows DEF Counted
<1>7. ASSUME NEW r \in Runs, CreateRun(b, r) PROVE Stands(b)'
  <2>1. body'[b].at = "telling" /\ body'[b].run = r /\ body'[b].last = body[b].last
    BY <1>0, <1>7 DEF CreateRun, Become, Body
  <2>2. run'[r].status # "none"
    BY <1>0, <1>7 DEF CreateRun, NoRun, RunRow
  <2> QED
    BY <1>0, <1>5, <1>7, <2>1, <2>2
       DEF CreateRun, Stands, KnowsPage, Counted, InCalendar, RunPlaces, Checking
<1>8. CASE TellRun(b)
  <2>1. body'[b].at = "opening" /\ body'[b].run = body[b].run /\ body'[b].last = body[b].last
    BY <1>0, <1>8 DEF TellRun, Become, Body
  <2> QED
    BY <1>0, <1>3, <1>5, <1>6, <1>8, <2>1
       DEF TellRun, Stands, KnowsPage, Counted, InCalendar, RunPlaces, Checking
<1>9. CASE MarkProcessing(b) \/ CloseBatch(b)
  <2>1. CASE MarkProcessing(b)
    <3>1. body'[b].at = "picking" /\ body'[b].run = body[b].run /\ body'[b].last = body[b].last
          /\ body'[b].todo = body[b].todo /\ body'[b].offset = body[b].offset /\ body'[b].done = body[b].done
      BY <1>0, <2>1 DEF MarkProcessing, Become, Body
    <3>2. body[b].at = "processing" /\ KindOf(b) # "calendar" /\ body[b].last = 0 /\ body[b].run \in Runs
      BY <1>0, <2>1 DEF MarkProcessing, KnowsPage, Counted, RunPlaces, OverCandidates
    <3> QED
      BY <1>3, <1>5, <1>6, <3>1, <3>2 DEF Stands, KnowsPage, Counted, InCalendar, RunPlaces, Checking
  <2>2. CASE CloseBatch(b)
    <3>1. body'[b].at = "rereading" /\ body'[b].run = body[b].run /\ body'[b].last = body[b].last
      BY <1>0, <2>2 DEF CloseBatch, Become, Body
    <3> QED
      BY <1>0, <1>3, <1>5, <1>6, <2>2, <3>1 DEF CloseBatch, Stands, KnowsPage, Counted, InCalendar, RunPlaces, Checking
  <2> QED
    BY <1>9, <2>1, <2>2
<1>10. CASE SettleCandidate(b)
  <2>1. /\ body'[b].at = "picking" /\ body'[b].run = body[b].run /\ body'[b].last = body[b].last
        /\ body'[b].todo = body[b].todo /\ body'[b].offset = body[b].offset /\ body'[b].done = body[b].done
        /\ body[b].at = "settling"
    BY <1>0, <1>10 DEF SettleCandidate, Become, Body
  <2>2. KnowsPage(b)' /\ Counted(b)'
    BY <1>0, <1>5, <1>6, <2>1 DEF KnowsPage, Counted, RunPlaces, Checking
  <2>3. InCalendar(b)'
    <3>1. Busy(b) = 1 /\ Busy(b)' = 0
      BY <2>1 DEF Busy, Checking
    <3>2. /\ body[b].offset \in Nat /\ body[b].done \in Nat /\ Cardinality(body[b].todo) \in Nat
          /\ Pages \in Nat
      BY <1>0, CountsTyped
    <3>3. KindOf(b) = "calendar" => body[b].offset + body[b].done + Cardinality(body[b].todo) + 1 <= Pages
      BY <1>0, <2>1, <3>1 DEF InCalendar, Checking
    <3>4. KindOf(b) = "calendar" => body[b].offset + body[b].done + Cardinality(body[b].todo) + 0 <= Pages
      BY <3>2, <3>3
    <3> QED
      BY <1>5, <2>1, <3>1, <3>4 DEF InCalendar, Checking
  <2> QED
    BY <1>3, <2>2, <2>3 DEF Stands
<1>11. ASSUME NEW i \in PageIds, Simulate(b, i) PROVE Stands(b)'
  <2>1. /\ body'[b].at = "picking" /\ body'[b].run = body[b].run /\ body'[b].last = body[b].last
        /\ body[b].at = "picking" /\ OverCandidates(b)
    BY <1>0, <1>11 DEF Simulate, Become, Body
  <2>2. KindOf(b) # "calendar"
    BY <2>1 DEF OverCandidates
  <2> QED
    BY <1>0, <1>5, <1>6, <2>1, <2>2 DEF Stands, KnowsPage, Counted, InCalendar, RunPlaces, Checking
<1> QED
  BY <1>3, <1>7, <1>8, <1>9, <1>10, <1>11 DEF Reported

LEMMA CatalogStands ==
  ASSUME IInv, [Next]_vars, NEW b \in Bodies, Catalogued(b)
  PROVE  Stands(b)' /\ \A c \in Bodies \ {b} : body'[c] = body[c]
<1> DEFINE i == body[b].item
<1>0. /\ TypeOK /\ CatalogOK /\ body[b] \in Body /\ body \in [Bodies -> Body]
      /\ KnowsPage(b) /\ Counted(b) /\ InCalendar(b)
  BY DEF IInv, TypeOK, PagesKnown, RunsCounted, WithinCalendar
<1>1. UNCHANGED <<page, run, task>>
  BY CatalogTyped
<1>2. body[b].at \in Checking \ {"settling"} /\ body[b].at # "idle" /\ i \in PageIds
  BY <1>0 DEF Catalogued, RegisterSource, RegisterFails, CheckFails, Unchanged, SaveRaw, SaveRefused,
              SkipAbroad, SaveEdition, MarkSource, KnowsPage, Checking
<1>3. /\ body[b].offset \in Nat /\ body[b].done \in Nat /\ Cardinality(body[b].todo) \in Nat /\ Pages \in Nat
  BY <1>0, CountsTyped
<1>4. KindOf(b) = "calendar" => body[b].offset + body[b].done + Cardinality(body[b].todo) + 1 <= Pages
  BY <1>0, <1>2 DEF InCalendar, Busy
\* The check of the page is over.
<1>5. ASSUME NEW outcome \in {"fine", "failed", "thrown"}, Settled(b, outcome)
      PROVE  Stands(b)' /\ \A c \in Bodies \ {b} : body'[c] = body[c]
  <2>1. /\ \A c \in Bodies \ {b} : body'[c] = body[c]
        /\ body'[b].task = body[b].task /\ body'[b].run = body[b].run
        /\ body'[b].todo = body[b].todo /\ body'[b].offset = body[b].offset
        /\ body'[b].last = 0
        /\ body'[b].at \in {"settling", "picking", "finishing"}
        /\ body'[b].at = "settling" => body'[b].item = i
        /\ KindOf(b) = "calendar" => body'[b].at = "picking" /\ body'[b].done \in {body[b].done, body[b].done + 1}
    BY <1>0, <1>2, <1>5, SettledBody
  <2>2. /\ KindOf(b)' = KindOf(b) /\ OverCandidates(b)' = OverCandidates(b)
        /\ body'[b].task # None => task'[body'[b].task].status # "absent"
    BY <1>2, <2>1, KindStays
  <2>3. KnowsPage(b)'
    BY <1>2, <2>1 DEF KnowsPage, Checking
  <2>4. Counted(b)'
    BY <1>0, <1>1, <1>2, <2>1, <2>2 DEF Counted, RunPlaces, Checking
  <2>5. KindOf(b) = "calendar" => body'[b].offset + body'[b].done + Cardinality(body'[b].todo) + Busy(b)' <= Pages
    <3>1. KindOf(b) = "calendar" => Busy(b)' = 0
      BY <2>1 DEF Busy, Checking
    <3> QED
      BY <1>3, <1>4, <2>1, <3>1
  <2>6. InCalendar(b)'
    BY <2>1, <2>2, <2>5 DEF InCalendar
  <2> QED
    BY <2>1, <2>3, <2>4, <2>6 DEF Stands
\* The check of the page goes on.
<1>6. ASSUME NEW at \in {"reading", "curating", "marking"}, NEW after \in Body, Become(b, after),
             after.task = body[b].task, after.run = body[b].run, after.item = i, after.at = at, after.last = 0,
             after.todo = body[b].todo, after.offset = body[b].offset, after.done = body[b].done,
             at # "reading" => after.hash \in 1..Versions[i],
             at = "marking" => after.hash \in saved'[i]
      PROVE  Stands(b)' /\ \A c \in Bodies \ {b} : body'[c] = body[c]
  <2>1. body'[b] = after /\ \A c \in Bodies \ {b} : body'[c] = body[c]
    BY <1>0, <1>6, Moved
  <2>2. /\ KindOf(b)' = KindOf(b) /\ OverCandidates(b)' = OverCandidates(b)
        /\ body'[b].task # None => task'[body'[b].task].status # "absent"
    BY <1>2, <1>6, <2>1, KindStays
  <2>3. KnowsPage(b)'
    BY <1>2, <1>6, <2>1 DEF KnowsPage
  <2>4. Counted(b)'
    BY <1>0, <1>1, <1>2, <1>6, <2>1, <2>2 DEF Counted, RunPlaces, Checking
  <2>5. InCalendar(b)'
    BY <1>4, <1>6, <2>1, <2>2 DEF InCalendar, Busy, Checking
  <2> QED
    BY <2>1, <2>3, <2>4, <2>5 DEF Stands
<1>7. CASE RegisterSource(b)
  <2> DEFINE after == [body[b] EXCEPT !.at = "reading", !.found = FALSE]
  <2>1. body[b].last = 0
    BY <1>0, <1>7 DEF RegisterSource, KnowsPage
  <2>2. /\ after \in Body /\ after.task = body[b].task /\ after.run = body[b].run /\ after.item = i
        /\ after.at = "reading" /\ after.last = 0 /\ after.todo = body[b].todo /\ after.offset = body[b].offset
        /\ after.done = body[b].done
    BY <1>0, <2>1, ItemsTyped DEF Body
  <2>3. Become(b, after)
    BY <1>7 DEF RegisterSource
  <2> HIDE DEF after
  <2> QED
    BY <1>6, <2>2, <2>3
<1>8. CASE SaveRaw(b)
  <2> DEFINE after == [body[b] EXCEPT !.at = "curating", !.last = 0]
  <2>1. /\ after \in Body /\ after.task = body[b].task /\ after.run = body[b].run /\ after.item = i
        /\ after.at = "curating" /\ after.last = 0 /\ after.todo = body[b].todo /\ after.offset = body[b].offset
        /\ after.done = body[b].done /\ after.hash = body[b].hash
    BY <1>0, ItemsTyped DEF Body
  <2>2. Become(b, after) /\ body[b].hash \in 1..Versions[i]
    BY <1>0, <1>8 DEF SaveRaw, KnowsPage
  <2> HIDE DEF after
  <2> QED
    BY <1>6, <2>1, <2>2
<1>9. CASE SaveEdition(b) /\ KindOf(b) # "curate-batch"
  <2> DEFINE after == [body[b] EXCEPT !.at = "marking"]
  <2>1. body[b].last = 0 /\ body[b].hash \in 1..Versions[i]
    BY <1>0, <1>9 DEF SaveEdition, KnowsPage
  <2>2. /\ after \in Body /\ after.task = body[b].task /\ after.run = body[b].run /\ after.item = i
        /\ after.at = "marking" /\ after.last = 0 /\ after.todo = body[b].todo /\ after.offset = body[b].offset
        /\ after.done = body[b].done /\ after.hash = body[b].hash
    BY <1>0, <2>1, ItemsTyped DEF Body
  <2>3. Become(b, after)
    BY <1>9 DEF SaveEdition
  <2>4. body[b].hash \in saved'[i]
    BY <1>0, <1>2, <1>9 DEF SaveEdition, CatalogOK
  <2> HIDE DEF after
  <2> QED
    BY <1>6, <2>1, <2>2, <2>3, <2>4
<1> QED
  BY <1>5, <1>7, <1>8, <1>9
     DEF Catalogued, RegisterFails, CheckFails, Unchanged, SaveRefused, SkipAbroad, SaveEdition, MarkSource

LEMMA BodiesStand ==
  ASSUME IInv, [Next]_vars
  PROVE  \A c \in Bodies : Stands(c)'
<1>1. ASSUME NEW b \in Bodies, Stands(b)', \A c \in Bodies \ {b} : body'[c] = body[c]
      PROVE  \A c \in Bodies : Stands(c)'
  BY <1>1, Stays
<1>2. CASE UNCHANGED body
  BY <1>2, Stays
<1>3. CASE \E b \in Bodies : \/ \E t \in Tasks : Claim(b, t)
                            \/ Ends(b) \/ Local(b) \/ Reported(b) \/ Catalogued(b)
  BY <1>1, <1>3, ClaimStands, EndsStand, LocalStands, ReportedStands, CatalogStands
<1> QED
  BY <1>2, <1>3, StepCases DEF vars, ChangePage, Request, Lapse

-----------------------------------------------------------------------------
(* Runs and hashes. *)

\* The run a task reports exists.
LEMMA ToldStep ==
  ASSUME IInv, [Next]_vars
  PROVE  \A t \in Tasks : task'[t].run \in Runs => run'[task'[t].run].status # "none"
<1> DEFINE Told == \A t \in Tasks : task'[t].run \in Runs => run'[task'[t].run].status # "none"
<1>0. TypeOK /\ RunsCounted /\ task \in [Tasks -> TaskRow]
  BY DEF IInv, TypeOK
<1>1. ASSUME \A t \in Tasks : task'[t].run = task[t].run PROVE Told
  BY <1>0, <1>1, Grows DEF RunsCounted
<1>2. ASSUME NEW b \in Bodies, TellRun(b) PROVE Told
  <2>1. body[b].run \in Runs /\ run[body[b].run].status # "none"
    BY <1>0, <1>2 DEF TellRun, RunsCounted, Counted, RunPlaces
  <2>2. \A t \in Tasks : task'[t].run \in {task[t].run, body[b].run}
    BY <1>0, <1>2 DEF TellRun, TaskRow
  <2> QED
    BY <1>0, <2>1, <2>2, Grows DEF RunsCounted
<1>3. ASSUME NEW t \in Tasks, Request(t) \/ Lapse(t) PROVE Told
  <2>1. CASE Request(t)
    <3>1. PICK kind \in Kinds[t] : task' = [task EXCEPT ![t].kind = kind, ![t].status = "queued"]
      BY <2>1 DEF Request
    <3> QED
      BY <1>0, <1>1, <3>1 DEF TaskRow
  <2>2. CASE Lapse(t)
    BY <1>0, <1>1, <2>2 DEF Lapse, TaskRow
  <2> QED
    BY <1>3, <2>1, <2>2
<1>4. ASSUME NEW b \in Bodies, NEW t \in Tasks, Claim(b, t) PROVE Told
  <2>1. PICK start \in Body : Take(b, t, start)
    BY <1>0, <1>4, ClaimTyped
  <2> QED
    BY <1>0, <1>1, <2>1 DEF Take, TaskRow
<1>5. ASSUME NEW b \in Bodies, Ends(b) PROVE Told
  <2>1. ASSUME NEW statuses, EndTask(b, statuses) PROVE Told
    <3>1. CASE Holds(b)
      <4>1. PICK s \in statuses : task' = [task EXCEPT ![body[b].task].status = s, ![body[b].task].holder = None]
        BY <2>1, <3>1 DEF EndTask
      <4> QED
        BY <1>0, <1>1, <4>1 DEF TaskRow
    <3>2. CASE ~Holds(b)
      BY <1>1, <2>1, <3>2 DEF EndTask
    <3> QED
      BY <3>1, <3>2
  <2>2. CASE Die(b)
    BY <1>1, <2>2 DEF Die
  <2> QED
    BY <1>5, <2>1, <2>2 DEF Ends, Finish, Defer, Refused
<1>6. ASSUME NEW b \in Bodies, Local(b) \/ Catalogued(b) PROVE Told
  BY <1>1, <1>6, LocalTyped, CatalogTyped
<1>7. ASSUME NEW b \in Bodies, Reported(b) PROVE Told
  BY <1>1, <1>2, <1>7 DEF Reported, CreateRun, MarkProcessing, SettleCandidate, CloseBatch, Simulate
<1>8. CASE UNCHANGED vars \/ \E i \in PageIds : ChangePage(i)
  BY <1>1, <1>8 DEF vars, ChangePage
<1> QED
  BY <1>3, <1>4, <1>5, <1>6, <1>7, <1>8, StepCases

LEMMA EndedStep ==
  ASSUME IInv, [Next]_vars
  PROVE  EndedRunIsWhole'
<1>0. /\ TypeOK /\ EndedRunIsWhole /\ RunsCounted /\ run \in [Runs -> RunRow]
  BY DEF IInv, TypeOK
<1>1. CASE UNCHANGED run
  BY <1>0, <1>1 DEF EndedRunIsWhole, Pending
<1>2. ASSUME NEW b \in Bodies, NEW r \in Runs, CreateRun(b, r) PROVE EndedRunIsWhole'
  <2>1. PICK simulate \in BOOLEAN : run' = [run EXCEPT ![r] = [NoRun EXCEPT !.status = "ready", !.simulate = simulate]]
    BY <1>2 DEF CreateRun
  <2>2. run'[r].status = "ready" /\ \A q \in Runs \ {r} : run'[q] = run[q]
    BY <1>0, <2>1 DEF NoRun
  <2> QED
    BY <1>0, <2>2 DEF EndedRunIsWhole, Pending, Ended
<1>3. ASSUME NEW b \in Bodies, MarkProcessing(b) PROVE EndedRunIsWhole'
  <2>1. /\ run'[body[b].run].status = "processing" \/ body[b].run \notin Runs
        /\ \A q \in Runs \ {body[b].run} : run'[q] = run[q]
    BY <1>0, <1>3 DEF MarkProcessing, RunRow
  <2> QED
    BY <1>0, <2>1 DEF EndedRunIsWhole, Pending, Ended
<1>4. ASSUME NEW q, NEW j, NEW s, s # "pending", run' = [run EXCEPT ![q].cand[j] = s] PROVE EndedRunIsWhole'
  <2>1. \A r \in Runs : /\ run'[r].status = run[r].status /\ run'[r].processed = run[r].processed
                        /\ \A i \in PageIds : run'[r].cand[i] \in {run[r].cand[i], s}
    BY <1>0, <1>4 DEF RunRow
  <2> QED
    BY <1>0, <1>4, <2>1 DEF EndedRunIsWhole, Pending
<1>5. ASSUME NEW b \in Bodies, SettleCandidate(b) PROVE EndedRunIsWhole'
  BY <1>4, <1>5 DEF SettleCandidate
<1>6. ASSUME NEW b \in Bodies, NEW i \in PageIds, Simulate(b, i) PROVE EndedRunIsWhole'
  <2>1. PICK s \in {"processed", "failed"} : run' = [run EXCEPT ![body[b].run].cand[i] = s]
    BY <1>6 DEF Simulate
  <2> QED
    BY <1>4, <2>1
<1>7. ASSUME NEW b \in Bodies, CloseBatch(b) PROVE EndedRunIsWhole'
  <2> DEFINE r == body[b].run
  <2>1. r \in Runs /\ (body[b].left = 0 => Pending(r) = {} /\ body[b].done = Pages) /\ body[b].left \in Nat
    BY <1>0, <1>7 DEF CloseBatch, RunsCounted, Counted, RunPlaces, TypeOK, Body
  <2>2. /\ run'[r].cand = run[r].cand /\ run'[r].processed = body[b].done
        /\ body[b].left > 0 => run'[r].status = "ready"
        /\ \A q \in Runs \ {r} : run'[q] = run[q]
    BY <1>0, <1>7, <2>1 DEF CloseBatch, RunRow
  <2>3. run'[r].status \in Ended => body[b].left = 0
    BY <2>1, <2>2 DEF Ended
  <2> HIDE DEF r
  <2> QED
    BY <1>0, <2>1, <2>2, <2>3 DEF EndedRunIsWhole, Pending
<1>8. ASSUME NEW b \in Bodies, Reported(b) PROVE EndedRunIsWhole'
  BY <1>1, <1>2, <1>3, <1>5, <1>6, <1>7, <1>8 DEF Reported, TellRun
<1>9. ASSUME NEW b \in Bodies, Ends(b) \/ Local(b) \/ Catalogued(b) PROVE EndedRunIsWhole'
  BY <1>0, <1>1, <1>9, EndsTyped, LocalTyped, CatalogTyped DEF Ends
<1> QED
  BY <1>1, <1>8, <1>9, StepCases, ClaimTyped, <1>0 DEF vars, ChangePage, Request, Lapse, Take

LEMMA HashStep ==
  ASSUME IInv, [Next]_vars
  PROVE  HashWasSaved'
<1>0. TypeOK /\ CatalogOK /\ HashWasSaved /\ PagesKnown
  BY DEF IInv, TypeOK
<1>1. CASE UNCHANGED source
  BY <1>0, <1>1, Grows DEF HashWasSaved
<1>2. ASSUME NEW b \in Bodies, UNCHANGED saved, body[b].item \in PageIds,
             source' \in {source, [source EXCEPT ![body[b].item].hash = body[b].hash]},
             Recorded(body[b].item, body[b].hash)
      PROVE  HashWasSaved'
  <2> DEFINE i == body[b].item
  <2>1. \A j \in PageIds : j # i => source'[j].hash = source[j].hash
    BY <1>0, <1>2 DEF CatalogOK
  <2>2. source'[i].hash \in {source[i].hash, body[b].hash}
    BY <1>0, <1>2 DEF CatalogOK
  <2> QED
    BY <1>0, <1>2, <2>1, <2>2 DEF HashWasSaved, Recorded
<1>3. ASSUME NEW b \in Bodies, Catalogued(b) PROVE HashWasSaved'
  <2>1. KnowsPage(b)
    BY <1>0 DEF PagesKnown
  <2>2. CASE RegisterSource(b)
    <3>1. \A i \in PageIds : source'[i].hash = source[i].hash
      BY <1>0, <2>2 DEF RegisterSource, CatalogOK
    <3> QED
      BY <1>0, <2>2, <3>1, Grows DEF HashWasSaved
  <2>3. CASE Unchanged(b)
    <3>1. body[b].item \in PageIds /\ body[b].hash \in 1..Versions[body[b].item]
      BY <2>1, <2>3 DEF Unchanged, KnowsPage, Checking
    <3>2. body[b].last # 0
      BY <2>3, <3>1 DEF Unchanged
    <3> QED
      BY <1>2, <2>1, <2>3, <3>1, <3>2 DEF Unchanged, KnowsPage
  <2>4. CASE SkipAbroad(b)
    BY <1>2, <2>1, <2>4 DEF SkipAbroad, Curated, Recorded, KnowsPage, Checking
  <2>5. CASE MarkSource(b)
    BY <1>2, <2>1, <2>5 DEF MarkSource, Recorded, KnowsPage, Checking
  <2>6. CASE RegisterFails(b) \/ CheckFails(b) \/ SaveRaw(b) \/ SaveRefused(b) \/ SaveEdition(b)
    BY <1>1, <2>6 DEF RegisterFails, CheckFails, SaveRaw, SaveRefused, SaveEdition, catalog
  <2> QED
    BY <1>3, <2>2, <2>3, <2>4, <2>5, <2>6 DEF Catalogued
<1>4. ASSUME NEW b \in Bodies, Ends(b) \/ Local(b) \/ Reported(b) PROVE HashWasSaved'
  BY <1>0, <1>1, <1>4, EndsTyped, LocalTyped, RunTyped DEF Ends, catalog
<1> QED
  BY <1>1, <1>3, <1>4, StepCases, ClaimTyped, <1>0 DEF vars, ChangePage, Request, Lapse, Take, catalog

-----------------------------------------------------------------------------
(* What a run says it has processed. *)

\* The candidates that were taken to an end.
EndedOf(r) == {i \in PageIds : run[r].cand[i] # "pending"}

\* No run says more than is there, and no body is about to.
Claims ==
    /\ \A r \in Runs : run[r].processed <= Cardinality(EndedOf(r))
    /\ \A b \in Bodies : body[b].at = "closing" => body[b].done <= Cardinality(EndedOf(body[b].run))

LEMMA MoreEnded ==
  ASSUME NEW r \in Runs, EndedOf(r) \subseteq EndedOf(r)', NEW n \in Nat, n <= Cardinality(EndedOf(r))
  PROVE  n <= Cardinality(EndedOf(r)')
<1>1. EndedOf(r) \in SUBSET PageIds /\ EndedOf(r)' \in SUBSET PageIds
  BY DEF EndedOf
<1>2. IsFiniteSet(EndedOf(r)')
  BY <1>1, PagesFinite
<1>3. Cardinality(EndedOf(r)) <= Cardinality(EndedOf(r)')
  BY <1>2, FS_Subset
<1>4. Cardinality(EndedOf(r)) \in 0..Pages /\ Cardinality(EndedOf(r)') \in 0..Pages
  BY <1>1, PagesFinite
<1> QED
  BY <1>3, <1>4, CountsAssumption

\* What a step makes of a run: created, written by a body that had counted, or kept.
RunGoes(r) ==
    \/ run'[r].processed = 0
    \/ /\ EndedOf(r) \subseteq EndedOf(r)'
       /\ \/ run'[r].processed = run[r].processed
          \/ \E b \in Bodies : body[b].at = "closing" /\ body[b].run = r /\ run'[r].processed = body[b].done

LEMMA RunsGo ==
  ASSUME IInv, [Next]_vars, NEW r \in Runs
  PROVE  RunGoes(r)
<1>0. TypeOK /\ RunsCounted /\ run \in [Runs -> RunRow] /\ run[r] \in RunRow
  BY DEF IInv, TypeOK
<1>1. CASE UNCHANGED run
  BY <1>1 DEF RunGoes, EndedOf
<1>2. ASSUME NEW b \in Bodies, NEW q \in Runs, CreateRun(b, q) PROVE RunGoes(r)
  <2>1. PICK simulate \in BOOLEAN : run' = [run EXCEPT ![q] = [NoRun EXCEPT !.status = "ready", !.simulate = simulate]]
    BY <1>2 DEF CreateRun
  <2>2. CASE r = q
    BY <1>0, <2>1, <2>2 DEF NoRun, RunGoes
  <2>3. CASE r # q
    BY <1>0, <2>1, <2>3 DEF RunGoes, EndedOf
  <2> QED
    BY <2>2, <2>3
<1>3. ASSUME NEW b \in Bodies, MarkProcessing(b) PROVE RunGoes(r)
  <2>1. run'[r].cand = run[r].cand /\ run'[r].processed = run[r].processed
    BY <1>0, <1>3 DEF MarkProcessing, RunRow
  <2> QED
    BY <2>1 DEF RunGoes, EndedOf
<1>4. ASSUME NEW q, NEW j, NEW s, s # "pending", run' = [run EXCEPT ![q].cand[j] = s] PROVE RunGoes(r)
  <2>1. run'[r].processed = run[r].processed /\ \A i \in PageIds : run'[r].cand[i] \in {run[r].cand[i], s}
    BY <1>0, <1>4 DEF RunRow
  <2> QED
    BY <1>4, <2>1 DEF RunGoes, EndedOf
<1>5. ASSUME NEW b \in Bodies, SettleCandidate(b) PROVE RunGoes(r)
  BY <1>4, <1>5 DEF SettleCandidate
<1>6. ASSUME NEW b \in Bodies, NEW i \in PageIds, Simulate(b, i) PROVE RunGoes(r)
  <2>1. PICK s \in {"processed", "failed"} : run' = [run EXCEPT ![body[b].run].cand[i] = s]
    BY <1>6 DEF Simulate
  <2> QED
    BY <1>4, <2>1
<1>7. ASSUME NEW b \in Bodies, CloseBatch(b) PROVE RunGoes(r)
  <2>1. /\ run'[r].cand = run[r].cand
        /\ run'[r].processed = run[r].processed \/ (body[b].run = r /\ run'[r].processed = body[b].done)
    <3>1. CASE body[b].run = r
      BY <1>0, <1>7, <3>1 DEF CloseBatch, RunRow
    <3>2. CASE body[b].run # r
      BY <1>0, <1>7, <3>2 DEF CloseBatch, RunRow
    <3> QED
      BY <3>1, <3>2
  <2>2. body[b].at = "closing"
    BY <1>7 DEF CloseBatch
  <2> QED
    BY <2>1, <2>2 DEF RunGoes, EndedOf
<1>8. ASSUME NEW b \in Bodies, Reported(b) PROVE RunGoes(r)
  BY <1>1, <1>2, <1>3, <1>5, <1>6, <1>7, <1>8 DEF Reported, TellRun
<1>9. ASSUME NEW b \in Bodies, Ends(b) \/ Local(b) \/ Catalogued(b) PROVE RunGoes(r)
  BY <1>0, <1>1, <1>9, EndsTyped, LocalTyped, CatalogTyped DEF Ends
<1> QED
  BY <1>1, <1>8, <1>9, StepCases, ClaimTyped, <1>0 DEF vars, ChangePage, Request, Lapse, Take

LEMMA Lands ==
  ASSUME TypeOK, NEW b \in Bodies, NEW after, Become(b, after)
  PROVE  body'[b] = after /\ \A c \in Bodies \ {b} : body'[c] = body[c]
  BY DEF Become, TypeOK

\* Only the count of its candidates brings a body to the end of a batch.
LEMMA OnlyCounts ==
  ASSUME IInv, [Next]_vars, NEW c \in Bodies, body'[c].at = "closing", body'[c] # body[c]
  PROVE  CountEnded(c)
<1>0. TypeOK /\ PagesKnown /\ body \in [Bodies -> Body]
  BY DEF IInv, TypeOK
<1>1. ASSUME NEW b \in Bodies, NEW t \in Tasks, Claim(b, t) PROVE FALSE
  <2>1. PICK start \in Body : Take(b, t, start) /\ start.at # "closing"
    BY <1>0, <1>1, ClaimTyped
  <2>2. Become(b, [start EXCEPT !.task = t])
    BY <2>1 DEF Take
  <2>3. body'[b] = [start EXCEPT !.task = t] /\ \A d \in Bodies \ {b} : body'[d] = body[d]
    BY <1>0, <2>2, Lands
  <2>4. body'[b].at # "closing"
    BY <2>1, <2>3 DEF Body
  <2> QED
    BY <2>3, <2>4
<1>2. ASSUME NEW b \in Bodies, Ends(b) PROVE FALSE
  <2>1. body'[b] = Idle /\ \A d \in Bodies \ {b} : body'[d] = body[d]
    BY <1>0, <1>2, EndsTyped, Lands DEF Ends
  <2> QED
    BY <2>1, IdleTyped
<1>3. ASSUME NEW b \in Bodies, Local(b) PROVE CountEnded(c)
  <2>1. PICK after \in Body : Become(b, after)
    BY <1>3, LocalTyped
  <2>2. b = c /\ body'[b].at = "closing" /\ body[b] \in Body
    BY <1>0, <2>1, Lands
  <2>3. CASE CountEnded(b)
    BY <2>2, <2>3
  <2>4. CASE OpenBatch(b)
    BY <1>0, <2>2, <2>4 DEF OpenBatch, Become, Body
  <2>5. CASE CountPending(b)
    BY <1>0, <2>2, <2>5 DEF CountPending, Become, Body
  <2>6. CASE ReadRun(b)
    BY <1>0, <2>2, <2>6 DEF ReadRun, Become, Body
  <2>7. CASE ListPages(b)
    BY <1>0, <2>2, <2>7 DEF ListPages, Become, Body
  <2>8. CASE EndBatch(b)
    <3> DEFINE total == body[b].total + body[b].done
               offset == body[b].offset + body[b].done
               at == IF body[b].done = 0 \/ total >= Quantity THEN "finishing" ELSE "listing"
    <3>1. Become(b, [body[b] EXCEPT !.at = at, !.total = total, !.offset = offset, !.done = 0]) /\ at # "closing"
      BY <2>8 DEF EndBatch
    <3> HIDE DEF total, offset, at
    <3>2. body'[b] = [body[b] EXCEPT !.at = at, !.total = total, !.offset = offset, !.done = 0]
      BY <1>0, <3>1, Lands
    <3>3. body'[b].at = at
      BY <2>2, <3>2 DEF Body
    <3> QED
      BY <2>2, <3>1, <3>3
  <2>9. CASE ReadSource(b) \/ Fetch(b)
    <3>1. CASE ReadSource(b)
      BY <1>0, <2>2, <3>1 DEF ReadSource, Become, Body
    <3>2. CASE Fetch(b)
      BY <1>0, <2>2, <3>2 DEF Fetch, Become, Body
    <3> QED
      BY <2>9, <3>1, <3>2
  <2>10. ASSUME NEW i \in PageIds, FindSource(b, i) \/ Recall(b, i) PROVE FALSE
    <3>1. CASE FindSource(b, i)
      BY <1>0, <2>2, <3>1 DEF FindSource, Become, Body
    <3>2. CASE Recall(b, i)
      BY <1>0, <2>2, <3>2 DEF Recall, Become, Body
    <3> QED
      BY <2>10, <3>1, <3>2
  <2> QED
    BY <1>3, <2>3, <2>4, <2>5, <2>6, <2>7, <2>8, <2>9, <2>10 DEF Local
<1>4. ASSUME NEW b \in Bodies, Reported(b) PROVE FALSE
  <2>1. PICK after \in Body : Become(b, after)
    BY <1>4, RunTyped
  <2>2. b = c /\ body'[b].at = "closing" /\ body[b] \in Body
    BY <1>0, <2>1, Lands
  <2>3. CASE \E r \in Runs : CreateRun(b, r)
    BY <1>0, <2>2, <2>3 DEF CreateRun, Become, Body
  <2>4. CASE TellRun(b)
    BY <1>0, <2>2, <2>4 DEF TellRun, Become, Body
  <2>5. CASE MarkProcessing(b)
    BY <1>0, <2>2, <2>5 DEF MarkProcessing, Become, Body
  <2>6. CASE SettleCandidate(b)
    BY <1>0, <2>2, <2>6 DEF SettleCandidate, Become, Body
  <2>7. CASE CloseBatch(b)
    BY <1>0, <2>2, <2>7 DEF CloseBatch, Become, Body
  <2>8. CASE \E i \in PageIds : Simulate(b, i)
    BY <1>0, <2>2, <2>8 DEF Simulate, Become, Body
  <2> QED
    BY <1>4, <2>3, <2>4, <2>5, <2>6, <2>7, <2>8 DEF Reported
<1>5. ASSUME NEW b \in Bodies, Catalogued(b) PROVE FALSE
  <2>1. body[b].item \in PageIds /\ body[b].at # "idle" /\ body[b] \in Body
    BY <1>0, <1>5 DEF PagesKnown, KnowsPage, Catalogued, RegisterSource, RegisterFails, CheckFails, Unchanged, SaveRaw,
                      SaveRefused, SkipAbroad, SaveEdition, MarkSource, Checking
  <2>2. ASSUME NEW outcome \in {"fine", "failed", "thrown"}, Settled(b, outcome) PROVE FALSE
    BY <1>0, <2>1, <2>2, SettledBody
  <2>3. ASSUME NEW after, Become(b, after), after.at # "closing" PROVE FALSE
    BY <1>0, <2>3, Lands
  <2>4. CASE RegisterSource(b)
    BY <2>1, <2>3, <2>4 DEF RegisterSource, Body
  <2>5. CASE SaveRaw(b)
    BY <2>1, <2>3, <2>5 DEF SaveRaw, Body
  <2>6. CASE SaveEdition(b)
    BY <2>1, <2>2, <2>3, <2>6 DEF SaveEdition, Body
  <2>7. CASE RegisterFails(b) \/ CheckFails(b) \/ Unchanged(b) \/ SaveRefused(b) \/ SkipAbroad(b) \/ MarkSource(b)
    BY <2>2, <2>7 DEF RegisterFails, CheckFails, Unchanged, SaveRefused, SkipAbroad, MarkSource
  <2> QED
    BY <1>5, <2>4, <2>5, <2>6, <2>7 DEF Catalogued
<1> QED
  BY <1>1, <1>2, <1>3, <1>4, <1>5, StepCases DEF vars, ChangePage, Request, Lapse

LEMMA ClaimsStep ==
  ASSUME IInv, [Next]_vars, Claims
  PROVE  Claims'
<1>0. /\ TypeOK /\ RunsCounted /\ run \in [Runs -> RunRow] /\ body \in [Bodies -> Body]
      /\ body' \in [Bodies -> Body]
  BY TypeStep DEF IInv, TypeOK
<1>1. ASSUME NEW r \in Runs PROVE run'[r].processed <= Cardinality(EndedOf(r)')
  <2>1. CASE run'[r].processed = 0
    <3>1. EndedOf(r)' \in SUBSET PageIds
      BY DEF EndedOf
    <3>2. Cardinality(EndedOf(r)') \in 0..Pages
      BY <3>1, PagesFinite
    <3> QED
      BY <2>1, <3>2, CountsAssumption
  <2>2. CASE EndedOf(r) \subseteq EndedOf(r)' /\ run'[r].processed = run[r].processed
    BY <1>0, <2>2, MoreEnded, CountsAssumption DEF Claims, RunRow
  <2>3. ASSUME NEW b \in Bodies, body[b].at = "closing", body[b].run = r, run'[r].processed = body[b].done,
               EndedOf(r) \subseteq EndedOf(r)'
        PROVE  run'[r].processed <= Cardinality(EndedOf(r)')
    <3>1. body[b].done \in Nat /\ body[b].done <= Cardinality(EndedOf(r))
      BY <1>0, <2>3 DEF Claims, Body
    <3> QED
      BY <2>3, <3>1, MoreEnded
  <2> QED
    BY <2>1, <2>2, <2>3, RunsGo DEF RunGoes
<1>2. ASSUME NEW c \in Bodies, body'[c].at = "closing"
      PROVE  (body[c].done <= Cardinality(EndedOf(body[c].run)))'
  <2>1. CASE body'[c] = body[c]
    <3> DEFINE r == body[c].run
    <3>1. r \in Runs /\ run[r].status # "none"
      BY <1>0, <1>2, <2>1 DEF RunsCounted, Counted, RunPlaces
    <3>2. body[c].done \in Nat /\ body[c].done <= Cardinality(EndedOf(r))
      BY <1>0, <1>2, <2>1 DEF Claims, Body
    <3>3. \A q \in Runs : q = r => body[c].done <= Cardinality(EndedOf(q)')
      <4> SUFFICES ASSUME NEW q \in Runs, q = r PROVE body[c].done <= Cardinality(EndedOf(q)')
        OBVIOUS
      <4>1. EndedOf(q) \subseteq EndedOf(q)'
        BY <3>1, Grows DEF EndedOf
      <4> QED
        BY <3>2, <4>1, MoreEnded
    <3> QED
      BY <2>1, <3>1, <3>3 DEF EndedOf
  <2>2. CASE body'[c] # body[c]
    <3>1. CountEnded(c)
      BY <1>2, <2>2, OnlyCounts
    <3> DEFINE done == Cardinality({i \in PageIds : run[body[c].run].cand[i] # "pending"})
               bad == Cardinality({i \in PageIds : run[body[c].run].cand[i] = "failed"})
    <3>2. Become(c, [body[c] EXCEPT !.at = "closing", !.done = done, !.bad = bad]) /\ run' = run
      BY <3>1 DEF CountEnded
    <3> HIDE DEF done, bad
    <3>3. body'[c] = [body[c] EXCEPT !.at = "closing", !.done = done, !.bad = bad]
      BY <1>0, <3>2, Lands
    <3>7. body'[c].run = body[c].run /\ body'[c].done = done
      BY <1>0, <3>3 DEF Body
    <3> USE DEF done
    <3>4. body'[c].done = Cardinality(EndedOf(body[c].run))'
      BY <3>2, <3>7 DEF EndedOf
    <3>5. EndedOf(body[c].run)' \in SUBSET PageIds
      BY DEF EndedOf
    <3>6. Cardinality(EndedOf(body[c].run)') \in 0..Pages
      BY <3>5, PagesFinite
    <3> QED
      BY <3>4, <3>6, CountsAssumption
  <2> QED
    BY <2>1, <2>2
<1> QED
  BY <1>1, <1>2 DEF Claims

-----------------------------------------------------------------------------
(* The theorems. *)

LEMMA Inductive == IInv /\ [Next]_vars => IInv'
<1> SUFFICES ASSUME IInv, [Next]_vars PROVE IInv'
  OBVIOUS
<1>1. \A c \in Bodies : KnowsPage(c)' /\ Counted(c)' /\ InCalendar(c)'
  BY BodiesStand DEF Stands
<1>2. PagesKnown' /\ WithinCalendar' /\ RunsCounted'
  BY <1>1, ToldStep DEF PagesKnown, WithinCalendar, RunsCounted
<1> QED
  BY <1>2, TypeStep, EndedStep, HashStep DEF IInv

LEMMA Invariant == Spec => []IInv
  BY InitStart, Inductive, PTL DEF Spec

\* What every run checks of types: counters of a run never pass the number of its
\* candidates, nor the offset of a calendar the length of its list.
THEOREM TypeCorrect == Spec => []TypeOK
<1>1. IInv => TypeOK
  BY DEF IInv
<1> QED
  BY <1>1, Invariant, PTL

\* An import run ends only when every candidate has been taken to an end and
\* counted, whatever bodies of earlier attempts still do to it.
THEOREM EndsWhole == Spec => []EndedRunIsWhole
<1>1. IInv => EndedRunIsWhole
  BY DEF IInv
<1> QED
  BY <1>1, Invariant, PTL

\* A check never records a hash whose content was not made an edition, unless no
\* edition is made of it, wherever checks are cut short and however they overlap.
THEOREM HashSaved == Spec => []HashWasSaved
<1>1. IInv => HashWasSaved
  BY DEF IInv
<1> QED
  BY <1>1, Invariant, PTL

\* A run never says that more candidates were processed than have been taken to an
\* end, although a body whose lease is over closes its batch with counts it took before
\* another attempt went on: the number a run shows may fall, but is never too high.
THEOREM NeverOverclaims ==
  Spec => [](\A r \in Runs : run[r].processed <= Cardinality({i \in PageIds : run[r].cand[i] # "pending"}))
<1>1. Init => Claims
  <2> SUFFICES ASSUME Init PROVE Claims
    OBVIOUS
  <2>1. \A r \in Runs : run[r].processed = 0 /\ EndedOf(r) = {}
    BY DEF Init, NoRun, EndedOf
  <2>2. \A b \in Bodies : body[b].at # "closing"
    BY DEF Init, Idle
  <2>3. Cardinality({}) = 0
    BY FS_EmptySet
  <2>4. \A r \in Runs : run[r].processed <= Cardinality(EndedOf(r))
    BY <2>1, <2>3
  <2> QED
    BY <2>2, <2>4 DEF Claims
<1>2. IInv /\ Claims /\ [Next]_vars => Claims'
  BY ClaimsStep
<1>3. Claims => \A r \in Runs : run[r].processed <= Cardinality({i \in PageIds : run[r].cand[i] # "pending"})
  BY DEF Claims, EndedOf
<1> QED
  BY <1>1, <1>2, <1>3, Invariant, PTL DEF Spec

\* A candidate that was taken to an end is never pending again, whichever attempts
\* are still at work on its run: no batch opened afterwards takes it.
THEOREM TakenOnce ==
  Spec => [][\A r \in Runs, i \in PageIds :
                run[r].status # "none" /\ run[r].cand[i] # "pending" => run'[r].cand[i] # "pending"]_vars
<1>1. IInv /\ [Next]_vars
        => [\A r \in Runs, i \in PageIds :
               run[r].status # "none" /\ run[r].cand[i] # "pending" => run'[r].cand[i] # "pending"]_vars
  BY Grows
<1> QED
  BY <1>1, Invariant, PTL DEF Spec
=============================================================================
