---------------------------- MODULE SourceImport ----------------------------
(***************************************************************************)
(* How pages of the sources enter the catalogue: the import of a source's  *)
(* calendar, import runs over stored candidates, checks of one source and  *)
(* curation again of what was fetched before.  All of them read a page and *)
(* compare it with the hash of its last check, then save what they found   *)
(* and record the new hash, over several statements of which only some are *)
(* fenced by the lease of their task.                                      *)
(*                                                                         *)
(* A body is one execution of a task; it may outlive its lease until its   *)
(* next heartbeat.  A page has numbered versions, a version standing for   *)
(* its content, its hash and what curation makes of it.  Which edition a   *)
(* page belongs to is the subject of Editions; here each page has its own. *)
(*                                                                         *)
(* A definition whose name ends in "Mutant" is the one after it with a     *)
(* plausible bug: the run that checks a property finds it violated then.   *)
(***************************************************************************)
EXTENDS Integers, FiniteSets

CONSTANTS
    Bodies,      \* executions at one time
    Tasks,       \* tasks of this kind of work
    None,        \* no task, no body
    Kinds,       \* kinds each task may have: [Tasks -> SUBSET AllKinds]
    Pages,       \* length of the list of a source
    Batch,       \* pages of one batch (25)
    Quantity,    \* pages a calendar task asks for
    Versions,    \* versions each page may show: [1..Pages -> Nat]
    Abroad,      \* <<page, version>> that name a country other than Brazil
    MaxRuns,     \* import runs that may be created
    MaxLapses    \* leases that may end under a live body

AllKinds == {"calendar", "catalog", "catalog-process", "check-source", "curate-batch"}

ASSUME CountsAssumption ==
    /\ Pages \in Nat /\ Quantity \in Nat /\ Versions \in [1..Pages -> Nat \ {0}]
    /\ Batch \in Nat \ {0} /\ MaxRuns \in Nat \ {0} /\ MaxLapses \in Nat
ASSUME KindsAssumption == Kinds \in [Tasks -> SUBSET AllKinds]
ASSUME NoneAssumption == None \notin Tasks \cup Bodies

VARIABLES
    page,     \* version each page shows now
    source,   \* Source of each page: known, and lastHash (0: none)
    raw,      \* version of the latest RawSourceExtraction of each page
    edition,  \* version the edition of each page was saved from (0: no edition)
    saved,    \* versions ever saved
    run,      \* ImportRun and its candidates
    task,     \* CollectionTask: kind, status, holder of its lease, progress.runId
    body,     \* local state of each execution
    lapses    \* leases ended so far

vars == <<page, source, raw, edition, saved, run, task, body, lapses>>
catalog == <<source, raw, edition, saved>>

PageIds == 1..Pages
Runs == 1..MaxRuns
Ended == {"success", "partial_success"}
NoRun == [status |-> "none", simulate |-> FALSE, cand |-> [i \in PageIds |-> "pending"],
          processed |-> 0, failed |-> 0]
Idle == [at |-> "idle", task |-> None, run |-> 0, todo |-> {}, item |-> 0, found |-> FALSE,
         last |-> 0, hash |-> 0, outcome |-> "fine", left |-> 0, done |-> 0, bad |-> 0,
         offset |-> 0, total |-> 0]

Least(a, b) == IF a < b THEN a ELSE b
Queue(kind) == IF kind \in {"calendar", "check-source"} THEN "source" ELSE "maintenance"
KindOf(b) == task[body[b].task].kind
OverCandidates(b) == KindOf(b) \in {"catalog", "catalog-process"}
Holds(b) == body[b].task # None /\ task[body[b].task].holder = b
Pending(r) == {i \in PageIds : run[r].cand[i] = "pending"}

Init ==
    /\ page = [i \in PageIds |-> 1]
    /\ source = [i \in PageIds |-> [known |-> FALSE, hash |-> 0]]
    /\ raw = [i \in PageIds |-> 0]
    /\ edition = [i \in PageIds |-> 0]
    /\ saved = [i \in PageIds |-> {}]
    /\ run = [r \in Runs |-> NoRun]
    /\ task = [t \in Tasks |-> [kind |-> "none", status |-> "absent", holder |-> None, run |-> 0]]
    /\ body = [b \in Bodies |-> Idle]
    /\ lapses = 0

Become(b, after) == body' = [body EXCEPT ![b] = after]

-----------------------------------------------------------------------------
(* Tasks and their bodies. *)

\* A request of an administrator.
Request(t) ==
    /\ task[t].status = "absent"
    /\ \E kind \in Kinds[t] : task' = [task EXCEPT ![t].kind = kind, ![t].status = "queued"]
    /\ UNCHANGED <<page, catalog, run, body, lapses>>

\* One task of a queue runs at a time.
Take(b, t, start) ==
    /\ body[b] = Idle
    /\ task[t].status = "queued"
    /\ \A u \in Tasks : task[u].status = "running" => Queue(task[u].kind) # Queue(task[t].kind)
    /\ task' = [task EXCEPT ![t].status = "running", ![t].holder = b]
    /\ Become(b, [start EXCEPT !.task = t])
    /\ UNCHANGED <<page, catalog, run, lapses>>

\* A body starts from the payload of its task, or from the run that an earlier
\* attempt has reported in its progress.
Claim(b, t) ==
    \/ /\ task[t].kind = "calendar"
       /\ Take(b, t, [Idle EXCEPT !.at = "listing"])
    \/ /\ task[t].kind = "catalog"
       /\ Take(b, t, [Idle EXCEPT !.at = IF task[t].run = 0 THEN "creating" ELSE "telling",
                                  !.run = task[t].run])
    \/ /\ task[t].kind = "catalog-process"
       /\ \E r \in Runs : /\ run[r].status # "none"
                          /\ Take(b, t, [Idle EXCEPT !.at = "telling", !.run = r])
    \/ /\ task[t].kind = "check-source"
       /\ \E i \in PageIds : /\ source[i].known
                             /\ Take(b, t, [Idle EXCEPT !.at = "reading", !.item = i])
    \/ /\ task[t].kind = "curate-batch"
       /\ \E chosen \in SUBSET {i \in PageIds : edition[i] # 0} :
              Take(b, t, [Idle EXCEPT !.at = "picking", !.todo = chosen])

\* The lease ends under a body that is suspended or cut off; it is over at the
\* next heartbeat, whatever it has done since.
Lapse(t) ==
    /\ lapses < MaxLapses
    /\ task[t].status = "running"
    /\ task' = [task EXCEPT ![t].status = "queued", ![t].holder = None]
    /\ lapses' = lapses + 1
    /\ UNCHANGED <<page, catalog, run, body>>

Die(b) ==
    /\ body[b] # Idle
    /\ ~Holds(b)
    /\ Become(b, Idle)
    /\ UNCHANGED <<page, catalog, run, task, lapses>>

\* The body ends, and the task takes one of the statuses if it is still its own.
EndTask(b, statuses) ==
    /\ Become(b, Idle)
    /\ IF Holds(b)
       THEN \E s \in statuses : task' = [task EXCEPT ![body[b].task].status = s,
                                                     ![body[b].task].holder = None]
       ELSE UNCHANGED task
    /\ UNCHANGED <<page, catalog, run, lapses>>

\* A failed task is queued again while it has attempts left.
Failed == {"queued", "failed"}

\* What the pages failed decides the status of the task.
Outcome(b) ==
    CASE KindOf(b) = "calendar" /\ body[b].bad > 0 ->
             IF body[b].total > body[b].bad THEN {"partial"} ELSE Failed
      [] KindOf(b) = "check-source" /\ body[b].bad > 0 -> Failed
      [] OverCandidates(b) /\ body[b].bad > 0 -> {"partial"}
      [] OTHER -> {"completed"}

Finish(b) ==
    /\ \/ body[b].at = "finishing"
       \/ body[b].at = "picking" /\ KindOf(b) = "curate-batch" /\ body[b].todo = {}
    /\ EndTask(b, Outcome(b))

-----------------------------------------------------------------------------
(* Import runs. *)

\* The sources are listed and the run is created with its candidates.
CreateRun(b, r) ==
    /\ body[b].at = "creating"
    /\ run[r].status = "none"
    /\ \E simulate \in BOOLEAN :
           run' = [run EXCEPT ![r] = [NoRun EXCEPT !.status = "ready", !.simulate = simulate]]
    /\ Become(b, [body[b] EXCEPT !.at = "telling", !.run = r])
    /\ UNCHANGED <<page, catalog, task, lapses>>

\* A heartbeat reports the run before each batch of it.
TellRun(b) ==
    /\ body[b].at = "telling"
    /\ Holds(b)
    /\ task' = [task EXCEPT ![body[b].task].run = body[b].run]
    /\ Become(b, [body[b] EXCEPT !.at = "opening"])
    /\ UNCHANGED <<page, catalog, run, lapses>>

OpenBatch(b) ==
    /\ body[b].at = "opening"
    /\ \E chosen \in SUBSET Pending(body[b].run) :
        /\ Cardinality(chosen) = Least(Batch, Cardinality(Pending(body[b].run)))
        /\ Become(b, [body[b] EXCEPT !.at = "processing", !.todo = chosen])
    /\ UNCHANGED <<page, catalog, run, task, lapses>>

MarkProcessing(b) ==
    /\ body[b].at = "processing"
    /\ run' = [run EXCEPT ![body[b].run].status = "processing"]
    /\ Become(b, [body[b] EXCEPT !.at = "picking"])
    /\ UNCHANGED <<page, catalog, task, lapses>>

\* A simulated candidate is fetched, curated and compared with the editions.
Simulate(b, i) ==
    /\ body[b].at = "picking"
    /\ OverCandidates(b)
    /\ run[body[b].run].simulate
    /\ i \in body[b].todo
    /\ \E s \in {"processed", "failed"} : run' = [run EXCEPT ![body[b].run].cand[i] = s]
    /\ Become(b, [body[b] EXCEPT !.todo = @ \ {i}])
    /\ UNCHANGED <<page, catalog, task, lapses>>

\* What the check of the candidate's page gave is written to it.
SettleCandidate(b) ==
    /\ body[b].at = "settling"
    /\ run' = [run EXCEPT ![body[b].run].cand[body[b].item] =
                 IF body[b].outcome = "fine" THEN "processed" ELSE "failed"]
    /\ Become(b, [body[b] EXCEPT !.at = "picking", !.item = 0, !.outcome = "fine"])
    /\ UNCHANGED <<page, catalog, task, lapses>>

\* (Mutant) The batch alone decides whether anything is left.
CountPendingMutant(b) ==
    /\ body[b].at = "picking"
    /\ OverCandidates(b)
    /\ body[b].todo = {}
    /\ Become(b, [body[b] EXCEPT !.at = "counting", !.left = Cardinality(body[b].todo)])
    /\ UNCHANGED <<page, catalog, run, task, lapses>>

\* After the batch the pending candidates, then the ended ones, are counted.
CountPending(b) ==
    /\ body[b].at = "picking"
    /\ OverCandidates(b)
    /\ body[b].todo = {}
    /\ Become(b, [body[b] EXCEPT !.at = "counting", !.left = Cardinality(Pending(body[b].run))])
    /\ UNCHANGED <<page, catalog, run, task, lapses>>

CountEnded(b) ==
    /\ body[b].at = "counting"
    /\ LET cand == run[body[b].run].cand
       IN  Become(b, [body[b] EXCEPT !.at = "closing",
                                     !.done = Cardinality({i \in PageIds : cand[i] # "pending"}),
                                     !.bad = Cardinality({i \in PageIds : cand[i] = "failed"})])
    /\ UNCHANGED <<page, catalog, run, task, lapses>>

\* (Mutant) What a batch has counted is added to what the run had.
CloseBatchMutant(b) ==
    /\ body[b].at = "closing"
    /\ run' = [run EXCEPT ![body[b].run] =
                 [@ EXCEPT !.status = IF body[b].left > 0 THEN "ready"
                                      ELSE IF body[b].bad > 0 THEN "partial_success" ELSE "success",
                           !.processed = @ + body[b].done, !.failed = body[b].bad]]
    /\ Become(b, [body[b] EXCEPT !.at = "rereading", !.left = 0, !.done = 0, !.bad = 0])
    /\ UNCHANGED <<page, catalog, task, lapses>>

CloseBatch(b) ==
    /\ body[b].at = "closing"
    /\ run' = [run EXCEPT ![body[b].run] =
                 [@ EXCEPT !.status = IF body[b].left > 0 THEN "ready"
                                      ELSE IF body[b].bad > 0 THEN "partial_success" ELSE "success",
                           !.processed = body[b].done, !.failed = body[b].bad]]
    /\ Become(b, [body[b] EXCEPT !.at = "rereading", !.left = 0, !.done = 0, !.bad = 0])
    /\ UNCHANGED <<page, catalog, task, lapses>>

\* The run is read again: another batch while it is ready.
ReadRun(b) ==
    /\ body[b].at = "rereading"
    /\ LET again == run[body[b].run].status = "ready"
       IN  Become(b, [body[b] EXCEPT !.at = IF again THEN "telling" ELSE "finishing",
                                     !.bad = IF again THEN 0 ELSE run[body[b].run].failed])
    /\ UNCHANGED <<page, catalog, run, task, lapses>>

-----------------------------------------------------------------------------
(* The calendar of a source. *)

\* The list is fetched for every batch; an empty batch ends the collection.
ListPages(b) ==
    /\ body[b].at = "listing"
    /\ LET size == Least(Batch, Quantity - body[b].total)
           batch == (body[b].offset + 1)..Least(body[b].offset + size, Pages)
       IN  Become(b, [body[b] EXCEPT !.at = IF batch = {} THEN "finishing" ELSE "picking", !.todo = batch])
    /\ UNCHANGED <<page, catalog, run, task, lapses>>

\* The batch is recorded and reported, and the next one starts after the pages
\* that were processed.
EndBatch(b) ==
    LET total == body[b].total + body[b].done
    IN  /\ body[b].at = "picking"
        /\ KindOf(b) = "calendar"
        /\ body[b].todo = {}
        /\ Holds(b)
        /\ Become(b, [body[b] EXCEPT !.at = IF body[b].done = 0 \/ total >= Quantity THEN "finishing" ELSE "listing",
                                     !.total = total, !.offset = @ + body[b].done, !.done = 0])
        /\ UNCHANGED <<page, catalog, run, task, lapses>>

-----------------------------------------------------------------------------
(* The check of one page. *)

\* The check of its item is over.  A candidate takes the outcome next; the pages
\* of a calendar are counted, one whose check threw as failed and not processed.
Settled(b, outcome) ==
    LET clean == [body[b] EXCEPT !.found = FALSE, !.last = 0, !.hash = 0]
        fails == IF outcome = "fine" THEN 0 ELSE 1
    IN  Become(b,
          CASE OverCandidates(b) -> [clean EXCEPT !.at = "settling", !.outcome = outcome]
            [] KindOf(b) = "calendar" ->
                   [clean EXCEPT !.at = "picking", !.item = 0, !.bad = @ + fails,
                                 !.done = @ + (IF outcome = "thrown" THEN 0 ELSE 1)]
            [] KindOf(b) = "check-source" ->
                   [clean EXCEPT !.at = "finishing", !.item = 0, !.bad = fails]
            [] OTHER -> [clean EXCEPT !.at = "picking", !.item = 0])

\* The next page of the batch: its source is looked for first, then updated or
\* created under the lease; it is created once.
FindSource(b, i) ==
    /\ body[b].at = "picking"
    /\ KindOf(b) # "curate-batch"
    /\ i \in body[b].todo
    /\ KindOf(b) = "calendar" => \A j \in body[b].todo : i <= j
    /\ OverCandidates(b) => ~run[body[b].run].simulate
    /\ Become(b, [body[b] EXCEPT !.at = "registering", !.todo = @ \ {i}, !.item = i,
                                 !.found = source[i].known])
    /\ UNCHANGED <<page, catalog, run, task, lapses>>

RegisterSource(b) ==
    /\ body[b].at = "registering"
    /\ Holds(b)
    /\ body[b].found = source[body[b].item].known
    /\ source' = [source EXCEPT ![body[b].item].known = TRUE]
    /\ Become(b, [body[b] EXCEPT !.at = "reading", !.found = FALSE])
    /\ UNCHANGED <<page, raw, edition, saved, run, task, lapses>>

RegisterFails(b) ==
    /\ body[b].at = "registering"
    /\ ~Holds(b) \/ body[b].found # source[body[b].item].known
    /\ Settled(b, "thrown")
    /\ UNCHANGED <<page, catalog, run, task, lapses>>

ReadSource(b) ==
    /\ body[b].at = "reading"
    /\ Become(b, [body[b] EXCEPT !.at = "fetching", !.last = source[body[b].item].hash])
    /\ UNCHANGED <<page, catalog, run, task, lapses>>

Fetch(b) ==
    /\ body[b].at = "fetching"
    /\ Become(b, [body[b] EXCEPT !.at = "comparing", !.hash = page[body[b].item]])
    /\ UNCHANGED <<page, catalog, run, task, lapses>>

\* The page, what it says or what curation makes of it is refused.
CheckFails(b) ==
    /\ body[b].at \in {"fetching", "curating"}
    /\ Settled(b, "failed")
    /\ UNCHANGED <<page, catalog, run, task, lapses>>

\* Budget, circuit, capacity and local resources end the body and put the task
\* back; what the batch has counted is lost.
Defer(b) ==
    /\ body[b].at \in {"creating", "listing", "registering", "fetching", "comparing", "curating"}
    /\ KindOf(b) # "curate-batch"
    /\ EndTask(b, {"queued"})

\* The source refused the access, and no other page of it is tried; or its list
\* could not be read.
Refused(b) ==
    \/ body[b].at = "fetching" /\ EndTask(b, {"failed"})
    \/ body[b].at \in {"creating", "listing"} /\ EndTask(b, Failed)

\* The hash is that of the last check, and the edition has been curated.
Unchanged(b) ==
    /\ body[b].at = "comparing"
    /\ body[b].last = body[b].hash
    /\ edition[body[b].item] # 0
    /\ source' = [source EXCEPT ![body[b].item].hash = body[b].hash]
    /\ Settled(b, "fine")
    /\ UNCHANGED <<page, raw, edition, saved, run, task, lapses>>

\* (Mutant) The hash is recorded with the extraction, before the edition is saved.
SaveRawMutant(b) ==
    /\ body[b].at = "comparing"
    /\ Holds(b)
    /\ raw' = [raw EXCEPT ![body[b].item] = body[b].hash]
    /\ source' = [source EXCEPT ![body[b].item].hash = body[b].hash]
    /\ Become(b, [body[b] EXCEPT !.at = "curating", !.last = 0])
    /\ UNCHANGED <<page, edition, saved, run, task, lapses>>

SaveRaw(b) ==
    /\ body[b].at = "comparing"
    /\ Holds(b)
    /\ raw' = [raw EXCEPT ![body[b].item] = body[b].hash]
    /\ Become(b, [body[b] EXCEPT !.at = "curating", !.last = 0])
    /\ UNCHANGED <<page, source, edition, saved, run, task, lapses>>

\* A lease that is lost at a fenced write makes the check of the page fail.
SaveRefused(b) ==
    /\ body[b].at \in {"comparing", "curating"}
    /\ ~Holds(b)
    /\ Settled(b, "failed")
    /\ UNCHANGED <<page, catalog, run, task, lapses>>

\* Curation, by rules, a cached answer or a model with the rules to fall back on,
\* decides whether an edition is made of what was fetched.
Curated(b) == <<body[b].item, body[b].hash>> \notin Abroad

SkipAbroad(b) ==
    /\ body[b].at = "curating"
    /\ ~Curated(b)
    /\ IF KindOf(b) = "curate-batch" THEN UNCHANGED source
       ELSE source' = [source EXCEPT ![body[b].item].hash = body[b].hash]
    /\ Settled(b, "fine")
    /\ UNCHANGED <<page, raw, edition, saved, run, task, lapses>>

SaveEdition(b) ==
    /\ body[b].at = "curating"
    /\ Holds(b)
    /\ Curated(b)
    /\ edition' = [edition EXCEPT ![body[b].item] = body[b].hash]
    /\ saved' = [saved EXCEPT ![body[b].item] = @ \cup {body[b].hash}]
    /\ IF KindOf(b) = "curate-batch" THEN Settled(b, "fine")
       ELSE Become(b, [body[b] EXCEPT !.at = "marking"])
    /\ UNCHANGED <<page, source, raw, run, task, lapses>>

MarkSource(b) ==
    /\ body[b].at = "marking"
    /\ source' = [source EXCEPT ![body[b].item].hash = body[b].hash]
    /\ Settled(b, "fine")
    /\ UNCHANGED <<page, raw, edition, saved, run, task, lapses>>

-----------------------------------------------------------------------------
(* Curation again, from the latest extraction of a page. *)

Recall(b, i) ==
    /\ body[b].at = "picking"
    /\ KindOf(b) = "curate-batch"
    /\ i \in body[b].todo
    /\ Become(b, [body[b] EXCEPT !.at = IF raw[i] = 0 THEN "picking" ELSE "curating",
                                 !.todo = @ \ {i}, !.item = IF raw[i] = 0 THEN 0 ELSE i,
                                 !.hash = raw[i]])
    /\ UNCHANGED <<page, catalog, run, task, lapses>>

-----------------------------------------------------------------------------
\* The source changes what a page shows.
ChangePage(i) ==
    /\ page[i] < Versions[i]
    /\ page' = [page EXCEPT ![i] = @ + 1]
    /\ UNCHANGED <<catalog, run, task, body, lapses>>

Check(b) ==
    \/ RegisterSource(b)
    \/ RegisterFails(b)
    \/ ReadSource(b)
    \/ Fetch(b)
    \/ CheckFails(b)
    \/ Defer(b)
    \/ Refused(b)
    \/ Unchanged(b)
    \/ SaveRaw(b)
    \/ SaveRefused(b)
    \/ SkipAbroad(b)
    \/ SaveEdition(b)
    \/ MarkSource(b)

ImportRunStep(b) ==
    \/ \E r \in Runs : CreateRun(b, r)
    \/ TellRun(b)
    \/ OpenBatch(b)
    \/ MarkProcessing(b)
    \/ \E i \in PageIds : Simulate(b, i)
    \/ SettleCandidate(b)
    \/ CountPending(b)
    \/ CountEnded(b)
    \/ CloseBatch(b)
    \/ ReadRun(b)

Next ==
    \/ \E i \in PageIds : ChangePage(i)
    \/ \E t \in Tasks : Request(t) \/ Lapse(t)
    \/ \E b \in Bodies :
         \/ \E t \in Tasks : Claim(b, t)
         \/ Die(b)
         \/ ImportRunStep(b)
         \/ ListPages(b)
         \/ EndBatch(b)
         \/ \E i \in PageIds : FindSource(b, i) \/ Recall(b, i)
         \/ Check(b)
         \/ Finish(b)

Spec == Init /\ [][Next]_vars

-----------------------------------------------------------------------------
\* Where a body is: before its pages, at one of them, after its batch.
Checking == {"registering", "reading", "fetching", "comparing", "curating", "marking", "settling"}
Places == {"idle", "creating", "telling", "opening", "processing", "listing", "picking"} \cup Checking
          \cup {"counting", "closing", "rereading", "finishing"}
Body == [at: Places, task: Tasks \cup {None}, run: 0..MaxRuns, todo: SUBSET PageIds, item: 0..Pages,
         found: BOOLEAN, last: Nat, hash: Nat, outcome: {"fine", "failed", "thrown"},
         left: Nat, done: Nat, bad: Nat, offset: 0..Pages, total: Nat]

RunRow == [status: {"none", "ready", "processing"} \cup Ended, simulate: BOOLEAN,
           cand: [PageIds -> {"pending", "processed", "failed"}], processed: 0..Pages, failed: 0..Pages]
TaskRow == [kind: AllKinds \cup {"none"}, status: {"absent", "queued", "running", "completed", "partial", "failed"},
            holder: Bodies \cup {None}, run: 0..MaxRuns]

CatalogOK ==
    /\ page \in [PageIds -> Nat \ {0}]
    /\ source \in [PageIds -> [known: BOOLEAN, hash: Nat]]
    /\ raw \in [PageIds -> Nat]
    /\ edition \in [PageIds -> Nat]
    /\ saved \in [PageIds -> SUBSET (Nat \ {0})]
    /\ \A i \in PageIds : {page[i], source[i].hash, raw[i], edition[i]} \cup saved[i] \subseteq 0..Versions[i]

TypeOK ==
    /\ CatalogOK
    /\ run \in [Runs -> RunRow]
    /\ task \in [Tasks -> TaskRow]
    /\ body \in [Bodies -> Body]
    /\ \A b \in Bodies : body[b].at # "idle" => body[b].task # None

\* A run is over only when every candidate has been taken to an end and counted,
\* though the body of an earlier attempt may still be at work on it when the
\* next one reads, counts and closes.
EndedRunIsWhole ==
    \A r \in Runs : run[r].status \in Ended =>
        /\ Pending(r) = {}
        /\ run[r].processed = Pages

\* The hash a source is recorded with, by which the next check passes the page
\* over, is that of a content an edition was saved from or one that no edition
\* is made of, wherever a check was cut short.
HashWasSaved ==
    \A i \in PageIds : source[i].hash # 0 =>
        source[i].hash \in saved[i] \/ <<i, source[i].hash>> \in Abroad
=============================================================================
