------------------------ MODULE StandaloneExtraction ------------------------
(***************************************************************************)
(* One results job of the stand-alone results service: the coroutines that *)
(* run it (`_run_results_job`), the events, groups and athletes it writes  *)
(* to SQLite page by page, the restart that interrupts it and the requests *)
(* that resume it.                                                         *)
(*                                                                         *)
(* Every call of the storage is executed in the order of the calls, by the *)
(* single thread of the connection, so a call and the statements before it *)
(* up to the previous `await` are one step; what a coroutine has read is   *)
(* kept in its local state until it uses it.  A page stands for the        *)
(* athletes it lists; the source lists the same pages at every fetch.      *)
(*                                                                         *)
(* A definition whose name ends in "Mutant" is the operator after it with  *)
(* a plausible bug; nothing else uses it.                                  *)
(***************************************************************************)
EXTENDS Integers, FiniteSets

CONSTANTS
    Runs,            \* requests that run the job: its registration and its resumptions
    First,           \* the registration
    Events,          \* the events of the scope
    Groups,          \* modality and gender: the groups of an event
    PagesOf,         \* pages of each group of each event
    MaxOverlapping,  \* bound: runs after so many are asked for only when none is at work
    MaxRestarts      \* bound on the restarts of the service

ASSUME FirstAssumption == First \in Runs
ASSUME PagesAssumption == PagesOf \in [Events -> [Groups -> Nat \ {0}]]
ASSUME RestartsAssumption == MaxRestarts \in Nat

VARIABLES
    job,       \* row of the job: status, and whether its warnings are empty
    memory,    \* JobRecord of the job: status and warnings, or none
    event,     \* job_events.status of each event
    group,     \* job_groups of each group: status, next_offset, extracted_total
    rows,      \* athlete_results: <<event, group, page>>
    run,       \* local state of each run
    fetch,     \* local state of each group coroutine of each run
    restarts   \* restarts so far

vars == <<job, memory, event, group, rows, run, fetch, restarts>>
disk == <<job, event, group, rows>>

JobStatus == {"queued", "running", "interrupted", "completed", "completed_with_warnings", "failed"}
Resumable == {"interrupted", "failed", "completed_with_warnings"}
EventStatus == {"absent", "pending", "processing", "completed", "partial", "skipped"}
GroupStatus == {"absent", "processing", "completed", "partial"}
GroupRow == [status: GroupStatus, next: Nat, extracted: Nat]
NoRecord == [status |-> "none", warned |-> FALSE]
NoGroup == [status |-> "absent", next |-> 0, extracted |-> 0]
Steps == {"unasked", "read", "waiting", "selecting", "picking", "metadata",
          "scraping", "gathered", "judged", "reporting", "ended"}
Phases == {"idle", "checked", "fetching", "inserting", "confirmed", "failing", "done", "kept", "raised"}
IdleRun == [at |-> "unasked", resume |-> FALSE, stored |-> FALSE, todo |-> {}, on |-> {},
            whole |-> FALSE]
IdleFetch == [at |-> "idle", offset |-> 0, extracted |-> 0, noise |-> 0, seen |-> NoGroup]

\* The pages of one group, and the rows of one event.
PagesIn(e, g) == 1..PagesOf[e][g]
RowsOf(e) == UNION {{<<e, g, i>> : i \in PagesIn(e, g)} : g \in Groups}

-----------------------------------------------------------------------------
Init ==
    /\ job = [status |-> "queued", warned |-> FALSE]
    /\ memory = [status |-> "queued", warned |-> FALSE]
    /\ event = [e \in Events |-> "absent"]
    /\ group = [e \in Events |-> [g \in Groups |-> NoGroup]]
    /\ rows = {}
    /\ run = [r \in Runs |-> IF r = First THEN [IdleRun EXCEPT !.at = "waiting"] ELSE IdleRun]
    /\ fetch = [r \in Runs |-> [g \in Groups |-> IdleFetch]]
    /\ restarts = 0

\* `_set_progress`: the row takes the status and the warnings of the record.
Reported == job' = memory

\* An insertion counts its rows as the difference of `total_changes`, so a
\* write by another coroutine before its commit is counted with them.
Disturbed(f) ==
    [s \in Runs |-> [h \in Groups |->
        IF f[s][h].at = "inserting" THEN [f[s][h] EXCEPT !.noise = 1] ELSE f[s][h]]]

\* Runs that were asked for, and those of them that have not ended.
Asked == {r \in Runs : run[r].at # "unasked"}
AtWork == {r \in Asked : run[r].at # "ended"}

(* Resumption: the row is read, and what was read is checked, before the record
   and the row are set back to queued. *)
ReadJob(r) ==
    /\ run[r].at = "unasked"
    /\ job.status \in Resumable
    /\ AtWork = {} \/ Cardinality(Asked) < MaxOverlapping
    /\ run' = [run EXCEPT ![r].at = "read", ![r].resume = TRUE, ![r].stored = job.warned]
    /\ UNCHANGED <<disk, memory, fetch, restarts>>

Resume(r) ==
    /\ run[r].at = "read"
    /\ memory' = [status |-> "queued",
                  warned |-> IF memory = NoRecord THEN run[r].stored ELSE memory.warned]
    /\ job' = [job EXCEPT !.status = "queued"]
    /\ run' = [run EXCEPT ![r].at = "waiting", ![r].stored = FALSE]
    /\ fetch' = Disturbed(fetch)
    /\ UNCHANGED <<event, group, rows, restarts>>

(* `_run_results_job`. *)
Begin(r) ==
    /\ run[r].at = "waiting"
    /\ memory' = [memory EXCEPT !.status = "running"]
    /\ event' = [e \in Events |-> IF event[e] = "absent" THEN "pending" ELSE event[e]]
    /\ run' = [run EXCEPT ![r].at = "selecting"]
    /\ fetch' = Disturbed(fetch)
    /\ UNCHANGED <<job, group, rows, restarts>>

Select(r) ==
    /\ run[r].at = "selecting"
    /\ run' = [run EXCEPT ![r].at = "picking",
                 ![r].todo = IF run[r].resume THEN {e \in Events : event[e] \notin {"completed", "skipped"}}
                             ELSE Events]
    /\ UNCHANGED <<disk, memory, fetch, restarts>>

StartEvent(r, e) ==
    /\ run[r].at = "picking"
    /\ e \in run[r].todo
    /\ event' = [event EXCEPT ![e] = "processing"]
    /\ run' = [run EXCEPT ![r].at = "metadata", ![r].todo = @ \ {e}, ![r].on = {e}]
    /\ fetch' = Disturbed(fetch)
    /\ UNCHANGED <<job, memory, group, rows, restarts>>

\* The page of the event gives no identifier: the warning stays in memory.
SkipEvent(r, e) ==
    /\ run[r].at = "metadata"
    /\ e \in run[r].on
    /\ memory' = [memory EXCEPT !.warned = TRUE]
    /\ event' = [event EXCEPT ![e] = "skipped"]
    /\ run' = [run EXCEPT ![r].at = "picking", ![r].on = {}]
    /\ fetch' = Disturbed(fetch)
    /\ UNCHANGED <<job, group, rows, restarts>>

Gathered(r) == \A g \in Groups : fetch[r][g].at \in {"done", "kept", "raised"}

\* The metadata or the page of the event failed, or a group failed and either
\* nothing was extracted or its error (a block, a deferral) stops the event.
EventFails(r, e) ==
    /\ e \in run[r].on
    /\ \/ run[r].at = "metadata"
       \/ run[r].at = "scraping" /\ \A g \in Groups : fetch[r][g].at = "idle"
       \/ run[r].at = "scraping" /\ Gathered(r) /\ \E g \in Groups : fetch[r][g].at = "raised"
    /\ memory' = [memory EXCEPT !.warned = TRUE]
    /\ event' = [event EXCEPT ![e] = "partial"]
    /\ run' = [run EXCEPT ![r].at = "reporting", ![r].on = {}, ![r].whole = FALSE]
    /\ fetch' = Disturbed([fetch EXCEPT ![r] = [g \in Groups |-> IdleFetch]])
    /\ UNCHANGED <<job, group, rows, restarts>>

\* `scrape_to_storage` reports its start and gathers one coroutine per group.
Scrape(r) ==
    /\ run[r].at = "metadata"
    /\ Reported
    /\ run' = [run EXCEPT ![r].at = "scraping"]
    /\ fetch' = Disturbed(fetch)
    /\ UNCHANGED <<memory, event, group, rows, restarts>>

\* The lock of the storage, held by an insertion until its commit.
Unlocked == \A s \in Runs, h \in Groups : fetch[s][h].at # "inserting"

\* An event without an endpoint is taken whole from its page.
ScrapePage(r, e) ==
    /\ run[r].at = "scraping"
    /\ e \in run[r].on
    /\ \A g \in Groups : fetch[r][g].at = "idle"
    /\ Unlocked
    /\ rows' = rows \cup RowsOf(e)
    /\ run' = [run EXCEPT ![r].at = "gathered"]
    /\ fetch' = [fetch EXCEPT ![r] = [g \in Groups |-> [IdleFetch EXCEPT !.at = "kept"]]]
    /\ UNCHANGED <<job, memory, event, group, restarts>>

(* `_fetch_group_persistent`. *)
ReadGroup(r, e, g) ==
    /\ run[r].at = "scraping"
    /\ e \in run[r].on
    /\ fetch[r][g].at = "idle"
    /\ fetch' = [fetch EXCEPT ![r][g] =
                   [IdleFetch EXCEPT !.at = IF group[e][g].status = "completed" THEN "kept" ELSE "checked",
                                     !.offset = group[e][g].next, !.extracted = group[e][g].extracted]]
    /\ UNCHANGED <<disk, memory, run, restarts>>

OpenGroup(r, e, g) ==
    /\ run[r].at = "scraping"
    /\ e \in run[r].on
    /\ fetch[r][g].at = "checked"
    /\ group' = [group EXCEPT ![e][g] = [status |-> "processing", next |-> fetch[r][g].offset,
                                         extracted |-> fetch[r][g].extracted]]
    /\ fetch' = Disturbed([fetch EXCEPT ![r][g].at = "fetching"])
    /\ UNCHANGED <<job, memory, event, rows, run, restarts>>

\* The next page arrived: its athletes are inserted, the known ones ignored.
InsertPage(r, e, g) ==
    LET page == <<e, g, fetch[r][g].offset + 1>>
    IN  /\ run[r].at = "scraping"
        /\ e \in run[r].on
        /\ fetch[r][g].at = "fetching"
        /\ fetch[r][g].offset < PagesOf[e][g]
        /\ Unlocked
        /\ rows' = rows \cup {page}
        /\ fetch' = [fetch EXCEPT ![r][g].at = "inserting", ![r][g].noise = 0,
                                  ![r][g].extracted = @ + (IF page \in rows THEN 0 ELSE 1)]
        /\ UNCHANGED <<job, memory, event, group, run, restarts>>

\* The page is confirmed; the last one completes the group.
ConfirmPage(r, e, g) ==
    LET f == fetch[r][g]
        last == f.offset + 1 = PagesOf[e][g]
    IN  /\ run[r].at = "scraping"
        /\ e \in run[r].on
        /\ f.at = "inserting"
        /\ group' = [group EXCEPT ![e][g] = [status |-> IF last THEN "completed" ELSE "processing",
                                             next |-> f.offset + 1, extracted |-> f.extracted + f.noise]]
        /\ fetch' = Disturbed([fetch EXCEPT ![r][g].at = IF last THEN "confirmed" ELSE "fetching",
                                            ![r][g].offset = @ + 1, ![r][g].extracted = f.extracted + f.noise,
                                            ![r][g].noise = 0])
        /\ UNCHANGED <<job, memory, event, rows, run, restarts>>

\* (Mutant) The empty page moves the cursor like any other.
EmptyPageMutant(r, e, g) ==
    LET f == fetch[r][g]
    IN  /\ run[r].at = "scraping"
        /\ e \in run[r].on
        /\ f.at = "fetching"
        /\ f.offset = PagesOf[e][g]
        /\ group' = [group EXCEPT ![e][g] = [status |-> "completed", next |-> f.offset + 1,
                                             extracted |-> f.extracted]]
        /\ fetch' = Disturbed([fetch EXCEPT ![r][g].at = "confirmed"])
        /\ UNCHANGED <<job, memory, event, rows, run, restarts>>

\* A group marked partial after another run had completed it is resumed behind its
\* last page: the source answers with no athletes, and it is completed again.
EmptyPage(r, e, g) ==
    LET f == fetch[r][g]
    IN  /\ run[r].at = "scraping"
        /\ e \in run[r].on
        /\ f.at = "fetching"
        /\ f.offset = PagesOf[e][g]
        /\ group' = [group EXCEPT ![e][g] = [status |-> "completed", next |-> f.offset, extracted |-> f.extracted]]
        /\ fetch' = Disturbed([fetch EXCEPT ![r][g].at = "confirmed"])
        /\ UNCHANGED <<job, memory, event, rows, run, restarts>>

\* A completed group reports the progress of the event.
ReportGroup(r, e, g) ==
    /\ run[r].at = "scraping"
    /\ e \in run[r].on
    /\ fetch[r][g].at = "confirmed"
    /\ Reported
    /\ fetch' = Disturbed([fetch EXCEPT ![r][g] = [IdleFetch EXCEPT !.at = "done",
                                                                   !.extracted = fetch[r][g].extracted]])
    /\ UNCHANGED <<memory, event, group, rows, run, restarts>>

\* The fetch of a page failed: the group is read again and marked partial.
FetchFails(r, e, g) ==
    /\ run[r].at = "scraping"
    /\ e \in run[r].on
    /\ fetch[r][g].at = "fetching"
    /\ fetch' = [fetch EXCEPT ![r][g] = [IdleFetch EXCEPT !.at = "failing", !.seen = group[e][g]]]
    /\ UNCHANGED <<disk, memory, run, restarts>>

\* (Mutant) The page that failed is passed over by the next run.
MarkPartialMutant(r, e, g) ==
    /\ run[r].at = "scraping"
    /\ e \in run[r].on
    /\ fetch[r][g].at = "failing"
    /\ group' = [group EXCEPT ![e][g] = [fetch[r][g].seen EXCEPT !.status = "partial", !.next = @ + 1]]
    /\ fetch' = Disturbed([fetch EXCEPT ![r][g] = [IdleFetch EXCEPT !.at = "raised"]])
    /\ UNCHANGED <<job, memory, event, rows, run, restarts>>

MarkPartial(r, e, g) ==
    /\ run[r].at = "scraping"
    /\ e \in run[r].on
    /\ fetch[r][g].at = "failing"
    /\ group' = [group EXCEPT ![e][g] = [fetch[r][g].seen EXCEPT !.status = "partial"]]
    /\ fetch' = Disturbed([fetch EXCEPT ![r][g] = [IdleFetch EXCEPT !.at = "raised"]])
    /\ UNCHANGED <<job, memory, event, rows, run, restarts>>

Gather(r) ==
    /\ run[r].at = "scraping"
    /\ Gathered(r)
    /\ \/ \A g \in Groups : fetch[r][g].at # "raised"
       \/ \E g \in Groups : fetch[r][g].at # "raised" /\ fetch[r][g].extracted > 0
    /\ Reported
    /\ run' = [run EXCEPT ![r].at = "gathered"]
    /\ fetch' = Disturbed(fetch)
    /\ UNCHANGED <<memory, event, group, rows, restarts>>

\* (Mutant) The event is whole when none of its groups is partial.
JudgeEventMutant(r, e) ==
    /\ run[r].at = "gathered"
    /\ e \in run[r].on
    /\ memory' = [memory EXCEPT !.warned = @ \/ \E g \in Groups :
                     \/ fetch[r][g].at = "raised"
                     \/ fetch[r][g].at = "done" /\ fetch[r][g].extracted # PagesOf[e][g]]
    /\ run' = [run EXCEPT ![r].at = "judged", ![r].whole = \A g \in Groups : group[e][g].status # "partial"]
    /\ UNCHANGED <<disk, fetch, restarts>>

\* What went wrong, or did not add up, in a group fetched now is a warning; the
\* groups of the event are read, then the event is marked.
JudgeEvent(r, e) ==
    /\ run[r].at = "gathered"
    /\ e \in run[r].on
    /\ memory' = [memory EXCEPT !.warned = @ \/ \E g \in Groups :
                     \/ fetch[r][g].at = "raised"
                     \/ fetch[r][g].at = "done" /\ fetch[r][g].extracted # PagesOf[e][g]]
    /\ run' = [run EXCEPT ![r].at = "judged",
                 ![r].whole = \A g \in Groups : group[e][g].status \in {"completed", "absent"}]
    /\ UNCHANGED <<disk, fetch, restarts>>

MarkEvent(r, e) ==
    /\ run[r].at = "judged"
    /\ e \in run[r].on
    /\ event' = [event EXCEPT ![e] = IF run[r].whole THEN "completed" ELSE "partial"]
    /\ run' = [run EXCEPT ![r].at = "reporting", ![r].on = {}, ![r].whole = FALSE]
    /\ fetch' = Disturbed([fetch EXCEPT ![r] = [g \in Groups |-> IdleFetch]])
    /\ UNCHANGED <<job, memory, group, rows, restarts>>

Report(r) ==
    /\ run[r].at = "reporting"
    /\ Reported
    /\ run' = [run EXCEPT ![r].at = "picking"]
    /\ fetch' = Disturbed(fetch)
    /\ UNCHANGED <<memory, event, group, rows, restarts>>

(* `_finish_persistent` and `_fail_persistent`. *)
Finish(r) ==
    /\ run[r].at = "picking"
    /\ run[r].todo = {}
    /\ memory' = [memory EXCEPT !.status = IF memory.warned \/ rows = {} THEN "completed_with_warnings" ELSE "completed",
                                !.warned = @ \/ rows = {}]
    /\ job' = memory'
    /\ run' = [run EXCEPT ![r] = [IdleRun EXCEPT !.at = "ended"]]
    /\ fetch' = Disturbed(fetch)
    /\ UNCHANGED <<event, group, rows, restarts>>

\* The workbook could not be written.
Fail(r) ==
    /\ run[r].at = "picking"
    /\ run[r].todo = {}
    /\ rows # {}
    /\ memory' = [memory EXCEPT !.status = "failed"]
    /\ job' = memory'
    /\ run' = [run EXCEPT ![r] = [IdleRun EXCEPT !.at = "ended"]]
    /\ fetch' = Disturbed(fetch)
    /\ UNCHANGED <<event, group, rows, restarts>>

(* The process ends, whatever was running, and `storage.start` of the next one
   marks what it finds. *)
Restart ==
    /\ restarts < MaxRestarts
    /\ restarts' = restarts + 1
    /\ memory' = NoRecord
    /\ job' = [job EXCEPT !.status = IF @ = "running" THEN "interrupted" ELSE @]
    /\ event' = [e \in Events |-> IF event[e] = "processing" THEN "partial" ELSE event[e]]
    /\ group' = [e \in Events |-> [g \in Groups |->
                   IF group[e][g].status = "processing" THEN [group[e][g] EXCEPT !.status = "partial"]
                   ELSE group[e][g]]]
    /\ run' = [r \in Runs |-> IF run[r].at = "unasked" THEN run[r] ELSE [IdleRun EXCEPT !.at = "ended"]]
    /\ fetch' = [r \in Runs |-> [g \in Groups |-> IdleFetch]]
    /\ UNCHANGED rows

GroupStep(r, e, g) ==
    \/ ReadGroup(r, e, g)
    \/ OpenGroup(r, e, g)
    \/ InsertPage(r, e, g)
    \/ ConfirmPage(r, e, g)
    \/ EmptyPage(r, e, g)
    \/ ReportGroup(r, e, g)
    \/ FetchFails(r, e, g)
    \/ MarkPartial(r, e, g)

RunStep(r) ==
    \/ Resume(r)
    \/ Begin(r)
    \/ Select(r)
    \/ Scrape(r)
    \/ Gather(r)
    \/ Report(r)
    \/ Finish(r)
    \/ Fail(r)
    \/ \E e \in Events :
         \/ StartEvent(r, e)
         \/ SkipEvent(r, e)
         \/ EventFails(r, e)
         \/ ScrapePage(r, e)
         \/ JudgeEvent(r, e)
         \/ MarkEvent(r, e)
         \/ \E g \in Groups : GroupStep(r, e, g)

Next ==
    \/ Restart
    \/ \E r \in Runs : ReadJob(r) \/ RunStep(r)

Spec == Init /\ [][Next]_vars

-----------------------------------------------------------------------------
TypeOK ==
    /\ job \in [status: JobStatus, warned: BOOLEAN]
    /\ memory \in [status: JobStatus \cup {"none"}, warned: BOOLEAN]
    /\ event \in [Events -> EventStatus]
    /\ group \in [Events -> [Groups -> GroupRow]]
    /\ \A e \in Events, g \in Groups : group[e][g].next <= PagesOf[e][g]
    /\ rows \subseteq Events \X Groups \X (Nat \ {0})
    /\ run \in [Runs -> [at: Steps, resume: BOOLEAN, stored: BOOLEAN, todo: SUBSET Events,
                         on: SUBSET Events, whole: BOOLEAN]]
    /\ fetch \in [Runs -> [Groups -> [at: Phases, offset: Nat, extracted: Nat, noise: 0..1, seen: GroupRow]]]
    /\ restarts \in 0..MaxRestarts

\* The page a group would be resumed from leaves no athlete behind: every page
\* before `next_offset` is stored, whatever was interrupted between the
\* insertion and the checkpoint and however many runs share the job.
RowsCoverCursor ==
    \A e \in Events, g \in Groups : \A i \in 1..group[e][g].next : <<e, g, i>> \in rows

\* An event a resumption will pass over as completed has all its athletes.
CompletedEventWhole == \A e \in Events : event[e] = "completed" => RowsOf(e) \subseteq rows
=============================================================================
