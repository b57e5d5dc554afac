-------------------------- MODULE ResultCheckpoint --------------------------
(***************************************************************************)
(* The resumable extraction of one edition's results: the checkpoint a     *)
(* task opens, the pages it stores there group by group, the publication   *)
(* that replaces the published set, the retry that hands a checkpoint to   *)
(* a new task, expiry, invalidation and clean-up.                          *)
(*                                                                         *)
(* Taken from TaskQueue, which proves them: tasks of this source run one   *)
(* at a time, and a fenced transaction commits only for the executor that  *)
(* owns the running task.  Transactions that lock the checkpoint row are   *)
(* atomic here.  Which attempt is a task's last is left open, and so is    *)
(* every failure that has nothing to do with the checkpoint.               *)
(* The source lists records per group (modality and gender) and may change *)
(* its listing at any time.  A total is a set: {n}, or {} when the source  *)
(* does not announce it.                                                   *)
(* A definition whose name ends in "Mutant" is the operator after it with  *)
(* a plausible bug; nothing uses it.                                       *)
(***************************************************************************)
EXTENDS Naturals, Sequences, Functions

CONSTANTS Tasks,           \* identities of extract tasks of the edition
          Executors,
          Groups,          \* groups of the edition, 1..Groups in manifest order
          Records,
          Listings,        \* what the source may list: a set of functions from groups
          PageSize,        \* endpoint_page_size
          ManifestTotals,  \* whether the event page announces the total of each group: a set
          PageTotals       \* result pages announce the total of their group

None == "none"

ASSUME TaskNamesAssumption == None \notin Tasks /\ None \notin Executors
ASSUME GroupsAssumption == Groups \in Nat \ {0}
ASSUME ListingsAssumption == Listings \subseteq [1..Groups -> Seq(Records)] /\ Listings # {}
ASSUME PageSizeAssumption == PageSize \in Nat \ {0}
ASSUME TotalsAssumption == ManifestTotals \in (SUBSET BOOLEAN) \ {{}} /\ PageTotals \in BOOLEAN

VARIABLES status, owner, rootOf,                        \* the tasks
          root, active, expired, manifest,              \* ResultCheckpoint, by root task
          next, total, done,                            \* ResultCheckpointGroup
          rows,                                         \* ResultCheckpointRow
          published,                                    \* RaceResult of the edition's ResultSet
          associated,                                   \* reference, date and location fit the checkpoints
          listing,                                      \* what the source lists now
          moved,                                        \* the listing changed since the checkpoint was opened
          body                                          \* what each executor is doing

taskVars == <<status, owner, rootOf>>
rootVars == <<root, active, expired, manifest>>
groupVars == <<next, total, done, rows>>
sourceVars == <<listing, moved, associated>>
vars == <<taskVars, rootVars, groupVars, published, sourceVars, body>>

GroupSet == 1..Groups
Totals == SUBSET Nat
\* "lapsed" is running with a lease in the past; "failed" stands for partial as well.
TaskStatus == {"absent", "queued", "running", "lapsed", "failed", "completed", "cancelled"}
RootStatus == {"absent", "collecting", "ready", "invalid", "published", "expired"}
Usable == {"collecting", "ready"}
Phases == {"idle", "claimed", "discovering", "starting", "opening", "fetching", "saving",
           "finishing", "publishing", "refused", "failing"}
Page == [rows: Seq(Records), more: BOOLEAN, expected: Totals]
Body == [phase: Phases, task: Tasks \cup {None}, group: Nat, offset: Nat, page: Page,
         manifest: [GroupSet -> Totals]]

TypeOK ==
    /\ status \in [Tasks -> TaskStatus]
    /\ owner \in [Tasks -> Executors \cup {None}]
    /\ rootOf \in [Tasks -> Tasks]
    /\ root \in [Tasks -> RootStatus]
    /\ active \in [Tasks -> Tasks]
    /\ expired \in [Tasks -> BOOLEAN]
    /\ manifest \in [Tasks -> [GroupSet -> Totals]]
    /\ next \in [Tasks -> [GroupSet -> Nat]]
    /\ total \in [Tasks -> [GroupSet -> Totals]]
    /\ done \in [Tasks -> [GroupSet -> BOOLEAN]]
    /\ rows \in [Tasks -> [GroupSet -> Seq(Records)]]
    /\ published \in [GroupSet -> Seq(Records)]
    /\ listing \in Listings
    /\ moved \in [Tasks -> BOOLEAN]
    /\ associated \in BOOLEAN
    /\ body \in [Executors -> Body]
    /\ \A e \in Executors : body[e].phase # "idle" => body[e].task \in Tasks /\ body[e].group \in GroupSet

NoRows == [g \in GroupSet |-> <<>>]
NoTotals == [g \in GroupSet |-> {}]
NoPage == [rows |-> <<>>, more |-> FALSE, expected |-> {}]

BodyAt(phase, t, g) ==
    [phase |-> phase, task |-> t, group |-> g, offset |-> 0, page |-> NoPage, manifest |-> NoTotals]
Idle == BodyAt("idle", None, 0)

Init ==
    /\ status = [t \in Tasks |-> "absent"]
    /\ owner = [t \in Tasks |-> None]
    /\ rootOf = [t \in Tasks |-> t]
    /\ root = [t \in Tasks |-> "absent"]
    /\ active = [t \in Tasks |-> t]
    /\ expired = [t \in Tasks |-> FALSE]
    /\ manifest = [t \in Tasks |-> NoTotals]
    /\ next = [t \in Tasks |-> [g \in GroupSet |-> 0]]
    /\ total = [t \in Tasks |-> NoTotals]
    /\ done = [t \in Tasks |-> [g \in GroupSet |-> FALSE]]
    /\ rows = [t \in Tasks |-> NoRows]
    /\ published = NoRows
    /\ listing \in Listings
    /\ moved = [t \in Tasks |-> FALSE]
    /\ associated = TRUE
    /\ body = [e \in Executors |-> Idle]

-----------------------------------------------------------------------------
(* Requests. *)

Unfinished == {"queued", "running", "lapsed"}

\* A request, or a retry with mode = restart: the task is its own root.
Enqueue(t) ==
    /\ status[t] = "absent"
    /\ status' = [status EXCEPT ![t] = "queued"]
    /\ rootOf' = [rootOf EXCEPT ![t] = t]
    /\ UNCHANGED <<owner, rootVars, groupVars, published, sourceVars, body>>

AvailableMutant(r) ==
    /\ root[r] \in Usable
    /\ ~expired[r]
    /\ associated

\* readResultCheckpoint: the checkpoint r can be handed to another task.
Available(r) ==
    /\ root[r] \in Usable
    /\ ~expired[r]
    /\ status[active[r]] \notin Unfinished
    /\ associated

\* A retry with mode = resume: reservation and new task in one transaction.
Resume(old, t) ==
    /\ status[old] = "failed"
    /\ status[t] = "absent"
    /\ Available(rootOf[old])
    /\ status' = [status EXCEPT ![t] = "queued"]
    /\ rootOf' = [rootOf EXCEPT ![t] = rootOf[old]]
    /\ active' = [active EXCEPT ![rootOf[old]] = t]
    /\ UNCHANGED <<owner, root, expired, manifest, groupVars, published, sourceVars, body>>

Cancel(t) ==
    /\ status[t] = "queued"
    /\ status' = [status EXCEPT ![t] = "cancelled"]
    /\ UNCHANGED <<owner, rootOf, rootVars, groupVars, published, sourceVars, body>>

-----------------------------------------------------------------------------
(* The queue, as far as it matters here. *)

Become(e, b) == body' = [body EXCEPT ![e] = b]

Claim(e, t) ==
    /\ body[e].phase = "idle"
    /\ status[t] = "queued"
    /\ \A u \in Tasks : status[u] \notin {"running", "lapsed"}
    /\ status' = [status EXCEPT ![t] = "running"]
    /\ owner' = [owner EXCEPT ![t] = e]
    /\ Become(e, BodyAt("claimed", t, 1))
    /\ UNCHANGED <<rootOf, rootVars, groupVars, published, sourceVars>>

LeaseLapses(t) ==
    /\ status[t] = "running"
    /\ status' = [status EXCEPT ![t] = "lapsed"]
    /\ UNCHANGED <<owner, rootOf, rootVars, groupVars, published, sourceVars, body>>

\* The task leaves its executor with status st.
Released(t, st) ==
    /\ status' = [status EXCEPT ![t] = st]
    /\ owner' = [owner EXCEPT ![t] = None]
    /\ UNCHANGED rootOf

Recover(t) ==
    /\ status[t] = "lapsed"
    /\ \E st \in {"queued", "failed"} : Released(t, st)
    /\ UNCHANGED <<rootVars, groupVars, published, sourceVars, body>>

\* The executor owns the running task its body works for.
Fenced(e) == status[body[e].task] = "running" /\ owner[body[e].task] = e

\* Network, deadline, gate, budget or capacity: a failure or deferral of any phase
\* that leaves the checkpoint as it is.  Without the lease it changes nothing.
BodyFails(e) ==
    /\ body[e].phase \notin {"idle", "refused", "failing"}
    /\ IF Fenced(e)
         THEN \E st \in {"queued", "failed"} : Released(body[e].task, st)
         ELSE UNCHANGED taskVars
    /\ Become(e, Idle)
    /\ UNCHANGED <<rootVars, groupVars, published, sourceVars>>

\* The process dies; the lease goes on until it lapses.
Crash(e) ==
    /\ body[e].phase # "idle"
    /\ Become(e, Idle)
    /\ UNCHANGED <<taskVars, rootVars, groupVars, published, sourceVars>>

-----------------------------------------------------------------------------
(* The checkpoint under a running body. *)

RootOfBody(e) == rootOf[body[e].task]

\* _root: the row under lock is usable by this task, or is yet to be created by it.
RootUsable(e) ==
    LET r == RootOfBody(e)
    IN  IF root[r] = "absent"
          THEN r = body[e].task
          ELSE active[r] = body[e].task /\ ~expired[r] /\ root[r] \in Usable

\* A fenced transaction of the body finds the checkpoint as _root wants it.
Working(e, phase) == body[e].phase = phase /\ Fenced(e) /\ RootUsable(e)

\* ready: a complete checkpoint is published without asking the source again.
Ready(e) ==
    /\ Working(e, "claimed")
    /\ Become(e, BodyAt(IF root[RootOfBody(e)] = "ready" THEN "publishing" ELSE "discovering",
                        body[e].task, 1))
    /\ UNCHANGED <<taskVars, rootVars, groupVars, published, sourceVars>>

TotalsOf(announced, l) == [g \in GroupSet |-> IF announced THEN {Len(l[g])} ELSE {}]

\* The event page is fetched.
Discover(e) ==
    /\ body[e].phase = "discovering"
    /\ \E announced \in ManifestTotals :
          Become(e, [BodyAt("starting", body[e].task, 1) EXCEPT !.manifest = TotalsOf(announced, listing)])
    /\ UNCHANGED <<taskVars, rootVars, groupVars, published, sourceVars>>

StartOver(e) ==
    LET r == RootOfBody(e)
    IN  /\ root' = [root EXCEPT ![r] = "collecting"]
        /\ active' = [active EXCEPT ![r] = body[e].task]
        /\ manifest' = [manifest EXCEPT ![r] = body[e].manifest]
        /\ next' = [next EXCEPT ![r] = [g \in GroupSet |-> 0]]
        /\ total' = [total EXCEPT ![r] = body[e].manifest]
        /\ done' = [done EXCEPT ![r] = [g \in GroupSet |-> FALSE]]
        /\ rows' = [rows EXCEPT ![r] = NoRows]
        /\ UNCHANGED expired

StartMutant(e) ==
    /\ Working(e, "starting")
    /\ associated
    /\ root[RootOfBody(e)] # "absent" => manifest[RootOfBody(e)] = body[e].manifest
    /\ StartOver(e)
    /\ Become(e, BodyAt("opening", body[e].task, 1))
    /\ UNCHANGED <<taskVars, published, sourceVars>>

\* start: the checkpoint is created, or found with the same manifest.
Start(e) ==
    /\ Working(e, "starting")
    /\ associated
    /\ IF root[RootOfBody(e)] = "absent"
         THEN StartOver(e)
         ELSE /\ manifest[RootOfBody(e)] = body[e].manifest
              /\ UNCHANGED <<rootVars, groupVars>>
    /\ Become(e, BodyAt("opening", body[e].task, 1))
    /\ UNCHANGED <<taskVars, published, sourceVars>>

AfterGroupMutant(e, g) ==
    IF g <= Groups THEN BodyAt("opening", body[e].task, g + 1) ELSE BodyAt("finishing", body[e].task, g)

\* Where the body goes when group g is done.
AfterGroup(e, g) ==
    IF g < Groups THEN BodyAt("opening", body[e].task, g + 1) ELSE BodyAt("finishing", body[e].task, g)

\* group: a group that is done is not asked for again, another one goes on at its cursor.
OpenGroup(e) ==
    /\ Working(e, "opening")
    /\ LET r == RootOfBody(e)
           g == body[e].group
       IN Become(e, IF done[r][g] THEN AfterGroup(e, g)
                    ELSE [BodyAt("fetching", body[e].task, g) EXCEPT !.offset = next[r][g]])
    /\ UNCHANGED <<taskVars, rootVars, groupVars, published, sourceVars>>

PageEnd(g, offset) == IF offset + PageSize < Len(listing[g]) THEN offset + PageSize ELSE Len(listing[g])

PageAtMutant(g, offset) ==
    [rows |-> SubSeq(listing[g], offset + 1, PageEnd(g, offset)),
     more |-> offset + PageSize + 1 < Len(listing[g]),
     expected |-> TotalsOf(PageTotals, listing)[g]]

\* parse_result_page.
PageAt(g, offset) ==
    [rows |-> SubSeq(listing[g], offset + 1, PageEnd(g, offset)),
     more |-> offset + PageSize < Len(listing[g]),
     expected |-> TotalsOf(PageTotals, listing)[g]]

\* A total below the offset is a divergence the parser refuses (SourceRefused).
Fetch(e) ==
    /\ body[e].phase = "fetching"
    /\ PageTotals => body[e].offset <= Len(listing[body[e].group])
    /\ Become(e, [body[e] EXCEPT !.phase = "saving", !.page = PageAt(body[e].group, body[e].offset)])
    /\ UNCHANGED <<taskVars, rootVars, groupVars, published, sourceVars>>

\* The total in force: the group's own, or the one the page brings.
Expected(r, g, page) == IF total[r][g] # {} THEN total[r][g] ELSE page.expected

\* save_page accepts the page as the next one of its group.
PageFits(r, g, offset, page) ==
    /\ next[r][g] = offset /\ ~done[r][g]
    /\ page.expected = {} \/ Expected(r, g, page) = page.expected
    /\ \A n \in Expected(r, g, page) :
          offset + Len(page.rows) <= n /\ (~page.more => offset + Len(page.rows) = n)
    /\ IsInjective(rows[r][g] \o page.rows)

\* save_page: rows, receipt, cursor and counters commit together.
SavePage(e) ==
    LET r == RootOfBody(e)
        g == body[e].group
        page == body[e].page
        end == body[e].offset + Len(page.rows)
    IN  /\ Working(e, "saving")
        /\ root[r] = "collecting"
        /\ PageFits(r, g, body[e].offset, page)
        /\ rows' = [rows EXCEPT ![r][g] = @ \o page.rows]
        /\ next' = [next EXCEPT ![r][g] = end]
        /\ total' = [total EXCEPT ![r][g] = Expected(r, g, page)]
        /\ done' = [done EXCEPT ![r][g] = ~page.more]
        /\ Become(e, IF page.more THEN [BodyAt("fetching", body[e].task, g) EXCEPT !.offset = end]
                     ELSE AfterGroup(e, g))
        /\ UNCHANGED <<taskVars, rootVars, published, sourceVars>>

\* _result and the count of rows.
Complete(r) ==
    \A g \in GroupSet :
        /\ done[r][g]
        /\ \A n \in total[r][g] : n = next[r][g]
        /\ Len(rows[r][g]) = next[r][g]

\* finish; an edition without any row fails instead (BodyFails).
Finish(e) ==
    LET r == RootOfBody(e)
    IN  /\ Working(e, "finishing")
        /\ Complete(r)
        /\ \E g \in GroupSet : next[r][g] > 0
        /\ root' = [root EXCEPT ![r] = "ready"]
        /\ Become(e, BodyAt("publishing", body[e].task, 1))
        /\ UNCHANGED <<taskVars, active, expired, manifest, groupVars, published, sourceVars>>

\* publish: the new set replaces the old one, and the task is over.
Publish(e) ==
    LET r == RootOfBody(e)
    IN  /\ Working(e, "publishing")
        /\ root[r] = "ready" /\ Complete(r) /\ associated
        /\ published' = rows[r]
        /\ root' = [root EXCEPT ![r] = "published"]
        /\ rows' = [rows EXCEPT ![r] = NoRows]
        /\ Released(body[e].task, "completed")
        /\ Become(e, Idle)
        /\ UNCHANGED <<active, expired, manifest, next, total, done, sourceVars>>

-----------------------------------------------------------------------------
(* Refusals: ResultCheckpointError and StructureChangedError. *)

\* The transaction of this phase raises.
Refused(e) ==
    LET r == RootOfBody(e)
        job == body[e]
    IN  /\ job.phase \in {"claimed", "starting", "opening", "saving", "finishing", "publishing"}
        /\ Fenced(e)
        /\ \/ ~RootUsable(e)
           \/ job.phase = "starting" /\ (~associated \/ (root[r] # "absent" /\ manifest[r] # job.manifest))
           \/ job.phase = "saving" /\ ~(root[r] = "collecting" /\ PageFits(r, job.group, job.offset, job.page))
           \/ job.phase = "finishing" /\ ~Complete(r)
           \/ job.phase = "publishing" /\ ~(root[r] = "ready" /\ Complete(r) /\ associated)

\* The executor is refused by the checkpoint, or refuses what the source answered.
Refuse(e) ==
    /\ Refused(e) \/ body[e].phase \in {"discovering", "fetching"}
    /\ Become(e, BodyAt("refused", body[e].task, 1))
    /\ UNCHANGED <<taskVars, rootVars, groupVars, published, sourceVars>>

\* invalidate: a transaction of its own; without the lease nothing is written.
Invalidate(e) ==
    LET r == RootOfBody(e)
    IN  /\ body[e].phase = "refused"
        /\ root' = IF Fenced(e) /\ active[r] = body[e].task /\ root[r] \in Usable
                     THEN [root EXCEPT ![r] = "invalid"] ELSE root
        /\ Become(e, BodyAt("failing", body[e].task, 1))
        /\ UNCHANGED <<taskVars, active, expired, manifest, groupVars, published, sourceVars>>

\* The attempt becomes the last one and the task fails.
FailForGood(e) ==
    /\ body[e].phase = "failing"
    /\ IF Fenced(e) THEN Released(body[e].task, "failed") ELSE UNCHANGED taskVars
    /\ Become(e, Idle)
    /\ UNCHANGED <<rootVars, groupVars, published, sourceVars>>

-----------------------------------------------------------------------------
(* Time, retention and the world outside. *)

\* Seven days have passed since the checkpoint was created; nothing looks at the age of
\* one that is published.
Expire(r) ==
    /\ root[r] \in Usable \cup {"invalid"} /\ ~expired[r]
    /\ expired' = [expired EXCEPT ![r] = TRUE]
    /\ UNCHANGED <<taskVars, root, active, manifest, groupVars, published, sourceVars, body>>

CleanUpMutant(r) ==
    /\ expired[r] /\ root[r] \in Usable
    /\ status[active[r]] # "running"
    /\ root' = [root EXCEPT ![r] = "expired"]
    /\ rows' = [rows EXCEPT ![r] = NoRows]
    /\ UNCHANGED <<taskVars, active, expired, manifest, next, total, done, published, sourceVars, body>>

CleanUpKeepsStatusMutant(r) ==
    /\ expired[r] /\ root[r] \in Usable \cup {"invalid"}
    /\ status[active[r]] # "running"
    /\ rows' = [rows EXCEPT ![r] = NoRows]
    /\ UNCHANGED <<taskVars, rootVars, next, total, done, published, sourceVars, body>>

\* cleanup_checkpoints; receipts and counters stay.
CleanUp(r) ==
    /\ expired[r] /\ root[r] \in Usable \cup {"invalid"}
    /\ status[active[r]] # "running"
    /\ root' = [root EXCEPT ![r] = "expired"]
    /\ rows' = [rows EXCEPT ![r] = NoRows]
    /\ UNCHANGED <<taskVars, active, expired, manifest, next, total, done, published, sourceVars, body>>

ListingMoves ==
    /\ listing' \in Listings \ {listing}
    /\ moved' = [r \in Tasks |-> moved[r] \/ root[r] \in Usable]
    /\ UNCHANGED <<taskVars, rootVars, groupVars, published, associated, body>>

\* An administrator corrects or merges the edition, or undoes it.
AssociationChanges ==
    /\ associated' = ~associated
    /\ UNCHANGED <<taskVars, rootVars, groupVars, published, listing, moved, body>>

-----------------------------------------------------------------------------

BodyStep(e) ==
    \/ Ready(e) \/ Discover(e) \/ Start(e) \/ OpenGroup(e) \/ Fetch(e) \/ SavePage(e)
    \/ Finish(e) \/ Publish(e) \/ Refuse(e) \/ Invalidate(e) \/ FailForGood(e) \/ BodyFails(e)

Next ==
    \/ \E t \in Tasks : Enqueue(t) \/ Cancel(t) \/ LeaseLapses(t) \/ Recover(t)
                          \/ Expire(t) \/ CleanUp(t)
    \/ \E s, t \in Tasks : Resume(s, t)
    \/ \E e \in Executors : BodyStep(e) \/ Crash(e)
    \/ \E e \in Executors, t \in Tasks : Claim(e, t)
    \/ ListingMoves \/ AssociationChanges

Spec == Init /\ [][Next]_vars

\* A body ends within its deadline, and an executor cleans up between its tasks, when
\* no task of its own is running.
FairSpec ==
    /\ Spec
    /\ \A e \in Executors : WF_vars(BodyStep(e))
    /\ \A t \in Tasks :
          /\ SF_vars(CleanUp(t))
          /\ WF_vars(status[t] = "running" /\ (\A e \in Executors : body[e].task # t) /\ LeaseLapses(t))

-----------------------------------------------------------------------------
(* Properties. *)

\* "sem outra tarefa queued/running utilizando-o" (docs/RESULT-CHECKPOINTS.md): whatever
\* retries are asked for, an unfinished task is the one its checkpoint is reserved for.
OneUserPerCheckpoint ==
    \A t \in Tasks :
        status[t] \in Unfinished /\ root[rootOf[t]] # "absent" => active[rootOf[t]] = t

\* A usable checkpoint holds exactly the rows its cursors count, none of them twice,
\* through lost answers, hand-overs, expiry and clean-up.
RowsFollowCursor ==
    \A r \in Tasks : root[r] \in Usable =>
        \A g \in GroupSet : Len(rows[r][g]) = next[r][g] /\ IsInjective(rows[r][g])

\* A body that still owns its task works at the cursor of a checkpoint nobody else
\* touches; the receipt of a page is therefore never met a second time.
BodySeesItsCursor ==
    \A e \in Executors :
        body[e].phase \in {"opening", "fetching", "saving", "finishing"} /\ Fenced(e) =>
            LET r == RootOfBody(e) IN
            /\ active[r] = body[e].task /\ root[r] = "collecting"
            /\ body[e].phase \in {"fetching", "saving"} =>
                  next[r][body[e].group] = body[e].offset /\ ~done[r][body[e].group]

\* "Reinício e espera por orçamento retomam a primeira página não confirmada": confirmed
\* pages are lost only when the checkpoint is published or cleaned up.
ConfirmedPagesStay ==
    [][\A r \in Tasks : \A g \in GroupSet :
          /\ next'[r][g] >= next[r][g]
          /\ rows'[r][g] # rows[r][g] /\ root'[r] \in Usable =>
                SubSeq(rows'[r][g], 1, Len(rows[r][g])) = rows[r][g]]_vars

\* The set a step publishes is the one a checkpoint holds, complete and without
\* repetition: as the source lists it, unless its listing changed under the extraction,
\* and always as the event page announced it.
OnlyCompleteSets ==
    [][published' # published =>
          \E r \in Tasks :
             /\ moved[r] \/ published' = listing
             /\ \A g \in GroupSet :
                   /\ IsInjective(published'[g])
                   /\ manifest[r][g] \in {{}, {Len(published'[g])}}
                   /\ root[r] = "ready" /\ root'[r] = "published"]_vars

\* "A limpeza do worker remove linhas intermediárias expiradas": no row outlives its
\* checkpoint's validity for ever, however its tasks end.
ExpiredRowsGo == \A r \in Tasks : expired[r] ~> rows[r] = NoRows
=============================================================================
