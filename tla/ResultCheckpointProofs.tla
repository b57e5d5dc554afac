----------------------- MODULE ResultCheckpointProofs -----------------------
(***************************************************************************)
(* Proofs about ResultCheckpoint for any tasks, executors, groups and      *)
(* listings.  What a body knows about the checkpoint is true as long as    *)
(* its executor owns the running task (BodyTrue): only one executor owns   *)
(* one, retries reserve only what no unfinished task uses, and clean-up    *)
(* passes over what a running task uses.  Rows, cursors and totals follow. *)
(***************************************************************************)
EXTENDS ResultCheckpoint, SequenceTheorems, TLAPS

-----------------------------------------------------------------------------
(* The inductive invariant. *)

\* Tasks of one source run one at a time.
OneWorker ==
    \A t, u \in Tasks : status[t] \in {"running", "lapsed"} /\ status[u] \in {"running", "lapsed"} => t = u

\* A task works on its own checkpoint or on one that exists, and a checkpoint has been
\* created by the task it is named after.
RootsOfTasks ==
    \A t \in Tasks :
        /\ rootOf[t] # t => root[rootOf[t]] # "absent"
        /\ root[t] # "absent" => status[t] # "absent"

\* The body of e works for a task its executor owns.
Owns(e) == body[e].phase # "idle" /\ Fenced(e)

BodyTrue(e) ==
    LET r == RootOfBody(e)
        g == body[e].group
    IN  Owns(e) =>
          /\ body[e].phase \in {"discovering", "starting"} =>
                \/ root[r] = "absent" /\ r = body[e].task
                \/ root[r] = "collecting" /\ active[r] = body[e].task
          /\ body[e].phase \in {"opening", "fetching", "saving", "finishing"} =>
                root[r] = "collecting" /\ active[r] = body[e].task
          /\ body[e].phase \in {"fetching", "saving"} => next[r][g] = body[e].offset /\ ~done[r][g]
          /\ body[e].phase = "saving" /\ ~moved[r] =>
                /\ body[e].page.rows = PageAt(g, body[e].offset).rows
                /\ body[e].page.more = PageAt(g, body[e].offset).more

BodiesTrue == \A e \in Executors : BodyTrue(e)

\* Nothing is stored for a checkpoint that was never created.
FreshRoots == \A r \in Tasks : root[r] = "absent" => \A g \in GroupSet : next[r][g] = 0 /\ rows[r][g] = <<>>

\* What the event page announced stays the total of the group.
ManifestTrue ==
    \A r \in Tasks : root[r] \in Usable =>
        \A g \in GroupSet : manifest[r][g] = {} \/ total[r][g] = manifest[r][g]

\* Unless the listing changed, a group holds the beginning of it, and the whole when done.
RowsListed ==
    \A r \in Tasks : root[r] \in Usable /\ ~moved[r] =>
        \A g \in GroupSet :
            /\ next[r][g] <= Len(listing[g])
            /\ rows[r][g] = SubSeq(listing[g], 1, next[r][g])
            /\ done[r][g] => next[r][g] = Len(listing[g])

TaskPart == OneWorker /\ RootsOfTasks /\ OneUserPerCheckpoint
RowPart == RowsFollowCursor /\ FreshRoots /\ ManifestTrue /\ RowsListed
IInv == TypeOK /\ TaskPart /\ BodiesTrue /\ RowPart

\* What a body believes includes that it is at its cursor.
LEMMA CursorFromBodies == IInv => BodySeesItsCursor
  BY DEF IInv, BodiesTrue, BodyTrue, BodySeesItsCursor, Owns

-----------------------------------------------------------------------------
(* Types. *)

\* A body that enters a phase.
LEMMA BodyAtTyped ==
  ASSUME NEW phase \in Phases, NEW t \in Tasks, NEW g \in GroupSet
  PROVE  /\ BodyAt(phase, t, g) \in Body
         /\ BodyAt(phase, t, g).phase = phase /\ BodyAt(phase, t, g).task = t /\ BodyAt(phase, t, g).group = g
<1>1. <<>> \in Seq(Records) /\ {} \in Totals
  BY EmptySeq DEF Totals
<1>2. NoPage \in Page /\ NoTotals \in [GroupSet -> Totals]
  BY <1>1 DEF NoPage, Page, NoTotals
<1>3. g \in Nat
  BY GroupsAssumption DEF GroupSet
<1> QED BY <1>2, <1>3 DEF BodyAt, Body

\* A body at an offset, or with what the event page announces.
LEMMA BodyWithTyped ==
  ASSUME NEW b \in Body, NEW n \in Nat, NEW m \in [GroupSet -> Totals], NEW page \in Page
  PROVE  /\ [b EXCEPT !.offset = n] \in Body
         /\ [b EXCEPT !.manifest = m] \in Body
         /\ [b EXCEPT !.phase = "saving", !.page = page] \in Body
  BY DEF Body, Phases

\* A body that does nothing.
LEMMA IdleTyped == Idle \in Body /\ Idle.phase = "idle"
  BY DEF Idle, BodyAt, Body, NoPage, NoTotals, Page, Totals, Phases

\* Totals of a listing.
LEMMA TotalsTyped ==
  ASSUME NEW announced \in BOOLEAN, NEW l \in Listings
  PROVE  TotalsOf(announced, l) \in [GroupSet -> Totals]
<1>1. \A g \in GroupSet : Len(l[g]) \in Nat
  BY ListingsAssumption DEF GroupSet
<1> QED BY <1>1 DEF TotalsOf, Totals

\* A page is the part of the listing between the offset and the page's end.
LEMMA PageTyped ==
  ASSUME TypeOK, NEW g \in GroupSet, NEW offset \in Nat
  PROVE  /\ PageAt(g, offset) \in Page
         /\ PageEnd(g, offset) \in Nat /\ PageEnd(g, offset) <= Len(listing[g])
         /\ offset <= Len(listing[g]) =>
               /\ offset <= PageEnd(g, offset)
               /\ Len(PageAt(g, offset).rows) = PageEnd(g, offset) - offset
<1>1. listing[g] \in Seq(Records) /\ listing \in Listings
  BY ListingsAssumption DEF TypeOK, GroupSet
<1>2. Len(listing[g]) \in Nat
  BY <1>1
<1>3. PageEnd(g, offset) \in Nat /\ PageEnd(g, offset) <= Len(listing[g])
  BY <1>2, PageSizeAssumption DEF PageEnd
<1>4. \A i \in offset + 1 .. PageEnd(g, offset) : listing[g][i] \in Records
  BY <1>1, <1>2, <1>3
<1>5. /\ SubSeq(listing[g], offset + 1, PageEnd(g, offset)) \in Seq(Records)
      /\ Len(SubSeq(listing[g], offset + 1, PageEnd(g, offset)))
           = IF offset + 1 <= PageEnd(g, offset) THEN PageEnd(g, offset) - (offset + 1) + 1 ELSE 0
  BY <1>3, <1>4, SubSeqProperties
<1>6. TotalsOf(PageTotals, listing)[g] \in Totals
  BY <1>1, TotalsAssumption, TotalsTyped
<1>7. PageAt(g, offset) \in Page
  BY <1>5, <1>6 DEF PageAt, Page
<1>8. offset <= Len(listing[g]) => offset <= PageEnd(g, offset)
  BY <1>2, PageSizeAssumption DEF PageEnd
<1> QED BY <1>3, <1>5, <1>7, <1>8 DEF PageAt

\* What a working body holds.
LEMMA BodyFacts ==
  ASSUME TypeOK, NEW e \in Executors, body[e].phase # "idle"
  PROVE  /\ body[e] \in Body /\ body[e].phase \in Phases
         /\ body[e].task \in Tasks /\ body[e].group \in GroupSet /\ RootOfBody(e) \in Tasks
         /\ body[e].offset \in Nat /\ body[e].manifest \in [GroupSet -> Totals]
         /\ body[e].page \in Page /\ body[e].page.rows \in Seq(Records)
         /\ body[e].page.more \in BOOLEAN /\ body[e].page.expected \in Totals
<1>1. body[e] \in Body /\ body[e].task \in Tasks /\ body[e].group \in GroupSet
  BY DEF TypeOK
<1>2. RootOfBody(e) \in Tasks
  BY <1>1 DEF TypeOK, RootOfBody
<1> QED BY <1>1, <1>2 DEF Body, Page

BodiesTyped ==
    /\ body \in [Executors -> Body]
    /\ \A e \in Executors : body[e].phase # "idle" => body[e].task \in Tasks /\ body[e].group \in GroupSet

\* The bodies after one of them becomes b.
LEMMA BecomeTyped ==
  ASSUME TypeOK, NEW e \in Executors, NEW b \in Body, Become(e, b),
         b.phase # "idle" => b.task \in Tasks /\ b.group \in GroupSet
  PROVE  BodiesTyped'
  BY DEF TypeOK, Become, BodiesTyped

\* Where a body goes after a group.
LEMMA AfterGroupTyped ==
  ASSUME TypeOK, NEW e \in Executors, body[e].phase # "idle", NEW g \in GroupSet
  PROVE  /\ AfterGroup(e, g) \in Body /\ AfterGroup(e, g).phase \in {"opening", "finishing"}
         /\ AfterGroup(e, g).task = body[e].task /\ AfterGroup(e, g).group \in GroupSet
<1>1. body[e].task \in Tasks /\ g \in Nat
  BY BodyFacts, GroupsAssumption DEF GroupSet
<1>2. CASE g < Groups
  <2>1. g + 1 \in GroupSet
    BY <1>1, <1>2, GroupsAssumption DEF GroupSet
  <2> QED BY <1>1, <1>2, <2>1, BodyAtTyped DEF AfterGroup, Phases
<1>3. CASE ~(g < Groups)
  BY <1>1, <1>3, BodyAtTyped DEF AfterGroup, Phases
<1> QED BY <1>2, <1>3

\* An edition has a first group.
LEMMA FirstGroup == 1 \in GroupSet
  BY GroupsAssumption DEF GroupSet

\* The total in force is a total.
LEMMA ExpectedTyped ==
  ASSUME TypeOK, NEW r \in Tasks, NEW g \in GroupSet, NEW page \in Page
  PROVE  Expected(r, g, page) \in Totals
  BY DEF TypeOK, Expected, Page

\* What a new checkpoint starts from.
LEMMA FreshTyped ==
  /\ NoRows \in [GroupSet -> Seq(Records)] /\ NoTotals \in [GroupSet -> Totals]
  /\ [g \in GroupSet |-> 0] \in [GroupSet -> Nat] /\ [g \in GroupSet |-> FALSE] \in [GroupSet -> BOOLEAN]
<1>1. <<>> \in Seq(Records) /\ {} \in Totals
  BY EmptySeq DEF Totals
<1> QED BY <1>1 DEF NoRows, NoTotals

\* The initial states are well typed.
LEMMA TypeInit == Init => TypeOK
<1> SUFFICES ASSUME Init PROVE TypeOK
  OBVIOUS
<1>1. /\ status \in [Tasks -> TaskStatus] /\ owner \in [Tasks -> Executors \cup {None}]
      /\ rootOf \in [Tasks -> Tasks] /\ root \in [Tasks -> RootStatus] /\ active \in [Tasks -> Tasks]
      /\ expired \in [Tasks -> BOOLEAN] /\ moved \in [Tasks -> BOOLEAN] /\ associated \in BOOLEAN
      /\ listing \in Listings
  BY DEF Init, TaskStatus, RootStatus
<1>2. /\ manifest \in [Tasks -> [GroupSet -> Totals]] /\ next \in [Tasks -> [GroupSet -> Nat]]
      /\ total \in [Tasks -> [GroupSet -> Totals]] /\ done \in [Tasks -> [GroupSet -> BOOLEAN]]
      /\ rows \in [Tasks -> [GroupSet -> Seq(Records)]] /\ published \in [GroupSet -> Seq(Records)]
  BY FreshTyped DEF Init
<1>3. body \in [Executors -> Body] /\ \A e \in Executors : body[e].phase = "idle"
  BY IdleTyped DEF Init
<1> QED BY <1>1, <1>2, <1>3 DEF TypeOK

\* Every action keeps the types.
LEMMA TypeStep == TypeOK /\ [Next]_vars => TypeOK'
<1> SUFFICES ASSUME TypeOK, [Next]_vars PROVE TypeOK'
  OBVIOUS
<1> USE FirstGroup DEF BodiesTyped
<1>1. ASSUME NEW t \in Tasks, Enqueue(t) \/ Cancel(t) \/ LeaseLapses(t) PROVE TypeOK'
  <2>1. status' \in [Tasks -> TaskStatus] /\ rootOf' \in [Tasks -> Tasks]
    <3>1. CASE Enqueue(t)
      BY <3>1 DEF TypeOK, Enqueue, TaskStatus
    <3>2. CASE Cancel(t)
      BY <3>2 DEF TypeOK, Cancel, TaskStatus
    <3>3. CASE LeaseLapses(t)
      BY <3>3 DEF TypeOK, LeaseLapses, TaskStatus
    <3> QED BY <1>1, <3>1, <3>2, <3>3
  <2>2. UNCHANGED <<owner, rootVars, groupVars, published, sourceVars, body>>
    BY <1>1 DEF Enqueue, Cancel, LeaseLapses
  <2> QED BY <2>1, <2>2 DEF TypeOK, rootVars, groupVars, sourceVars
<1>2. ASSUME NEW t \in Tasks, Recover(t) PROVE TypeOK'
  BY <1>2 DEF TypeOK, Recover, Released, TaskStatus, rootVars, groupVars, sourceVars
<1>3. ASSUME NEW r \in Tasks, Expire(r) PROVE TypeOK'
  BY <1>3 DEF TypeOK, Expire, taskVars, groupVars, sourceVars
<1>4. ASSUME NEW r \in Tasks, CleanUp(r) PROVE TypeOK'
  BY <1>4, FreshTyped DEF TypeOK, CleanUp, RootStatus, taskVars, sourceVars
<1>5. ASSUME NEW s \in Tasks, NEW t \in Tasks, Resume(s, t) PROVE TypeOK'
  BY <1>5 DEF TypeOK, Resume, TaskStatus, groupVars, sourceVars
<1>6. CASE ListingMoves
  BY <1>6 DEF TypeOK, ListingMoves, taskVars, rootVars, groupVars
<1>7. CASE AssociationChanges
  BY <1>7 DEF TypeOK, AssociationChanges, taskVars, rootVars, groupVars
<1>8. ASSUME NEW e \in Executors, NEW t \in Tasks, Claim(e, t) PROVE TypeOK'
  <2>1. LET b == BodyAt("claimed", t, 1) IN b \in Body /\ b.task \in Tasks /\ b.group \in GroupSet
    BY BodyAtTyped DEF Phases
  <2>2. BodiesTyped'
    BY <1>8, <2>1, BecomeTyped DEF Claim
  <2> QED BY <1>8, <2>2 DEF TypeOK, Claim, TaskStatus, rootVars, groupVars, sourceVars
<1>9. ASSUME NEW e \in Executors, Crash(e) \/ BodyFails(e) \/ FailForGood(e) PROVE TypeOK'
  <2>1. body[e].task \in Tasks
    BY <1>9, BodyFacts DEF Crash, BodyFails, FailForGood
  <2>2. BodiesTyped'
    BY <1>9, IdleTyped, BecomeTyped DEF Crash, BodyFails, FailForGood
  <2>3. status' \in [Tasks -> TaskStatus] /\ owner' \in [Tasks -> Executors \cup {None}] /\ rootOf' = rootOf
    BY <1>9, <2>1 DEF TypeOK, Crash, BodyFails, FailForGood, Released, TaskStatus, taskVars
  <2> QED BY <1>9, <2>2, <2>3 DEF TypeOK, Crash, BodyFails, FailForGood, rootVars, groupVars, sourceVars
<1>10. ASSUME NEW e \in Executors, Ready(e) \/ Refuse(e) \/ Invalidate(e) PROVE TypeOK'
  <2>1. body[e].task \in Tasks /\ RootOfBody(e) \in Tasks
    BY <1>10, BodyFacts DEF Ready, Working, Refuse, Refused, Invalidate
  <2>2. \A phase \in Phases :
           LET b == BodyAt(phase, body[e].task, 1) IN b \in Body /\ b.task \in Tasks /\ b.group \in GroupSet
    BY <2>1, BodyAtTyped
  <2>3. \E phase \in Phases : Become(e, BodyAt(phase, body[e].task, 1))
    BY <1>10 DEF Ready, Refuse, Invalidate, Phases
  <2>4. BodiesTyped'
    BY <2>2, <2>3, BecomeTyped
  <2>5. root' \in [Tasks -> RootStatus]
    BY <1>10, <2>1 DEF TypeOK, Ready, Refuse, Invalidate, RootStatus, rootVars
  <2> QED BY <1>10, <2>4, <2>5 DEF TypeOK, Ready, Refuse, Invalidate, taskVars, rootVars, groupVars, sourceVars
<1>11. ASSUME NEW e \in Executors, Discover(e) PROVE TypeOK'
  <2>1. body[e].task \in Tasks
    BY <1>11, BodyFacts DEF Discover
  <2>2. PICK announced \in ManifestTotals :
          Become(e, [BodyAt("starting", body[e].task, 1) EXCEPT !.manifest = TotalsOf(announced, listing)])
    BY <1>11 DEF Discover
  <2>3. TotalsOf(announced, listing) \in [GroupSet -> Totals]
    BY TotalsTyped, TotalsAssumption DEF TypeOK
  <2>4. BodyAt("starting", body[e].task, 1) \in Body
    BY <2>1, BodyAtTyped DEF Phases
  <2>5. /\ [BodyAt("starting", body[e].task, 1) EXCEPT !.manifest = TotalsOf(announced, listing)] \in Body
        /\ [BodyAt("starting", body[e].task, 1) EXCEPT !.manifest = TotalsOf(announced, listing)].task \in Tasks
        /\ [BodyAt("starting", body[e].task, 1) EXCEPT !.manifest = TotalsOf(announced, listing)].group \in GroupSet
    BY <2>1, <2>3, <2>4 DEF BodyAt, Body
  <2>6. BodiesTyped'
    BY <2>2, <2>5, BecomeTyped
  <2> QED BY <1>11, <2>6 DEF TypeOK, Discover, taskVars, rootVars, groupVars, sourceVars
<1>12. ASSUME NEW e \in Executors, Start(e) PROVE TypeOK'
  <2>1. body[e].task \in Tasks /\ RootOfBody(e) \in Tasks /\ body[e].manifest \in [GroupSet -> Totals]
    BY <1>12, BodyFacts DEF Start, Working
  <2>2. BodiesTyped'
    <3>1. LET b == BodyAt("opening", body[e].task, 1) IN b \in Body /\ b.task \in Tasks /\ b.group \in GroupSet
      BY <2>1, BodyAtTyped DEF Phases
    <3> QED BY <1>12, <3>1, BecomeTyped DEF Start
  <2>3. CASE StartOver(e)
    <3>1. /\ root' \in [Tasks -> RootStatus] /\ active' \in [Tasks -> Tasks]
          /\ manifest' \in [Tasks -> [GroupSet -> Totals]] /\ total' \in [Tasks -> [GroupSet -> Totals]]
          /\ expired' = expired
      BY <2>1, <2>3 DEF TypeOK, StartOver, RootStatus
    <3>2. /\ next' \in [Tasks -> [GroupSet -> Nat]] /\ done' \in [Tasks -> [GroupSet -> BOOLEAN]]
          /\ rows' \in [Tasks -> [GroupSet -> Seq(Records)]]
      BY <2>1, <2>3, FreshTyped DEF TypeOK, StartOver
    <3> QED BY <1>12, <2>2, <3>1, <3>2 DEF TypeOK, Start, taskVars, sourceVars
  <2>4. CASE UNCHANGED <<rootVars, groupVars>>
    BY <1>12, <2>2, <2>4 DEF TypeOK, Start, taskVars, rootVars, groupVars, sourceVars
  <2> QED BY <1>12, <2>3, <2>4 DEF Start
<1>13. ASSUME NEW e \in Executors, OpenGroup(e) PROVE TypeOK'
  <2> DEFINE r == RootOfBody(e)
             g == body[e].group
             there == [BodyAt("fetching", body[e].task, g) EXCEPT !.offset = next[r][g]]
  <2>1. body[e].task \in Tasks /\ r \in Tasks /\ g \in GroupSet /\ body[e].phase # "idle"
    BY <1>13, BodyFacts DEF OpenGroup, Working
  <2>2. BodyAt("fetching", body[e].task, g) \in Body /\ next[r][g] \in Nat
    BY <2>1, BodyAtTyped DEF Phases, TypeOK
  <2>3. there \in Body /\ there.task \in Tasks /\ there.group \in GroupSet
    BY <2>1, <2>2 DEF BodyAt, Body
  <2>4. BodiesTyped'
    <3>1. CASE Become(e, AfterGroup(e, g))
      BY <2>1, <3>1, AfterGroupTyped, BecomeTyped
    <3>2. CASE Become(e, there)
      BY <2>3, <3>2, BecomeTyped
    <3> QED BY <1>13, <3>1, <3>2 DEF OpenGroup
  <2> QED BY <1>13, <2>4 DEF TypeOK, OpenGroup, taskVars, rootVars, groupVars, sourceVars
<1>14. ASSUME NEW e \in Executors, Fetch(e) PROVE TypeOK'
  <2> DEFINE fetched == PageAt(body[e].group, body[e].offset)
  <2>1. body[e] \in Body /\ body[e].task \in Tasks /\ body[e].group \in GroupSet /\ fetched \in Page
    BY <1>14, BodyFacts, PageTyped DEF Fetch
  <2>2. LET b == [body[e] EXCEPT !.phase = "saving", !.page = fetched]
        IN  b \in Body /\ b.task \in Tasks /\ b.group \in GroupSet
    BY <2>1 DEF Body, Phases
  <2>3. BodiesTyped'
    BY <1>14, <2>2, BecomeTyped DEF Fetch
  <2> QED BY <1>14, <2>3 DEF TypeOK, Fetch, taskVars, rootVars, groupVars, sourceVars
<1>15. ASSUME NEW e \in Executors, SavePage(e) PROVE TypeOK'
  <2> DEFINE r == RootOfBody(e)
             g == body[e].group
             page == body[e].page
             end == body[e].offset + Len(page.rows)
             there == [BodyAt("fetching", body[e].task, g) EXCEPT !.offset = end]
  <2>1. /\ body[e].task \in Tasks /\ r \in Tasks /\ g \in GroupSet /\ body[e].phase # "idle"
        /\ page \in Page /\ page.rows \in Seq(Records) /\ page.more \in BOOLEAN /\ body[e].offset \in Nat
    BY <1>15, BodyFacts DEF SavePage, Working
  <2>2. end \in Nat /\ Expected(r, g, page) \in Totals /\ rows[r][g] \o page.rows \in Seq(Records)
    <3>1. Len(page.rows) \in Nat /\ rows[r][g] \in Seq(Records)
      BY <2>1, LenProperties DEF TypeOK
    <3> HIDE DEF r, g, page
    <3> QED BY <2>1, <3>1, ExpectedTyped, ConcatProperties
  <2>3. BodyAt("fetching", body[e].task, g) \in Body
    BY <2>1, BodyAtTyped DEF Phases
  <2>4. there \in Body /\ there.task \in Tasks /\ there.group \in GroupSet
    BY <2>1, <2>2, <2>3 DEF BodyAt, Body
  <2>5. BodiesTyped'
    <3>1. CASE Become(e, AfterGroup(e, g))
      BY <2>1, <3>1, AfterGroupTyped, BecomeTyped
    <3>2. CASE Become(e, there)
      BY <2>4, <3>2, BecomeTyped
    <3> QED BY <1>15, <3>1, <3>2 DEF SavePage
  <2>6. /\ rows' \in [Tasks -> [GroupSet -> Seq(Records)]] /\ next' \in [Tasks -> [GroupSet -> Nat]]
        /\ total' \in [Tasks -> [GroupSet -> Totals]] /\ done' \in [Tasks -> [GroupSet -> BOOLEAN]]
    BY <1>15, <2>1, <2>2 DEF TypeOK, SavePage
  <2> QED BY <1>15, <2>5, <2>6 DEF TypeOK, SavePage, taskVars, rootVars, sourceVars
<1>16. ASSUME NEW e \in Executors, Finish(e) PROVE TypeOK'
  <2>1. body[e].task \in Tasks /\ RootOfBody(e) \in Tasks
    BY <1>16, BodyFacts DEF Finish, Working
  <2>2. LET b == BodyAt("publishing", body[e].task, 1) IN b \in Body /\ b.task \in Tasks /\ b.group \in GroupSet
    BY <2>1, BodyAtTyped DEF Phases
  <2>3. BodiesTyped'
    BY <1>16, <2>2, BecomeTyped DEF Finish
  <2> QED BY <1>16, <2>1, <2>3 DEF TypeOK, Finish, RootStatus, taskVars, groupVars, sourceVars
<1>17. ASSUME NEW e \in Executors, Publish(e) PROVE TypeOK'
  <2>1. body[e].task \in Tasks /\ RootOfBody(e) \in Tasks
    BY <1>17, BodyFacts DEF Publish, Working
  <2>2. BodiesTyped'
    BY <1>17, IdleTyped, BecomeTyped DEF Publish
  <2>3. /\ status' \in [Tasks -> TaskStatus] /\ owner' \in [Tasks -> Executors \cup {None}]
        /\ rootOf' \in [Tasks -> Tasks]
        /\ root' \in [Tasks -> RootStatus]
    BY <1>17, <2>1 DEF TypeOK, Publish, Released, TaskStatus, RootStatus
  <2>4. rows' \in [Tasks -> [GroupSet -> Seq(Records)]] /\ published' \in [GroupSet -> Seq(Records)]
    BY <1>17, <2>1, FreshTyped DEF TypeOK, Publish
  <2> QED BY <1>17, <2>2, <2>3, <2>4 DEF TypeOK, Publish, sourceVars
<1>18. CASE UNCHANGED vars
  BY <1>18 DEF TypeOK, vars, taskVars, rootVars, groupVars, sourceVars
<1> QED
  BY <1>1, <1>2, <1>3, <1>4, <1>5, <1>6, <1>7, <1>8, <1>9, <1>10, <1>11, <1>12, <1>13, <1>14, <1>15,
     <1>16, <1>17, <1>18 DEF Next, BodyStep

\* Every variable keeps its type, for any tasks, executors, groups and listings.
THEOREM TypeCorrect == Spec => []TypeOK
<1> QED BY TypeInit, TypeStep, PTL DEF Spec

-----------------------------------------------------------------------------
(* Tasks: one at a time, each with a checkpoint of its own. *)

\* Nobody takes a task up.
NoClaim ==
    \A t \in Tasks :
        /\ status'[t] = "running" => status[t] = "running" /\ owner'[t] = owner[t]
        /\ status'[t] = "lapsed" => status[t] \in {"running", "lapsed"}

\* No task appears, no checkpoint is created or reserved.
NothingNew ==
    /\ \A t \in Tasks :
          /\ status'[t] \in Unfinished => status[t] \in Unfinished
          /\ status[t] # "absent" => status'[t] # "absent"
          /\ root'[t] = "absent" <=> root[t] = "absent"
    /\ UNCHANGED <<rootOf, active>>

\* A body's task leaves it, or nothing happens to any task.
LEMMA ReleaseMoves ==
  ASSUME TypeOK, NEW t \in Tasks, NEW st \in {"queued", "failed", "completed"},
         status[t] \in {"running", "lapsed"}, Released(t, st)
  PROVE  /\ NoClaim /\ rootOf' = rootOf
         /\ \A u \in Tasks : /\ status'[u] \in Unfinished => status[u] \in Unfinished
                             /\ status[u] # "absent" => status'[u] # "absent"
  BY DEF TypeOK, Released, NoClaim, Unfinished

\* Tasks are taken up by Claim only.
LEMMA StatusMove ==
  ASSUME TypeOK, [Next]_vars
  PROVE  NoClaim \/ \E e \in Executors, t \in Tasks : Claim(e, t)
<1>1. ASSUME UNCHANGED taskVars PROVE NoClaim
  BY <1>1 DEF taskVars, NoClaim
<1>2. ASSUME NEW t \in Tasks, Enqueue(t) \/ Cancel(t) \/ LeaseLapses(t) PROVE NoClaim
  <2>1. CASE Enqueue(t)
    BY <2>1 DEF Enqueue, NoClaim, TypeOK
  <2>2. CASE Cancel(t)
    BY <2>2 DEF Cancel, NoClaim, TypeOK
  <2>3. CASE LeaseLapses(t)
    BY <2>3 DEF LeaseLapses, NoClaim, TypeOK
  <2> QED BY <1>2, <2>1, <2>2, <2>3
<1>3. ASSUME NEW t \in Tasks, Recover(t) PROVE NoClaim
  BY <1>3, ReleaseMoves DEF Recover
<1>4. ASSUME NEW s \in Tasks, NEW t \in Tasks, Resume(s, t) PROVE NoClaim
  BY <1>4 DEF Resume, NoClaim, TypeOK
<1>5. ASSUME NEW e \in Executors, BodyFails(e) \/ FailForGood(e) \/ Publish(e) PROVE NoClaim
  BY <1>1, <1>5, BodyFacts, ReleaseMoves DEF BodyFails, FailForGood, Publish, Working, Fenced
<1>6. ASSUME NEW r \in Tasks, Expire(r) \/ CleanUp(r) PROVE NoClaim
  BY <1>1, <1>6 DEF Expire, CleanUp
<1>7. ASSUME NEW e \in Executors,
             \/ Ready(e) \/ Discover(e) \/ Start(e) \/ OpenGroup(e) \/ Fetch(e) \/ SavePage(e)
             \/ Finish(e) \/ Refuse(e) \/ Invalidate(e) \/ Crash(e)
      PROVE  NoClaim
  BY <1>1, <1>7 DEF Ready, Discover, Start, OpenGroup, Fetch, SavePage, Finish, Refuse, Invalidate, Crash
<1>8. CASE ListingMoves \/ AssociationChanges \/ UNCHANGED vars
  BY <1>1, <1>8 DEF ListingMoves, AssociationChanges, vars
<1> QED BY <1>2, <1>3, <1>4, <1>5, <1>6, <1>7, <1>8 DEF Next, BodyStep

\* What a step may bring into being.
LEMMA NewThings ==
  ASSUME TypeOK, BodiesTrue, [Next]_vars
  PROVE  \/ NothingNew
         \/ \E t \in Tasks : Enqueue(t)
         \/ \E s, t \in Tasks : Resume(s, t)
         \/ \E e \in Executors : Start(e)
<1>1. ASSUME UNCHANGED <<taskVars, rootVars>> PROVE NothingNew
  BY <1>1 DEF taskVars, rootVars, NothingNew
<1>2. ASSUME NEW t \in Tasks, Cancel(t) \/ LeaseLapses(t) PROVE NothingNew
  <2>1. CASE Cancel(t)
    BY <2>1 DEF Cancel, NothingNew, TypeOK, Unfinished, rootVars
  <2>2. CASE LeaseLapses(t)
    BY <2>2 DEF LeaseLapses, NothingNew, TypeOK, Unfinished, rootVars
  <2> QED BY <1>2, <2>1, <2>2
<1>3. ASSUME NEW t \in Tasks, Recover(t) PROVE NothingNew
  BY <1>3, ReleaseMoves DEF Recover, NothingNew, rootVars
<1>4. ASSUME NEW e \in Executors, BodyFails(e) \/ FailForGood(e) PROVE NothingNew
  <2>1. CASE UNCHANGED taskVars
    BY <1>1, <1>4, <2>1 DEF BodyFails, FailForGood
  <2>2. CASE Fenced(e)
    BY <1>4, <2>2, BodyFacts, ReleaseMoves DEF BodyFails, FailForGood, Fenced, NothingNew, rootVars
  <2> QED BY <1>4, <2>1, <2>2 DEF BodyFails, FailForGood
<1>5. ASSUME NEW e \in Executors, Publish(e) PROVE NothingNew
  <2>1. RootOfBody(e) \in Tasks /\ body[e].task \in Tasks
    BY <1>5, BodyFacts DEF Publish, Working
  <2>2. \A t \in Tasks : root'[t] = "absent" <=> root[t] = "absent"
    BY <1>5, <2>1 DEF Publish, TypeOK
  <2> QED BY <1>5, <2>1, <2>2, ReleaseMoves DEF Publish, Working, Fenced, NothingNew
<1>6. ASSUME NEW e \in Executors, Finish(e) \/ Invalidate(e) PROVE NothingNew
  <2>1. RootOfBody(e) \in Tasks /\ UNCHANGED <<taskVars, active>>
    BY <1>6, BodyFacts DEF Finish, Invalidate, Working
  <2>2. CASE Finish(e)
    <3>1. root[RootOfBody(e)] # "absent"
      BY <2>1, <2>2 DEF Finish, Working, BodiesTrue, BodyTrue, Owns
    <3> QED BY <2>1, <2>2, <3>1 DEF Finish, NothingNew, TypeOK, taskVars
  <2>3. CASE Invalidate(e)
    BY <2>1, <2>3 DEF Invalidate, NothingNew, TypeOK, taskVars, Usable
  <2> QED BY <1>6, <2>2, <2>3
<1>7. ASSUME NEW r \in Tasks, Expire(r) \/ CleanUp(r) PROVE NothingNew
  BY <1>7 DEF Expire, CleanUp, NothingNew, TypeOK, taskVars, Usable
<1>8. ASSUME NEW e \in Executors,
             Ready(e) \/ Discover(e) \/ OpenGroup(e) \/ Fetch(e) \/ SavePage(e) \/ Refuse(e) \/ Crash(e)
      PROVE  NothingNew
  BY <1>1, <1>8 DEF Ready, Discover, OpenGroup, Fetch, SavePage, Refuse, Crash
<1>9. ASSUME NEW e \in Executors, NEW t \in Tasks, Claim(e, t) PROVE NothingNew
  BY <1>9 DEF Claim, NothingNew, TypeOK, Unfinished, rootVars
<1>10. CASE ListingMoves \/ AssociationChanges \/ UNCHANGED vars
  BY <1>1, <1>10 DEF ListingMoves, AssociationChanges, vars
<1> QED BY <1>2, <1>3, <1>4, <1>5, <1>6, <1>7, <1>8, <1>9, <1>10 DEF Next, BodyStep

\* Every step keeps tasks and checkpoints apart: a retry reserves a checkpoint no
\* unfinished task uses, and only the task a checkpoint is named after creates it.
LEMMA TaskStep == TypeOK /\ BodiesTrue /\ TaskPart /\ [Next]_vars => TaskPart'
<1> SUFFICES ASSUME TypeOK, BodiesTrue, TaskPart, [Next]_vars PROVE TaskPart'
  OBVIOUS
<1> USE DEF TaskPart
<1>1. OneWorker'
  <2>1. CASE NoClaim
    BY <2>1 DEF NoClaim, OneWorker
  <2>2. ASSUME NEW e \in Executors, NEW t \in Tasks, Claim(e, t) PROVE OneWorker'
    BY <2>2 DEF Claim, OneWorker, TypeOK
  <2> QED BY <2>1, <2>2, StatusMove
<1>2. CASE NothingNew
  <2>1. rootOf \in [Tasks -> Tasks]
    BY DEF TypeOK
  <2> QED BY <1>1, <1>2, <2>1 DEF NothingNew, RootsOfTasks, OneUserPerCheckpoint
<1>3. ASSUME NEW t \in Tasks, Enqueue(t) PROVE TaskPart'
  <2>1. root[t] = "absent" /\ rootOf'[t] = t /\ status'[t] = "queued" /\ UNCHANGED <<root, active>>
    BY <1>3 DEF Enqueue, RootsOfTasks, TypeOK, rootVars
  <2>2. \A u \in Tasks \ {t} : rootOf'[u] = rootOf[u] /\ status'[u] = status[u]
    BY <1>3 DEF Enqueue, TypeOK
  <2> QED BY <1>1, <2>1, <2>2 DEF RootsOfTasks, OneUserPerCheckpoint
<1>4. ASSUME NEW s \in Tasks, NEW t \in Tasks, Resume(s, t) PROVE TaskPart'
  <2> DEFINE r == rootOf[s]
  <2>1. r \in Tasks /\ root[r] # "absent" /\ status[active[r]] \notin Unfinished /\ status[t] = "absent"
    BY <1>4 DEF Resume, Available, Usable, TypeOK
  <2>2. /\ rootOf'[t] = r /\ active'[r] = t /\ status'[t] = "queued" /\ UNCHANGED root
        /\ \A u \in Tasks \ {t} : rootOf'[u] = rootOf[u] /\ status'[u] = status[u]
        /\ \A u \in Tasks \ {r} : active'[u] = active[u]
    BY <1>4, <2>1 DEF Resume, TypeOK
  <2>3. \A u \in Tasks \ {t} : status[u] \in Unfinished => rootOf[u] # r
    BY <2>1 DEF OneUserPerCheckpoint
  <2> HIDE DEF r
  <2>4. RootsOfTasks'
    BY <2>1, <2>2 DEF RootsOfTasks
  <2>5. OneUserPerCheckpoint'
    <3>1. rootOf \in [Tasks -> Tasks]
      BY DEF TypeOK
    <3> QED BY <2>1, <2>2, <2>3, <3>1 DEF OneUserPerCheckpoint
  <2> QED BY <1>1, <2>4, <2>5
<1>5. ASSUME NEW e \in Executors, Start(e) PROVE TaskPart'
  <2> DEFINE t == body[e].task
             r == RootOfBody(e)
  <2>1. t \in Tasks /\ r \in Tasks /\ r = rootOf[t] /\ status[t] = "running" /\ UNCHANGED <<status, rootOf>>
    BY <1>5, BodyFacts DEF Start, Working, Fenced, RootOfBody, taskVars
  <2>2. CASE root[r] # "absent"
    <3>1. UNCHANGED <<root, active>>
      BY <1>5, <2>2 DEF Start, rootVars
    <3> QED BY <1>1, <2>1, <3>1 DEF RootsOfTasks, OneUserPerCheckpoint
  <2>3. CASE root[r] = "absent"
    <3>1. r = t
      BY <1>5, <2>3 DEF Start, Working, RootUsable
    <3>2. /\ root'[r] # "absent" /\ active'[r] = t
          /\ \A u \in Tasks \ {r} : root'[u] = root[u] /\ active'[u] = active[u]
      BY <1>5, <2>1, <2>3 DEF Start, StartOver, TypeOK
    <3>3. \A u \in Tasks : rootOf[u] = r => u = r
      BY <2>3 DEF RootsOfTasks
    <3>4. rootOf \in [Tasks -> Tasks]
      BY DEF TypeOK
    <3> HIDE DEF t, r
    <3>5. RootsOfTasks'
      BY <2>1, <3>1, <3>2, <3>3, <3>4 DEF RootsOfTasks
    <3>6. OneUserPerCheckpoint'
      BY <2>1, <3>1, <3>2, <3>3, <3>4 DEF OneUserPerCheckpoint
    <3> QED BY <1>1, <3>5, <3>6
  <2> QED BY <2>2, <2>3
<1> QED BY <1>2, <1>3, <1>4, <1>5, NewThings

-----------------------------------------------------------------------------
(* What a body knows stays true. *)

\* Two executors never own a task at once.
LEMMA SoleOwner ==
  ASSUME TypeOK, OneWorker, NEW e \in Executors, NEW f \in Executors, Owns(e), Owns(f)
  PROVE  e = f
<1>1. body[e].task \in Tasks /\ body[f].task \in Tasks
  BY BodyFacts DEF Owns
<1> QED BY <1>1 DEF Owns, Fenced, OneWorker

\* Nothing a body knows about its checkpoint changes.
Undisturbed(e) ==
    LET r == RootOfBody(e)
    IN  /\ rootOf'[body[e].task] = rootOf[body[e].task]
        /\ root'[r] = root[r] /\ active'[r] = active[r]
        /\ next'[r] = next[r] /\ done'[r] = done[r]
        /\ \/ listing' = listing /\ moved'[r] = moved[r]
           \/ body[e].phase = "saving" => moved'[r]

\* A body that does not step, and whose checkpoint does not change.
LEMMA Bystander ==
  ASSUME TypeOK, NEW e \in Executors, BodyTrue(e), body'[e] = body[e], NoClaim,
         Owns(e) => Undisturbed(e)
  PROVE  BodyTrue(e)'
<1> SUFFICES ASSUME Owns(e)' PROVE BodyTrue(e)'
  BY DEF BodyTrue
<1>1. body[e].phase # "idle" /\ body[e].task \in Tasks
  BY BodyFacts DEF Owns
<1>2. Owns(e)
  BY <1>1 DEF Owns, Fenced, NoClaim
<1>3. Undisturbed(e) /\ RootOfBody(e)' = RootOfBody(e)
  BY <1>2 DEF Undisturbed, RootOfBody
<1>4. CASE listing' = listing /\ moved'[RootOfBody(e)] = moved[RootOfBody(e)]
  BY <1>2, <1>3, <1>4 DEF BodyTrue, Undisturbed, PageAt, PageEnd
<1>5. CASE body[e].phase = "saving" => moved'[RootOfBody(e)]
  BY <1>2, <1>3, <1>5 DEF BodyTrue, Undisturbed
<1> QED BY <1>3, <1>4, <1>5 DEF Undisturbed

\* The other bodies stay as they are when e becomes b.
LEMMA Others ==
  ASSUME TypeOK, NEW e \in Executors, NEW b, Become(e, b)
  PROVE  body'[e] = b /\ \A f \in Executors \ {e} : body'[f] = body[f]
  BY DEF TypeOK, Become

\* Only the body of e steps, and it may write to the checkpoint if it owns its task.
LEMMA OthersTrue ==
  ASSUME TypeOK, OneWorker, BodiesTrue, NoClaim, NEW e \in Executors, NEW b, Become(e, b),
         UNCHANGED <<rootOf, listing, moved>>,
         Owns(e) \/ UNCHANGED <<root, active, next, done>>
  PROVE  \A f \in Executors \ {e} : BodyTrue(f)'
<1> SUFFICES ASSUME NEW f \in Executors \ {e} PROVE BodyTrue(f)'
  OBVIOUS
<1>1. body'[f] = body[f] /\ BodyTrue(f)
  BY Others DEF BodiesTrue
<1>2. Owns(f) => Undisturbed(f)
  BY SoleOwner DEF Undisturbed
<1> QED BY <1>1, <1>2, Bystander

\* Every step keeps what the bodies know true: the body that steps looks at the
\* checkpoint under the fence, and nobody else changes a checkpoint a running task uses.
LEMMA BodiesStep == TypeOK /\ TaskPart /\ BodiesTrue /\ [Next]_vars => BodiesTrue'
<1> SUFFICES ASSUME TypeOK, OneWorker, OneUserPerCheckpoint, BodiesTrue, [Next]_vars PROVE BodiesTrue'
  BY DEF TaskPart
<1> DEFINE Stays(e) == Owns(e) => Undisturbed(e)
<1>1. ASSUME NEW e \in Executors, NEW t \in Tasks, Claim(e, t) PROVE BodiesTrue'
  <2>1. body'[e].phase = "claimed" /\ \A f \in Executors \ {e} : body'[f] = body[f]
    BY <1>1, Others DEF Claim, BodyAt
  <2>2. \A u \in Tasks : status'[u] = "running" => u = t /\ owner'[u] = e
    BY <1>1 DEF Claim, TypeOK
  <2>3. \A f \in Executors \ {e} : ~Owns(f)'
    BY <2>1, <2>2, BodyFacts DEF Owns, Fenced
  <2> QED BY <2>1, <2>3 DEF BodiesTrue, BodyTrue
<1> SUFFICES ASSUME NoClaim PROVE BodiesTrue'
  BY <1>1, StatusMove
<1>2. ASSUME body' = body, \A e \in Executors : Stays(e) PROVE BodiesTrue'
  BY <1>2, Bystander DEF BodiesTrue
<1>3. \A e \in Executors : Owns(e) =>
         /\ body[e].task \in Tasks /\ RootOfBody(e) \in Tasks /\ RootOfBody(e) = rootOf[body[e].task]
         /\ status[body[e].task] = "running"
  BY BodyFacts DEF Owns, Fenced, RootOfBody
<1>4. \A e \in Executors : Owns(e) /\ root[RootOfBody(e)] # "absent" => active[RootOfBody(e)] = body[e].task
  BY <1>3 DEF OneUserPerCheckpoint, Unfinished
<1>5. ASSUME NEW t \in Tasks, Enqueue(t) \/ Cancel(t) \/ LeaseLapses(t) \/ Recover(t) \/ Expire(t)
      PROVE  BodiesTrue'
  <2>1. body' = body /\ UNCHANGED <<root, active, next, done, listing, moved>>
    BY <1>5 DEF Enqueue, Cancel, LeaseLapses, Recover, Expire, rootVars, groupVars, sourceVars
  <2>2. \A u \in Tasks : status[u] = "running" => rootOf'[u] = rootOf[u]
    BY <1>5 DEF Enqueue, Cancel, LeaseLapses, Recover, Released, Expire, taskVars, TypeOK
  <2> QED BY <1>2, <1>3, <2>1, <2>2 DEF Undisturbed
<1>6. ASSUME NEW s \in Tasks, NEW t \in Tasks, Resume(s, t) PROVE BodiesTrue'
  <2>1. /\ rootOf[s] \in Tasks /\ root[rootOf[s]] # "absent" /\ status[active[rootOf[s]]] \notin Unfinished
        /\ status[t] = "absent"
    BY <1>6 DEF Resume, Available, Usable, TypeOK
  <2>2. /\ body' = body /\ UNCHANGED <<root, next, done, listing, moved>>
        /\ \A u \in Tasks \ {t} : rootOf'[u] = rootOf[u]
        /\ \A u \in Tasks \ {rootOf[s]} : active'[u] = active[u]
    BY <1>6 DEF Resume, groupVars, sourceVars, TypeOK
  <2>3. \A e \in Executors : Owns(e) => RootOfBody(e) # rootOf[s] /\ body[e].task # t
    BY <1>3, <1>4, <2>1 DEF Unfinished
  <2> QED BY <1>2, <1>3, <2>2, <2>3 DEF Undisturbed
<1>7. ASSUME NEW r \in Tasks, CleanUp(r) PROVE BodiesTrue'
  <2>1. root[r] # "absent" /\ status[active[r]] # "running"
    BY <1>7 DEF CleanUp, Usable
  <2>2. /\ body' = body /\ UNCHANGED <<rootOf, active, next, done, listing, moved>>
        /\ \A u \in Tasks \ {r} : root'[u] = root[u]
    BY <1>7 DEF CleanUp, taskVars, sourceVars, TypeOK
  <2>3. \A e \in Executors : Owns(e) => RootOfBody(e) # r
    BY <1>3, <1>4, <2>1
  <2> QED BY <1>2, <1>3, <2>2, <2>3 DEF Undisturbed
<1>8. CASE ListingMoves
  <2>1. \A e \in Executors : Owns(e) /\ body[e].phase = "saving" => root[RootOfBody(e)] = "collecting"
    BY DEF BodiesTrue, BodyTrue
  <2>2. \A e \in Executors : Owns(e) /\ body[e].phase = "saving" => moved'[RootOfBody(e)]
    BY <1>3, <1>8, <2>1 DEF ListingMoves, Usable
  <2>3. body' = body /\ UNCHANGED <<rootOf, root, active, next, done>>
    BY <1>8 DEF ListingMoves, taskVars, rootVars, groupVars
  <2> QED BY <1>2, <2>2, <2>3 DEF Undisturbed
<1>9. CASE AssociationChanges \/ UNCHANGED vars
  <2>1. body' = body /\ UNCHANGED <<rootOf, root, active, next, done, listing, moved>>
    BY <1>9 DEF AssociationChanges, taskVars, rootVars, groupVars, sourceVars, vars
  <2> QED BY <1>2, <2>1 DEF Undisturbed
<1>10. ASSUME NEW e \in Executors, Crash(e) \/ BodyFails(e) \/ FailForGood(e) \/ Refuse(e) PROVE BodiesTrue'
  <2>1. \E b : b.phase \in {"idle", "refused"} /\ Become(e, b)
    BY <1>10, IdleTyped DEF Crash, BodyFails, FailForGood, Refuse, BodyAt
  <2>2. UNCHANGED <<rootOf, root, active, next, done, listing, moved>>
    BY <1>10 DEF Crash, BodyFails, FailForGood, Refuse, Released, taskVars, rootVars, groupVars, sourceVars
  <2>3. \A f \in Executors \ {e} : BodyTrue(f)'
    BY <2>1, <2>2, OthersTrue
  <2>4. body'[e].phase \in {"idle", "refused"}
    BY <2>1, Others
  <2> QED BY <2>3, <2>4 DEF BodiesTrue, BodyTrue
<1>11. ASSUME NEW e \in Executors, Invalidate(e) \/ Finish(e) \/ Publish(e) PROVE BodiesTrue'
  <2>1. \E b : b.phase \in {"idle", "publishing", "failing"} /\ Become(e, b)
    BY <1>11, IdleTyped DEF Invalidate, Finish, Publish, BodyAt
  <2>2. UNCHANGED <<rootOf, active, next, done, listing, moved>>
    BY <1>11 DEF Invalidate, Finish, Publish, Released, taskVars, groupVars, sourceVars
  <2>3. Owns(e) \/ UNCHANGED root
    BY <1>11 DEF Invalidate, Finish, Publish, Working, Owns
  <2>4. \A f \in Executors \ {e} : BodyTrue(f)'
    BY <2>1, <2>2, <2>3, OthersTrue
  <2>5. body'[e].phase \in {"idle", "publishing", "failing"}
    BY <2>1, Others
  <2> QED BY <2>4, <2>5 DEF BodiesTrue, BodyTrue
<1>12. ASSUME NEW e \in Executors, Ready(e) PROVE BodiesTrue'
  <2> DEFINE phase == IF root[RootOfBody(e)] = "ready" THEN "publishing" ELSE "discovering"
  <2>1. /\ Become(e, BodyAt(phase, body[e].task, 1))
        /\ UNCHANGED <<taskVars, root, active, next, done, listing, moved>>
    BY <1>12 DEF Ready, rootVars, groupVars, sourceVars
  <2>2. \A f \in Executors \ {e} : BodyTrue(f)'
    BY <2>1, OthersTrue DEF taskVars
  <2>3. body'[e].phase = phase /\ body'[e].task = body[e].task
    BY <2>1, Others DEF BodyAt
  <2>4. phase = "discovering" =>
          \/ root[RootOfBody(e)] = "absent" /\ RootOfBody(e) = body[e].task
          \/ root[RootOfBody(e)] = "collecting" /\ active[RootOfBody(e)] = body[e].task
    BY <1>12 DEF Ready, Working, RootUsable, Usable
  <2>5. BodyTrue(e)'
    BY <2>1, <2>3, <2>4 DEF BodyTrue, RootOfBody, taskVars
  <2> QED BY <2>2, <2>5 DEF BodiesTrue
<1>13. ASSUME NEW e \in Executors, Discover(e) PROVE BodiesTrue'
  <2>1. PICK announced \in ManifestTotals :
          Become(e, [BodyAt("starting", body[e].task, 1) EXCEPT !.manifest = TotalsOf(announced, listing)])
    BY <1>13 DEF Discover
  <2>2. body[e].phase = "discovering" /\ UNCHANGED <<taskVars, root, active, next, done, listing, moved>>
    BY <1>13 DEF Discover, rootVars, groupVars, sourceVars
  <2>3. \A f \in Executors \ {e} : BodyTrue(f)'
    BY <2>1, <2>2, OthersTrue DEF taskVars
  <2>4. body'[e].phase = "starting" /\ body'[e].task = body[e].task
    BY <2>1, Others DEF BodyAt
  <2>5. BodyTrue(e)'
    BY <2>2, <2>4 DEF BodiesTrue, BodyTrue, Owns, Fenced, RootOfBody, taskVars
  <2> QED BY <2>3, <2>5 DEF BodiesTrue
<1>14. ASSUME NEW e \in Executors, Start(e) PROVE BodiesTrue'
  <2> DEFINE r == RootOfBody(e)
  <2>1. /\ Owns(e) /\ body[e].phase = "starting" /\ Become(e, BodyAt("opening", body[e].task, 1))
        /\ UNCHANGED <<taskVars, listing, moved>>
    BY <1>14 DEF Start, Working, Owns, sourceVars
  <2>2. \A f \in Executors \ {e} : BodyTrue(f)'
    BY <2>1, OthersTrue DEF taskVars
  <2>3. body'[e].phase = "opening" /\ body'[e].task = body[e].task
    BY <2>1, Others DEF BodyAt
  <2>4. CASE root[r] = "absent"
    <3>1. root'[r] = "collecting" /\ active'[r] = body[e].task
      BY <1>3, <1>14, <2>1, <2>4 DEF Start, StartOver, TypeOK
    <3> QED BY <2>1, <2>2, <2>3, <3>1 DEF BodiesTrue, BodyTrue, RootOfBody, taskVars
  <2>5. CASE root[r] # "absent"
    <3>1. root[r] = "collecting" /\ active[r] = body[e].task
      BY <2>1, <2>5 DEF BodiesTrue, BodyTrue
    <3>2. UNCHANGED <<root, active>>
      BY <1>14, <2>5 DEF Start, rootVars
    <3> QED BY <2>1, <2>2, <2>3, <3>1, <3>2 DEF BodiesTrue, BodyTrue, RootOfBody, taskVars
  <2> QED BY <2>4, <2>5
<1>15. ASSUME NEW e \in Executors, OpenGroup(e) PROVE BodiesTrue'
  <2> DEFINE r == RootOfBody(e)
             g == body[e].group
             there == [BodyAt("fetching", body[e].task, g) EXCEPT !.offset = next[r][g]]
  <2>1. /\ Owns(e) /\ body[e].phase = "opening" /\ g \in GroupSet
        /\ UNCHANGED <<taskVars, root, active, next, done, listing, moved>>
    BY <1>15, BodyFacts DEF OpenGroup, Working, Owns, rootVars, groupVars, sourceVars
  <2>2. root[r] = "collecting" /\ active[r] = body[e].task
    BY <2>1 DEF BodiesTrue, BodyTrue
  <2>3. CASE Become(e, AfterGroup(e, g))
    <3>1. \A f \in Executors \ {e} : BodyTrue(f)'
      BY <2>1, <2>3, OthersTrue DEF taskVars
    <3>2. body'[e].phase \in {"opening", "finishing"} /\ body'[e].task = body[e].task
      BY <2>1, <2>3, Others, AfterGroupTyped
    <3> QED BY <2>1, <2>2, <3>1, <3>2 DEF BodiesTrue, BodyTrue, RootOfBody, taskVars
  <2>4. CASE Become(e, there) /\ ~done[r][g]
    <3>1. \A f \in Executors \ {e} : BodyTrue(f)'
      BY <2>1, <2>4, OthersTrue DEF taskVars
    <3>2. /\ body'[e].phase = "fetching" /\ body'[e].task = body[e].task /\ body'[e].group = g
          /\ body'[e].offset = next[r][g]
      BY <2>4, Others DEF BodyAt
    <3>3. BodyTrue(e)'
      BY <2>1, <2>2, <2>4, <3>2 DEF BodyTrue, RootOfBody, taskVars
    <3> QED BY <3>1, <3>3 DEF BodiesTrue
  <2> QED BY <1>15, <2>3, <2>4 DEF OpenGroup
<1>16. ASSUME NEW e \in Executors, Fetch(e) PROVE BodiesTrue'
  <2> DEFINE fetched == PageAt(body[e].group, body[e].offset)
             b == [body[e] EXCEPT !.phase = "saving", !.page = fetched]
  <2>1. /\ body[e].phase = "fetching" /\ Become(e, b) /\ body[e] \in Body
        /\ UNCHANGED <<taskVars, root, active, next, done, listing, moved>>
    BY <1>16, BodyFacts DEF Fetch, rootVars, groupVars, sourceVars
  <2>2. \A f \in Executors \ {e} : BodyTrue(f)'
    BY <2>1, OthersTrue DEF taskVars
  <2>3. body'[e] = b
    BY <2>1, Others
  <2>4. /\ b.phase = "saving" /\ b.task = body[e].task /\ b.group = body[e].group
        /\ b.offset = body[e].offset /\ b.page = fetched
    BY <2>1 DEF Body
  <2> HIDE DEF b
  <2>5. BodyTrue(e)'
    BY <2>1, <2>3, <2>4 DEF BodiesTrue, BodyTrue, Owns, Fenced, RootOfBody, PageAt, PageEnd, taskVars
  <2> QED BY <2>2, <2>5 DEF BodiesTrue
<1>17. ASSUME NEW e \in Executors, SavePage(e) PROVE BodiesTrue'
  <2> DEFINE r == RootOfBody(e)
             g == body[e].group
             end == body[e].offset + Len(body[e].page.rows)
             there == [BodyAt("fetching", body[e].task, g) EXCEPT !.offset = end]
  <2>1. /\ Owns(e) /\ body[e].phase = "saving" /\ g \in GroupSet /\ r \in Tasks /\ body[e].page.more \in BOOLEAN
        /\ UNCHANGED <<taskVars, root, active, listing, moved>>
    BY <1>17, BodyFacts DEF SavePage, Working, Owns, rootVars, sourceVars
  <2>2. root[r] = "collecting" /\ active[r] = body[e].task
    BY <2>1 DEF BodiesTrue, BodyTrue
  <2>3. CASE Become(e, AfterGroup(e, g))
    <3>1. \A f \in Executors \ {e} : BodyTrue(f)'
      BY <2>1, <2>3, OthersTrue DEF taskVars
    <3>2. body'[e].phase \in {"opening", "finishing"} /\ body'[e].task = body[e].task
      BY <2>1, <2>3, Others, AfterGroupTyped
    <3> QED BY <2>1, <2>2, <3>1, <3>2 DEF BodiesTrue, BodyTrue, RootOfBody, taskVars
  <2>4. CASE Become(e, there) /\ body[e].page.more
    <3>1. \A f \in Executors \ {e} : BodyTrue(f)'
      BY <2>1, <2>4, OthersTrue DEF taskVars
    <3>2. /\ body'[e].phase = "fetching" /\ body'[e].task = body[e].task /\ body'[e].group = g
          /\ body'[e].offset = end
      BY <2>4, Others DEF BodyAt
    <3>3. next'[r][g] = end /\ ~done'[r][g]
      BY <1>17, <2>1, <2>4 DEF SavePage, TypeOK
    <3>4. BodyTrue(e)'
      BY <2>1, <2>2, <3>2, <3>3 DEF BodyTrue, RootOfBody, taskVars
    <3> QED BY <3>1, <3>4 DEF BodiesTrue
  <2> QED BY <1>17, <2>3, <2>4 DEF SavePage
<1> QED
  BY <1>1, <1>5, <1>6, <1>7, <1>8, <1>9, <1>10, <1>11, <1>12, <1>13, <1>14,
     <1>15, <1>16, <1>17 DEF Next, BodyStep

-----------------------------------------------------------------------------
(* Rows, cursors and totals. *)

\* A page continues the part of the listing before its offset.
LEMMA PageContinues ==
  ASSUME TypeOK, NEW g \in GroupSet, NEW offset \in Nat, offset <= Len(listing[g])
  PROVE  SubSeq(listing[g], 1, offset) \o PageAt(g, offset).rows = SubSeq(listing[g], 1, PageEnd(g, offset))
<1>1. listing[g] \in Seq(Records)
  BY ListingsAssumption DEF TypeOK, GroupSet
<1>2. /\ Len(listing[g]) \in Nat /\ 1 \in 1 .. Len(listing[g]) + 1
      /\ offset \in 1 - 1 .. Len(listing[g]) /\ PageEnd(g, offset) \in offset .. Len(listing[g])
  BY <1>1, PageTyped, LenProperties
<1> QED BY <1>1, <1>2, ConcatAdjacentSubSeq DEF PageAt

\* A checkpoint that is not r keeps everything RowPart speaks of.
RootKept(r) ==
    /\ root'[r] = root[r] /\ manifest'[r] = manifest[r] /\ next'[r] = next[r]
    /\ total'[r] = total[r] /\ done'[r] = done[r] /\ rows'[r] = rows[r]
    /\ root[r] \in Usable => moved'[r] \/ (listing' = listing /\ moved'[r] = moved[r])

RowsRight(r) ==
    /\ root[r] \in Usable =>
          \A g \in GroupSet :
             /\ Len(rows[r][g]) = next[r][g] /\ IsInjective(rows[r][g])
             /\ manifest[r][g] = {} \/ total[r][g] = manifest[r][g]
             /\ ~moved[r] => /\ next[r][g] <= Len(listing[g])
                             /\ rows[r][g] = SubSeq(listing[g], 1, next[r][g])
                             /\ done[r][g] => next[r][g] = Len(listing[g])
    /\ root[r] = "absent" => \A g \in GroupSet : next[r][g] = 0 /\ rows[r][g] = <<>>

\* RowPart, one checkpoint at a time.
LEMMA RowPartByRoot ==
  /\ RowPart <=> (\A r \in Tasks : RowsRight(r))
  /\ RowPart' <=> (\A r \in Tasks : RowsRight(r)')
  BY DEF RowPart, RowsRight, RowsFollowCursor, FreshRoots, ManifestTrue, RowsListed

\* A checkpoint that is kept stays right.
LEMMA RootKeptRight ==
  ASSUME NEW r \in Tasks, RowsRight(r), RootKept(r)
  PROVE  RowsRight(r)'
<1>1. CASE root[r] \in Usable
  BY <1>1 DEF RowsRight, RootKept, Usable
<1>2. CASE root[r] \notin Usable
  BY <1>2 DEF RowsRight, RootKept
<1> QED BY <1>1, <1>2

\* A checkpoint that is created holds nothing.
LEMMA StartRight ==
  ASSUME TypeOK, NEW e \in Executors, StartOver(e), NEW r \in Tasks, r = RootOfBody(e), UNCHANGED listing
  PROVE  RowsRight(r)'
<1>1. /\ root'[r] = "collecting" /\ manifest'[r] = body[e].manifest /\ total'[r] = body[e].manifest
      /\ \A g \in GroupSet : next'[r][g] = 0 /\ ~done'[r][g] /\ rows'[r][g] = <<>>
  BY DEF StartOver, TypeOK, NoRows
<1>2. \A g \in GroupSet : Len(listing[g]) \in Nat /\ SubSeq(listing[g], 1, 0) = <<>>
  BY ListingsAssumption, LenProperties, SubSeqEmpty DEF TypeOK, GroupSet
<1>3. Len(<<>>) = 0 /\ IsInjective(<<>>)
  BY DEF IsInjective
<1>4. \A g \in GroupSet :
         /\ Len(rows'[r][g]) = next'[r][g] /\ IsInjective(rows'[r][g]) /\ total'[r][g] = manifest'[r][g]
         /\ next'[r][g] <= Len(listing'[g]) /\ rows'[r][g] = SubSeq(listing'[g], 1, next'[r][g])
         /\ ~done'[r][g]
  <2> SUFFICES ASSUME NEW g \in GroupSet
               PROVE  /\ Len(rows'[r][g]) = next'[r][g] /\ IsInjective(rows'[r][g])
                      /\ total'[r][g] = manifest'[r][g]
                      /\ next'[r][g] <= Len(listing'[g]) /\ rows'[r][g] = SubSeq(listing'[g], 1, next'[r][g])
                      /\ ~done'[r][g]
    OBVIOUS
  <2>1. rows'[r][g] = <<>> /\ next'[r][g] = 0 /\ listing' = listing
    BY <1>1
  <2>2. IsInjective(rows'[r][g]) /\ Len(rows'[r][g]) = next'[r][g]
    BY <1>3, <2>1
  <2>3. rows'[r][g] = SubSeq(listing'[g], 1, next'[r][g]) /\ next'[r][g] <= Len(listing'[g])
    BY <1>2, <2>1
  <2> QED BY <1>1, <2>2, <2>3
<1> QED BY <1>1, <1>4 DEF RowsRight

\* A page that is saved continues its group.
LEMMA SavePageRight ==
  ASSUME TypeOK, BodiesTrue, NEW e \in Executors, SavePage(e),
         NEW r \in Tasks, r = RootOfBody(e), RowsRight(r)
  PROVE  RowsRight(r)'
<1> DEFINE g == body[e].group
           page == body[e].page
           end == body[e].offset + Len(page.rows)
<1>1. /\ g \in GroupSet /\ page \in Page /\ page.rows \in Seq(Records) /\ page.more \in BOOLEAN
      /\ body[e].offset \in Nat
  BY BodyFacts DEF SavePage, Working
<1>2. /\ root[r] = "collecting" /\ UNCHANGED <<root, manifest, listing, moved>>
      /\ next[r][g] = body[e].offset /\ IsInjective(rows[r][g] \o page.rows)
  BY DEF SavePage, PageFits, rootVars, sourceVars
<1>3. /\ rows'[r][g] = rows[r][g] \o page.rows /\ next'[r][g] = end
      /\ total'[r][g] = Expected(r, g, page) /\ done'[r][g] = ~page.more
      /\ \A h \in GroupSet \ {g} : /\ rows'[r][h] = rows[r][h] /\ next'[r][h] = next[r][h]
                                   /\ total'[r][h] = total[r][h] /\ done'[r][h] = done[r][h]
  BY <1>1 DEF SavePage, TypeOK
<1>4. /\ rows[r][g] \in Seq(Records) /\ Len(rows[r][g]) = next[r][g]
      /\ manifest[r][g] = {} \/ total[r][g] = manifest[r][g]
  <2>1. rows[r][g] \in Seq(Records)
    BY <1>1 DEF TypeOK
  <2> QED
    BY <1>1, <1>2, <2>1 DEF RowsRight, Usable
<1>5. Len(rows'[r][g]) = next'[r][g] /\ IsInjective(rows'[r][g])
  <2>1. \A s, t \in Seq(Records) : Len(s \o t) = Len(s) + Len(t)
    BY ConcatProperties
  <2>2. Len(rows[r][g] \o page.rows) = Len(rows[r][g]) + Len(page.rows)
    BY <1>1, <1>4, <2>1, Zenon
  <2>3. Len(rows'[r][g]) = next'[r][g]
    <3>1. Len(rows[r][g]) = body[e].offset
      BY <1>2, <1>4, Zenon
    <3>2. rows'[r][g] = rows[r][g] \o page.rows /\ next'[r][g] = body[e].offset + Len(page.rows)
      BY <1>3, Zenon
    <3> QED BY <2>2, <3>1, <3>2, Zenon
  <2>4. IsInjective(rows'[r][g])
    BY <1>2, <1>3
  <2> QED BY <2>3, <2>4
<1>6. manifest'[r][g] = {} \/ total'[r][g] = manifest'[r][g]
  BY <1>2, <1>3, <1>4 DEF Expected
<1>7. ASSUME ~moved[r]
      PROVE  /\ next'[r][g] <= Len(listing[g]) /\ rows'[r][g] = SubSeq(listing[g], 1, next'[r][g])
             /\ done'[r][g] => next'[r][g] = Len(listing[g])
  <2>1. page.rows = PageAt(g, body[e].offset).rows /\ page.more = PageAt(g, body[e].offset).more
    BY <1>7 DEF BodiesTrue, BodyTrue, Owns, SavePage, Working
  <2>2. body[e].offset <= Len(listing[g]) /\ rows[r][g] = SubSeq(listing[g], 1, body[e].offset)
    BY <1>1, <1>2, <1>7 DEF RowsRight, Usable
  <2>3. /\ PageEnd(g, body[e].offset) \in Nat /\ PageEnd(g, body[e].offset) <= Len(listing[g])
        /\ Len(page.rows) = PageEnd(g, body[e].offset) - body[e].offset
    BY <1>1, <2>1, <2>2, PageTyped
  <2>4. end = PageEnd(g, body[e].offset)
    BY <1>1, <2>3
  <2>5. rows'[r][g] = SubSeq(listing[g], 1, end)
    <3>1. rows'[r][g] = SubSeq(listing[g], 1, body[e].offset) \o PageAt(g, body[e].offset).rows
      BY <1>3, <2>1, <2>2
    <3>2. SubSeq(listing[g], 1, body[e].offset) \o PageAt(g, body[e].offset).rows
            = SubSeq(listing[g], 1, PageEnd(g, body[e].offset))
      BY <1>1, <2>2, PageContinues
    <3> QED BY <2>4, <3>1, <3>2
  <2>6. ~page.more => end = Len(listing[g])
    BY <2>1, <2>4 DEF PageAt, PageEnd
  <2> QED BY <1>3, <2>3, <2>4, <2>5, <2>6
<1> HIDE DEF g, page, end
<1>8. \A h \in GroupSet \ {g} :
         /\ Len(rows'[r][h]) = next'[r][h] /\ IsInjective(rows'[r][h])
         /\ manifest'[r][h] = {} \/ total'[r][h] = manifest'[r][h]
         /\ ~moved'[r] => /\ next'[r][h] <= Len(listing'[h])
                          /\ rows'[r][h] = SubSeq(listing'[h], 1, next'[r][h])
                          /\ done'[r][h] => next'[r][h] = Len(listing'[h])
  BY <1>2, <1>3 DEF RowsRight, Usable
<1> QED BY <1>2, <1>5, <1>6, <1>7, <1>8 DEF RowsRight, Usable

\* Only six actions change a checkpoint, and each of them changes one.
LEMMA ChangedRoot ==
  ASSUME TypeOK, [Next]_vars
  PROVE  \/ \A r \in Tasks : RootKept(r)
         \/ \E e \in Executors : /\ RootOfBody(e) \in Tasks
                                 /\ \A r \in Tasks \ {RootOfBody(e)} : RootKept(r)
                                 /\ UNCHANGED listing
                                 /\ \/ Start(e) /\ StartOver(e) /\ root[RootOfBody(e)] = "absent"
                                    \/ SavePage(e) \/ Finish(e) \/ Publish(e) \/ Invalidate(e)
         \/ \E r \in Tasks : CleanUp(r) /\ \A s \in Tasks \ {r} : RootKept(s)
<1>1. ASSUME UNCHANGED <<root, manifest, groupVars, listing, moved>> PROVE \A r \in Tasks : RootKept(r)
  BY <1>1 DEF groupVars, RootKept
<1>2. ASSUME NEW t \in Tasks, Enqueue(t) \/ Cancel(t) \/ LeaseLapses(t) \/ Recover(t) \/ Expire(t)
      PROVE  \A r \in Tasks : RootKept(r)
  BY <1>1, <1>2 DEF Enqueue, Cancel, LeaseLapses, Recover, Expire, rootVars, sourceVars
<1>3. ASSUME NEW s \in Tasks, NEW t \in Tasks, Resume(s, t) PROVE \A r \in Tasks : RootKept(r)
  BY <1>1, <1>3 DEF Resume, sourceVars
<1>4. ASSUME NEW e \in Executors, NEW t \in Tasks, Claim(e, t) PROVE \A r \in Tasks : RootKept(r)
  BY <1>1, <1>4 DEF Claim, rootVars, sourceVars
<1>5. ASSUME NEW e \in Executors,
             \/ Ready(e) \/ Discover(e) \/ OpenGroup(e) \/ Fetch(e)
             \/ Refuse(e) \/ FailForGood(e) \/ BodyFails(e) \/ Crash(e)
      PROVE  \A r \in Tasks : RootKept(r)
  BY <1>1, <1>5 DEF Ready, Discover, OpenGroup, Fetch, Refuse, FailForGood, BodyFails, Crash, rootVars, sourceVars
<1>6. CASE ListingMoves
  BY <1>6 DEF ListingMoves, rootVars, groupVars, RootKept
<1>7. CASE AssociationChanges \/ UNCHANGED vars
  BY <1>1, <1>7 DEF AssociationChanges, rootVars, sourceVars, vars
<1>8. ASSUME NEW r \in Tasks, CleanUp(r) PROVE \A s \in Tasks \ {r} : RootKept(s)
  BY <1>8 DEF CleanUp, RootKept, TypeOK, sourceVars
<1>9. ASSUME NEW e \in Executors, SavePage(e) \/ Finish(e) \/ Publish(e) \/ Invalidate(e)
      PROVE  RootOfBody(e) \in Tasks /\ (\A r \in Tasks \ {RootOfBody(e)} : RootKept(r)) /\ UNCHANGED listing
  <2>1. RootOfBody(e) \in Tasks
    BY <1>9, BodyFacts DEF SavePage, Finish, Publish, Invalidate, Working
  <2>2. UNCHANGED <<manifest, listing, moved>>
    BY <1>9 DEF SavePage, Finish, Publish, Invalidate, rootVars, sourceVars
  <2>3. CASE SavePage(e)
    BY <2>1, <2>2, <2>3 DEF SavePage, RootKept, TypeOK, rootVars
  <2>4. CASE Finish(e) \/ Publish(e) \/ Invalidate(e)
    BY <2>1, <2>2, <2>4 DEF Finish, Publish, Invalidate, RootKept, TypeOK, groupVars
  <2> QED BY <1>9, <2>1, <2>2, <2>3, <2>4
<1>10. ASSUME NEW e \in Executors, Start(e)
       PROVE  \/ \A r \in Tasks : RootKept(r)
              \/ /\ RootOfBody(e) \in Tasks /\ StartOver(e) /\ root[RootOfBody(e)] = "absent"
                 /\ \A r \in Tasks \ {RootOfBody(e)} : RootKept(r)
                 /\ UNCHANGED listing
  <2>1. RootOfBody(e) \in Tasks /\ UNCHANGED <<listing, moved>>
    BY <1>10, BodyFacts DEF Start, Working, sourceVars
  <2>2. CASE root[RootOfBody(e)] = "absent"
    BY <1>10, <2>1, <2>2 DEF Start, StartOver, RootKept, TypeOK
  <2>3. CASE root[RootOfBody(e)] # "absent"
    BY <1>1, <1>10, <2>1, <2>3 DEF Start, rootVars
  <2> QED BY <2>2, <2>3
<1> QED
  BY <1>2, <1>3, <1>4, <1>5, <1>6, <1>7, <1>8, <1>9, <1>10 DEF Next, BodyStep

\* Every step keeps rows, cursors and totals together.
LEMMA RowStep == TypeOK /\ BodiesTrue /\ RowPart /\ [Next]_vars => RowPart'
<1> SUFFICES ASSUME TypeOK, BodiesTrue, \A r \in Tasks : RowsRight(r), [Next]_vars
             PROVE  \A r \in Tasks : RowsRight(r)'
  BY RowPartByRoot
<1>1. CASE \A r \in Tasks : RootKept(r)
  BY <1>1, RootKeptRight
<1>2. ASSUME NEW r \in Tasks, CleanUp(r), \A s \in Tasks \ {r} : RootKept(s)
      PROVE  \A s \in Tasks : RowsRight(s)'
  <2>1. root'[r] = "expired"
    BY <1>2 DEF CleanUp, TypeOK
  <2>2. RowsRight(r)'
    BY <2>1 DEF RowsRight, Usable
  <2> QED BY <1>2, <2>2, RootKeptRight
<1>3. ASSUME NEW e \in Executors, RootOfBody(e) \in Tasks, UNCHANGED listing,
             \A r \in Tasks \ {RootOfBody(e)} : RootKept(r),
             \/ Start(e) /\ StartOver(e) /\ root[RootOfBody(e)] = "absent"
             \/ SavePage(e) \/ Finish(e) \/ Publish(e) \/ Invalidate(e)
      PROVE  \A r \in Tasks : RowsRight(r)'
  <2> SUFFICES ASSUME NEW r \in Tasks, r = RootOfBody(e) PROVE RowsRight(r)'
    BY <1>3, RootKeptRight
  <2>1. ASSUME StartOver(e) PROVE RowsRight(r)'
    BY <1>3, <2>1, StartRight
  <2>2. ASSUME SavePage(e) PROVE RowsRight(r)'
    BY <1>3, <2>2, SavePageRight
  <2>3. ASSUME Finish(e) PROVE RowsRight(r)'
    <3>1. root[r] = "collecting" /\ root'[r] = "ready"
      BY <1>3, <2>3 DEF Finish, Working, BodiesTrue, BodyTrue, Owns, TypeOK
    <3>2. UNCHANGED <<manifest, next, total, done, rows, listing, moved>>
      BY <2>3 DEF Finish, groupVars, sourceVars
    <3> QED BY <3>1, <3>2 DEF RowsRight, Usable
  <2>4. ASSUME Publish(e) PROVE RowsRight(r)'
    <3>1. root'[r] = "published"
      BY <1>3, <2>4 DEF Publish, TypeOK
    <3> QED BY <3>1 DEF RowsRight, Usable
  <2>5. ASSUME Invalidate(e) PROVE RowsRight(r)'
    <3>1. UNCHANGED <<manifest, next, total, done, rows, listing, moved>>
      BY <2>5 DEF Invalidate, groupVars, sourceVars
    <3>2. root'[r] = "invalid" \/ root'[r] = root[r]
      BY <1>3, <2>5 DEF Invalidate, TypeOK
    <3> QED BY <3>1, <3>2 DEF RowsRight, Usable
  <2> QED BY <1>3, <2>1, <2>2, <2>3, <2>4, <2>5
<1> QED BY <1>1, <1>2, <1>3, ChangedRoot

-----------------------------------------------------------------------------
(* The theorems. *)

\* The initial states satisfy the invariant.
LEMMA InvInit == Init => IInv
<1> SUFFICES ASSUME Init PROVE IInv
  OBVIOUS
<1>1. TypeOK
  BY TypeInit
<1>2. TaskPart
  BY DEF Init, TaskPart, OneWorker, RootsOfTasks, OneUserPerCheckpoint, Unfinished
<1>3. BodiesTrue
  BY IdleTyped DEF Init, BodiesTrue, BodyTrue, Owns
<1>4. \A r \in Tasks : RowsRight(r)
  BY DEF Init, RowsRight, Usable, NoRows
<1> QED BY <1>1, <1>2, <1>3, <1>4, RowPartByRoot DEF IInv

\* Every step keeps the invariant.
LEMMA InvStep == IInv /\ [Next]_vars => IInv'
  BY TypeStep, TaskStep, BodiesStep, RowStep DEF IInv

\* The inductive invariant holds in every reachable state.
THEOREM InvCorrect == Spec => []IInv
<1> QED BY InvInit, InvStep, PTL DEF Spec

\* An unfinished task is the one its checkpoint is reserved for, whatever retries are asked for.
THEOREM OneUserCorrect == Spec => []OneUserPerCheckpoint
<1>1. IInv => OneUserPerCheckpoint
  BY DEF IInv, TaskPart
<1> QED BY <1>1, InvCorrect, PTL

\* A usable checkpoint holds exactly the rows its cursors count, none of them twice.
THEOREM RowsCorrect == Spec => []RowsFollowCursor
<1>1. IInv => RowsFollowCursor
  BY DEF IInv, RowPart
<1> QED BY <1>1, InvCorrect, PTL

\* A body that owns its task works at the cursor of a checkpoint nobody else touches.
THEOREM CursorCorrect == Spec => []BodySeesItsCursor
<1> QED BY CursorFromBodies, InvCorrect, PTL

\* A group that a page is added to begins with what it held.
LEMMA BeginningOfConcat ==
  ASSUME NEW s \in Seq(Records), NEW t \in Seq(Records)
  PROVE  SubSeq(s \o t, 1, Len(s)) = s
<1>1. Len(s) \in Nat
  BY LenProperties
<1>2. CASE Len(s) = 0
  <2>1. s = <<>>
    BY <1>2, EmptySeq
  <2>2. SubSeq(s \o t, 1, 0) = <<>>
    BY SubSeqEmpty
  <2> QED BY <1>2, <2>1, <2>2
<1>3. CASE Len(s) # 0
  <2>1. 1 \in 1 .. Len(s) /\ Len(s) \in 1 .. Len(s)
    BY <1>1, <1>3
  <2>2. SubSeq(s \o t, 1, Len(s)) = SubSeq(s, 1, Len(s))
    BY <2>1, SubSeqOfConcat1
  <2> QED BY <2>2, SubSeqFull
<1> QED BY <1>2, <1>3

\* Pages that are confirmed are lost only with the checkpoint, and no cursor goes back.
LEMMA PagesStep ==
  IInv /\ [Next]_vars =>
     \A r \in Tasks : \A g \in GroupSet :
        /\ next'[r][g] >= next[r][g]
        /\ rows'[r][g] # rows[r][g] /\ root'[r] \in Usable =>
              SubSeq(rows'[r][g], 1, Len(rows[r][g])) = rows[r][g]
<1> DEFINE Kept(r, g) == /\ next'[r][g] >= next[r][g]
                         /\ rows'[r][g] # rows[r][g] /\ root'[r] \in Usable =>
                              SubSeq(rows'[r][g], 1, Len(rows[r][g])) = rows[r][g]
<1> SUFFICES ASSUME TypeOK, \A r \in Tasks : RowsRight(r), [Next]_vars, NEW r \in Tasks, NEW g \in GroupSet
             PROVE  Kept(r, g)
  BY RowPartByRoot DEF IInv
<1>1. next[r][g] \in Nat /\ rows[r][g] \in Seq(Records)
  BY DEF TypeOK
<1>2. ASSUME next'[r][g] = next[r][g], rows'[r][g] = rows[r][g] \/ root'[r] \notin Usable PROVE Kept(r, g)
  BY <1>1, <1>2
<1>3. CASE RootKept(r)
  BY <1>2, <1>3 DEF RootKept
<1>4. CASE CleanUp(r)
  <2>1. root'[r] = "expired" /\ next' = next
    BY <1>4 DEF CleanUp, TypeOK
  <2> QED BY <1>2, <2>1 DEF Usable
<1>5. ASSUME NEW e \in Executors, r = RootOfBody(e),
             \/ Start(e) /\ StartOver(e) /\ root[r] = "absent"
             \/ SavePage(e) \/ Finish(e) \/ Publish(e) \/ Invalidate(e)
      PROVE  Kept(r, g)
  <2>1. CASE StartOver(e) /\ root[r] = "absent"
    <3>1. next[r][g] = 0 /\ rows[r][g] = <<>>
      BY <2>1 DEF RowsRight
    <3>2. next'[r][g] = 0 /\ rows'[r][g] = <<>>
      BY <1>5, <2>1 DEF StartOver, NoRows, TypeOK
    <3> QED BY <1>2, <3>1, <3>2
  <2>2. CASE SavePage(e)
    <3>1. /\ body[e].page.rows \in Seq(Records) /\ body[e].offset \in Nat /\ body[e].group \in GroupSet
          /\ next[r][body[e].group] = body[e].offset
      BY <1>5, <2>2, BodyFacts DEF SavePage, Working, PageFits
    <3>2. CASE g # body[e].group
      BY <1>2, <1>5, <2>2, <3>1, <3>2 DEF SavePage, TypeOK
    <3>3. CASE g = body[e].group
      <4>1. rows'[r][g] = rows[r][g] \o body[e].page.rows /\ next'[r][g] = next[r][g] + Len(body[e].page.rows)
        BY <1>5, <2>2, <3>1, <3>3 DEF SavePage, TypeOK
      <4>2. next'[r][g] >= next[r][g]
        BY <1>1, <3>1, <4>1, LenProperties
      <4>3. SubSeq(rows[r][g] \o body[e].page.rows, 1, Len(rows[r][g])) = rows[r][g]
        BY <1>1, <3>1, BeginningOfConcat
      <4> QED BY <4>1, <4>2, <4>3
    <3> QED BY <3>2, <3>3
  <2>3. CASE Finish(e) \/ Invalidate(e)
    BY <1>2, <2>3 DEF Finish, Invalidate, groupVars
  <2>4. CASE Publish(e)
    <3>1. root'[r] = "published" /\ next' = next
      BY <1>5, <2>4 DEF Publish, TypeOK
    <3> QED BY <1>2, <3>1 DEF Usable
  <2> QED BY <1>5, <2>1, <2>2, <2>3, <2>4
<1> QED BY <1>3, <1>4, <1>5, ChangedRoot

\* Pages that are confirmed are lost only when the checkpoint is published or cleaned up,
\* and no cursor goes back: the action property of the runs.
THEOREM PagesCorrect == Spec => ConfirmedPagesStay
<1> QED BY PagesStep, InvCorrect, PTL DEF Spec, ConfirmedPagesStay

\* Only Publish changes what is published.
LEMMA OnlyPublish ==
  ASSUME [Next]_vars, published' # published
  PROVE  \E e \in Executors : Publish(e)
<1> USE DEF sourceVars, vars
<1>1. ASSUME NEW t \in Tasks,
             Enqueue(t) \/ Cancel(t) \/ LeaseLapses(t) \/ Recover(t) \/ Expire(t) \/ CleanUp(t)
      PROVE  FALSE
  BY <1>1 DEF Enqueue, Cancel, LeaseLapses, Recover, Expire, CleanUp
<1>2. ASSUME NEW s \in Tasks, NEW t \in Tasks, Resume(s, t) PROVE FALSE
  BY <1>2 DEF Resume
<1>3. ASSUME NEW e \in Executors, NEW t \in Tasks, Claim(e, t) PROVE FALSE
  BY <1>3 DEF Claim
<1>4. ASSUME NEW e \in Executors,
             \/ Ready(e) \/ Discover(e) \/ Start(e) \/ OpenGroup(e) \/ Fetch(e) \/ SavePage(e) \/ Finish(e)
             \/ Refuse(e) \/ Invalidate(e) \/ FailForGood(e) \/ BodyFails(e) \/ Crash(e)
      PROVE  FALSE
  BY <1>4 DEF Ready, Discover, Start, OpenGroup, Fetch, SavePage, Finish, Refuse, Invalidate,
              FailForGood, BodyFails, Crash
<1>5. ~ListingMoves /\ ~AssociationChanges /\ ~UNCHANGED vars
  BY DEF ListingMoves, AssociationChanges
<1> QED BY <1>1, <1>2, <1>3, <1>4, <1>5 DEF Next, BodyStep

\* What a step publishes is a complete set that a checkpoint holds, without repetition, as
\* the source lists it unless its listing changed, and as the event page announced it.
LEMMA SetsStep ==
  IInv /\ [Next]_vars =>
     (published' # published =>
        \E r \in Tasks :
           /\ moved[r] \/ published' = listing
           /\ \A g \in GroupSet :
                 /\ IsInjective(published'[g])
                 /\ manifest[r][g] \in {{}, {Len(published'[g])}}
                 /\ root[r] = "ready" /\ root'[r] = "published")
<1> SUFFICES ASSUME TypeOK, \A r \in Tasks : RowsRight(r), [Next]_vars, published' # published
             PROVE  \E r \in Tasks :
                       /\ moved[r] \/ published' = listing
                       /\ \A g \in GroupSet :
                             /\ IsInjective(published'[g])
                             /\ manifest[r][g] \in {{}, {Len(published'[g])}}
                             /\ root[r] = "ready" /\ root'[r] = "published"
  BY RowPartByRoot DEF IInv
<1>1. PICK e \in Executors : Publish(e)
  BY OnlyPublish
<1> DEFINE r == RootOfBody(e)
<1>2. r \in Tasks
  BY <1>1, BodyFacts DEF Publish, Working
<1>3. root[r] = "ready" /\ root'[r] = "published" /\ published' = rows[r] /\ Complete(r)
  BY <1>1, <1>2 DEF Publish, TypeOK
<1>4. \A g \in GroupSet :
         /\ IsInjective(published'[g])
         /\ manifest[r][g] \in {{}, {Len(published'[g])}}
  <2> SUFFICES ASSUME NEW g \in GroupSet
               PROVE  IsInjective(published'[g]) /\ manifest[r][g] \in {{}, {Len(published'[g])}}
    OBVIOUS
  <2> HIDE DEF r
  <2>1. /\ IsInjective(rows[r][g]) /\ Len(rows[r][g]) = next[r][g]
        /\ manifest[r][g] = {} \/ total[r][g] = manifest[r][g]
    BY <1>2, <1>3 DEF RowsRight, Usable
  <2>2. \A n \in manifest[r][g] : n = Len(rows[r][g])
    BY <1>3, <2>1 DEF Complete
  <2>3. manifest[r][g] \in {{}, {Len(rows[r][g])}}
    BY <2>2
  <2> QED BY <1>3, <2>1, <2>3
<1>5. moved[r] \/ published' = listing
  <2> SUFFICES ASSUME ~moved[r] PROVE published' = listing
    OBVIOUS
  <2> HIDE DEF r
  <2>1. \A g \in GroupSet : rows[r][g] = listing[g]
    <3> SUFFICES ASSUME NEW g \in GroupSet PROVE rows[r][g] = listing[g]
      OBVIOUS
    <3>1. rows[r][g] = SubSeq(listing[g], 1, Len(listing[g]))
      BY <1>2, <1>3 DEF RowsRight, Usable, Complete
    <3>2. listing[g] \in Seq(Records)
      BY ListingsAssumption DEF TypeOK, GroupSet
    <3> QED BY <3>1, <3>2, SubSeqFull
  <2>2. rows[r] \in [GroupSet -> Seq(Records)] /\ listing \in [GroupSet -> Seq(Records)]
    BY <1>2, ListingsAssumption DEF TypeOK, GroupSet
  <2> QED BY <1>3, <2>1, <2>2
<1> QED BY <1>2, <1>3, <1>4, <1>5

\* The published set is only ever replaced by a complete one: the action property of the runs.
THEOREM SetsCorrect == Spec => OnlyCompleteSets
<1> QED BY SetsStep, InvCorrect, PTL DEF Spec, OnlyCompleteSets
=============================================================================
