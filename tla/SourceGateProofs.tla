-------------------------- MODULE SourceGateProofs --------------------------
(***************************************************************************)
(* Proofs about SourceGate for any number of clients, length of the hour,  *)
(* limits and delays.  The counter of the row has to be tied to the        *)
(* attempts it stands for: requestCount is the number of grants of the     *)
(* hour windowStart names, and no grant belongs to a later hour.           *)
(***************************************************************************)
EXTENDS SourceGate, FiniteSetTheorems, SequenceTheorems, TLAPS

\* The clock: the hour it names is the one it is in.
ClockTrue == hourStart <= now /\ now < hourStart + Hour

\* A window starts with an hour, and none of the grants is younger than the window.
WindowTrue ==
    /\ windowStart <= hourStart
    /\ windowStart < hourStart => windowStart + Hour <= hourStart
    /\ \A i \in DOMAIN grants : grants[i].hour <= windowStart

CountTrue == requestCount = Cardinality(GrantsOf(grants, windowStart, Len(grants)))

\* The next attempt is due when the last one says.
NextTrue == grants # <<>> => nextAllowedAt = grants[Len(grants)].at + grants[Len(grants)].delay

\* The deadline of a closed gate is at least the one that closed it.
DeadlineTrue == closed => blockedUntil >= closedUntil

IInv ==
    TypeOK /\ ClockTrue /\ WindowTrue /\ CountTrue /\ NextTrue /\ DeadlineTrue /\ BudgetKept /\ SpacingKept

-----------------------------------------------------------------------------
(* Lemmas on the grants of an hour. *)

\* The grants of an hour can be counted.
LEMMA GrantsFinite ==
  ASSUME NEW gs, NEW h, NEW n \in Nat
  PROVE  IsFiniteSet(GrantsOf(gs, h, n)) /\ Cardinality(GrantsOf(gs, h, n)) \in Nat
<1>1. IsFiniteSet(1..n)
  BY FS_Interval
<1>2. GrantsOf(gs, h, n) \subseteq 1..n
  BY DEF GrantsOf
<1> QED BY <1>1, <1>2, FS_Subset, FS_CardinalityType

\* The grants before another one are what they were.
LEMMA GrantsKept ==
  ASSUME NEW gs \in Seq(Grant), NEW g \in Grant, NEW h, NEW n \in 0..Len(gs)
  PROVE  GrantsOf(Append(gs, g), h, n) = GrantsOf(gs, h, n)
<1>1. \A i \in 1..n : Append(gs, g)[i] = gs[i]
  OBVIOUS
<1> QED BY <1>1 DEF GrantsOf

\* Another grant is one more of its hour.
LEMMA GrantCounted ==
  ASSUME NEW gs \in Seq(Grant), NEW g \in Grant
  PROVE  Cardinality(GrantsOf(Append(gs, g), g.hour, Len(gs) + 1)) = Cardinality(GrantsOf(gs, g.hour, Len(gs))) + 1
<1> DEFINE n == Len(gs)
           hs == Append(gs, g)
<1>1. n \in Nat /\ hs[n + 1] = g /\ \A i \in 1..n : hs[i] = gs[i]
  OBVIOUS
<1> HIDE DEF n, hs
<1>2. GrantsOf(hs, g.hour, n + 1) = GrantsOf(gs, g.hour, n) \cup {n + 1}
  BY <1>1 DEF GrantsOf
<1>3. n + 1 \notin GrantsOf(gs, g.hour, n)
  BY <1>1 DEF GrantsOf
<1>4. IsFiniteSet(GrantsOf(gs, g.hour, n))
  BY <1>1, GrantsFinite
<1>5. Cardinality(GrantsOf(gs, g.hour, n) \cup {n + 1}) = Cardinality(GrantsOf(gs, g.hour, n)) + 1
  BY <1>3, <1>4, FS_AddElement
<1> QED BY <1>2, <1>5 DEF n, hs

\* An hour no grant has reached has no grants.
LEMMA NoGrants ==
  ASSUME NEW gs \in Seq(Grant), NEW h, \A i \in DOMAIN gs : gs[i].hour # h
  PROVE  Cardinality(GrantsOf(gs, h, Len(gs))) = 0
<1>1. GrantsOf(gs, h, Len(gs)) = {}
  BY DEF GrantsOf
<1> QED BY <1>1, FS_EmptySet

-----------------------------------------------------------------------------
(* Steps. *)

\* A new row tells the truth about an empty history.
LEMMA InitIInv == Init => IInv
<1> SUFFICES ASSUME Init PROVE IInv
  OBVIOUS
<1> USE DEF Init
<1>1. TypeOK
  <2>1. client \in [Clients -> Client] /\ grants \in Seq(Grant)
    BY DEF Client, NoDeadline
  <2> QED BY <2>1 DEF TypeOK, NoDeadline
<1>2. ClockTrue /\ WindowTrue /\ NextTrue /\ DeadlineTrue /\ BudgetKept /\ SpacingKept
  <2>1. DOMAIN grants = {}
    OBVIOUS
  <2>2. ClockTrue /\ WindowTrue
    BY <2>1, HourAssumption DEF ClockTrue, WindowTrue
  <2>3. NextTrue /\ DeadlineTrue
    BY DEF NextTrue, DeadlineTrue
  <2> QED BY <2>1, <2>2, <2>3 DEF BudgetKept, SpacingKept
<1>3. GrantsOf(grants, 0, Len(grants)) = {}
  BY DEF GrantsOf
<1>4. CountTrue
  BY <1>3, FS_EmptySet DEF CountTrue
<1> QED BY <1>1, <1>2, <1>4 DEF IInv

\* The grants being left alone, what is said of them stays true.
LEMMA GrantsStay ==
  ASSUME IInv, UNCHANGED <<grants, windowStart, requestCount, nextAllowedAt>>
  PROVE  CountTrue' /\ NextTrue' /\ BudgetKept' /\ SpacingKept'
  BY DEF IInv, CountTrue, NextTrue, BudgetKept, SpacingKept, GrantsOf

\* The clock moves on; an hour may end under the window.
LEMMA TickKeeps == ASSUME IInv, Tick PROVE IInv'
<1> USE DEF IInv, Tick, budget, limits, block
<1>1. TypeOK' /\ ClockTrue'
  BY HourAssumption DEF TypeOK, ClockTrue
<1>2. WindowTrue'
  BY HourAssumption DEF TypeOK, ClockTrue, WindowTrue
<1>3. DeadlineTrue'
  BY DEF DeadlineTrue
<1> QED BY <1>1, <1>2, <1>3, GrantsStay

\* A reservation renews the window before it counts.
LEMMA ReserveKeeps == ASSUME IInv, NEW c \in Clients, Reserve(c) PROVE IInv'
<1> USE DEF IInv
<1> DEFINE w == IF NewWindow THEN hourStart ELSE windowStart
           n == Len(grants)
<1>1. /\ now \in Nat /\ hourStart \in Nat /\ windowStart \in Nat /\ requestCount \in Nat /\ n \in Nat
      /\ nextAllowedAt \in Nat /\ limitPerHour \in Limits /\ minDelayMs \in Delays
      /\ limitPerHour \in Nat /\ minDelayMs \in Nat
      /\ grants \in Seq(Grant) /\ DOMAIN grants = 1..n
  BY LimitsAssumption, DelaysAssumption DEF TypeOK
<1>2. w = hourStart /\ windowStart' = hourStart
  BY <1>1 DEF Reserve, NewWindow, WindowTrue
<1>3. Used = Cardinality(GrantsOf(grants, hourStart, n)) /\ Used \in Nat
  <2>1. CASE NewWindow
    <3>1. \A i \in DOMAIN grants : grants[i].hour # hourStart
      <4> SUFFICES ASSUME NEW i \in DOMAIN grants PROVE grants[i].hour # hourStart
        OBVIOUS
      <4>1. grants[i] \in Grant /\ grants[i].hour <= windowStart
        BY <1>1 DEF WindowTrue
      <4> QED BY <1>1, <2>1, <4>1 DEF Grant, NewWindow
    <3> QED BY <1>1, <2>1, <3>1, NoGrants DEF Used
  <2>2. CASE ~NewWindow
    BY <1>1, <1>2, <2>2 DEF Used, CountTrue
  <2> QED BY <2>1, <2>2
<1>4. UNCHANGED <<now, hourStart, limitPerHour, minDelayMs, closed, blockedUntil, closedUntil>>
  BY DEF Reserve, clock, limits, block
<1>5. ClockTrue' /\ DeadlineTrue'
  BY <1>4 DEF ClockTrue, DeadlineTrue
<1>6. CASE BudgetLeft /\ Spaced
  <2> DEFINE g == [at |-> now, hour |-> hourStart, limit |-> limitPerHour, delay |-> minDelayMs]
  <2>1. /\ requestCount' = Used + 1 /\ nextAllowedAt' = now + minDelayMs
        /\ grants' = Append(grants, g) /\ Becomes(c, "sent", NoDeadline)
    BY <1>6 DEF Reserve
  <2>2. g \in Grant /\ g.at = now /\ g.hour = hourStart /\ g.limit = limitPerHour /\ g.delay = minDelayMs
    BY <1>1 DEF Grant
  <2> HIDE DEF g
  <2>3. /\ grants' \in Seq(Grant) /\ Len(grants') = n + 1 /\ grants' # <<>>
        /\ DOMAIN grants' = 1..(n + 1) /\ grants'[n + 1] = g
        /\ \A i \in DOMAIN grants : grants'[i] = grants[i]
        /\ \A h : \A k \in 0..n : GrantsOf(grants', h, k) = GrantsOf(grants, h, k)
        /\ Cardinality(GrantsOf(grants', hourStart, n + 1)) = Cardinality(GrantsOf(grants, hourStart, n)) + 1
    <3>1. /\ grants' \in Seq(Grant) /\ Len(grants') = n + 1 /\ grants' # <<>>
          /\ DOMAIN grants' = 1..(n + 1) /\ grants'[n + 1] = g
          /\ \A i \in DOMAIN grants : grants'[i] = grants[i]
      BY <1>1, <2>1, <2>2
    <3>2. \A h : \A k \in 0..n : GrantsOf(grants', h, k) = GrantsOf(grants, h, k)
      BY <1>1, <2>1, <2>2, GrantsKept
    <3>3. Cardinality(GrantsOf(grants', hourStart, n + 1)) = Cardinality(GrantsOf(grants, hourStart, n)) + 1
      BY <1>1, <2>1, <2>2, GrantCounted
    <3> QED BY <3>1, <3>2, <3>3
  <2>4. TypeOK'
    <3>1. client' \in [Clients -> Client]
      BY <2>1 DEF Becomes, TypeOK, Client, NoDeadline
    <3> QED BY <1>1, <1>2, <1>3, <1>4, <2>1, <2>3, <3>1 DEF TypeOK
  <2>5. WindowTrue'
    <3> SUFFICES ASSUME NEW i \in DOMAIN grants' PROVE grants'[i].hour <= hourStart
      BY <1>1, <1>2, <1>4 DEF WindowTrue
    <3>1. CASE i = n + 1
      BY <1>1, <2>2, <2>3, <3>1
    <3>2. CASE i \in DOMAIN grants
      <4>1. grants[i] \in Grant /\ grants[i].hour <= windowStart
        BY <1>1, <3>2 DEF WindowTrue
      <4> QED BY <1>1, <2>3, <3>2, <4>1 DEF WindowTrue, Grant
    <3> QED BY <1>1, <2>3, <3>1, <3>2
  <2>6. CountTrue'
    BY <1>2, <1>3, <2>1, <2>3 DEF CountTrue
  <2>7. NextTrue'
    BY <2>1, <2>2, <2>3 DEF NextTrue
  <2>8. BudgetKept'
    <3> SUFFICES ASSUME NEW i \in DOMAIN grants'
                 PROVE  Cardinality(GrantsOf(grants', grants'[i].hour, i)) <= grants'[i].limit
      BY DEF BudgetKept
    <3>1. CASE i = n + 1
      <4>1. Cardinality(GrantsOf(grants', hourStart, n + 1)) = Used + 1
        BY <1>3, <2>3
      <4>2. Used + 1 <= limitPerHour
        BY <1>1, <1>3, <1>6 DEF BudgetLeft
      <4> QED BY <2>2, <2>3, <3>1, <4>1, <4>2
    <3>2. CASE i \in DOMAIN grants
      <4>1. GrantsOf(grants', grants'[i].hour, i) = GrantsOf(grants, grants[i].hour, i)
        BY <1>1, <2>3, <3>2
      <4> QED BY <2>3, <3>2, <4>1 DEF BudgetKept
    <3> QED BY <1>1, <2>3, <3>1, <3>2
  <2>9. SpacingKept'
    <3> SUFFICES ASSUME NEW i \in DOMAIN grants', i > 1
                 PROVE  grants'[i].at >= grants'[i - 1].at + grants'[i - 1].delay
      BY DEF SpacingKept
    <3>1. CASE i = n + 1
      <4>1. n \in DOMAIN grants /\ i - 1 = n
        BY <1>1, <3>1
      <4>2. nextAllowedAt = grants[n].at + grants[n].delay
        BY <1>1, <4>1 DEF NextTrue
      <4>3. nextAllowedAt <= now
        BY <1>6 DEF Spaced
      <4> QED BY <1>1, <2>2, <2>3, <3>1, <4>1, <4>2, <4>3
    <3>2. CASE i \in DOMAIN grants
      <4>1. i - 1 \in DOMAIN grants
        BY <1>1, <3>2
      <4> QED BY <2>3, <3>2, <4>1 DEF SpacingKept
    <3> QED BY <1>1, <2>3, <3>1, <3>2
  <2> QED BY <1>5, <2>4, <2>5, <2>6, <2>7, <2>8, <2>9
<1>7. CASE ~(BudgetLeft /\ Spaced)
  <2>1. requestCount' = Used /\ UNCHANGED <<nextAllowedAt, grants, client>>
    BY <1>7 DEF Reserve
  <2>2. TypeOK'
    BY <1>1, <1>2, <1>3, <1>4, <2>1 DEF TypeOK
  <2>3. WindowTrue'
    <3> SUFFICES ASSUME NEW i \in DOMAIN grants PROVE grants[i].hour <= hourStart
      BY <1>1, <1>2, <1>4, <2>1 DEF WindowTrue
    <3>1. grants[i] \in Grant /\ grants[i].hour <= windowStart
      BY <1>1 DEF WindowTrue
    <3> QED BY <1>1, <3>1 DEF WindowTrue, Grant
  <2>4. CountTrue'
    BY <1>2, <1>3, <2>1 DEF CountTrue, GrantsOf
  <2>5. NextTrue' /\ BudgetKept' /\ SpacingKept'
    BY <2>1 DEF NextTrue, BudgetKept, SpacingKept, GrantsOf
  <2> QED BY <1>5, <2>2, <2>3, <2>4, <2>5
<1> QED BY <1>6, <1>7

\* What a client becomes is a client.
LEMMA ClientTyped ==
  ASSUME TypeOK, NEW c \in Clients, NEW p \in {"idle", "sent", "refused", "failing"}, NEW u \in Nat,
         Becomes(c, p, u)
  PROVE  client' \in [Clients -> Client]
  BY DEF TypeOK, Becomes, Client

\* An attempt that is answered, refused or forgotten leaves the row alone.
LEMMA AnswerKeeps ==
  ASSUME IInv, NEW c \in Clients, Answer(c) \/ Refuse(c) \/ Forget(c)
  PROVE  IInv'
<1> USE DEF IInv, clock, budget, limits, block
<1>1. client' \in [Clients -> Client]
  <2>1. CASE Answer(c) \/ Forget(c)
    BY <2>1, ClientTyped DEF Answer, Forget, NoDeadline
  <2>2. CASE Refuse(c)
    <3>1. \A r \in RetryAfters : now + r \in Nat
      BY RetryAfterAssumption DEF TypeOK
    <3> QED BY <2>2, <3>1, ClientTyped DEF Refuse, NoDeadline
  <2> QED BY <2>1, <2>2
<1>2. UNCHANGED <<clock, budget, limits, block, grants>>
  BY DEF Answer, Refuse, Forget
<1>3. TypeOK'
  BY <1>1, <1>2 DEF TypeOK
<1>4. ClockTrue' /\ WindowTrue' /\ DeadlineTrue'
  BY <1>2 DEF ClockTrue, WindowTrue, DeadlineTrue
<1> QED BY <1>2, <1>3, <1>4, GrantsStay

\* A refusal only moves the deadline forward.
LEMMA BlockKeeps ==
  ASSUME IInv, NEW c \in Clients, Observe(c) \/ Fail(c)
  PROVE  IInv'
<1> USE DEF IInv, clock, budget, limits
<1>1. client' \in [Clients -> Client] /\ UNCHANGED <<clock, budget, limits, grants>>
  BY ClientTyped DEF Observe, Fail, NoDeadline
<1>2. PICK until \in Nat : Block(until)
  BY DEF Observe, Fail, TypeOK, Client, NoDeadline
<1>3. closed' /\ blockedUntil' \in Nat /\ closedUntil' \in Nat
  BY <1>2 DEF Block, AfterBlock, Later, TypeOK, NoDeadline
<1>4. TypeOK'
  BY <1>1, <1>2, <1>3 DEF TypeOK, Block
<1>5. DeadlineTrue'
  BY <1>2 DEF DeadlineTrue, Block, AfterBlock, Later, TypeOK, NoDeadline
<1>6. ClockTrue' /\ WindowTrue'
  BY <1>1 DEF ClockTrue, WindowTrue
<1> QED BY <1>1, <1>4, <1>5, <1>6, GrantsStay

\* Neither resumption nor new limits touch the budget already used.
LEMMA AdministrationKeeps == ASSUME IInv, Resume \/ Configure PROVE IInv'
<1> USE DEF IInv, clock, budget
<1>1. UNCHANGED <<clock, budget, client, grants>>
  BY DEF Resume, Configure
<1>2. TypeOK'
  <2>1. CASE Resume
    BY <1>1, <2>1 DEF TypeOK, Resume, limits, NoDeadline
  <2>2. CASE Configure
    BY <1>1, <2>2 DEF TypeOK, Configure, block
  <2> QED BY <2>1, <2>2
<1>3. DeadlineTrue' /\ ClockTrue' /\ WindowTrue'
  BY <1>1 DEF DeadlineTrue, ClockTrue, WindowTrue, Resume, Configure, limits, block
<1> QED BY <1>1, <1>2, <1>3, GrantsStay

\* The invariant is inductive.
LEMMA NextKeeps == IInv /\ [Next]_vars => IInv'
<1> SUFFICES ASSUME IInv, [Next]_vars PROVE IInv'
  OBVIOUS
<1>1. CASE Next
  BY <1>1, TickKeeps, ReserveKeeps, AnswerKeeps, BlockKeeps, AdministrationKeeps DEF Next
<1>2. CASE UNCHANGED vars
  <2>1. TypeOK' /\ ClockTrue' /\ WindowTrue' /\ DeadlineTrue'
    BY <1>2 DEF vars, clock, budget, limits, block, IInv, TypeOK, ClockTrue, WindowTrue, DeadlineTrue
  <2> QED BY <1>2, <2>1, GrantsStay DEF vars, clock, budget, limits, block, IInv
<1> QED BY <1>1, <1>2

-----------------------------------------------------------------------------
(* Theorems. *)

\* The row tells the truth in every reachable state.
THEOREM Invariance == Spec => []IInv
  BY InitIInv, NextKeeps, PTL DEF Spec

\* Every variable keeps to its type, and a deadline belongs to a closed gate.
THEOREM TypeCorrect == Spec => []TypeOK
  BY Invariance, PTL DEF IInv

\* However many processes share the row, and whatever its limits are changed to, no hour
\* sees more attempts than the limit in force at each of them.
THEOREM Budget == Spec => []BudgetKept
  BY Invariance, PTL DEF IInv

\* Two attempts are never closer than the interval in force at the first one, not even
\* across the end of a window.
THEOREM Spacing == Spec => []SpacingKept
  BY Invariance, PTL DEF IInv

\* The panel's rule for an expired window and the one of the reservation agree.
LEMMA UsageTold == IInv => PanelTellsUsage
<1> SUFFICES ASSUME IInv PROVE PanelTellsUsage
  OBVIOUS
<1> USE DEF IInv
<1>1. /\ now \in Nat /\ hourStart \in Nat /\ windowStart \in Nat
      /\ grants \in Seq(Grant) /\ DOMAIN grants = 1..Len(grants)
  BY DEF TypeOK
<1>2. CASE windowStart = hourStart
  BY <1>1, <1>2, HourAssumption DEF PanelTellsUsage, RequestsUsed, CountTrue, ClockTrue
<1>3. CASE windowStart < hourStart
  <2>1. RequestsUsed = 0
    BY <1>1, <1>3, HourAssumption DEF RequestsUsed, ClockTrue, WindowTrue
  <2>2. \A i \in DOMAIN grants : grants[i].hour # hourStart
    <3> SUFFICES ASSUME NEW i \in DOMAIN grants PROVE grants[i].hour # hourStart
      OBVIOUS
    <3>1. grants[i] \in Grant /\ grants[i].hour <= windowStart
      BY <1>1 DEF WindowTrue
    <3> QED BY <1>1, <1>3, <3>1 DEF Grant
  <2> QED BY <1>1, <2>1, <2>2, NoGrants DEF PanelTellsUsage
<1> QED BY <1>1, <1>2, <1>3 DEF WindowTrue

\* The panel always shows the attempts of the current hour.
THEOREM Usage == Spec => []PanelTellsUsage
  BY Invariance, UsageTold, PTL

\* The gate is opened only after the deadline of the refusal that closed it.
THEOREM Cooldown == Spec => OpensAfterCooldown
<1>1. IInv /\ [Next]_vars => (closed /\ ~closed' => now >= closedUntil)
  <2> SUFFICES ASSUME IInv, [Next]_vars, closed, ~closed' PROVE now >= closedUntil
    OBVIOUS
  <2>1. Resume
    BY DEF Next, vars, block, Tick, Reserve, Answer, Refuse, Forget, Observe, Fail, Block, Configure
  <2> QED BY <2>1 DEF Resume, IInv, DeadlineTrue, TypeOK
<1>2. IInv /\ [Next]_vars => [closed /\ ~closed' => now >= closedUntil]_vars
  BY <1>1
<1> QED BY <1>2, Invariance, PTL DEF Spec, OpensAfterCooldown
=============================================================================
