----------------------------- MODULE SourceGate -----------------------------
(***************************************************************************)
(* The gate in front of one source: the row of SourceRequestControl that   *)
(* the API and the executors ask for leave before every HTTP attempt, and  *)
(* that a refusal (401, 403, 429) closes until an administrator opens it.  *)
(*                                                                         *)
(* Time is counted in ticks; hourStart is date_trunc('hour', now).  Every  *)
(* process reads the same clock.  A client told to wait for spacing asks   *)
(* again whenever it likes (its timer runs on another clock); one told to  *)
(* wait for the next window, or for the gate, gives its task back, which   *)
(* TaskQueue models together with the holds that come and go with a block. *)
(* A definition whose name ends in "Mutant" is the operator after it with  *)
(* a plausible bug; nothing uses it.                                       *)
(***************************************************************************)
EXTENDS Naturals, Sequences, FiniteSets

CONSTANTS Clients,       \* whoever sends requests to the source
          Hour,          \* ticks of an hour
          Limits,        \* limitPerHour an administrator may set
          Delays,        \* minDelayMs an administrator may set
          RetryAfters,   \* Retry-After values the source may send
          MaxTime        \* bound of the clock

ASSUME HourAssumption == Hour \in Nat /\ Hour > 1
ASSUME LimitsAssumption == Limits \subseteq Nat \ {0} /\ Limits # {}
ASSUME DelaysAssumption == Delays \subseteq Nat \ {0} /\ Delays # {}
ASSUME RetryAfterAssumption == RetryAfters \subseteq Nat

VARIABLES now, hourStart,
          windowStart, requestCount, limitPerHour, minDelayMs, nextAllowedAt,
          closed,          \* blockedAt is not null
          blockedUntil,    \* NoDeadline when null
          client,          \* what each client is doing
          grants,          \* every attempt allowed so far, under the limits then in force
          closedUntil      \* the deadline of the refusal that closed the gate

clock == <<now, hourStart>>
budget == <<windowStart, requestCount, nextAllowedAt>>
limits == <<limitPerHour, minDelayMs>>
block == <<closed, blockedUntil, closedUntil>>
vars == <<clock, budget, limits, block, client, grants>>

NoDeadline == 0

Grant == [at: Nat, hour: Nat, limit: Limits, delay: Delays]
Client == [phase: {"idle", "sent", "refused", "failing"}, until: Nat]

\* A deadline belongs to a closed gate.
TypeOK ==
    /\ now \in Nat /\ hourStart \in Nat
    /\ windowStart \in Nat /\ requestCount \in Nat /\ nextAllowedAt \in Nat
    /\ limitPerHour \in Limits /\ minDelayMs \in Delays
    /\ closed \in BOOLEAN
    /\ blockedUntil \in Nat /\ closedUntil \in Nat
    /\ ~closed => blockedUntil = NoDeadline
    /\ client \in [Clients -> Client]
    /\ grants \in Seq(Grant)

Init ==
    /\ now = 1 /\ hourStart = 0
    /\ windowStart = 0 /\ requestCount = 0 /\ nextAllowedAt = 1
    /\ limitPerHour \in Limits /\ minDelayMs \in Delays
    /\ closed = FALSE /\ blockedUntil = NoDeadline
    /\ closedUntil = NoDeadline
    /\ client = [c \in Clients |-> [phase |-> "idle", until |-> NoDeadline]]
    /\ grants = <<>>

Tick ==
    /\ now < MaxTime
    /\ now' = now + 1
    /\ hourStart' = IF now + 1 >= hourStart + Hour THEN hourStart + Hour ELSE hourStart
    /\ UNCHANGED <<budget, limits, block, client, grants>>

Becomes(c, phase, until) == client' = [client EXCEPT ![c] = [phase |-> phase, until |-> until]]

-----------------------------------------------------------------------------
(* reserve_source_request. *)

NewWindow == windowStart < hourStart

\* Attempts of the window once it has been renewed.
Used == IF NewWindow THEN 0 ELSE requestCount

BudgetLeftMutant == Used <= limitPerHour

BudgetLeft == Used < limitPerHour

SpacedMutant == NewWindow \/ nextAllowedAt <= now

Spaced == nextAllowedAt <= now

Reserve(c) ==
    /\ client[c].phase = "idle"
    /\ ~closed
    /\ windowStart' = IF NewWindow THEN hourStart ELSE windowStart
    /\ IF BudgetLeft /\ Spaced
         THEN /\ requestCount' = Used + 1
              /\ nextAllowedAt' = now + minDelayMs
              /\ grants' = Append(grants, [at |-> now, hour |-> hourStart,
                                           limit |-> limitPerHour, delay |-> minDelayMs])
              /\ Becomes(c, "sent", NoDeadline)
         ELSE /\ requestCount' = Used
              /\ UNCHANGED <<nextAllowedAt, grants, client>>
    /\ UNCHANGED <<clock, limits, block>>

-----------------------------------------------------------------------------
(* Answers. *)

Answer(c) ==
    /\ client[c].phase = "sent"
    /\ Becomes(c, "idle", NoDeadline)
    /\ UNCHANGED <<clock, budget, limits, block, grants>>

\* A refusal; Retry-After counts from its arrival.
Refuse(c) ==
    /\ client[c].phase = "sent"
    /\ \E until \in {NoDeadline} \cup {now + r : r \in RetryAfters} : Becomes(c, "refused", until)
    /\ UNCHANGED <<clock, budget, limits, block, grants>>

Later(s, t) == IF s < t THEN t ELSE s

AfterBlockMutant(until) == until

\* A gate closed without a deadline gets none later on.
AfterBlock(until) ==
    IF closed /\ blockedUntil = NoDeadline THEN NoDeadline ELSE Later(blockedUntil, until)

\* block_source_requests.
Block(until) ==
    /\ closed' = TRUE
    /\ blockedUntil' = AfterBlock(until)
    /\ closedUntil' = IF closed THEN closedUntil ELSE until

\* The client reports the refusal it was answered with.
Observe(c) ==
    /\ client[c].phase = "refused"
    /\ Block(client[c].until)
    /\ Becomes(c, "failing", NoDeadline)
    /\ UNCHANGED <<clock, budget, limits, grants>>

\* The error reaches the end of the task, which closes the gate once more.
Fail(c) ==
    /\ client[c].phase = "failing"
    /\ Block(NoDeadline)
    /\ Becomes(c, "idle", NoDeadline)
    /\ UNCHANGED <<clock, budget, limits, grants>>

\* A timeout, a lost connection or a crash: nothing of the attempt is heard again.
Forget(c) ==
    /\ client[c].phase # "idle"
    /\ Becomes(c, "idle", NoDeadline)
    /\ UNCHANGED <<clock, budget, limits, block, grants>>

-----------------------------------------------------------------------------
(* Administration. *)

ResumeMutant ==
    /\ ~(blockedUntil > now)
    /\ closed' = FALSE
    /\ UNCHANGED <<clock, budget, limits, blockedUntil, closedUntil, client, grants>>

Resume ==
    /\ ~(blockedUntil > now)
    /\ closed' = FALSE /\ blockedUntil' = NoDeadline
    /\ closedUntil' = NoDeadline
    /\ UNCHANGED <<clock, budget, limits, client, grants>>

Configure ==
    /\ limitPerHour' \in Limits /\ minDelayMs' \in Delays
    /\ UNCHANGED <<clock, budget, block, client, grants>>

\* What the panel shows: publicSourceControl.
RequestsUsed == IF windowStart + Hour <= now THEN 0 ELSE requestCount

-----------------------------------------------------------------------------

Next ==
    \/ Tick \/ Resume \/ Configure
    \/ \E c \in Clients : Reserve(c) \/ Answer(c) \/ Refuse(c) \/ Observe(c) \/ Fail(c) \/ Forget(c)

Spec == Init /\ [][Next]_vars

-----------------------------------------------------------------------------
(* Properties. *)

GrantsOf(gs, hour, n) == {i \in 1..n : gs[i].hour = hour}

\* "padrão de 100 tentativas HTTP por hora por fonte" (docs/NATIONAL-CATALOG.md), shared
\* by every process: no attempt is allowed beyond the limit then in force, whatever
\* windows, blocks, resumptions and changes of the limits came before.
BudgetKept == \A i \in DOMAIN grants : Cardinality(GrantsOf(grants, grants[i].hour, i)) <= grants[i].limit

\* "intervalo mínimo": an attempt comes no sooner after the one before it, by whichever
\* process and in whichever window, than the interval in force at that one.
SpacingKept == \A i \in DOMAIN grants : i > 1 => grants[i].at >= grants[i - 1].at + grants[i - 1].delay

\* "Alterar limites não zera uso": the usage the panel computes by its own rule for the
\* end of a window is the number of attempts allowed in this hour.
PanelTellsUsage == RequestsUsed = Cardinality(GrantsOf(grants, hourStart, Len(grants)))

\* The deadline of the refusal that closed the gate stands, whatever refusals follow it:
\* "Do not discard an already observed Retry-After" (tests/source-request-control.integration.test.ts).
OpensAfterCooldown == [][closed /\ ~closed' => now >= closedUntil]_vars

=============================================================================
