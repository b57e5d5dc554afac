------------------------------ MODULE Editions ------------------------------
(***************************************************************************)
(* The editions of races and who writes them: importers that save what a   *)
(* page says (`saveCanonicalEvent`), administrators who review, publish,   *)
(* register and unify editions (`applyReconciliation`), and the scan of    *)
(* the catalogue that unifies what links join.                             *)
(*                                                                         *)
(* An importer reads and writes in separate transactions: it looks its     *)
(* identity up, looks for an edition of another source, reads the edition  *)
(* it found, writes it, and writes the reference of its page; the          *)
(* transactions that write are fenced by the lease of its task.  A process *)
(* that lost its lease goes on until such a transaction refuses it.        *)
(*                                                                         *)
(* An edition is its identity, its publication, one observed field         *)
(* (modality, the one a publication requires confirmed) and what           *)
(* administrators decided about the last two.  Dates, places and names     *)
(* only decide whether two pages may be one edition, which is left open.   *)
(*                                                                         *)
(* A definition whose name ends in "Mutant" is the one after it with a     *)
(* plausible bug: the run that checks a property finds it violated then.   *)
(***************************************************************************)
EXTENDS Integers, FiniteSets

CONSTANTS
    Pages,          \* identities of pages: a source and an identifier in it
    SourceOf,       \* [Pages -> sources]
    Priority,       \* [Pages -> Nat]: the priority of the source
    Imported,       \* the pages importers extract; the others administrators register
    Links,          \* sets of two pages, one of which names the edition page of the other
    MaxEvents,      \* bound on the editions ever created
    Procs,          \* processes that import
    MaxLapses,      \* bound on the leases that run out under a process that goes on
    MaxRequests,    \* bound on the decisions and unifications of administrators
    None

ASSUME PagesAssumption == Imported \subseteq Pages /\ None \notin Pages /\ Priority \in [Pages -> Nat]
\* Sources have different priorities, so one of pages of different sources is the best.
ASSUME PriorityAssumption ==
    \A S \in SUBSET Pages :
        S # {} /\ (\A p, q \in S : SourceOf[p] = SourceOf[q] => p = q) =>
            \E p \in S : \A q \in S : Priority[q] < Priority[p] \/ (Priority[q] = Priority[p] /\ p = q)
ASSUME BoundsAssumption == {MaxEvents, MaxRequests, MaxLapses} \subseteq Nat /\ None \notin Nat

VARIABLES
    event,      \* Event, or None: not created, or deleted by a unification
    alias,      \* EventAlias: the edition that stands for a deleted one
    reference,  \* EventSourceReference: the edition of a page
    proc,       \* what each process is doing
    lease,      \* the process whose task is running
    requests, lapses

vars == <<event, alias, reference, proc, lease, requests, lapses>>
bounds == <<requests, lapses>>

Ids == 1..MaxEvents
Modalities == {"road", "unknown"}
\* restricted: hidden or rejected.
Statuses == {"published", "pending_review", "restricted"}
Restricted == {"restricted"}
Reasons == {"modality_unconfirmed", "other"}
\* Audited decisions on a field: its last value, or None.
Decisions == [modality: Modalities \cup {None}, status: Statuses \cup {None}]
Event == [own: Pages, status: Statuses, reviewed: BOOLEAN, modality: Modalities,
          reasons: SUBSET Reasons, decided: Decisions]
\* What one extraction of a page says and how it was judged.
Observation == [modality: Modalities, reasons: SUBSET Reasons]

\* What a page that takes an edition over is going to write.
Columns == [modality: Modalities, reasons: SUBSET Reasons, status: Statuses]

ASSUME NoneAssumption == None \notin Event \cup Columns \cup Modalities \cup Statuses \cup Procs

Idle == [pc |-> "idle"]
Proc == [pc: {"idle"}]
        \cup [pc: {"lookup", "match"}, page: Pages, seen: Observation]
        \cup [pc: {"read"}, page: Pages, seen: Observation, event: Ids, evidence: BOOLEAN]
        \cup [pc: {"merge"}, page: Pages, event: Ids, evidence: BOOLEAN, write: Columns \cup {None}]
        \cup [pc: {"update", "create"}, page: Pages, seen: Observation, event: Ids \cup {None}]
        \cup [pc: {"refer"}, page: Pages, event: Ids]

Live == {e \in Ids : event[e] # None}
Resolve(e) == IF alias[e] = None THEN e ELSE alias[e]
References(e) == {p \in Pages : reference[p] = e}
Identities(e) == References(e) \cup {event[e].own}
NoDecisions == [modality |-> None, status |-> None]

Init ==
    /\ event = [e \in Ids |-> None]
    /\ alias = [e \in Ids |-> None]
    /\ reference = [p \in Pages |-> None]
    /\ proc = [w \in Procs |-> Idle]
    /\ lease = None
    /\ requests = 0 /\ lapses = 0

-----------------------------------------------------------------------------
(* Evidence that two pages are one edition. *)

Shares(p, e) == \E q \in Identities(e) : p = q \/ {p, q} \in Links

SameSource(p, q) == SourceOf[p] = SourceOf[q]

\* crossSourceEditionReason: date, place and validated observations agree or not.
EditionEvidence(p, e, agree) ==
    /\ \A q \in Identities(e) : SameSource(p, q) => p = q
    /\ event[e].status \notin Restricted
    /\ Shares(p, e)
    /\ agree

-----------------------------------------------------------------------------
(* What a write keeps: preserveValidatedMetadata and the administrator's status. *)

\* Only the administrator's decision protects the field.
KeptModalityMutant(incoming, current) == IF current.decided.modality # None THEN current.modality ELSE incoming

\* A reviewed modality stays, and an unknown one never replaces a known one.
KeptModality(incoming, current) ==
    IF current.decided.modality # None \/ incoming = "unknown" THEN current.modality ELSE incoming

KeptReasons(reasons, modality) ==
    (reasons \ {"modality_unconfirmed"}) \cup (IF modality = "unknown" THEN {"modality_unconfirmed"} ELSE {})

\* Only hidden and rejected editions keep their status.
KeptStatusMutant(status, before, after, current) ==
    IF current.status \in Restricted THEN current.status
    ELSE IF after # {} /\ status = "published" THEN "pending_review"
    ELSE status

\* Requirements judge the merged edition: what it lacks keeps it from being
\* published, and a page that only lacked what the edition has does not hide it.
KeptStatus(status, before, after, current) ==
    IF current.reviewed \/ current.status \in Restricted THEN current.status
    ELSE IF after # {} /\ status = "published" THEN "pending_review"
    ELSE IF before = {"modality_unconfirmed"} /\ after = {} /\ current.status = "published" THEN "published"
    ELSE status

\* The columns of an edition after a write of `page` over `current`.
Written(page, modality, reasons, status, current) ==
    LET kept == KeptModality(modality, current)
        after == KeptReasons(reasons, kept)
    IN  [current EXCEPT !.own = page, !.modality = kept, !.reasons = after,
                        !.status = KeptStatus(status, reasons, after, current)]

\* What a page may say: normalizeRaceEventExtraction, and how it is judged.
Extractions == {[modality |-> m, reasons |-> KeptReasons(other, m)] : m \in Modalities, other \in SUBSET {"other"}}
Judged(seen) == IF seen.reasons = {} THEN "published" ELSE "pending_review"

-----------------------------------------------------------------------------
(* An importer. *)

Goto(w, state) == proc' = [proc EXCEPT ![w] = state]
At(w, pc) == proc[w].pc = pc

\* Writes do not look at the lease.
FencedMutant(w) == TRUE

Fenced(w) == lease = w

\* A task is acquired and the page extracted and judged.
Begin(w) ==
    /\ At(w, "idle")
    /\ lease = None
    /\ lease' = w
    /\ \E p \in Imported, seen \in Extractions : Goto(w, [pc |-> "lookup", page |-> p, seen |-> seen])
    /\ UNCHANGED <<event, alias, reference, bounds>>

Owners(p) == {e \in Live : event[e].own = p}
Known(p) == IF Owners(p) # {} THEN Owners(p) ELSE {reference[p]} \ {None}

Linked(w, e, evidence) ==
    [pc |-> "read", page |-> proc[w].page, seen |-> proc[w].seen, event |-> e, evidence |-> evidence]
Direct(w, pc, e) == [pc |-> pc, page |-> proc[w].page, seen |-> proc[w].seen, event |-> e]

\* The edition whose identity is the page, or the one that references it.
Lookup(w) ==
    LET p == proc[w].page
    IN  /\ At(w, "lookup")
        /\ IF Known(p) = {} THEN Goto(w, [proc[w] EXCEPT !.pc = "match"])
           ELSE \E e \in Known(p) :
                Goto(w, IF SameSource(event[e].own, p) THEN Direct(w, "update", e) ELSE Linked(w, e, FALSE))
        /\ UNCHANGED <<event, alias, reference, lease, bounds>>

\* findCanonicalEventMatch: the one edition an edition link names, if the evidence
\* agrees; otherwise an edition to be told from this one in review, or none.
Match(w) ==
    LET p == proc[w].page
        linked == {e \in Live : Shares(p, e)}
    IN  /\ At(w, "match")
        /\ \/ \E e \in linked, agree \in BOOLEAN :
                Goto(w, IF e \in Known(p) \/ (linked = {e} /\ EditionEvidence(p, e, agree))
                        THEN Linked(w, e, TRUE) ELSE Direct(w, "create", e))
           \/ /\ linked = {}
              /\ \E e \in Live \cup {None} : Goto(w, Direct(w, "create", e))
        /\ UNCHANGED <<event, alias, reference, lease, bounds>>

\* The page that takes over an edition seen as `was` brings its columns.
Promoted(seen, was) ==
    LET judged == Judged(seen)
    IN  [modality |-> seen.modality,
         status |-> IF was.status = "published" /\ judged = "pending_review" THEN "published" ELSE judged,
         reasons |-> IF judged = "published" THEN seen.reasons ELSE was.reasons]

\* The edition is read before the transaction that writes it: a page of a better
\* source takes it over, another one only completes it.
ReadExisting(w) ==
    LET e == proc[w].event
        p == proc[w].page
    IN  /\ At(w, "read")
        /\ e \in Live
        /\ Goto(w, [pc |-> "merge", page |-> p, event |-> e, evidence |-> proc[w].evidence,
                    write |-> IF Priority[p] > Priority[event[e].own] THEN Promoted(proc[w].seen, event[e]) ELSE None])
        /\ UNCHANGED <<event, alias, reference, lease, bounds>>

Refer(w, e) == [pc |-> "refer", page |-> proc[w].page, event |-> e]

\* mergeCrossSourceEvent.
MergePage(w) ==
    LET e == proc[w].event
        p == proc[w].page
        write == proc[w].write
    IN  /\ At(w, "merge")
        /\ Fenced(w)
        /\ e \in Live
        /\ proc[w].evidence => \E agree \in BOOLEAN : EditionEvidence(p, e, agree)
        /\ \/ /\ write = None
              /\ event' = event
           \/ /\ write # None
              /\ \A x \in Live \ {e} : event[x].own # p
              /\ event' = [event EXCEPT ![e] = Written(p, write.modality, write.reasons, write.status, event[e])]
        /\ Goto(w, Refer(w, e))
        /\ UNCHANGED <<alias, reference, lease, bounds>>

\* The page the edition comes from is imported again.
UpdateEdition(w) ==
    LET e == proc[w].event
        seen == proc[w].seen
    IN  /\ At(w, "update")
        /\ Fenced(w)
        /\ e \in Live
        /\ \A x \in Live \ {e} : event[x].own # proc[w].page
        /\ event' = [event EXCEPT ![e] = Written(proc[w].page, seen.modality, seen.reasons, Judged(seen), event[e])]
        /\ Goto(w, Refer(w, e))
        /\ UNCHANGED <<alias, reference, lease, bounds>>

Fresh == {e \in Ids : event[e] = None /\ alias[e] = None /\ \A x \in Ids : x < e => event[x] # None \/ alias[x] # None}

NewEvent(p, modality, reasons, status, reviewed) ==
    [own |-> p, status |-> status, reviewed |-> reviewed, modality |-> modality, reasons |-> reasons,
     decided |-> NoDecisions]

\* An edition of its own, in review if it may be a duplicate.
CreateEdition(w) ==
    LET seen == proc[w].seen
        suspect == proc[w].event # None
    IN  /\ At(w, "create")
        /\ Fenced(w)
        /\ Owners(proc[w].page) = {}
        /\ \E e \in Fresh :
             /\ event' = [event EXCEPT ![e] =
                  NewEvent(proc[w].page, seen.modality, seen.reasons \cup (IF suspect THEN {"other"} ELSE {}),
                           IF suspect THEN "pending_review" ELSE Judged(seen), FALSE)]
             /\ Goto(w, Refer(w, e))
        /\ UNCHANGED <<alias, reference, lease, bounds>>

Released(w) == IF lease = w THEN None ELSE lease

\* upsertEventSourceReference, in a transaction of its own; the task ends.
WriteReference(w) ==
    /\ At(w, "refer")
    /\ Fenced(w)
    /\ proc[w].event \in Live
    /\ reference' = [reference EXCEPT ![proc[w].page] = proc[w].event]
    /\ Goto(w, Idle)
    /\ lease' = Released(w)
    /\ UNCHANGED <<event, alias, bounds>>

\* An error: the lease is gone, the edition was unified away, the evidence does not
\* hold any more, the identifier is reused for another year, the identity is taken.
FailImport(w) ==
    /\ ~At(w, "idle")
    /\ Goto(w, Idle)
    /\ lease' = Released(w)
    /\ UNCHANGED <<event, alias, reference, bounds>>

\* The lease runs out under a process that goes on.
LoseLease ==
    /\ lease # None
    /\ lapses < MaxLapses
    /\ lapses' = lapses + 1
    /\ lease' = None
    /\ UNCHANGED <<event, alias, reference, proc, requests>>

-----------------------------------------------------------------------------
(* Administrators. *)

\* Decisions are requested for an identifier and reach the edition it stands for.
Edition(id) == IF Resolve(id) \in Live THEN {Resolve(id)} ELSE {}

\* eventPublicationError; the other requirements always hold here.
MayPublish(modality) == modality # "unknown"

\* PATCH /v1/admin/catalog/events/:id
ReviewEvent(id) ==
    \E e \in Edition(id), m \in Modalities \cup {None}, s \in Statuses \cup {None} :
        LET was == event[e]
            modality == IF m = None THEN was.modality ELSE m
            status == IF s = None THEN was.status ELSE s
        IN  /\ m # None \/ s # None
            /\ status = "published" => MayPublish(modality)
            /\ event' = [event EXCEPT ![e] =
                 [@ EXCEPT !.modality = modality, !.status = status, !.reviewed = TRUE,
                           !.reasons = IF m = None THEN was.reasons ELSE KeptReasons(was.reasons, m),
                           !.decided = [modality |-> IF m = None THEN was.decided.modality ELSE m,
                                        status |-> IF s = None THEN was.decided.status ELSE s]]]
            /\ UNCHANGED <<alias, reference, proc, lease>>

\* publish, hide, reject and PATCH .../publication-status
SetPublication(id) ==
    \E e \in Edition(id), s \in Statuses :
        /\ s = "published" => MayPublish(event[e].modality)
        /\ event' = [event EXCEPT ![e] = [@ EXCEPT !.status = s, !.reviewed = TRUE, !.decided.status = s]]
        /\ UNCHANGED <<alias, reference, proc, lease>>

\* A page nobody imports becomes an edition of its own, for review.
Register(p) ==
    /\ p \notin Imported
    /\ reference[p] = None
    /\ \E e \in IF Owners(p) # {} THEN Owners(p) ELSE Fresh :
         /\ event' = IF e \in Live THEN event
                     ELSE [event EXCEPT ![e] = NewEvent(p, "unknown", {"other"}, "pending_review", TRUE)]
         /\ reference' = [reference EXCEPT ![p] = e]
    /\ UNCHANGED <<alias, proc, lease, bounds>>

-----------------------------------------------------------------------------
(* Unification of two editions. *)

DecidedFields(e) == {f \in {"modality", "status"} : event[e].decided[f] # None}

\* A running task works on a page of one of them.
InUse(s, t) == lease # None /\ ~At(lease, "idle") /\ proc[lease].page \in References(s) \cup References(t)

\* inspect: what refuses a unification.
Unifiable(s, t) ==
    /\ s # t
    /\ {s, t} \subseteq Live
    /\ event[s].status \notin Restricted /\ event[t].status \notin Restricted
    /\ References(s) # {} /\ References(t) # {}
    /\ \A p, q \in References(s) \cup References(t) : SameSource(p, q) => p = q
    /\ \A f \in DecidedFields(s) \cap DecidedFields(t) : event[s][f] = event[t][f]
    /\ ~InUse(s, t)

Primary(s, t) ==
    CHOOSE p \in References(s) \cup References(t) :
        \A q \in References(s) \cup References(t) : Priority[q] < Priority[p] \/ (Priority[q] = Priority[p] /\ p = q)

\* A decided field stays, of the target first; an undecided one comes from the
\* edition of the best page, unless that one does not know it.
UnifiedModality(s, t) ==
    LET preferred == IF Primary(s, t) \in References(s) THEN s ELSE t
    IN  IF "modality" \in DecidedFields(t) THEN event[t].modality
        ELSE IF "modality" \in DecidedFields(s) THEN event[s].modality
        ELSE IF event[preferred].modality # "unknown" THEN event[preferred].modality
        ELSE IF event[t].modality # "unknown" THEN event[t].modality
        ELSE event[s].modality

\* The audited value is taken whether or not there is one.
UnifiedStatusMutant(s, t) ==
    IF "status" \in DecidedFields(t) THEN event[t].decided.status ELSE event[s].decided.status

UnifiedStatus(s, t) ==
    IF "status" \in DecidedFields(t) THEN event[t].status
    ELSE IF "status" \in DecidedFields(s) THEN event[s].status
    ELSE IF "published" \in {event[s].status, event[t].status} THEN "published"
    ELSE event[t].status

\* The audits of both speak for the one that stays.
UnifiedDecisions(s, t) ==
    [f \in {"modality", "status"} |-> IF f \in DecidedFields(t) THEN event[t].decided[f] ELSE event[s].decided[f]]

\* The references of `s` stay with it.
UnifyMutant(s, t) ==
    /\ Unifiable(s, t)
    /\ event' = [event EXCEPT ![s] = None,
                     ![t] = [@ EXCEPT !.own = Primary(s, t), !.modality = UnifiedModality(s, t),
                                      !.status = UnifiedStatus(s, t), !.decided = UnifiedDecisions(s, t),
                                      !.reviewed = event[s].reviewed \/ event[t].reviewed]]
    /\ alias' = [e \in Ids |-> IF e = s \/ alias[e] = s THEN t ELSE alias[e]]
    /\ UNCHANGED <<reference, proc, lease>>

\* applyReconciliation: `s` is deleted, `t` stands for it and for what it stood for.
Unify(s, t) ==
    /\ Unifiable(s, t)
    /\ event' = [event EXCEPT ![s] = None,
                     ![t] = [@ EXCEPT !.own = Primary(s, t), !.modality = UnifiedModality(s, t),
                                      !.status = UnifiedStatus(s, t), !.decided = UnifiedDecisions(s, t),
                                      !.reviewed = event[s].reviewed \/ event[t].reviewed]]
    /\ reference' = [p \in Pages |-> IF reference[p] = s THEN t ELSE reference[p]]
    /\ alias' = [e \in Ids |-> IF e = s \/ alias[e] = s THEN t ELSE alias[e]]
    /\ UNCHANGED <<proc, lease>>

\* Requests name identifiers that may have been unified meanwhile.
UnifyRequest(a, b) == \E s \in Edition(a), t \in Edition(b) : Unify(s, t)

\* Live editions that links join with `e`.
Group(e) == {x \in Live : x = e \/ \E p \in Identities(x) : Shares(p, e)}

\* reconcileCatalogGroup: the scan of the catalogue unifies two editions nobody
\* else is linked with into the earlier one, when the evidence holds of either.
ScanUnify(s, t) ==
    /\ t < s
    /\ s \in Live
    /\ Group(s) = {s, t}
    /\ \E agree \in BOOLEAN : EditionEvidence(event[s].own, t, agree) /\ EditionEvidence(event[t].own, s, agree)
    /\ Unify(s, t)
    /\ UNCHANGED bounds

-----------------------------------------------------------------------------
Administer ==
    \/ \E id \in Ids : ReviewEvent(id) \/ SetPublication(id)
    \/ \E a, b \in Ids : UnifyRequest(a, b)

Request ==
    /\ requests < MaxRequests
    /\ requests' = requests + 1
    /\ UNCHANGED lapses
    /\ Administer

Import(w) ==
    \/ Begin(w) \/ Lookup(w) \/ Match(w) \/ ReadExisting(w)
    \/ MergePage(w) \/ UpdateEdition(w) \/ CreateEdition(w) \/ WriteReference(w)
    \/ FailImport(w)

Next ==
    \/ Request \/ LoseLease
    \/ \E p \in Pages : Register(p)
    \/ \E s, t \in Ids : ScanUnify(s, t)
    \/ \E w \in Procs : Import(w)

Spec == Init /\ [][Next]_vars

-----------------------------------------------------------------------------
TypeOK ==
    /\ event \in [Ids -> Event \cup {None}]
    /\ alias \in [Ids -> Ids \cup {None}]
    /\ reference \in [Pages -> Ids \cup {None}]
    /\ proc \in [Procs -> Proc]
    /\ lease \in Procs \cup {None}
    /\ requests \in 0..MaxRequests /\ lapses \in 0..MaxLapses

\* Every identifier ever given out leads in one step to an edition that exists,
\* however editions were unified, and so does every reference of a page.
NamesResolve ==
    /\ \A e \in Ids : alias[e] # None => event[e] = None /\ alias[e] \in Live
    /\ \A p \in Pages : reference[p] # None => reference[p] \in Live

\* What an administrator decided of an edition holds whatever is imported or
\* unified afterwards, until an administrator decides otherwise.
DecisionsStand ==
    \A e \in Live, f \in {"modality", "status"} : event[e].decided[f] # None => event[e][f] = event[e].decided[f]

\* A page belongs to one edition: the edition whose identity it is is the one
\* its reference names, also after a crash between the two writes.
OneEditionPerPage ==
    \A e \in Live : reference[event[e].own] \in {None, e} /\ Owners(event[e].own) = {e}

\* A known modality is lost only to an administrator's decision.
KnownStays ==
    [][\A e \in Live : event[e].modality # "unknown" /\ event'[e] # None /\ event'[e].modality = "unknown"
          => event'[e].decided.modality = "unknown"]_vars

(* Refinement: aliases and references implement a registry of names. *)
Leads(e) == IF event[e] # None THEN e ELSE alias[e]

Registry == INSTANCE EditionRegistry WITH
    leads <- [e \in Ids |-> Leads(e)],
    page <- reference

\* A name once given out is never free, lost or led elsewhere than the edition it was
\* united with, and no page is moved but with its edition: whatever importers had read
\* before, whichever lease runs out and however editions are unified in chain.
RegistrySpec == Registry!Spec
=============================================================================
