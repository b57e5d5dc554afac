--------------------------- MODULE EditionsProofs ---------------------------
(***************************************************************************)
(* Proofs about Editions for any pages, importers, identifiers and links   *)
(* between pages.                                                          *)
(*                                                                         *)
(* An importer reads in one transaction and writes in a later one, so what *)
(* it read may be stale when it writes. The invariant has three parts.     *)
(* Stored says what the tables promise on their own, with what the         *)
(* promises rest on: whoever decided the publication of an edition had     *)
(* reviewed it, and the two halves of one edition per page, of the page an *)
(* edition is of and of the references (OwnPages, OwnReferences). Working  *)
(* says importers are at imported pages, which registration never touches. *)
(* LeaseSecure is what the rest hangs on: what an importer has found out   *)
(* about its page, that nobody has it or that only its own edition does,   *)
(* is still so as long as its task is its own. A unification cannot spoil  *)
(* it because it is refused while a running task works on a page of either *)
(* edition, and a write of an importer whose lease is over is refused, so  *)
(* nothing needs to be said of its reads.                                  *)
(***************************************************************************)
EXTENDS Editions, TLAPS

-----------------------------------------------------------------------------
(* The inductive invariant. *)

\* The two halves of OneEditionPerPage: no two editions are of one page, and the
\* reference of the page an edition is of names no other edition.
OwnPages == \A e, x \in Live : event[e].own = event[x].own => e = x
OwnReferences == \A e \in Live : reference[event[e].own] \in {None, e}

\* Whoever decides the publication of an edition has reviewed it.
Reviewed == \A e \in Live : event[e].decided.status # None => event[e].reviewed

\* What holds of the tables, and of the processes, alone.
StoreTyped ==
    /\ event \in [Ids -> Event \cup {None}]
    /\ alias \in [Ids -> Ids \cup {None}]
    /\ reference \in [Pages -> Ids \cup {None}]
RunTyped ==
    /\ proc \in [Procs -> Proc]
    /\ lease \in Procs \cup {None}
    /\ requests \in 0..MaxRequests /\ lapses \in 0..MaxLapses
Stored == StoreTyped /\ NamesResolve /\ DecisionsStand /\ Reviewed /\ OwnPages /\ OwnReferences

\* Importers work on pages that are imported.
Working == \A w \in Procs : ~At(w, "idle") => proc[w].page \in Imported

\* What an importer has found out about its page is still so while its task is
\* its own: nobody else refers the page or makes an edition of it.
Secure(w) ==
    LET p == proc[w].page
        e == proc[w].event
    IN  /\ proc[w].pc \in {"match", "create"} => reference[p] = None /\ Owners(p) = {}
        /\ proc[w].pc \in {"read", "merge", "update", "refer"} => reference[p] \in {None, e} /\ Owners(p) \subseteq {e}
LeaseSecure == lease # None => ~At(lease, "idle") /\ Secure(lease)

\* What KnownStays asks of a step.
KnownStep ==
    \A e \in Live : event[e].modality # "unknown" /\ event'[e] # None /\ event'[e].modality = "unknown"
        => event'[e].decided.modality = "unknown"

IInv == Stored /\ RunTyped /\ Working /\ LeaseSecure

-----------------------------------------------------------------------------
(* Editions. *)

LEMMA LiveTyped ==
  ASSUME StoreTyped, NEW e \in Live
  PROVE  e \in Ids /\ event[e] \in Event /\ event[e] # None
BY DEF StoreTyped, Live

\* An edition is written over.
LEMMA Edited ==
  ASSUME StoreTyped, NEW e \in Live, NEW new \in Event, event' = [event EXCEPT ![e] = new]
  PROVE  /\ event' \in [Ids -> Event \cup {None}] /\ Live' = Live
         /\ event'[e] = new /\ \A x \in Ids \ {e} : event'[x] = event[x]
<1>1. e \in Ids /\ event[e] # None /\ event \in [Ids -> Event \cup {None}] /\ new # None
  BY LiveTyped, NoneAssumption DEF StoreTyped
<1>2. event'[e] = new /\ \A x \in Ids \ {e} : event'[x] = event[x]
  BY <1>1
<1> QED
  BY <1>1, <1>2 DEF Live

\* An edition is created.
LEMMA Added ==
  ASSUME StoreTyped, NEW e \in Fresh, NEW new \in Event, event' = [event EXCEPT ![e] = new]
  PROVE  /\ event' \in [Ids -> Event \cup {None}] /\ Live' = Live \cup {e} /\ e \notin Live
         /\ event'[e] = new /\ \A x \in Ids \ {e} : event'[x] = event[x]
         /\ e \in Ids /\ alias[e] = None
<1>1. e \in Ids /\ event[e] = None /\ alias[e] = None /\ event \in [Ids -> Event \cup {None}] /\ new # None
  BY NoneAssumption DEF StoreTyped, Fresh
<1>2. event'[e] = new /\ \A x \in Ids \ {e} : event'[x] = event[x]
  BY <1>1
<1> QED
  BY <1>1, <1>2 DEF Live

LEMMA OneEditionParts ==
  ASSUME StoreTyped
  PROVE  OneEditionPerPage <=> OwnPages /\ OwnReferences
BY DEF StoreTyped, Live, OneEditionPerPage, OwnPages, OwnReferences, Owners

\* What a write of a page leaves of the edition.
LEMMA WrittenKeeps ==
  ASSUME NEW page \in Pages, NEW modality \in Modalities, NEW reasons \in SUBSET Reasons, NEW status \in Statuses,
         NEW current \in Event
  PROVE  LET new == Written(page, modality, reasons, status, current)
         IN  /\ new \in Event /\ new.own = page /\ new.reviewed = current.reviewed /\ new.decided = current.decided
             /\ current.decided.modality # None => new.modality = current.modality
             /\ new.modality = "unknown" => current.modality = "unknown"
             /\ current.reviewed => new.status = current.status
<1> DEFINE kept == KeptModality(modality, current)
           after == KeptReasons(reasons, kept)
           kstatus == KeptStatus(status, reasons, after, current)
<1>1. kept \in Modalities
  BY DEF KeptModality, Event
<1>2. after \in SUBSET Reasons
  BY DEF KeptReasons, Reasons
<1>3. kstatus \in Statuses /\ (current.reviewed => kstatus = current.status)
  BY DEF KeptStatus, Event, Statuses
<1>4. /\ current.decided.modality # None => kept = current.modality
      /\ kept = "unknown" => current.modality = "unknown"
  BY DEF KeptModality, Event
<1>5. Written(page, modality, reasons, status, current) =
      [current EXCEPT !.own = page, !.modality = kept, !.reasons = after, !.status = kstatus]
  BY DEF Written
<1> HIDE DEF kept, after, kstatus
<1> QED
  BY <1>1, <1>2, <1>3, <1>4, <1>5 DEF Event

LEMMA NewEventTyped ==
  ASSUME NEW p \in Pages, NEW modality \in Modalities, NEW reasons \in SUBSET Reasons, NEW status \in Statuses,
         NEW reviewed \in BOOLEAN
  PROVE  LET new == NewEvent(p, modality, reasons, status, reviewed)
         IN  /\ new \in Event /\ new.own = p
             /\ new.decided.modality = None /\ new.decided.status = None
BY DEF NewEvent, Event, NoDecisions, Decisions

LEMMA TypeParts == TypeOK <=> StoreTyped /\ RunTyped
BY DEF TypeOK, StoreTyped, RunTyped

LEMMA DecisionParts ==
  DecisionsStand <=>
    \A e \in Live : /\ event[e].decided.modality # None => event[e].modality = event[e].decided.modality
                    /\ event[e].decided.status # None => event[e].status = event[e].decided.status
BY DEF DecisionsStand

\* A page names editions that exist.
LEMMA KnownLive ==
  ASSUME Stored, NEW p \in Pages, NEW e \in Known(p)
  PROVE  e \in Live /\ reference[p] \in {None, e} /\ Owners(p) \subseteq {e}
<1>1. CASE Owners(p) # {}
  <2>1. e \in Owners(p)
    BY <1>1 DEF Known
  <2> QED
    BY <2>1 DEF Owners, Stored, OwnPages, OwnReferences
<1>2. CASE Owners(p) = {}
  <2>1. e = reference[p] /\ e # None
    BY <1>2 DEF Known
  <2> QED
    BY <1>2, <2>1 DEF Stored, NamesResolve
<1> QED
  BY <1>1, <1>2

LEMMA EditionLive ==
  ASSUME NEW id \in Ids, NEW e \in Edition(id)
  PROVE  e \in Live
BY DEF Edition

\* What an edit of an edition has to respect.
LEMMA EditKeeps ==
  ASSUME Stored, NEW e \in Live, NEW new \in Event, event' = [event EXCEPT ![e] = new],
         UNCHANGED <<alias, reference>>,
         new.decided.modality # None => new.modality = new.decided.modality,
         new.decided.status # None => new.status = new.decided.status /\ new.reviewed,
         \A x \in Live \ {e} : event[x].own # new.own,
         reference[new.own] \in {None, e},
         event[e].modality # "unknown" /\ new.modality = "unknown" => new.decided.modality = "unknown"
  PROVE  Stored' /\ KnownStep
<1>1. StoreTyped /\ e \in Ids
  BY LiveTyped DEF Stored
<1>2. /\ event' \in [Ids -> Event \cup {None}] /\ Live' = Live
      /\ event'[e] = new /\ \A x \in Ids \ {e} : event'[x] = event[x]
  BY <1>1, Edited
<1>3. \A x \in Live : x \in Ids
  BY DEF Live
<1>4. StoreTyped'
  BY <1>1, <1>2 DEF StoreTyped
<1>5. NamesResolve'
  <2>1. \A x \in Ids : alias[x] # None => x # e
    BY DEF Stored, NamesResolve, Live
  <2> QED
    BY <1>2, <2>1 DEF Stored, NamesResolve
<1>6. DecisionsStand'
  <2>1. \A x \in Live' :
          /\ event'[x].decided.modality # None => event'[x].modality = event'[x].decided.modality
          /\ event'[x].decided.status # None => event'[x].status = event'[x].decided.status
    BY <1>2, <1>3, DecisionParts DEF Stored
  <2> QED
    BY <2>1 DEF DecisionsStand
<1>7. Reviewed'
  BY <1>2, <1>3 DEF Stored, Reviewed
<1>8. OwnPages' /\ OwnReferences'
  BY <1>2, <1>3 DEF Stored, OwnPages, OwnReferences
<1>9. KnownStep
  BY <1>2, <1>3 DEF KnownStep
<1> QED
  BY <1>4, <1>5, <1>6, <1>7, <1>8, <1>9 DEF Stored

\* What a new edition has to respect.
LEMMA AddKeeps ==
  ASSUME Stored, NEW e \in Fresh, NEW new \in Event, event' = [event EXCEPT ![e] = new],
         alias' = alias,
         new.decided.modality = None, new.decided.status = None,
         Owners(new.own) = {},
         reference' \in [Pages -> Ids \cup {None}],
         \A p \in Pages \ {new.own} : reference'[p] = reference[p],
         reference'[new.own] \in {None, e}
  PROVE  Stored' /\ KnownStep
<1>1. StoreTyped
  BY DEF Stored
<1>2. /\ event' \in [Ids -> Event \cup {None}] /\ Live' = Live \cup {e} /\ e \notin Live
      /\ event'[e] = new /\ \A x \in Ids \ {e} : event'[x] = event[x]
      /\ e \in Ids /\ alias[e] = None
  BY <1>1, Added
<1>3. /\ \A x \in Live : x \in Ids /\ x # e /\ event'[x] = event[x] /\ event[x].own \in Pages
      /\ \A x \in Live : event[x].own # new.own
      /\ new.own \in Pages
  BY <1>1, <1>2, LiveTyped DEF Live, Owners, Event
<1>4. StoreTyped'
  BY <1>1, <1>2 DEF StoreTyped
<1>5. NamesResolve'
  <2>1. \A x \in Ids : alias'[x] # None => event'[x] = None /\ alias'[x] \in Live'
    BY <1>2 DEF Stored, NamesResolve
  <2>2. \A p \in Pages : reference'[p] # None => reference'[p] \in Live'
    BY <1>2, <1>3 DEF Stored, NamesResolve
  <2> QED
    BY <2>1, <2>2 DEF NamesResolve
<1>6. DecisionsStand'
  <2>1. \A x \in Live' :
          /\ event'[x].decided.modality # None => event'[x].modality = event'[x].decided.modality
          /\ event'[x].decided.status # None => event'[x].status = event'[x].decided.status
    BY <1>2, <1>3, DecisionParts DEF Stored
  <2> QED
    BY <2>1 DEF DecisionsStand
<1>7. Reviewed'
  BY <1>2, <1>3 DEF Stored, Reviewed
<1>8. OwnPages'
  BY <1>2, <1>3 DEF Stored, OwnPages
<1>9. OwnReferences'
  BY <1>2, <1>3 DEF Stored, OwnReferences
<1>10. KnownStep
  BY <1>3 DEF KnownStep
<1> QED
  BY <1>4, <1>5, <1>6, <1>7, <1>8, <1>9, <1>10 DEF Stored

LEMMA StoreFrame ==
  ASSUME Stored, UNCHANGED <<event, alias, reference>>
  PROVE  Stored' /\ KnownStep
<1>1. Stored'
  BY DEF Stored, StoreTyped, NamesResolve, DecisionsStand, Reviewed, OwnPages, OwnReferences, Live
<1> QED
  BY <1>1 DEF KnownStep

-----------------------------------------------------------------------------
(* Importers. *)

LEMMA ProcParts ==
  ASSUME NEW x \in Proc
  PROVE  /\ x.pc \in {"idle", "lookup", "match", "read", "merge", "update", "create", "refer"}
         /\ x.pc = "lookup" => x.page \in Pages /\ x.seen \in Observation /\ [x EXCEPT !.pc = "match"] \in Proc
         /\ x.pc = "match" => x.page \in Pages /\ x.seen \in Observation
         /\ x.pc = "read" => x.page \in Pages /\ x.seen \in Observation /\ x.event \in Ids /\ x.evidence \in BOOLEAN
         /\ x.pc = "merge" => x.page \in Pages /\ x.event \in Ids /\ x.write \in Columns \cup {None}
         /\ x.pc \in {"update", "create"} =>
                x.page \in Pages /\ x.seen \in Observation /\ x.event \in Ids \cup {None}
         /\ x.pc = "refer" => x.page \in Pages /\ x.event \in Ids
<1>1. CASE x \in [pc: {"idle"}]
  BY <1>1
<1>2. CASE x \in [pc: {"lookup", "match"}, page: Pages, seen: Observation]
  <2>1. [x EXCEPT !.pc = "match"] \in [pc: {"lookup", "match"}, page: Pages, seen: Observation]
    BY <1>2
  <2> QED
    BY <1>2, <2>1 DEF Proc
<1>3. CASE x \in [pc: {"read"}, page: Pages, seen: Observation, event: Ids, evidence: BOOLEAN]
  BY <1>3
<1>4. CASE x \in [pc: {"merge"}, page: Pages, event: Ids, evidence: BOOLEAN, write: Columns \cup {None}]
  BY <1>4
<1>5. CASE x \in [pc: {"update", "create"}, page: Pages, seen: Observation, event: Ids \cup {None}]
  BY <1>5
<1>6. CASE x \in [pc: {"refer"}, page: Pages, event: Ids]
  BY <1>6
<1> QED
  BY <1>1, <1>2, <1>3, <1>4, <1>5, <1>6 DEF Proc

LEMMA Goes ==
  ASSUME RunTyped, NEW w \in Procs, NEW new \in Proc, Goto(w, new)
  PROVE  /\ proc' \in [Procs -> Proc] /\ proc'[w] = new
         /\ \A v \in Procs \ {w} : proc'[v] = proc[v]
BY DEF RunTyped, Goto

\* What a step of an importer has to respect.
LEMMA Steps ==
  ASSUME IInv, Stored', NEW w \in Procs, NEW new \in Proc, Goto(w, new), UNCHANGED bounds,
         new.pc # "idle" => new.page \in Imported,
         lease' \in Procs \cup {None},
         lease' = w => new.pc # "idle" /\ Secure(w)',
         lease' # w => lease' \in {lease, None} /\ (lease' # None => UNCHANGED <<event, reference>>)
  PROVE  IInv'
<1>1. /\ proc' \in [Procs -> Proc] /\ proc'[w] = new
      /\ \A v \in Procs \ {w} : proc'[v] = proc[v]
  BY Goes DEF IInv
<1>2. RunTyped'
  BY <1>1 DEF IInv, RunTyped, bounds
<1>3. Working'
  BY <1>1 DEF IInv, Working, At
<1>4. LeaseSecure'
  <2>1. CASE lease' = w
    BY <2>1, <1>1 DEF LeaseSecure, At
  <2>2. CASE lease' # w /\ lease' # None
    <3>1. lease' = lease /\ lease \in Procs \ {w} /\ proc'[lease] = proc[lease] /\ UNCHANGED <<event, reference>>
      BY <2>2, <1>1
    <3> QED
      BY <2>2, <3>1 DEF IInv, LeaseSecure, Secure, At, Owners, Live
  <2>3. CASE lease' = None
    BY <2>3 DEF LeaseSecure
  <2> QED
    BY <2>1, <2>2, <2>3
<1> QED
  BY <1>2, <1>3, <1>4 DEF IInv

\* A process at work has a page, and its task, while it is its own, is secure.
LEMMA AtWork ==
  ASSUME IInv, NEW w \in Procs, ~At(w, "idle")
  PROVE  proc[w] \in Proc /\ proc[w].page \in Imported /\ proc[w].page \in Pages /\ (lease = w => Secure(w))
<1>1. proc[w] \in Proc
  BY DEF IInv, RunTyped
<1>2. proc[w].page \in Imported
  BY DEF IInv, Working
<1>3. lease = w => Secure(w)
  BY NoneAssumption DEF IInv, LeaseSecure
<1> QED
  BY <1>1, <1>2, <1>3, PagesAssumption

\* A step that only reads.
LEMMA Reads ==
  ASSUME IInv, NEW w \in Procs, ~At(w, "idle"), NEW new \in Proc, Goto(w, new), new.pc # "idle",
         new.page = proc[w].page, UNCHANGED <<event, alias, reference, lease, bounds>>,
         lease = w => Secure(w)'
  PROVE  IInv' /\ KnownStep
<1>1. Stored' /\ KnownStep
  BY StoreFrame DEF IInv
<1>2. lease' \in Procs \cup {None}
  BY DEF IInv, RunTyped
<1>3. new.page \in Imported
  BY AtWork
<1>4. UNCHANGED bounds /\ lease' = lease /\ UNCHANGED <<event, reference>>
  OBVIOUS
<1> QED
  BY <1>1, <1>2, <1>3, <1>4, Steps

LEMMA BeginKeeps ==
  ASSUME IInv, NEW w \in Procs, Begin(w)
  PROVE  IInv' /\ KnownStep
<1>1. PICK p \in Imported, seen \in Extractions : Goto(w, [pc |-> "lookup", page |-> p, seen |-> seen])
  BY DEF Begin
<1>2. seen \in Observation
  <2>1. PICK m \in Modalities, other \in SUBSET {"other"} :
          seen = [modality |-> m, reasons |-> KeptReasons(other, m)]
    BY DEF Extractions
  <2>2. KeptReasons(other, m) \in SUBSET Reasons
    BY DEF KeptReasons, Reasons
  <2> QED
    BY <2>1, <2>2 DEF Observation
<1> DEFINE new == [pc |-> "lookup", page |-> p, seen |-> seen]
<1>3. new \in Proc
  <2>1. new \in [pc: {"lookup", "match"}, page: Pages, seen: Observation]
    BY <1>2, PagesAssumption
  <2> QED
    BY <2>1 DEF Proc
<1>4. Stored' /\ KnownStep
  BY StoreFrame DEF IInv, Begin
<1>5. proc'[w] = new
  BY <1>1, <1>3, Goes DEF IInv
<1>6. Secure(w)'
  BY <1>5 DEF Secure
<1>7. lease' = w /\ UNCHANGED bounds
  BY DEF Begin
<1>8. new.pc # "idle" /\ new.page \in Imported
  OBVIOUS
<1> HIDE DEF new
<1> QED
  BY <1>1, <1>3, <1>4, <1>6, <1>7, <1>8, Steps DEF new

LEMMA LookupKeeps ==
  ASSUME IInv, NEW w \in Procs, Lookup(w)
  PROVE  IInv' /\ KnownStep
<1> DEFINE p == proc[w].page
<1>1. At(w, "lookup") /\ ~At(w, "idle") /\ UNCHANGED <<event, alias, reference, lease, bounds>>
  BY DEF Lookup, At
<1>2. proc[w] \in Proc /\ p \in Pages /\ proc[w].seen \in Observation /\ [proc[w] EXCEPT !.pc = "match"] \in Proc
  BY <1>1, AtWork, ProcParts DEF At
<1>3. Live' = Live /\ Owners(p)' = {e \in Live : event[e].own = p'}
  BY <1>1 DEF Live, Owners
<1>4. CASE Known(p) = {}
  <2> DEFINE new == [proc[w] EXCEPT !.pc = "match"]
  <2>1. Goto(w, new)
    BY <1>4 DEF Lookup
  <2>2. new \in Proc /\ new.pc = "match" /\ new.page = p
    BY <1>1, <1>2, ProcParts DEF Proc, At
  <2>3. proc'[w] = new
    BY <2>1, <2>2, Goes DEF IInv
  <2>4. reference[p] = None /\ Owners(p) = {}
    BY <1>4 DEF Known
  <2>5. Secure(w)'
    BY <2>2, <2>3, <2>4, <1>1 DEF Secure, Owners, Live
  <2> HIDE DEF new
  <2> QED
    BY <1>1, <2>1, <2>2, <2>5, Reads
<1>5. CASE Known(p) # {}
  <2>1. PICK e \in Known(p) :
          Goto(w, IF SameSource(event[e].own, p) THEN Direct(w, "update", e) ELSE Linked(w, e, FALSE))
    BY <1>5 DEF Lookup
  <2> DEFINE new == IF SameSource(event[e].own, p) THEN Direct(w, "update", e) ELSE Linked(w, e, FALSE)
  <2>2. e \in Live /\ e \in Ids /\ reference[p] \in {None, e} /\ Owners(p) \subseteq {e}
    BY <1>2, KnownLive DEF IInv, Live
  <2>3. new \in Proc /\ new.pc \in {"read", "update"} /\ new.page = p /\ new.event = e
    <3>1. CASE SameSource(event[e].own, p)
      <4>1. Direct(w, "update", e) \in [pc: {"update", "create"}, page: Pages, seen: Observation, event: Ids \cup {None}]
        BY <1>2, <2>2 DEF Direct
      <4> QED
        BY <3>1, <4>1 DEF Proc, Direct
    <3>2. CASE ~SameSource(event[e].own, p)
      <4>1. Linked(w, e, FALSE) \in
              [pc: {"read"}, page: Pages, seen: Observation, event: Ids, evidence: BOOLEAN]
        BY <1>2, <2>2 DEF Linked
      <4> QED
        BY <3>2, <4>1 DEF Proc, Linked
    <3> QED
      BY <3>1, <3>2
  <2> HIDE DEF new
  <2>4. proc'[w] = new
    BY <2>1, <2>3, Goes DEF IInv, new
  <2>5. Secure(w)'
    BY <2>2, <2>3, <2>4, <1>1 DEF Secure, Owners, Live
  <2> QED
    BY <1>1, <2>1, <2>3, <2>5, Reads DEF new
<1> QED
  BY <1>4, <1>5

LEMMA MatchKeeps ==
  ASSUME IInv, NEW w \in Procs, Match(w)
  PROVE  IInv' /\ KnownStep
<1> DEFINE p == proc[w].page
<1>1. At(w, "match") /\ ~At(w, "idle") /\ UNCHANGED <<event, alias, reference, lease, bounds>>
  BY DEF Match, At
<1>2. proc[w] \in Proc /\ p \in Pages /\ proc[w].seen \in Observation
  BY <1>1, AtWork, ProcParts DEF At
<1>3. lease = w => reference[p] = None /\ Owners(p) = {}
  BY <1>1, AtWork DEF Secure, At
<1>4. \A new \in Proc : Goto(w, new) /\ new.pc \in {"read", "create"} /\ new.page = p => IInv' /\ KnownStep
  <2>1. SUFFICES ASSUME NEW new \in Proc, Goto(w, new), new.pc \in {"read", "create"}, new.page = p
                 PROVE  IInv' /\ KnownStep
    OBVIOUS
  <2>2. proc'[w] = new
    BY <2>1, Goes DEF IInv
  <2>3. lease = w => Secure(w)'
    BY <2>1, <2>2, <1>1, <1>3 DEF Secure, Owners, Live
  <2>4. new.pc # "idle"
    BY <2>1
  <2> QED
    BY <1>1, <2>1, <2>3, <2>4, Reads
<1>5. \A e \in Ids : Linked(w, e, TRUE) \in Proc /\ Linked(w, e, TRUE).pc = "read" /\ Linked(w, e, TRUE).page = p
  <2>1. \A e \in Ids : Linked(w, e, TRUE) \in
           [pc: {"read"}, page: Pages, seen: Observation, event: Ids, evidence: BOOLEAN]
    BY <1>2 DEF Linked
  <2> QED
    BY <2>1 DEF Proc, Linked
<1>6. \A e \in Ids \cup {None} :
        Direct(w, "create", e) \in Proc /\ Direct(w, "create", e).pc = "create" /\ Direct(w, "create", e).page = p
  <2>1. \A e \in Ids \cup {None} : Direct(w, "create", e) \in
           [pc: {"update", "create"}, page: Pages, seen: Observation, event: Ids \cup {None}]
    BY <1>2 DEF Direct
  <2> QED
    BY <2>1 DEF Proc, Direct
<1>7. \E e \in Ids \cup {None} : (e \in Ids /\ Goto(w, Linked(w, e, TRUE))) \/ Goto(w, Direct(w, "create", e))
  BY DEF Match, Live
<1> QED
  BY <1>4, <1>5, <1>6, <1>7

LEMMA ReadExistingKeeps ==
  ASSUME IInv, NEW w \in Procs, ReadExisting(w)
  PROVE  IInv' /\ KnownStep
<1> DEFINE p == proc[w].page
           e == proc[w].event
           write == IF Priority[p] > Priority[event[e].own] THEN Promoted(proc[w].seen, event[e]) ELSE None
           new == [pc |-> "merge", page |-> p, event |-> e, evidence |-> proc[w].evidence, write |-> write]
<1>1. /\ At(w, "read") /\ ~At(w, "idle") /\ UNCHANGED <<event, alias, reference, lease, bounds>>
      /\ e \in Live /\ Goto(w, new)
  BY DEF ReadExisting, At
<1>2. proc[w] \in Proc /\ p \in Pages /\ proc[w].seen \in Observation /\ e \in Ids /\ proc[w].evidence \in BOOLEAN
  BY <1>1, AtWork, ProcParts DEF At
<1>3. event[e] \in Event
  BY <1>1, LiveTyped DEF IInv, Stored
<1>4. Promoted(proc[w].seen, event[e]) \in Columns
  BY <1>2, <1>3 DEF Promoted, Judged, Columns, Event, Observation, Statuses
<1>5. new \in Proc
  <2>1. write \in Columns \cup {None}
    BY <1>4
  <2>2. new \in [pc: {"merge"}, page: Pages, event: Ids, evidence: BOOLEAN, write: Columns \cup {None}]
    BY <1>2, <2>1
  <2> QED
    BY <2>2 DEF Proc
<1>6. new.pc = "merge" /\ new.page = p /\ new.event = e
  OBVIOUS
<1> HIDE DEF new
<1>7. proc'[w] = new
  BY <1>1, <1>5, Goes DEF IInv
<1>8. lease = w => reference[p] \in {None, e} /\ Owners(p) \subseteq {e}
  BY <1>1, AtWork DEF Secure, At
<1>9. lease = w => Secure(w)'
  BY <1>1, <1>6, <1>7, <1>8 DEF Secure, Owners, Live
<1> QED
  BY <1>1, <1>5, <1>6, <1>9, Reads

LEMMA DecisionsOf ==
  ASSUME Stored, NEW e \in Live
  PROVE  /\ event[e].decided.modality # None => event[e].modality = event[e].decided.modality
         /\ event[e].decided.status # None => event[e].status = event[e].decided.status /\ event[e].reviewed
BY DecisionParts DEF Stored, Reviewed

\* A page writes the edition that is its own, or that no edition contends for.
LEMMA WrittenStored ==
  ASSUME Stored, NEW e \in Live, NEW p \in Pages, NEW modality \in Modalities, NEW reasons \in SUBSET Reasons,
         NEW status \in Statuses,
         event' = [event EXCEPT ![e] = Written(p, modality, reasons, status, event[e])],
         UNCHANGED <<alias, reference>>,
         \A x \in Live \ {e} : event[x].own # p,
         reference[p] \in {None, e}
  PROVE  Stored' /\ KnownStep /\ Live' = Live /\ \A x \in Live' : event'[x].own = p => x = e
<1> DEFINE new == Written(p, modality, reasons, status, event[e])
<1>1. e \in Ids /\ event[e] \in Event
  BY LiveTyped DEF Stored
<1>2. /\ new \in Event /\ new.own = p /\ new.reviewed = event[e].reviewed /\ new.decided = event[e].decided
      /\ event[e].decided.modality # None => new.modality = event[e].modality
      /\ new.modality = "unknown" => event[e].modality = "unknown"
      /\ event[e].reviewed => new.status = event[e].status
  BY <1>1, WrittenKeeps
<1>3. event' = [event EXCEPT ![e] = new]
  OBVIOUS
<1> HIDE DEF new
<1>4. /\ new.decided.modality # None => new.modality = new.decided.modality
      /\ new.decided.status # None => new.status = new.decided.status /\ new.reviewed
  BY <1>2, DecisionsOf
<1>5. /\ UNCHANGED <<alias, reference>>
      /\ \A x \in Live \ {e} : event[x].own # new.own
      /\ reference[new.own] \in {None, e}
      /\ event[e].modality # "unknown" /\ new.modality = "unknown" => new.decided.modality = "unknown"
  BY <1>2
<1>6. Stored' /\ KnownStep
  BY <1>2, <1>3, <1>4, <1>5, EditKeeps
<1>7. Live' = Live /\ \A x \in Live \ {e} : event'[x] = event[x]
  BY <1>2, <1>3, Edited DEF Stored, Live
<1>8. \A x \in Live' : event'[x].own = p => x = e
  BY <1>7
<1> QED
  BY <1>6, <1>7, <1>8

\* A write under the lease is followed by the reference of the page.
LEMMA Writes ==
  ASSUME IInv, NEW w \in Procs, ~At(w, "idle"), lease = w, NEW e \in Ids, Goto(w, Refer(w, e)),
         Stored', UNCHANGED <<reference, lease, bounds>>, reference[proc[w].page] \in {None, e},
         \A x \in Live' : event'[x].own = proc[w].page => x = e
  PROVE  IInv'
<1> DEFINE new == Refer(w, e)
<1>1. new \in Proc /\ new.pc = "refer" /\ new.page = proc[w].page /\ new.event = e
  <2>1. new \in [pc: {"refer"}, page: Pages, event: Ids]
    BY AtWork DEF Refer
  <2> QED
    BY <2>1 DEF Proc, Refer
<1> HIDE DEF new
<1>2. proc'[w] = new
  BY <1>1, Goes DEF IInv, new
<1>3. Secure(w)'
  BY <1>1, <1>2 DEF Secure, Owners
<1>4. new.page \in Imported /\ lease' = w /\ new.pc # "idle"
  BY <1>1, AtWork
<1> QED
  BY <1>1, <1>3, <1>4, Steps DEF new

LEMMA MergePageKeeps ==
  ASSUME IInv, NEW w \in Procs, MergePage(w)
  PROVE  IInv' /\ KnownStep /\ Live' = Live
<1> DEFINE p == proc[w].page
           e == proc[w].event
           write == proc[w].write
<1>1. /\ At(w, "merge") /\ ~At(w, "idle") /\ lease = w /\ e \in Live
      /\ Goto(w, Refer(w, e)) /\ UNCHANGED <<alias, reference, lease, bounds>>
  BY DEF MergePage, At, Fenced
<1>2. p \in Pages /\ e \in Ids /\ write \in Columns \cup {None}
  BY <1>1, AtWork, ProcParts DEF At
<1>3. reference[p] \in {None, e} /\ Owners(p) \subseteq {e}
  BY <1>1, AtWork DEF Secure, At
<1>4. CASE write = None
  <2>1. event' = event
    BY <1>4 DEF MergePage
  <2>2. Stored' /\ KnownStep
    BY <1>1, <2>1, StoreFrame DEF IInv
  <2>3. \A x \in Live' : event'[x].own = p => x = e
    BY <1>3, <2>1 DEF Owners, Live
  <2>4. Live' = Live
    BY <2>1 DEF Live
  <2> QED
    BY <1>1, <1>2, <1>3, <2>2, <2>3, <2>4, Writes
<1>5. CASE write # None
  <2>1. /\ \A x \in Live \ {e} : event[x].own # p
        /\ event' = [event EXCEPT ![e] = Written(p, write.modality, write.reasons, write.status, event[e])]
    BY <1>5 DEF MergePage
  <2>2. write.modality \in Modalities /\ write.reasons \in SUBSET Reasons /\ write.status \in Statuses
    BY <1>2, <1>5 DEF Columns
  <2>3. Stored' /\ KnownStep /\ Live' = Live /\ \A x \in Live' : event'[x].own = p => x = e
    BY <1>1, <1>2, <1>3, <2>1, <2>2, WrittenStored DEF IInv
  <2> QED
    BY <1>1, <1>2, <1>3, <2>3, Writes
<1> QED
  BY <1>4, <1>5

LEMMA UpdateEditionKeeps ==
  ASSUME IInv, NEW w \in Procs, UpdateEdition(w)
  PROVE  IInv' /\ KnownStep /\ Live' = Live
<1> DEFINE p == proc[w].page
           e == proc[w].event
           seen == proc[w].seen
<1>1. /\ At(w, "update") /\ ~At(w, "idle") /\ lease = w /\ e \in Live /\ e \in Ids
      /\ Goto(w, Refer(w, e)) /\ UNCHANGED <<alias, reference, lease, bounds>>
      /\ \A x \in Live \ {e} : event[x].own # p
      /\ event' = [event EXCEPT ![e] = Written(p, seen.modality, seen.reasons, Judged(seen), event[e])]
  BY DEF UpdateEdition, At, Fenced, Live
<1>2. p \in Pages /\ seen \in Observation
  BY <1>1, AtWork, ProcParts DEF At
<1>3. reference[p] \in {None, e}
  BY <1>1, AtWork DEF Secure, At
<1>4. seen.modality \in Modalities /\ seen.reasons \in SUBSET Reasons /\ Judged(seen) \in Statuses
  BY <1>2 DEF Observation, Judged, Statuses
<1>5. Stored' /\ KnownStep /\ Live' = Live /\ \A x \in Live' : event'[x].own = p => x = e
  BY <1>1, <1>2, <1>3, <1>4, WrittenStored DEF IInv
<1> QED
  BY <1>1, <1>3, <1>5, Writes

LEMMA CreateEditionKeeps ==
  ASSUME IInv, NEW w \in Procs, CreateEdition(w)
  PROVE  IInv' /\ KnownStep
<1> DEFINE p == proc[w].page
           seen == proc[w].seen
           suspect == proc[w].event # None
           reasons == seen.reasons \cup (IF suspect THEN {"other"} ELSE {})
           status == IF suspect THEN "pending_review" ELSE Judged(seen)
           new == NewEvent(p, seen.modality, reasons, status, FALSE)
<1>1. /\ At(w, "create") /\ ~At(w, "idle") /\ lease = w /\ UNCHANGED <<alias, reference, lease, bounds>>
      /\ Owners(p) = {}
  BY DEF CreateEdition, At, Fenced
<1>2. PICK e \in Fresh : event' = [event EXCEPT ![e] = new] /\ Goto(w, Refer(w, e))
  BY DEF CreateEdition
<1>3. p \in Pages /\ seen \in Observation
  BY <1>1, AtWork, ProcParts DEF At
<1>4. reasons \in SUBSET Reasons /\ status \in Statuses /\ seen.modality \in Modalities
  BY <1>3 DEF Observation, Judged, Statuses, Reasons
<1> HIDE DEF reasons, status
<1>5. new \in Event /\ new.own = p /\ new.decided.modality = None /\ new.decided.status = None
  BY <1>3, <1>4 DEF NewEvent, Event, NoDecisions, Decisions
<1> HIDE DEF new
<1>6. reference[p] = None
  BY <1>1, AtWork DEF Secure, At
<1>7. e \in Ids /\ Live' = Live \cup {e} /\ \A x \in Live : event'[x] = event[x]
  BY <1>2, <1>5, Added DEF IInv, Stored, Live
<1>8. Stored' /\ KnownStep
  <2>1. reference' \in [Pages -> Ids \cup {None}] /\ reference' = reference
    BY <1>1 DEF IInv, Stored, StoreTyped
  <2> QED
    BY <1>1, <1>2, <1>5, <1>6, <2>1, AddKeeps DEF IInv
<1>9. \A x \in Live' : event'[x].own = p => x = e
  BY <1>1, <1>7 DEF Owners
<1> QED
  BY <1>1, <1>2, <1>6, <1>7, <1>8, <1>9, Writes

LEMMA IdleProc == Idle \in Proc /\ Idle.pc = "idle"
BY DEF Idle, Proc

LEMMA WriteReferenceKeeps ==
  ASSUME IInv, NEW w \in Procs, WriteReference(w)
  PROVE  IInv' /\ KnownStep
<1> DEFINE p == proc[w].page
           e == proc[w].event
<1>1. /\ At(w, "refer") /\ ~At(w, "idle") /\ lease = w /\ e \in Live /\ e \in Ids
      /\ reference' = [reference EXCEPT ![p] = e]
      /\ Goto(w, Idle) /\ lease' = None /\ UNCHANGED <<event, alias, bounds>>
  BY DEF WriteReference, At, Fenced, Live, Released
<1>2. p \in Pages
  BY <1>1, AtWork
<1>3. Owners(p) \subseteq {e}
  BY <1>1, AtWork DEF Secure, At
<1>4. Live' = Live
  BY <1>1 DEF Live
<1>5. StoreTyped' /\ reference'[p] = e /\ \A q \in Pages \ {p} : reference'[q] = reference[q]
  BY <1>1, <1>2 DEF IInv, Stored, StoreTyped
<1>6. NamesResolve'
  BY <1>1, <1>4, <1>5 DEF IInv, Stored, NamesResolve
<1>7. DecisionsStand' /\ Reviewed' /\ OwnPages'
  BY <1>1, <1>4 DEF IInv, Stored, DecisionsStand, Reviewed, OwnPages
<1>8. OwnReferences'
  <2>1. \A x \in Live : event[x].own \in Pages /\ (event[x].own = p => x = e)
    BY <1>3, LiveTyped DEF Owners, Event, IInv, Stored
  <2> QED
    BY <1>1, <1>4, <1>5, <2>1 DEF IInv, Stored, OwnReferences
<1>9. Stored'
  BY <1>5, <1>6, <1>7, <1>8 DEF Stored
<1>10. KnownStep
  BY <1>1 DEF KnownStep
<1>11. lease' # w
  BY <1>1, NoneAssumption
<1> QED
  BY <1>1, <1>9, <1>10, <1>11, IdleProc, Steps

LEMMA FailImportKeeps ==
  ASSUME IInv, NEW w \in Procs, FailImport(w)
  PROVE  IInv' /\ KnownStep
<1>1. /\ ~At(w, "idle") /\ Goto(w, Idle) /\ lease' = (IF lease = w THEN None ELSE lease)
      /\ UNCHANGED <<event, alias, reference, bounds>>
  BY DEF FailImport, Released
<1>2. Stored' /\ KnownStep
  BY <1>1, StoreFrame DEF IInv
<1>3. lease' # w /\ lease' \in {lease, None} /\ lease' \in Procs \cup {None}
  BY <1>1, NoneAssumption DEF IInv, RunTyped
<1> QED
  BY <1>1, <1>2, <1>3, IdleProc, Steps

LEMMA LoseLeaseKeeps ==
  ASSUME IInv, LoseLease
  PROVE  IInv' /\ KnownStep
<1>1. Stored' /\ KnownStep
  BY StoreFrame DEF IInv, LoseLease
<1>2. RunTyped'
  BY BoundsAssumption DEF IInv, RunTyped, LoseLease
<1>3. Working' /\ LeaseSecure'
  BY DEF IInv, Working, LeaseSecure, LoseLease, At
<1> QED
  BY <1>1, <1>2, <1>3 DEF IInv

-----------------------------------------------------------------------------
(* Administrators. *)

\* What a step that is no importer's has to respect: the page of the running
\* task gets no edition and no reference it has not.
LEMMA Administers ==
  ASSUME IInv, Stored', UNCHANGED <<proc, lease>>,
         requests' \in 0..MaxRequests, lapses' \in 0..MaxLapses,
         \A p \in Imported :
            lease # None /\ ~At(lease, "idle") /\ proc[lease].page = p =>
                reference'[p] = reference[p] /\ \A x \in Live' : event'[x].own = p => x \in Owners(p)
  PROVE  IInv'
<1>1. RunTyped' /\ Working'
  BY DEF IInv, RunTyped, Working, At
<1>2. LeaseSecure'
  <2>1. SUFFICES ASSUME lease # None
                 PROVE  ~At(lease, "idle")' /\ Secure(lease)'
    BY DEF LeaseSecure
  <2>2. lease \in Procs /\ ~At(lease, "idle") /\ Secure(lease)
    BY <2>1 DEF IInv, RunTyped, LeaseSecure
  <2>3. proc[lease].page \in Imported
    BY <2>2, AtWork
  <2>4. /\ reference'[proc[lease].page] = reference[proc[lease].page]
        /\ \A x \in Live' : event'[x].own = proc[lease].page => x \in Owners(proc[lease].page)
    BY <2>1, <2>2, <2>3
  <2>5. ~At(lease, "idle")'
    BY <2>2 DEF At
  <2>6. Secure(lease)'
    BY <2>2, <2>4 DEF Secure, Owners
  <2> QED
    BY <2>5, <2>6
<1> QED
  BY <1>1, <1>2 DEF IInv

\* An administrator edits an edition and leaves its identity.
LEMMA AdminEdit ==
  ASSUME IInv, NEW e \in Live, NEW new \in Event, event' = [event EXCEPT ![e] = new],
         UNCHANGED <<alias, reference, proc, lease, lapses>>, requests' \in 0..MaxRequests,
         new.own = event[e].own,
         new.decided.modality # None => new.modality = new.decided.modality,
         new.decided.status # None => new.status = new.decided.status /\ new.reviewed,
         event[e].modality # "unknown" /\ new.modality = "unknown" => new.decided.modality = "unknown"
  PROVE  IInv' /\ KnownStep /\ Live' = Live
<1>1. \A x \in Live \ {e} : event[x].own # new.own
  BY DEF IInv, Stored, OwnPages
<1>2. reference[new.own] \in {None, e}
  BY DEF IInv, Stored, OwnReferences
<1>3. UNCHANGED <<alias, reference>>
  OBVIOUS
<1>4. Stored' /\ KnownStep
  BY <1>1, <1>2, <1>3, EditKeeps DEF IInv
<1>5. Live' = Live /\ \A x \in Live : event'[x].own = event[x].own
  BY Edited DEF IInv, Stored, Live
<1>6. \A p \in Imported : reference'[p] = reference[p] /\ \A x \in Live' : event'[x].own = p => x \in Owners(p)
  BY <1>5 DEF Owners
<1>7. lapses' \in 0..MaxLapses /\ UNCHANGED <<proc, lease>>
  BY DEF IInv, RunTyped
<1> QED
  BY <1>4, <1>5, <1>6, <1>7, Administers

LEMMA ReviewEventKeeps ==
  ASSUME IInv, NEW id \in Ids, ReviewEvent(id), requests' \in 0..MaxRequests, UNCHANGED lapses
  PROVE  IInv' /\ KnownStep /\ Live' = Live
<1>1. PICK e \in Edition(id), m \in Modalities \cup {None}, s \in Statuses \cup {None} :
        /\ event' = [event EXCEPT ![e] =
             [event[e] EXCEPT !.modality = IF m = None THEN event[e].modality ELSE m,
                              !.status = IF s = None THEN event[e].status ELSE s, !.reviewed = TRUE,
                              !.reasons = IF m = None THEN event[e].reasons ELSE KeptReasons(event[e].reasons, m),
                              !.decided = [modality |-> IF m = None THEN event[e].decided.modality ELSE m,
                                           status |-> IF s = None THEN event[e].decided.status ELSE s]]]
        /\ UNCHANGED <<alias, reference, proc, lease>>
  BY DEF ReviewEvent
<1> DEFINE was == event[e]
           modality == IF m = None THEN was.modality ELSE m
           status == IF s = None THEN was.status ELSE s
           reasons == IF m = None THEN was.reasons ELSE KeptReasons(was.reasons, m)
           decided == [modality |-> IF m = None THEN was.decided.modality ELSE m,
                       status |-> IF s = None THEN was.decided.status ELSE s]
           new == [was EXCEPT !.modality = modality, !.status = status, !.reviewed = TRUE, !.reasons = reasons,
                              !.decided = decided]
<1>2. e \in Live /\ was \in Event /\ e \in Ids
  BY EditionLive, LiveTyped DEF IInv, Stored
<1>3. event' = [event EXCEPT ![e] = new]
  BY <1>1
<1>4. modality \in Modalities /\ status \in Statuses
  BY <1>2 DEF Event
<1>5. reasons \in SUBSET Reasons
  BY <1>2 DEF Event, KeptReasons, Reasons
<1>6. decided \in Decisions
  BY <1>2 DEF Event, Decisions
<1>7. /\ decided.modality # None => modality = decided.modality
      /\ decided.status # None => status = decided.status
      /\ was.modality # "unknown" /\ modality = "unknown" => decided.modality = "unknown"
  BY <1>2, DecisionsOf DEF IInv
<1> HIDE DEF modality, status, reasons, decided
<1>8. /\ new \in Event /\ new.own = was.own /\ new.decided = decided /\ new.reviewed /\ new.modality = modality
      /\ new.status = status
  BY <1>2, <1>4, <1>5, <1>6 DEF Event
<1> HIDE DEF new
<1>9. /\ new.decided.modality # None => new.modality = new.decided.modality
      /\ new.decided.status # None => new.status = new.decided.status /\ new.reviewed
      /\ event[e].modality # "unknown" /\ new.modality = "unknown" => new.decided.modality = "unknown"
  BY <1>7, <1>8
<1>10. UNCHANGED <<alias, reference, proc, lease, lapses>> /\ new.own = event[e].own
  BY <1>1, <1>8
<1> QED
  BY <1>2, <1>3, <1>8, <1>9, <1>10, AdminEdit

LEMMA SetPublicationKeeps ==
  ASSUME IInv, NEW id \in Ids, SetPublication(id), requests' \in 0..MaxRequests, UNCHANGED lapses
  PROVE  IInv' /\ KnownStep /\ Live' = Live
<1>1. PICK e \in Edition(id), s \in Statuses :
        /\ event' = [event EXCEPT ![e] = [@ EXCEPT !.status = s, !.reviewed = TRUE, !.decided.status = s]]
        /\ UNCHANGED <<alias, reference, proc, lease>>
  BY DEF SetPublication
<1> DEFINE was == event[e]
           new == [was EXCEPT !.status = s, !.reviewed = TRUE, !.decided.status = s]
<1>2. e \in Live /\ was \in Event /\ e \in Ids
  BY EditionLive, LiveTyped DEF IInv, Stored
<1>3. event' = [event EXCEPT ![e] = new]
  BY <1>1, <1>2 DEF IInv, Stored, StoreTyped
<1>4. /\ new \in Event /\ new.own = was.own /\ new.reviewed /\ new.modality = was.modality /\ new.status = s
      /\ new.decided.modality = was.decided.modality /\ new.decided.status = s
  BY <1>2 DEF Event, Decisions
<1>5. was.decided.modality # None => was.modality = was.decided.modality
  BY <1>2, DecisionsOf DEF IInv
<1> HIDE DEF new
<1>6. /\ new.decided.modality # None => new.modality = new.decided.modality
      /\ was.modality # "unknown" /\ new.modality = "unknown" => new.decided.modality = "unknown"
  BY <1>4, <1>5
<1> QED
  BY <1>1, <1>2, <1>3, <1>4, <1>6, AdminEdit

LEMMA RegisterKeeps ==
  ASSUME IInv, NEW p \in Pages, Register(p)
  PROVE  IInv' /\ KnownStep
<1>1. PICK e \in IF Owners(p) # {} THEN Owners(p) ELSE Fresh :
        /\ event' = IF e \in Live THEN event
                    ELSE [event EXCEPT ![e] = NewEvent(p, "unknown", {"other"}, "pending_review", TRUE)]
        /\ reference' = [reference EXCEPT ![p] = e]
  BY DEF Register
<1>2. p \notin Imported /\ reference[p] = None /\ UNCHANGED <<alias, proc, lease, bounds>>
  BY DEF Register
<1>3. requests' \in 0..MaxRequests /\ lapses' \in 0..MaxLapses /\ UNCHANGED <<proc, lease>>
  BY <1>2 DEF IInv, RunTyped, bounds
<1>4. reference \in [Pages -> Ids \cup {None}]
  BY DEF IInv, Stored, StoreTyped
<1>5. CASE Owners(p) # {}
  <2>1. e \in Live /\ e \in Ids /\ event[e].own = p /\ event' = event
    BY <1>1, <1>5 DEF Owners, Live
  <2>2. Live' = Live
    BY <2>1 DEF Live
  <2>3. StoreTyped' /\ reference'[p] = e /\ \A q \in Pages \ {p} : reference'[q] = reference[q]
    BY <1>1, <1>2, <1>4, <2>1 DEF IInv, Stored, StoreTyped
  <2>4. NamesResolve'
    BY <1>2, <2>1, <2>2, <2>3 DEF IInv, Stored, NamesResolve
  <2>5. DecisionsStand' /\ Reviewed' /\ OwnPages'
    BY <2>1, <2>2 DEF IInv, Stored, DecisionsStand, Reviewed, OwnPages
  <2>6. OwnReferences'
    <3>1. \A x \in Live : event[x].own \in Pages /\ (event[x].own = p => x = e)
      BY <2>1, LiveTyped DEF IInv, Stored, OwnPages, Event
    <3> QED
      BY <2>1, <2>2, <2>3, <3>1 DEF IInv, Stored, OwnReferences
  <2>7. Stored'
    BY <2>3, <2>4, <2>5, <2>6 DEF Stored
  <2>8. KnownStep
    BY <2>1 DEF KnownStep
  <2>9. \A q \in Imported : reference'[q] = reference[q] /\ \A x \in Live' : event'[x].own = q => x \in Owners(q)
    BY <1>2, <2>1, <2>2, <2>3, PagesAssumption DEF Owners
  <2> QED
    BY <1>3, <2>7, <2>8, <2>9, Administers
<1>6. CASE Owners(p) = {}
  <2> DEFINE new == NewEvent(p, "unknown", {"other"}, "pending_review", TRUE)
  <2>1. e \in Fresh /\ e \in Ids /\ e \notin Live
    BY <1>1, <1>6 DEF Fresh, Live
  <2>2. event' = [event EXCEPT ![e] = new]
    BY <1>1, <2>1
  <2>3. new \in Event /\ new.own = p /\ new.decided.modality = None /\ new.decided.status = None
    <3>1. "unknown" \in Modalities /\ {"other"} \in SUBSET Reasons /\ "pending_review" \in Statuses
      BY DEF Modalities, Reasons, Statuses
    <3> QED
      BY <3>1 DEF NewEvent, Event, NoDecisions, Decisions
  <2> HIDE DEF new
  <2>4. /\ reference' \in [Pages -> Ids \cup {None}] /\ reference'[p] = e
        /\ \A q \in Pages \ {p} : reference'[q] = reference[q]
    BY <1>1, <1>4, <2>1
  <2>5. Stored' /\ KnownStep
    BY <1>2, <1>6, <2>1, <2>2, <2>3, <2>4, AddKeeps DEF IInv
  <2>6. Live' = Live \cup {e} /\ event'[e] = new /\ \A x \in Live : event'[x] = event[x]
    BY <2>1, <2>2, <2>3, Added DEF IInv, Stored, Live
  <2>7. \A q \in Imported : reference'[q] = reference[q] /\ \A x \in Live' : event'[x].own = q => x \in Owners(q)
    BY <1>2, <2>3, <2>4, <2>6, PagesAssumption DEF Owners
  <2> QED
    BY <1>3, <2>5, <2>7, Administers
<1> QED
  BY <1>5, <1>6

-----------------------------------------------------------------------------
(* Unification. *)

\* One of the pages of both editions is the one of the best source.
LEMMA PrimaryPage ==
  ASSUME NEW s \in Live, NEW t \in Live, Unifiable(s, t)
  PROVE  Primary(s, t) \in References(s) \cup References(t)
<1> DEFINE S == References(s) \cup References(t)
<1>1. S \in SUBSET Pages /\ S # {} /\ \A p, q \in S : SourceOf[p] = SourceOf[q] => p = q
  BY DEF Unifiable, References, SameSource
<1>2. \E p \in S : \A q \in S : Priority[q] < Priority[p] \/ (Priority[q] = Priority[p] /\ p = q)
  BY <1>1, PriorityAssumption
<1> QED
  BY <1>2 DEF Primary

\* What stands of the decisions on both editions.
LEMMA UnifiedFields ==
  ASSUME Stored, NEW s \in Live, NEW t \in Live
  PROVE  LET decided == UnifiedDecisions(s, t)
             modality == UnifiedModality(s, t)
             status == UnifiedStatus(s, t)
         IN  /\ decided \in Decisions /\ modality \in Modalities /\ status \in Statuses
             /\ decided.modality # None => modality = decided.modality
             /\ decided.status # None => status = decided.status /\ (event[s].reviewed \/ event[t].reviewed)
             /\ event[t].modality # "unknown" /\ modality = "unknown" => decided.modality = "unknown"
<1> DEFINE decided == UnifiedDecisions(s, t)
           modality == UnifiedModality(s, t)
           status == UnifiedStatus(s, t)
<1>1. event[s] \in Event /\ event[t] \in Event
  BY LiveTyped DEF Stored
<1>2. /\ event[s].decided.modality # None => event[s].modality = event[s].decided.modality
      /\ event[s].decided.status # None => event[s].status = event[s].decided.status /\ event[s].reviewed
      /\ event[t].decided.modality # None => event[t].modality = event[t].decided.modality
      /\ event[t].decided.status # None => event[t].status = event[t].decided.status /\ event[t].reviewed
  BY DecisionsOf
<1>3. \A e \in {s, t} : /\ "modality" \in DecidedFields(e) <=> event[e].decided.modality # None
                        /\ "status" \in DecidedFields(e) <=> event[e].decided.status # None
  BY DEF DecidedFields
<1>4. decided = [modality |-> IF event[t].decided.modality # None THEN event[t].decided.modality
                              ELSE event[s].decided.modality,
                 status |-> IF event[t].decided.status # None THEN event[t].decided.status
                            ELSE event[s].decided.status]
  BY <1>3 DEF UnifiedDecisions
<1>5. modality \in Modalities
  BY <1>1 DEF UnifiedModality, Event
<1>6. status \in Statuses
  BY <1>1 DEF UnifiedStatus, Event, Statuses
<1>7. decided \in Decisions
  BY <1>1, <1>4 DEF Event, Decisions
<1>8. /\ event[t].decided.modality # None => modality = event[t].modality
      /\ event[t].decided.modality = None /\ event[s].decided.modality # None => modality = event[s].modality
      /\ event[t].decided.modality = None /\ event[s].decided.modality = None /\ event[t].modality # "unknown"
            => modality # "unknown"
  BY <1>3 DEF UnifiedModality
<1>9. /\ event[t].decided.status # None => status = event[t].status
      /\ event[t].decided.status = None /\ event[s].decided.status # None => status = event[s].status
  BY <1>3 DEF UnifiedStatus
<1>10. /\ decided.modality = IF event[t].decided.modality # None THEN event[t].decided.modality
                             ELSE event[s].decided.modality
       /\ decided.status = IF event[t].decided.status # None THEN event[t].decided.status
                           ELSE event[s].decided.status
  BY <1>4
<1> HIDE DEF decided, modality, status
<1>11. /\ decided.modality # None => modality = decided.modality
       /\ decided.status # None => status = decided.status /\ (event[s].reviewed \/ event[t].reviewed)
       /\ event[t].modality # "unknown" /\ modality = "unknown" => decided.modality = "unknown"
  BY <1>2, <1>8, <1>9, <1>10
<1> QED
  BY <1>5, <1>6, <1>7, <1>11 DEF decided, modality, status

LEMMA UnifyKeeps ==
  ASSUME IInv, NEW s \in Live, NEW t \in Live, Unify(s, t),
         requests' \in 0..MaxRequests, lapses' \in 0..MaxLapses
  PROVE  IInv' /\ KnownStep
<1> DEFINE P == Primary(s, t)
           decided == UnifiedDecisions(s, t)
           modality == UnifiedModality(s, t)
           status == UnifiedStatus(s, t)
           reviewed == event[s].reviewed \/ event[t].reviewed
           new == [event[t] EXCEPT !.own = P, !.modality = modality, !.status = status, !.decided = decided,
                                   !.reviewed = reviewed]
<1>1. /\ Unifiable(s, t) /\ s # t /\ ~InUse(s, t)
      /\ event' = [event EXCEPT ![s] = None, ![t] = new]
      /\ reference' = [p \in Pages |-> IF reference[p] = s THEN t ELSE reference[p]]
      /\ alias' = [e \in Ids |-> IF e = s \/ alias[e] = s THEN t ELSE alias[e]]
      /\ UNCHANGED <<proc, lease>>
  BY DEF Unify, Unifiable
<1>2. s \in Ids /\ t \in Ids /\ event[s] \in Event /\ event[t] \in Event
  BY LiveTyped DEF IInv, Stored
<1>3. s # None /\ t # None /\ \A x \in Live : x # None
  <2>1. \A x \in Ids : x # None
    BY BoundsAssumption DEF Ids
  <2> QED
    BY <1>2, <2>1 DEF Live
<1>4. P \in Pages /\ reference[P] \in {s, t}
  BY <1>1, PrimaryPage DEF References
<1>5. /\ decided \in Decisions /\ modality \in Modalities /\ status \in Statuses
      /\ decided.modality # None => modality = decided.modality
      /\ decided.status # None => status = decided.status /\ reviewed
      /\ event[t].modality # "unknown" /\ modality = "unknown" => decided.modality = "unknown"
  BY UnifiedFields DEF IInv
<1>6. reviewed \in BOOLEAN
  OBVIOUS
<1> HIDE DEF P, decided, modality, status, reviewed
<1>7. /\ new \in Event /\ new.own = P /\ new.modality = modality /\ new.status = status /\ new.decided = decided
      /\ new.reviewed = reviewed
  BY <1>2, <1>4, <1>5, <1>6 DEF Event
<1> HIDE DEF new
<1>8. new # None
  BY <1>7, NoneAssumption
<1>9. StoreTyped
  BY DEF IInv, Stored
<1>10. /\ event' \in [Ids -> Event \cup {None}] /\ event'[s] = None /\ event'[t] = new
      /\ \A x \in Ids \ {s, t} : event'[x] = event[x]
  BY <1>1, <1>2, <1>7, <1>9 DEF StoreTyped
<1>11. Live' = Live \ {s}
  BY <1>2, <1>8, <1>10 DEF Live
<1>12. \A x \in Live : x \in Ids /\ event[x].own \in Pages
  BY <1>9, LiveTyped DEF Event
<1>13. /\ \A p \in Pages : reference'[p] = IF reference[p] = s THEN t ELSE reference[p]
       /\ \A e \in Ids : alias'[e] = IF e = s \/ alias[e] = s THEN t ELSE alias[e]
  BY <1>1
<1>14. StoreTyped'
  BY <1>1, <1>2, <1>9, <1>10 DEF StoreTyped
<1>15. NamesResolve'
  <2>1. ASSUME NEW e \in Ids, alias'[e] # None
        PROVE  event'[e] = None /\ alias'[e] \in Live'
    <3>1. CASE e = s
      BY <3>1, <1>1, <1>10, <1>11, <1>13
    <3>2. CASE e # s
      <4>1. alias[e] # None
        BY <2>1, <3>2, <1>13, <1>3
      <4>2. event[e] = None /\ alias[e] \in Live
        BY <4>1 DEF IInv, Stored, NamesResolve
      <4>3. e # t
        BY <4>2 DEF Live
      <4> QED
        BY <3>2, <4>2, <4>3, <1>1, <1>10, <1>11, <1>13
    <3> QED
      BY <3>1, <3>2
  <2>2. ASSUME NEW p \in Pages, reference'[p] # None
        PROVE  reference'[p] \in Live'
    BY <2>2, <1>1, <1>11, <1>13 DEF IInv, Stored, NamesResolve
  <2> QED
    BY <2>1, <2>2 DEF NamesResolve
<1>16. DecisionsStand'
  <2>1. \A x \in Live' :
          /\ event'[x].decided.modality # None => event'[x].modality = event'[x].decided.modality
          /\ event'[x].decided.status # None => event'[x].status = event'[x].decided.status
    BY <1>5, <1>7, <1>10, <1>11, <1>12, DecisionParts DEF IInv, Stored
  <2> QED
    BY <2>1 DEF DecisionsStand
<1>17. Reviewed'
  BY <1>5, <1>7, <1>10, <1>11, <1>12 DEF IInv, Stored, Reviewed
<1>18. \A x \in Live \ {s, t} : event[x].own # P
  BY <1>4, <1>3 DEF IInv, Stored, OwnReferences
<1>19. OwnPages'
  BY <1>7, <1>10, <1>11, <1>12, <1>18 DEF IInv, Stored, OwnPages
<1>20. OwnReferences'
  <2>1. reference'[P] = t
    BY <1>4, <1>13
  <2>2. ASSUME NEW x \in Live \ {s, t}
        PROVE  reference'[event[x].own] \in {None, x}
    BY <1>12, <1>13, <1>3 DEF IInv, Stored, OwnReferences
  <2> QED
    BY <1>7, <1>10, <1>11, <1>12, <2>1, <2>2 DEF OwnReferences
<1>21. Stored'
  BY <1>14, <1>15, <1>16, <1>17, <1>19, <1>20 DEF Stored
<1>22. KnownStep
  BY <1>5, <1>7, <1>10, <1>12 DEF KnownStep
<1>23. ASSUME NEW p \in Imported, lease # None /\ ~At(lease, "idle") /\ proc[lease].page = p
       PROVE  reference'[p] = reference[p] /\ \A x \in Live' : event'[x].own = p => x \in Owners(p)
  <2>1. p \in Pages /\ reference[p] \notin {s, t}
    BY <1>1, <1>23, PagesAssumption DEF InUse, References
  <2>2. p # P
    BY <1>4, <2>1
  <2> QED
    BY <2>1, <2>2, <1>7, <1>10, <1>11, <1>12, <1>13 DEF Owners
<1> QED
  BY <1>1, <1>21, <1>22, <1>23, Administers

LEMMA RequestKeeps ==
  ASSUME IInv, Request
  PROVE  IInv' /\ KnownStep
<1>1. requests' \in 0..MaxRequests /\ lapses' \in 0..MaxLapses /\ UNCHANGED lapses
  BY BoundsAssumption DEF Request, IInv, RunTyped
<1>2. ASSUME NEW id \in Ids, ReviewEvent(id)
      PROVE  IInv' /\ KnownStep
  BY <1>1, <1>2, ReviewEventKeeps
<1>3. ASSUME NEW id \in Ids, SetPublication(id)
      PROVE  IInv' /\ KnownStep
  BY <1>1, <1>3, SetPublicationKeeps
<1>4. ASSUME NEW a \in Ids, NEW b \in Ids, UnifyRequest(a, b)
      PROVE  IInv' /\ KnownStep
  <2>1. PICK s \in Edition(a), t \in Edition(b) : Unify(s, t)
    BY <1>4 DEF UnifyRequest
  <2>2. s \in Live /\ t \in Live
    BY EditionLive
  <2> QED
    BY <1>1, <2>1, <2>2, UnifyKeeps
<1> QED
  BY <1>2, <1>3, <1>4 DEF Request, Administer

LEMMA ScanUnifyKeeps ==
  ASSUME IInv, NEW s \in Ids, NEW t \in Ids, ScanUnify(s, t)
  PROVE  IInv' /\ KnownStep
<1>1. Unify(s, t) /\ s \in Live /\ t \in Live /\ UNCHANGED bounds
  BY DEF ScanUnify, Unify, Unifiable
<1>2. requests' \in 0..MaxRequests /\ lapses' \in 0..MaxLapses
  BY <1>1 DEF bounds, IInv, RunTyped
<1> QED
  BY <1>1, <1>2, UnifyKeeps

-----------------------------------------------------------------------------
(* Every step. *)

LEMMA Initial == Init => IInv
<1> SUFFICES ASSUME Init PROVE IInv
  OBVIOUS
<1>1. Live = {}
  BY DEF Init, Live
<1>2. Stored
  BY <1>1 DEF Init, Stored, StoreTyped, NamesResolve, DecisionsStand, Reviewed, OwnPages, OwnReferences
<1>3. RunTyped
  BY BoundsAssumption, IdleProc DEF Init, RunTyped
<1>4. Working /\ LeaseSecure
  BY DEF Init, Working, LeaseSecure, At, Idle
<1> QED
  BY <1>2, <1>3, <1>4 DEF IInv

\* Every step keeps the invariant, and a known modality but for a decision.
LEMMA Step == IInv /\ [Next]_vars => IInv' /\ (KnownStep \/ UNCHANGED vars)
<1> SUFFICES ASSUME IInv, [Next]_vars PROVE IInv' /\ (KnownStep \/ UNCHANGED vars)
  OBVIOUS
<1>1. CASE Request
  BY <1>1, RequestKeeps
<1>2. CASE LoseLease
  BY <1>2, LoseLeaseKeeps
<1>3. ASSUME NEW p \in Pages, Register(p)
      PROVE  IInv' /\ KnownStep
  BY <1>3, RegisterKeeps
<1>4. ASSUME NEW s \in Ids, NEW t \in Ids, ScanUnify(s, t)
      PROVE  IInv' /\ KnownStep
  BY <1>4, ScanUnifyKeeps
<1>5. ASSUME NEW w \in Procs, Import(w)
      PROVE  IInv' /\ KnownStep
  <2>1. CASE Begin(w)
    BY <2>1, BeginKeeps
  <2>2. CASE Lookup(w)
    BY <2>2, LookupKeeps
  <2>3. CASE Match(w)
    BY <2>3, MatchKeeps
  <2>4. CASE ReadExisting(w)
    BY <2>4, ReadExistingKeeps
  <2>5. CASE MergePage(w)
    BY <2>5, MergePageKeeps
  <2>6. CASE UpdateEdition(w)
    BY <2>6, UpdateEditionKeeps
  <2>7. CASE CreateEdition(w)
    BY <2>7, CreateEditionKeeps
  <2>8. CASE WriteReference(w)
    BY <2>8, WriteReferenceKeeps
  <2>9. CASE FailImport(w)
    BY <2>9, FailImportKeeps
  <2> QED
    BY <1>5, <2>1, <2>2, <2>3, <2>4, <2>5, <2>6, <2>7, <2>8, <2>9 DEF Import
<1>6. CASE UNCHANGED vars
  <2>1. Stored'
    BY <1>6, StoreFrame DEF IInv, vars
  <2>2. RunTyped' /\ Working' /\ LeaseSecure'
    BY <1>6 DEF IInv, vars, RunTyped, Working, LeaseSecure, Secure, At, Owners, Live
  <2> QED
    BY <1>6, <2>1, <2>2 DEF IInv
<1> QED
  BY <1>1, <1>2, <1>3, <1>4, <1>5, <1>6 DEF Next

-----------------------------------------------------------------------------
(* Refinement: every step is a step of EditionRegistry or nothing it can see. *)

AllLeads == [e \in Ids |-> Leads(e)]

LEMMA LeadsOfLive ==
  ASSUME StoreTyped
  PROVE  /\ \A e \in Live : e \in Ids /\ e # None /\ AllLeads[e] = e
         /\ \A e \in Fresh : e \in Ids /\ AllLeads[e] = None
<1>1. \A e \in Ids : e # None
  BY BoundsAssumption DEF Ids
<1> QED
  BY <1>1 DEF AllLeads, Leads, Live, Fresh

\* Editions are edited.
LEMMA EditRefines ==
  ASSUME StoreTyped, StoreTyped', Live' = Live, UNCHANGED <<alias, reference>>
  PROVE  Registry!Elsewhere
<1>1. \A e \in Ids : Leads(e)' = Leads(e)
  BY DEF Leads, Live
<1>2. AllLeads' = AllLeads
  BY <1>1 DEF AllLeads
<1> QED
  BY <1>2 DEF AllLeads, Registry!Elsewhere, Registry!vars

\* An edition is created.
LEMMA CreateRefines ==
  ASSUME StoreTyped, NEW e \in Fresh, NEW new \in Event, event' = [event EXCEPT ![e] = new], UNCHANGED alias
  PROVE  Registry!Create(e)
<1>1. /\ Live' = Live \cup {e} /\ event'[e] = new /\ \A x \in Ids \ {e} : event'[x] = event[x]
      /\ e \in Ids /\ new # None
  BY Added, NoneAssumption
<1>2. \A x \in Ids : Leads(x)' = IF x = e THEN e ELSE Leads(x)
  BY <1>1 DEF Leads
<1>3. AllLeads' = [AllLeads EXCEPT ![e] = e]
  BY <1>2 DEF AllLeads
<1> QED
  BY <1>3, LeadsOfLive DEF AllLeads, Registry!Create

LEMMA AttachRefines ==
  ASSUME NEW p \in Pages, NEW e \in Ids, reference[p] = None, reference' = [reference EXCEPT ![p] = e]
  PROVE  Registry!Attach(p, e)
BY DEF Registry!Attach

LEMMA WriteReferenceRefines ==
  ASSUME IInv, NEW w \in Procs, WriteReference(w)
  PROVE  Registry!Next
<1> DEFINE p == proc[w].page
           e == proc[w].event
<1>1. /\ At(w, "refer") /\ ~At(w, "idle") /\ lease = w /\ e \in Live /\ e \in Ids
      /\ reference' = [reference EXCEPT ![p] = e] /\ UNCHANGED <<event, alias>>
  BY DEF WriteReference, At, Fenced, Live
<1>2. p \in Pages /\ reference[p] \in {None, e}
  BY <1>1, AtWork DEF Secure, At
<1>3. AllLeads' = AllLeads
  BY <1>1 DEF AllLeads, Leads
<1>4. CASE reference[p] = None
  <2>1. Registry!Attach(p, e) /\ Registry!Exists(e)
    BY <1>1, <1>2, <1>4, AttachRefines, LeadsOfLive DEF Registry!Exists, AllLeads, IInv, Stored
  <2> QED
    BY <1>1, <1>2, <1>3, <2>1 DEF Registry!Next, AllLeads
<1>5. CASE reference[p] = e
  <2>1. reference' = reference
    BY <1>1, <1>2, <1>5 DEF IInv, Stored, StoreTyped
  <2> QED
    BY <1>3, <2>1 DEF Registry!Next, Registry!Elsewhere, Registry!vars, AllLeads
<1> QED
  BY <1>2, <1>4, <1>5

LEMMA RegisterRefines ==
  ASSUME IInv, NEW p \in Pages, Register(p)
  PROVE  Registry!Next
<1>1. PICK e \in IF Owners(p) # {} THEN Owners(p) ELSE Fresh :
        /\ event' = IF e \in Live THEN event
                    ELSE [event EXCEPT ![e] = NewEvent(p, "unknown", {"other"}, "pending_review", TRUE)]
        /\ reference' = [reference EXCEPT ![p] = e]
  BY DEF Register
<1>2. reference[p] = None /\ UNCHANGED alias /\ StoreTyped
  BY DEF Register, IInv, Stored
<1>3. CASE Owners(p) # {}
  <2>1. e \in Live /\ e \in Ids /\ event' = event
    BY <1>1, <1>3 DEF Owners, Live
  <2>2. AllLeads' = AllLeads
    BY <1>2, <2>1 DEF AllLeads, Leads
  <2>3. Registry!Attach(p, e) /\ Registry!Exists(e)
    BY <1>1, <1>2, <2>1, AttachRefines, LeadsOfLive DEF Registry!Exists, AllLeads
  <2> QED
    BY <2>1, <2>2, <2>3 DEF Registry!Next, AllLeads
<1>4. CASE Owners(p) = {}
  <2> DEFINE new == NewEvent(p, "unknown", {"other"}, "pending_review", TRUE)
  <2>1. e \in Fresh /\ e \in Ids /\ e \notin Live
    BY <1>1, <1>4 DEF Fresh, Live
  <2>2. new \in Event
    BY NewEventTyped DEF Modalities, Reasons, Statuses
  <2>3. event' = [event EXCEPT ![e] = new]
    BY <1>1, <2>1
  <2> HIDE DEF new
  <2>4. Registry!Create(e)
    BY <1>2, <2>1, <2>2, <2>3, CreateRefines
  <2>5. Registry!Attach(p, e)
    BY <1>1, <1>2, <2>1, AttachRefines
  <2> QED
    BY <2>1, <2>4, <2>5 DEF Registry!Next
<1> QED
  BY <1>3, <1>4

LEMMA UnifyRefines ==
  ASSUME IInv, IInv', NEW s \in Live, NEW t \in Live, Unify(s, t)
  PROVE  Registry!Unite(s, t)
<1> DEFINE new == [event[t] EXCEPT !.own = Primary(s, t), !.modality = UnifiedModality(s, t),
                                   !.status = UnifiedStatus(s, t), !.decided = UnifiedDecisions(s, t),
                                   !.reviewed = event[s].reviewed \/ event[t].reviewed]
<1>1. /\ s # t /\ event' = [event EXCEPT ![s] = None, ![t] = new]
      /\ reference' = [p \in Pages |-> IF reference[p] = s THEN t ELSE reference[p]]
      /\ alias' = [e \in Ids |-> IF e = s \/ alias[e] = s THEN t ELSE alias[e]]
  BY DEF Unify, Unifiable
<1> HIDE DEF new
<1>2. s \in Ids /\ t \in Ids /\ s # None /\ AllLeads[s] = s /\ AllLeads[t] = t
  BY LeadsOfLive DEF IInv, Stored
<1>3. event'[s] = None /\ \A x \in Ids \ {s, t} : event'[x] = event[x]
  BY <1>1, <1>2 DEF IInv, Stored, StoreTyped
<1>4. event'[t] # None
  <2>1. alias'[s] = t
    BY <1>1, <1>2
  <2>2. t # None
    BY LeadsOfLive DEF IInv, Stored
  <2> QED
    BY <1>2, <2>1, <2>2 DEF IInv, Stored, NamesResolve, Live
<1>5. \A e \in Ids : Leads(e)' = IF Leads(e) = s THEN t ELSE Leads(e)
  <2> SUFFICES ASSUME NEW e \in Ids PROVE Leads(e)' = IF Leads(e) = s THEN t ELSE Leads(e)
    OBVIOUS
  <2>1. alias'[e] = IF e = s \/ alias[e] = s THEN t ELSE alias[e]
    BY <1>1
  <2>2. event[s] # None /\ event[t] # None
    BY DEF Live
  <2> QED
    BY <1>1, <1>3, <1>4, <2>1, <2>2 DEF Leads
<1>6. AllLeads' = [e \in Ids |-> IF AllLeads[e] = s THEN t ELSE AllLeads[e]]
  BY <1>5 DEF AllLeads
<1> QED
  BY <1>1, <1>2, <1>6 DEF AllLeads, Registry!Unite, Registry!Exists

LEMMA CreateEditionRefines ==
  ASSUME IInv, NEW w \in Procs, CreateEdition(w)
  PROVE  Registry!Next
<1> DEFINE p == proc[w].page
           seen == proc[w].seen
           suspect == proc[w].event # None
           reasons == seen.reasons \cup (IF suspect THEN {"other"} ELSE {})
           status == IF suspect THEN "pending_review" ELSE Judged(seen)
           new == NewEvent(p, seen.modality, reasons, status, FALSE)
<1>1. At(w, "create") /\ ~At(w, "idle") /\ UNCHANGED <<alias, reference>>
  BY DEF CreateEdition, At
<1>2. PICK e \in Fresh : event' = [event EXCEPT ![e] = new]
  BY DEF CreateEdition
<1>3. p \in Pages /\ seen \in Observation
  BY <1>1, AtWork, ProcParts DEF At
<1>4. reasons \in SUBSET Reasons /\ status \in Statuses /\ seen.modality \in Modalities
  BY <1>3 DEF Observation, Judged, Statuses, Reasons
<1> HIDE DEF reasons, status
<1>5. new \in Event
  BY <1>3, <1>4, NewEventTyped
<1> HIDE DEF new
<1>6. Registry!Create(e) /\ e \in Ids
  BY <1>1, <1>2, <1>5, CreateRefines, LeadsOfLive DEF IInv, Stored
<1> QED
  BY <1>1, <1>6 DEF Registry!Next

\* Steps that leave the tables alone.
LEMMA ElsewhereRefines ==
  ASSUME UNCHANGED <<event, alias, reference>>
  PROVE  Registry!Elsewhere
<1>1. AllLeads' = AllLeads
  BY DEF AllLeads, Leads
<1> QED
  BY <1>1 DEF AllLeads, Registry!Elsewhere, Registry!vars

LEMMA RegistryStep ==
  ASSUME IInv, [Next]_vars
  PROVE  [Registry!Next]_Registry!vars
<1>0. IInv' /\ StoreTyped /\ StoreTyped'
  BY Step DEF IInv, Stored
<1>1. CASE Request
  <2>1. UNCHANGED lapses /\ requests' \in 0..MaxRequests
    BY <1>0, <1>1 DEF Request, IInv, RunTyped
  <2>2. ASSUME NEW id \in Ids, ReviewEvent(id) \/ SetPublication(id) PROVE Registry!Elsewhere
    <3>1. Live' = Live
      BY <2>1, <2>2, ReviewEventKeeps, SetPublicationKeeps
    <3>2. UNCHANGED <<alias, reference>>
      BY <2>2 DEF ReviewEvent, SetPublication
    <3> QED
      BY <1>0, <3>1, <3>2, EditRefines
  <2>3. ASSUME NEW a \in Ids, NEW b \in Ids, UnifyRequest(a, b) PROVE Registry!Next
    <3>1. PICK s \in Edition(a), t \in Edition(b) : Unify(s, t)
      BY <2>3 DEF UnifyRequest
    <3>2. s \in Live /\ t \in Live /\ s \in Ids /\ t \in Ids
      BY <1>0, EditionLive, LeadsOfLive
    <3>3. Registry!Unite(s, t)
      BY <1>0, <3>1, <3>2, UnifyRefines
    <3> QED
      BY <3>2, <3>3 DEF Registry!Next
  <2> QED
    BY <1>1, <2>2, <2>3 DEF Request, Administer, Registry!Next
<1>2. CASE LoseLease
  BY <1>2, ElsewhereRefines DEF LoseLease, Registry!Next
<1>3. ASSUME NEW p \in Pages, Register(p) PROVE Registry!Next
  BY <1>3, RegisterRefines
<1>4. ASSUME NEW s \in Ids, NEW t \in Ids, ScanUnify(s, t) PROVE Registry!Next
  <2>1. Unify(s, t) /\ s \in Live /\ t \in Live
    BY <1>4 DEF ScanUnify, Unify, Unifiable
  <2>2. Registry!Unite(s, t)
    BY <1>0, <2>1, UnifyRefines
  <2> QED
    BY <2>2 DEF Registry!Next
<1>5. ASSUME NEW w \in Procs, Import(w) PROVE Registry!Next
  <2>1. CASE Begin(w) \/ Lookup(w) \/ Match(w) \/ ReadExisting(w) \/ FailImport(w)
    <3>1. UNCHANGED <<event, alias, reference>>
      BY <2>1 DEF Begin, Lookup, Match, ReadExisting, FailImport
    <3> QED
      BY <3>1, ElsewhereRefines DEF Registry!Next
  <2>2. CASE MergePage(w) \/ UpdateEdition(w)
    <3>1. Live' = Live
      BY <2>2, MergePageKeeps, UpdateEditionKeeps
    <3>2. UNCHANGED <<alias, reference>>
      BY <2>2 DEF MergePage, UpdateEdition
    <3> QED
      BY <1>0, <3>1, <3>2, EditRefines DEF Registry!Next
  <2>3. CASE CreateEdition(w)
    BY <2>3, CreateEditionRefines
  <2>4. CASE WriteReference(w)
    BY <2>4, WriteReferenceRefines
  <2> QED
    BY <1>5, <2>1, <2>2, <2>3, <2>4 DEF Import
<1>6. CASE UNCHANGED vars
  BY <1>6, ElsewhereRefines DEF vars, Registry!Next
<1> QED
  BY <1>1, <1>2, <1>3, <1>4, <1>5, <1>6 DEF Next

LEMMA RegistryInit == Init => Registry!Init
BY DEF Init, Leads, Registry!Init

-----------------------------------------------------------------------------
(* The theorems. *)

LEMMA Invariance == Spec => []IInv
<1>1. IInv /\ [Next]_vars => IInv'
  BY Step
<1> QED
  BY Initial, <1>1, PTL DEF Spec

\* However editions are imported, reviewed, registered and unified, and whichever
\* process loses its lease on the way, the tables and the processes keep their types.
THEOREM TypeCorrect == Spec => []TypeOK
<1>1. IInv => TypeOK
  BY TypeParts DEF IInv, Stored
<1> QED
  BY Invariance, <1>1, PTL

\* Every identifier leads in one step to an edition that exists and every reference
\* names one: applyReconciliation moves the aliases and the references of the edition
\* it deletes, and upsertEventSourceReference finds its edition in the same transaction.
THEOREM NamesAlwaysResolve == Spec => []NamesResolve
<1>1. IInv => NamesResolve
  BY DEF IInv, Stored
<1> QED
  BY Invariance, <1>1, PTL

\* What an administrator decided of an edition stands: preserveValidatedMetadata and the
\* reviewed status keep it from imports, and a unification keeps the decisions on both.
THEOREM DecisionsAlwaysStand == Spec => []DecisionsStand
<1>1. IInv => DecisionsStand
  BY DEF IInv, Stored
<1> QED
  BY Invariance, <1>1, PTL

\* A page belongs to one edition, for any number of pages, importers and editions: what
\* saveCanonicalEvent reads before it writes is still so under its lease, since a
\* unification is refused while a running task works on a page of either edition.
THEOREM OneEdition == Spec => []OneEditionPerPage
<1>1. IInv => OneEditionPerPage
  BY OneEditionParts DEF IInv, Stored
<1> QED
  BY Invariance, <1>1, PTL

\* Neither an import nor a unification turns a known modality into an unknown one.
THEOREM KnownAlwaysStays == Spec => KnownStays
<1>1. IInv /\ [Next]_vars =>
        [\A e \in Live : event[e].modality # "unknown" /\ event'[e] # None /\ event'[e].modality = "unknown"
            => event'[e].decided.modality = "unknown"]_vars
  BY Step DEF KnownStep
<1> QED
  BY Invariance, <1>1, PTL DEF Spec, KnownStays

\* The tables implement a registry of names: identifiers are created once, editions are
\* only united and a page is attached once. Importers that read before they write,
\* leases that run out and unifications in chain show nothing else of them.
THEOREM Refinement == Spec => RegistrySpec
BY RegistryInit, RegistryStep, Invariance, PTL DEF Spec, RegistrySpec, Registry!Spec

\* Two identifiers that lead to one edition lead to one edition ever after.
LEMMA TogetherStep ==
  ASSUME IInv, [Next]_vars, NEW a \in Ids, NEW b \in Ids, Leads(a) # None, Leads(a) = Leads(b)
  PROVE  Leads(a)' # None /\ Leads(a)' = Leads(b)'
<1>1. [Registry!Next]_Registry!vars
  BY RegistryStep
<1>2. AllLeads[a] = Leads(a) /\ AllLeads[b] = Leads(b) /\ AllLeads'[a] = Leads(a)' /\ AllLeads'[b] = Leads(b)'
  BY DEF AllLeads
<1>3. \A e \in Ids : e # None
  BY BoundsAssumption DEF Ids
<1>4. CASE \E e \in Ids : Registry!Create(e)
  BY <1>2, <1>3, <1>4 DEF Registry!Create, AllLeads
<1>5. CASE \E s, t \in Ids : Registry!Unite(s, t)
  BY <1>2, <1>3, <1>5 DEF Registry!Unite, AllLeads
<1>6. CASE AllLeads' = AllLeads
  BY <1>2, <1>6
<1> QED
  BY <1>1, <1>4, <1>5, <1>6 DEF Registry!Next, Registry!Elsewhere, Registry!vars, AllLeads

\* A unification is never undone: identifiers that lead to one edition, because the
\* scan or an administrator united what they named, are never led apart or lost.
THEOREM NamesNeverPart ==
  Spec => [][\A a, b \in Ids : Leads(a) # None /\ Leads(a) = Leads(b)
                => Leads(a)' # None /\ Leads(a)' = Leads(b)']_vars
<1>1. IInv /\ [Next]_vars
        => [\A a, b \in Ids : Leads(a) # None /\ Leads(a) = Leads(b)
               => Leads(a)' # None /\ Leads(a)' = Leads(b)']_vars
  BY TogetherStep
<1> QED
  BY <1>1, Invariance, PTL DEF Spec
=============================================================================
