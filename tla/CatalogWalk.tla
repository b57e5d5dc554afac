---------------------------- MODULE CatalogWalk ----------------------------
(***************************************************************************)
(* What a catalogue cycle promises about its candidates, whatever happens  *)
(* to the steps that carry it out: page after page, the candidates of one  *)
(* listing are visited in order, each once, and the cycle is complete only *)
(* when every candidate of every page has been visited.                    *)
(***************************************************************************)
EXTENDS Naturals, Sequences

CONSTANTS Pages,        \* number of partitions of the cycle
          Candidates,   \* references a source may list
          Listings      \* Listings[p]: the listings page p may answer with

VARIABLES checkpoint,   \* page, cursor and stored snapshot
          known,        \* candidates with a reference and an event
          outcome       \* "open", "complete", or "stopped" from outside

walkVars == <<checkpoint, known, outcome>>

Checkpoints == [page: 1..Pages, cursor: Nat, snapshot: Seq(Candidates)]

WalkInit ==
    /\ checkpoint = [page |-> 1, cursor |-> 0, snapshot |-> <<>>]
    /\ known = {}
    /\ outcome = "open"

\* The listing of the page is stored before any of its candidates is visited.
StoreListing ==
    /\ outcome = "open"
    /\ checkpoint.cursor = 0
    /\ checkpoint.snapshot = <<>>
    /\ \E rows \in Listings[checkpoint.page] : checkpoint' = [checkpoint EXCEPT !.snapshot = rows]
    /\ UNCHANGED <<known, outcome>>

\* The next candidate and the cursor advance together.
VisitCandidate ==
    /\ outcome = "open"
    /\ checkpoint.cursor < Len(checkpoint.snapshot)
    /\ checkpoint' = [checkpoint EXCEPT !.cursor = @ + 1]
    /\ known' = known \cup {checkpoint.snapshot[checkpoint.cursor + 1]}
    /\ UNCHANGED outcome

PageDone == checkpoint.cursor = Len(checkpoint.snapshot)

TurnPage ==
    /\ outcome = "open"
    /\ PageDone
    /\ checkpoint.page < Pages
    /\ checkpoint' = [page |-> checkpoint.page + 1, cursor |-> 0, snapshot |-> <<>>]
    /\ UNCHANGED <<known, outcome>>

Complete ==
    /\ outcome = "open"
    /\ PageDone
    /\ checkpoint.page = Pages
    /\ outcome' = "complete"
    /\ UNCHANGED <<checkpoint, known>>

\* An administrator or the coordinator gives the cycle up.
Stop ==
    /\ outcome = "open"
    /\ outcome' = "stopped"
    /\ UNCHANGED <<checkpoint, known>>

WalkNext == StoreListing \/ VisitCandidate \/ TurnPage \/ Complete \/ Stop

WalkSpec == WalkInit /\ [][WalkNext]_walkVars
=============================================================================
