-------------------------- MODULE EditionRegistry --------------------------
(***************************************************************************)
(* What the catalogue promises of the names of editions: an identifier     *)
(* that was given out leads to an edition for ever, identifiers that lead  *)
(* to one edition are never led apart, and a page that was attached to an  *)
(* edition goes where that edition goes. Editions are only ever united.    *)
(***************************************************************************)
CONSTANTS
    Ids,        \* identifiers of editions
    Pages,      \* identities of pages
    None

VARIABLES
    leads,      \* [Ids -> Ids \cup {None}]: the edition an identifier leads to, once given out
    page        \* [Pages -> Ids \cup {None}]: the edition of a page

vars == <<leads, page>>

Init ==
    /\ leads = [e \in Ids |-> None]
    /\ page = [p \in Pages |-> None]

\* An edition exists while its identifier leads to itself.
Exists(e) == leads[e] = e

Create(e) ==
    /\ leads[e] = None
    /\ leads' = [leads EXCEPT ![e] = e]

\* A page is attached once.
Attach(p, e) ==
    /\ page[p] = None
    /\ page' = [page EXCEPT ![p] = e]

\* The names and the pages of `s` pass to `t`.
Unite(s, t) ==
    /\ s # t
    /\ Exists(s) /\ Exists(t)
    /\ leads' = [e \in Ids |-> IF leads[e] = s THEN t ELSE leads[e]]
    /\ page' = [p \in Pages |-> IF page[p] = s THEN t ELSE page[p]]

\* Importers read, tasks change hands, editions are edited.
Elsewhere == UNCHANGED vars

Next ==
    \/ Elsewhere
    \/ \E e \in Ids : Create(e) /\ UNCHANGED page
    \/ \E e \in Ids, p \in Pages : Exists(e) /\ Attach(p, e) /\ UNCHANGED leads
    \/ \E e \in Ids, p \in Pages : Create(e) /\ Attach(p, e)
    \/ \E s, t \in Ids : Unite(s, t)

Spec == Init /\ [][Next]_vars
=============================================================================
