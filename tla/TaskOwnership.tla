--------------------------- MODULE TaskOwnership ---------------------------
(***************************************************************************)
(* What the task queue promises, without leases, clocks or executors: a    *)
(* task has at most one owner, two tasks whose sources exclude each other  *)
(* are never owned together, and whoever writes is the owner: a task       *)
(* changes hands only while nobody writes for it.                          *)
(***************************************************************************)
CONSTANTS Tasks, Owners, None, Conflict(_, _)

VARIABLES phase, owner, writers
vars == <<phase, owner, writers>>

Phases == {"absent", "waiting", "owned", "done"}
Writers == [task: Tasks, owner: Owners]

Init ==
    /\ phase = [t \in Tasks |-> "absent"]
    /\ owner = [t \in Tasks |-> None]
    /\ writers = {}

Written(t) == \E x \in writers : x.task = t

Submit(t) ==
    /\ phase[t] = "absent"
    /\ phase' = [phase EXCEPT ![t] = "waiting"]
    /\ UNCHANGED <<owner, writers>>

Withdraw(t) ==
    /\ phase[t] = "waiting"
    /\ phase' = [phase EXCEPT ![t] = "done"]
    /\ UNCHANGED <<owner, writers>>

(* One task in a change of hands: it stays, is given back, or is taken. *)
Keeps(t) == phase'[t] = phase[t] /\ owner'[t] = owner[t]
GivesBack(t) ==
    /\ phase[t] = "owned" /\ ~Written(t)
    /\ phase'[t] \in {"waiting", "done"} /\ owner'[t] = None
Takes(t) ==
    /\ phase[t] = "waiting" \/ (phase[t] = "owned" /\ ~Written(t))
    /\ phase'[t] = "owned" /\ owner'[t] \in Owners
    /\ \A u \in Tasks : owner[u] # owner'[t]
    /\ \A u \in Tasks \ {t} : phase'[u] = "owned" => ~Conflict(t, u)

ChangeHands ==
    /\ phase' \in [Tasks -> Phases] /\ owner' \in [Tasks -> Owners \cup {None}]
    /\ \A t \in Tasks : Keeps(t) \/ GivesBack(t) \/ Takes(t)
    /\ UNCHANGED writers

BeginWrite(t) ==
    /\ phase[t] = "owned" /\ ~Written(t)
    /\ writers' = writers \cup {[task |-> t, owner |-> owner[t]]}
    /\ UNCHANGED <<phase, owner>>

\* A commit ends one writer, a crash any number of them.
EndWrites ==
    /\ writers' \subseteq writers
    /\ UNCHANGED <<phase, owner>>

\* The last write and the end of the task, in one transaction.
Publish(x) ==
    /\ x \in writers
    /\ writers' = writers \ {x}
    /\ phase' = [phase EXCEPT ![x.task] = "done"]
    /\ owner' = [owner EXCEPT ![x.task] = None]

Next ==
    \/ \E t \in Tasks : Submit(t) \/ Withdraw(t) \/ BeginWrite(t)
    \/ ChangeHands
    \/ EndWrites
    \/ \E x \in writers : Publish(x)

Spec == Init /\ [][Next]_vars
=============================================================================
