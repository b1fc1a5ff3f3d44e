------------------------------ MODULE TimerSet ------------------------------
(***************************************************************************)
(* What the timer list promises its user: a set of nodes with expiry       *)
(* times, of which tick removes the expired ones and no others.            *)
(***************************************************************************)
EXTENDS Naturals

CONSTANTS Nodes, Timeout, Null

VARIABLES
    due,        \* expiry time of each node in the set; Null: not in it
    now,        \* time()
    ticking     \* tick is running

tsvars == <<due, now, ticking>>

TSInit ==
    /\ due = [n \in Nodes |-> Null]
    /\ now = 0
    /\ ticking = FALSE

In(n) == due[n] # Null

TSAdd(n) ==
    /\ ~ticking /\ ~In(n)
    /\ due' = [due EXCEPT ![n] = now + Timeout]
    /\ UNCHANGED <<now, ticking>>

TSAdjust(n) ==
    /\ ~ticking /\ In(n)
    /\ due' = [due EXCEPT ![n] = now + Timeout]
    /\ UNCHANGED <<now, ticking>>

TSDelete(n) ==
    /\ ~ticking /\ In(n)
    /\ due' = [due EXCEPT ![n] = Null]
    /\ UNCHANGED <<now, ticking>>

Late(n) == In(n) /\ due[n] <= now

TSTick ==
    /\ ~ticking /\ ticking' = TRUE
    /\ UNCHANGED <<due, now>>

TSExpire(n) ==
    /\ ticking /\ Late(n)
    /\ due' = [due EXCEPT ![n] = Null]
    /\ UNCHANGED <<now, ticking>>

TSTickEnd ==
    /\ ticking /\ \A n \in Nodes : ~Late(n)
    /\ ticking' = FALSE
    /\ UNCHANGED <<due, now>>

TSClock ==
    /\ ~ticking /\ now' \in Nat
    /\ UNCHANGED <<due, ticking>>

TSNext ==
    \/ \E n \in Nodes : TSAdd(n) \/ TSAdjust(n) \/ TSDelete(n) \/ TSExpire(n)
    \/ TSTick \/ TSTickEnd \/ TSClock

TSSpec == TSInit /\ [][TSNext]_tsvars

============================================================================
