----------------------------- MODULE TimerList -----------------------------
(***************************************************************************)
(* timer_list: a doubly linked list of timer_nodes in order of expiry, the *)
(* way add_timer, adjust_timer, del_timer and tick rebuild its pointers.   *)
(* Only the main thread uses it.  A node that is freed may be allocated    *)
(* again; the constructor gives it null pointers.                          *)
(***************************************************************************)
EXTENDS Naturals, FiniteSets

CONSTANTS
    Nodes, Null,
    Timeout,        \* 3 * TIMESLOT
    MaxNow,         \* bound on the clock
    ClockSteps      \* what time() may return after now

ASSUME NullAssumption == Null \notin Nodes /\ Null \notin Nat
ASSUME TimeoutAssumption == Timeout \in Nat \ {0}
ASSUME BoundsAssumption == IsFiniteSet(Nodes) /\ MaxNow \in Nat

VARIABLES
    list,       \* head, tail, and the next and prev of every node
    expire,     \* timer_node::expire
    live,       \* the nodes allocated and not yet freed
    now,        \* time()
    ticking     \* tick is walking the list

vars == <<list, expire, live, now, ticking>>

Init ==
    /\ list = [head |-> Null, tail |-> Null,
               next |-> [n \in Nodes |-> Null], prev |-> [n \in Nodes |-> Null]]
    /\ expire = [n \in Nodes |-> 0]
    /\ live = {}
    /\ now = 0 /\ ticking = FALSE

----------------------------------------------------------------------------
(* Pointer surgery: the list after an operation, e being the expiry times. *)

Freed(l, n) == [l EXCEPT !.next[n] = Null, !.prev[n] = Null]

\* Defective: the walk stops one node too early.
PlaceTooEarly(l, e, t, start) == start

\* The node after which the private add_timer inserts t, walking from start.
Place(l, e, t, start) ==
    LET From[p \in Nodes] ==
            IF l.next[p] = Null THEN p
            ELSE IF e[t] < e[l.next[p]] THEN p ELSE From[l.next[p]]
    IN  From[start]

InsertFrom(l, e, t, start) ==
    LET p == Place(l, e, t, start)
        q == l.next[p]
    IN  [l EXCEPT !.next = [@ EXCEPT ![p] = t, ![t] = q],
                  !.prev = [n \in Nodes |-> IF n = t THEN p ELSE IF n = q THEN t ELSE @[n]],
                  !.tail = IF q = Null THEN t ELSE @]

Added(l, e, t) ==
    IF l.head = Null THEN [l EXCEPT !.head = t, !.tail = t]
    ELSE IF e[t] < e[l.head]
    THEN [l EXCEPT !.next[t] = l.head, !.prev[l.head] = t, !.head = t]
    ELSE InsertFrom(l, e, t, l.head)

\* Both branches insert from the node after t, which is the new head when t
\* was the head.
Adjusted(l, e, t) ==
    LET q == l.next[t]
        p == l.prev[t]
    IN  IF q = Null THEN l
        ELSE IF e[t] < e[q] THEN l
        ELSE IF t = l.head
        THEN InsertFrom([l EXCEPT !.head = q, !.prev[q] = Null, !.next[t] = Null], e, t, q)
        ELSE InsertFrom([l EXCEPT !.next[p] = q, !.prev[q] = p], e, t, q)

\* Defective: the tail is left where it was.
TailKept(l, t) == l.tail

TailAfterDelete(l, t) == l.prev[t]

Deleted(l, t) ==
    IF t = l.head /\ t = l.tail THEN Freed([l EXCEPT !.head = Null, !.tail = Null], t)
    ELSE IF t = l.head
    THEN Freed([l EXCEPT !.head = l.next[t], !.prev[l.next[t]] = Null], t)
    ELSE IF t = l.tail
    THEN Freed([l EXCEPT !.tail = TailAfterDelete(l, t), !.next[l.prev[t]] = Null], t)
    ELSE Freed([l EXCEPT !.next[l.prev[t]] = l.next[t], !.prev[l.next[t]] = l.prev[t]], t)

\* One turn of tick's loop; it never touches tail.
HeadRemoved(l) ==
    LET q == l.next[l.head]
    IN  Freed([l EXCEPT !.head = q,
                        !.prev = [n \in Nodes |-> IF n = q THEN Null ELSE @[n]]], l.head)

----------------------------------------------------------------------------

\* init_timer and WebServer::adjust_timer set expire first, then call the list.
AddTimer(n) ==
    /\ ~ticking /\ n \notin live
    /\ expire' = [expire EXCEPT ![n] = now + Timeout]
    /\ live' = live \cup {n}
    /\ list' = Added(list, expire', n)
    /\ UNCHANGED <<now, ticking>>

AdjustTimer(n) ==
    /\ ~ticking /\ n \in live
    /\ expire' = [expire EXCEPT ![n] = now + Timeout]
    /\ list' = Adjusted(list, expire', n)
    /\ UNCHANGED <<live, now, ticking>>

DelTimer(n) ==
    /\ ~ticking /\ n \in live
    /\ list' = Deleted(list, n)
    /\ live' = live \ {n}
    /\ UNCHANGED <<expire, now, ticking>>

TickBegin ==
    /\ ~ticking /\ ticking' = TRUE
    /\ UNCHANGED <<list, expire, live, now>>

\* Defective: a node that expires this very second is not yet due.
DueLater(n) == expire[n] < now

Due(n) == ~(now < expire[n])

TickOne ==
    /\ ticking /\ list.head # Null
    /\ Due(list.head)
    /\ list' = HeadRemoved(list)
    /\ live' = live \ {list.head}
    /\ UNCHANGED <<expire, now, ticking>>

TickEnd ==
    /\ ticking
    /\ IF list.head = Null THEN TRUE ELSE ~Due(list.head)
    /\ ticking' = FALSE
    /\ UNCHANGED <<list, expire, live, now>>

\* tick reads the clock once, so time may as well stand still meanwhile.
Clock ==
    /\ ~ticking
    /\ \E d \in ClockSteps : now + d \in 0..MaxNow /\ now' = now + d
    /\ UNCHANGED <<list, expire, live, ticking>>

Next ==
    \/ \E n \in Nodes : AddTimer(n) \/ AdjustTimer(n) \/ DelTimer(n)
    \/ TickBegin \/ TickOne \/ TickEnd \/ Clock

Spec == Init /\ [][Next]_vars

----------------------------------------------------------------------------
(* Correctness. *)

\* The nodes from head on, as the set each of them reaches through next.
After ==
    LET Reach[k \in 0..Cardinality(Nodes)] == [n \in Nodes |->
            IF k = 0 \/ list.next[n] = Null THEN {}
            ELSE {list.next[n]} \cup Reach[k - 1][list.next[n]]]
    IN  Reach[Cardinality(Nodes)]

\* head, next, prev and tail describe one list without cycles of exactly the
\* live nodes.  When it is empty tail may dangle: tick does not reset it.
WellLinked ==
    IF list.head = Null
    THEN live = {}
    ELSE /\ live = {list.head} \cup After[list.head]
         /\ \A n \in live : n \notin After[n]
         /\ list.prev[list.head] = Null
         /\ \A n \in live : list.next[n] # Null => list.prev[list.next[n]] = n
         /\ list.tail \in live /\ list.next[list.tail] = Null

\* The list is in order of expiry.
Sorted == \A n \in live : list.next[n] # Null => expire[n] <= expire[list.next[n]]

\* The list is a set of timers: whatever its pointers do, tick removes exactly
\* the nodes that are due.
TS == INSTANCE TimerSet
        WITH due <- [n \in Nodes |-> IF n \in live THEN expire[n] ELSE Null]

ImplementsTimerSet == TS!TSSpec

============================================================================
