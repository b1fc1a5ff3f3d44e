------------------------------ MODULE ConnPool ------------------------------
(***************************************************************************)
(* connection_pool: database connections in a list under m_conn_lock, and  *)
(* the semaphore m_reserve_conn that counts them.  A thread takes one when *)
(* its connectionRAII is constructed and returns it when that is destroyed.*)
(* get_conn looks at the list once before it waits, without the lock.      *)
(***************************************************************************)
EXTENDS Integers, Sequences, FiniteSets

CONSTANTS Threads, Conns, None

ASSUME NoneAssumption == None \notin Threads \cup Conns
ASSUME FiniteAssumption == IsFiniteSet(Threads) /\ IsFiniteSet(Conns)

VARIABLES
    list,       \* m_conn_list
    sem,        \* value of m_reserve_conn
    lock,       \* the thread that holds m_conn_lock
    pc,         \* where each thread is in get_conn, in its work or in release_conn
    con,        \* the connection each thread has
    free, cur,  \* m_free_conn, m_cur_conn
    closed,     \* connections mysql_close was called on
    fault,      \* threads that called front() on an empty list
    signalled   \* has a signal handler ever interrupted sem_wait

shared == <<list, sem, lock>>
counters == <<free, cur>>
events == <<closed, fault, signalled>>
poolVars == <<shared, pc, con, counters, events>>

\* The connections in the list.
Listed == {list[i] : i \in 1..Len(list)}

\* The orders in which the connections may be made.
Orders ==
    {s \in [1..Cardinality(Conns) -> Conns] : \A i, j \in DOMAIN s : s[i] = s[j] => i = j}

\* init_sql_pool exits unless every connection could be made.
PoolInit ==
    /\ list \in Orders
    /\ sem = Cardinality(Conns) /\ lock = None
    /\ pc = [t \in Threads |-> "idle"]
    /\ con = [t \in Threads |-> None]
    /\ free = Cardinality(Conns) /\ cur = 0
    /\ closed = {} /\ fault = {} /\ signalled = FALSE

Goto(t, p) == pc' = [pc EXCEPT ![t] = p]

----------------------------------------------------------------------------
(* get_conn. *)

\* The unlocked look at the list: an empty one gives nullptr at once.
CheckEmpty(t) ==
    /\ pc[t] = "idle"
    /\ Goto(t, IF list = <<>> THEN "null" ELSE "wait")
    /\ UNCHANGED <<shared, con, counters, events>>

SemBlock(t) ==
    /\ pc[t] = "wait" /\ sem = 0
    /\ Goto(t, "blocked")
    /\ UNCHANGED <<shared, con, counters, events>>

\* Defective: the unit is not taken.
NotTaken == sem

UnitTaken == sem - 1

SemTake(t) ==
    /\ pc[t] \in {"wait", "blocked"} /\ sem > 0
    /\ sem' = UnitTaken
    /\ Goto(t, "reserved")
    /\ UNCHANGED <<list, lock, con, counters, events>>

\* EINTR: get_conn does not look at what sem_wait returned.
SemInterrupted(t) ==
    /\ pc[t] = "blocked"
    /\ signalled' = TRUE
    /\ Goto(t, "reserved")
    /\ UNCHANGED <<shared, con, counters, closed, fault>>

LockToTake(t) ==
    /\ pc[t] = "reserved" /\ lock = None
    /\ lock' = t
    /\ Goto(t, "taking")
    /\ UNCHANGED <<list, sem, con, counters, events>>

\* Defective: front() without pop_front().
Unpopped == list

Popped == Tail(list)

\* front() and pop_front() of an empty std::list are undefined; the model
\* records the fault and goes no further with that thread.
Take(t) ==
    /\ pc[t] = "taking"
    /\ IF list = <<>>
       THEN /\ fault' = fault \cup {t}
            /\ Goto(t, "fault")
            /\ UNCHANGED <<list, con, counters>>
       ELSE /\ con' = [con EXCEPT ![t] = Head(list)]
            /\ list' = Popped
            /\ free' = free - 1 /\ cur' = cur + 1
            /\ Goto(t, "taken")
            /\ UNCHANGED fault
    /\ UNCHANGED <<sem, lock, closed, signalled>>

UnlockTaken(t) ==
    /\ pc[t] = "taken"
    /\ lock' = None
    /\ Goto(t, "using")
    /\ UNCHANGED <<list, sem, con, counters, events>>

----------------------------------------------------------------------------
(* release_conn. *)

\* ~connectionRAII; releasing nullptr does nothing.
ReleaseNull(t) ==
    /\ pc[t] = "null"
    /\ Goto(t, "idle")
    /\ UNCHANGED <<shared, con, counters, events>>

LockToRelease(t) ==
    /\ pc[t] = "using" /\ lock = None
    /\ lock' = t
    /\ Goto(t, "releasing")
    /\ UNCHANGED <<list, sem, con, counters, events>>

\* Defective: the connection is not put back.
PutNothingBack(t) == UNCHANGED list

\* Defective: the pointer is cleared before it is put back.
PutNullBack(t) == list' = Append(list, None)

PutBack(t) == list' = Append(list, con[t])

Release(t) ==
    /\ pc[t] = "releasing"
    /\ PutBack(t)
    /\ con' = [con EXCEPT ![t] = None]
    /\ free' = free + 1 /\ cur' = cur - 1
    /\ Goto(t, "released")
    /\ UNCHANGED <<sem, lock, events>>

UnlockReleased(t) ==
    /\ pc[t] = "released"
    /\ lock' = None
    /\ Goto(t, "post")
    /\ UNCHANGED <<list, sem, con, counters, events>>

\* Defective: the semaphore is not posted.
NoPost == sem

Posted == sem + 1

Post(t) ==
    /\ pc[t] = "post"
    /\ sem' = Posted
    /\ Goto(t, "idle")
    /\ UNCHANGED <<list, lock, con, counters, events>>

----------------------------------------------------------------------------
(* destroy_pool, which the destructor of the static pool calls at exit. *)

\* Defective: the closed connections stay in the list.
KeepList == UNCHANGED list

ClearList == list' = <<>>

DestroyPool ==
    /\ lock = None
    /\ list # <<>>
    /\ closed' = closed \cup Listed
    /\ ClearList
    /\ free' = 0 /\ cur' = 0
    /\ UNCHANGED <<sem, lock, pc, con, fault, signalled>>

----------------------------------------------------------------------------

Get(t) == CheckEmpty(t) \/ SemBlock(t) \/ SemTake(t) \/ LockToTake(t) \/ Take(t) \/ UnlockTaken(t)

Put(t) ==
    \/ ReleaseNull(t) \/ LockToRelease(t) \/ Release(t) \/ UnlockReleased(t) \/ Post(t)

PoolNext == DestroyPool \/ \E t \in Threads : Get(t) \/ Put(t) \/ SemInterrupted(t)

PoolSpec == PoolInit /\ [][PoolNext]_poolVars

\* A thread that has begun to take or return a connection goes on; queries
\* return; semaphore and mutex are granted to whoever finds them free again
\* and again.
Fairness == \A t \in Threads : SF_poolVars(pc[t] # "idle" /\ (Get(t) \/ Put(t)))

PoolFairSpec == PoolSpec /\ Fairness

----------------------------------------------------------------------------
(* Correctness. *)

\* Each variable keeps its type.
PoolTypeOK ==
    /\ list \in Seq(Conns)
    /\ sem \in Nat
    /\ lock \in Threads \cup {None}
    /\ pc \in [Threads -> {"idle", "null", "wait", "blocked", "reserved", "taking", "taken",
                           "using", "releasing", "released", "post", "fault"}]
    /\ con \in [Threads -> Conns \cup {None}]
    /\ free \in Int /\ cur \in Int
    /\ closed \subseteq Conns /\ fault \subseteq Threads /\ signalled \in BOOLEAN

\* get_conn never calls front() or pop_front() on an empty list, as long as
\* the pool is not destroyed and no signal handler interrupts sem_wait.
PopNonEmpty == closed = {} /\ ~signalled => fault = {}

\* A connection is in the list once or with one thread, and never both.
ExclusiveConn ==
    /\ \A i, j \in 1..Len(list) : list[i] = list[j] => i = j
    /\ \A t \in Threads : con[t] # None => con[t] \notin Listed
    /\ \A t, u \in Threads : con[t] # None /\ con[t] = con[u] => t = u

\* No connection is lost before the pool is destroyed: each is listed or with
\* a thread, and the counters say how many are where.
ConnsConserved ==
    closed = {} =>
    /\ Conns = Listed \cup {con[t] : t \in {u \in Threads : con[u] # None}}
    /\ free = Len(list)
    /\ cur = Cardinality({t \in Threads : con[t] # None})

\* No thread works with a connection the pool has closed, even when the pool
\* is destroyed under it.
NotClosedInUse == \A t \in Threads : con[t] \notin closed

\* Who waits for a connection gets one, unless signals or the end of the pool
\* come in between.
WaiterServed ==
    \A t \in Threads : pc[t] \in {"wait", "blocked"} ~> con[t] # None \/ signalled \/ closed # {}

\* A thread that asks for a connection is given one, at once and not null.
NoNull == \A t \in Threads : pc[t] # "null"

\* Nobody ever sleeps in get_conn.
NeverBlocks == \A t \in Threads : pc[t] # "blocked"

============================================================================
