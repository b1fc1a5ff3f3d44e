------------------------------- MODULE Users -------------------------------
(***************************************************************************)
(* Registration and login in http_conn::do_request, by threads that have   *)
(* a connection from the pool meanwhile (module ConnPool): the map of      *)
(* users in memory, which all slots share, and the user table behind it.   *)
(* m_http_lock is a member of the slot, so it keeps no two threads apart,  *)
(* and two of them may register the same name at once.  Each operation on  *)
(* the map is taken as one step.                                           *)
(***************************************************************************)
EXTENDS ConnPool

CONSTANTS Names, Passwords

ASSUME PasswordsAssumption == None \notin Passwords

VARIABLES
    users,      \* m_users_map: the password of each name, or None
    table,      \* the rows of the table user, which has no unique key
    st,         \* where each thread is in do_request
    job,        \* what its client asked
    told,       \* the page chosen for the client
    acked,      \* history: registrations that were answered with success
    raced       \* history: names that two threads have found free at once

pool == <<shared, pc, con, counters, events>>
data == <<users, table, acked, raced>>
vars == <<pool, data, st, job, told>>

Accounts == [name : Names, pw : Passwords]

Rows == {table[i] : i \in DOMAIN table}

\* "known": the account was registered before it is used to log in.
Jobs == [op : {"register", "login"}, of : Accounts, known : BOOLEAN, stored : BOOLEAN]

\* The last of the rows r with name n.
LastPassword(r, n) ==
    LET at == {i \in DOMAIN r : r[i].name = n}
    IN  IF at = {} THEN None ELSE r[CHOOSE i \in at : \A j \in at : j <= i].pw

Idle ==
    /\ st = [t \in Threads |-> "idle"]
    /\ job = [t \in Threads |-> None]
    /\ told = [t \in Threads |-> None]

Init ==
    /\ PoolInit /\ Idle
    /\ users = [n \in Names |-> None] /\ table = <<>>
    /\ acked = {} /\ raced = {}

Step(t, p) == st' = [st EXCEPT ![t] = p]

Tell(t, page) == told' = [told EXCEPT ![t] = page]

----------------------------------------------------------------------------
(* do_request, between taking and returning the connection. *)

\* Threads that have found n free and not yet put it into the map.
Registering(n) ==
    {t \in Threads : st[t] \in {"insert", "store"} /\ job[t].of.name = n}

Begin(t, op, a) ==
    /\ pc[t] \in {"using", "null"} /\ st[t] = "idle"
    /\ job' = [job EXCEPT ![t] =
                  [op |-> op, of |-> a, known |-> a \in acked, stored |-> FALSE]]
    /\ Step(t, "find")
    /\ UNCHANGED <<pool, data, told>>

\* Defective: nobody looks whether the name is taken.
FreeToRegisterAgain(n) == TRUE

FreeToRegister(n) == users[n] = None

FindName(t) ==
    /\ st[t] = "find" /\ job[t].op = "register"
    /\ LET n == job[t].of.name
       IN  IF FreeToRegister(n)
           THEN /\ Step(t, "insert")
                /\ raced' = IF Registering(n) = {} THEN raced ELSE raced \cup {n}
                /\ UNCHANGED told
           ELSE /\ Step(t, "done") /\ Tell(t, "registerError")
                /\ UNCHANGED raced
    /\ UNCHANGED <<pool, users, table, acked, job>>

Login(t) ==
    /\ st[t] = "find" /\ job[t].op = "login"
    /\ Tell(t, IF users[job[t].of.name] = job[t].of.pw THEN "welcome" ELSE "logError")
    /\ Step(t, "done")
    /\ UNCHANGED <<pool, data, job>>

\* mysql_query: it may fail, and even so the row may have got in.  Without a
\* connection it is undefined; the thread gets no further than to a crash.
Insert(t, ok, in) ==
    /\ st[t] = "insert" /\ con[t] # None
    /\ ok => in
    /\ table' = IF in THEN Append(table, job[t].of) ELSE table
    /\ job' = [job EXCEPT ![t].stored = ok]
    /\ Step(t, "store")
    /\ UNCHANGED <<pool, users, acked, raced, told>>

\* Defective: only what the database has confirmed goes into the map.
StoreConfirmed(t) == IF job[t].stored THEN job[t].of.pw ELSE None

\* insert() keeps what is there.
Stored(t) == IF users[job[t].of.name] = None THEN job[t].of.pw ELSE users[job[t].of.name]

\* Defective: what mysql_query returned is not looked at.
SucceededAnyway(t) == TRUE

Succeeded(t) == job[t].stored

Store(t) ==
    /\ st[t] = "store"
    /\ users' = [users EXCEPT ![job[t].of.name] = Stored(t)]
    /\ Tell(t, IF Succeeded(t) THEN "log" ELSE "registerError")
    /\ acked' = IF Succeeded(t) THEN acked \cup {job[t].of} ELSE acked
    /\ Step(t, "done")
    /\ UNCHANGED <<pool, table, raced, job>>

----------------------------------------------------------------------------

\* A thread returns its connection when it is done, if it had a job at all.
GiveBack(t) ==
    /\ st[t] \in {"idle", "done"}
    /\ ReleaseNull(t) \/ LockToRelease(t)
    /\ Step(t, "idle")
    /\ job' = [job EXCEPT ![t] = None] /\ Tell(t, None)
    /\ UNCHANGED data

Pool(t) ==
    /\ Get(t) \/ Release(t) \/ UnlockReleased(t) \/ Post(t)
    /\ UNCHANGED <<data, st, job, told>>

Work(t) ==
    \/ FindName(t) \/ Login(t) \/ Store(t)
    \/ \E ok, in \in BOOLEAN : Insert(t, ok, in)

Signal(t) == SemInterrupted(t) /\ UNCHANGED <<data, st, job, told>>

Destroy == DestroyPool /\ UNCHANGED <<data, st, job, told>>

\* The process dies and is started again; init_mysql_result reads the table.
Restart ==
    /\ list' \in Orders
    /\ sem' = Cardinality(Conns) /\ lock' = None
    /\ pc' = [t \in Threads |-> "idle"] /\ con' = [t \in Threads |-> None]
    /\ free' = Cardinality(Conns) /\ cur' = 0
    /\ closed' = {} /\ fault' = {} /\ signalled' = FALSE
    /\ users' = [n \in Names |-> LastPassword(table, n)]
    /\ st' = [t \in Threads |-> "idle"]
    /\ job' = [t \in Threads |-> None] /\ told' = [t \in Threads |-> None]
    /\ UNCHANGED <<table, acked, raced>>

Asked(t) == \E op \in {"register", "login"}, a \in Accounts : Begin(t, op, a)

Next ==
    \/ Destroy \/ Restart
    \/ \E t \in Threads : Pool(t) \/ Asked(t) \/ Work(t) \/ GiveBack(t) \/ Signal(t)

Spec == Init /\ [][Next]_vars

----------------------------------------------------------------------------
(* Correctness. *)

\* Each variable keeps its type.
TypeOK ==
    /\ PoolTypeOK
    /\ users \in [Names -> Passwords \cup {None}]
    /\ table \in Seq(Accounts) /\ acked \subseteq Accounts /\ raced \subseteq Names
    /\ st \in [Threads -> {"idle", "find", "insert", "store", "done"}]
    /\ job \in [Threads -> Jobs \cup {None}]
    /\ told \in [Threads -> {"log", "registerError", "welcome", "logError", None}]

\* No name is registered twice, over crashes, failed INSERTs and INSERTs that
\* succeeded although they were reported as failed: the one way to two rows of
\* a name is that two threads searched the map before either had added to it.
UniqueNames ==
    \A i, j \in DOMAIN table :
        table[i].name = table[j].name /\ table[i].name \notin raced => i = j

\* Whoever was told that he is registered can log in, also after a restart,
\* unless somebody else was registering his name at the same time.
AckedCanLogin ==
    /\ \A a \in acked : a.name \notin raced => users[a.name] = a.pw
    /\ \A t \in Threads :
          st[t] = "done" /\ job[t].op = "login" /\ job[t].known /\ job[t].of.name \notin raced
            => told[t] = "welcome"

\* Every name in the table is in the map, except while its INSERT and the
\* insertion into the map are two steps apart, whoever else registers it.
MapCoversTable ==
    \A r \in Rows :
        users[r.name] = None => \E t \in Registering(r.name) : st[t] = "store"

============================================================================
