---------------------------- MODULE UsersProofs ----------------------------
(***************************************************************************)
(* Users for every number of threads, connections, names and passwords,    *)
(* whoever registers what: a name gets a second row only if two threads    *)
(* found it free at once (raced), and the owner of any other name who was  *)
(* told that he is registered can log in.                                  *)
(***************************************************************************)
EXTENDS Users, ConnPoolProofs, WellFoundedInduction

\* A thread that registers someone has searched the map or is about to.
JobTypes ==
    /\ users \in [Names -> Passwords \cup {None}]
    /\ table \in Seq(Accounts) /\ acked \subseteq Accounts /\ raced \subseteq Names
    /\ st \in [Threads -> {"idle", "find", "insert", "store", "done"}]
    /\ job \in [Threads -> Jobs \cup {None}]
    /\ told \in [Threads -> {"log", "registerError", "welcome", "logError", None}]
    /\ \A t \in Threads : st[t] # "idle" => job[t] \in Jobs
    /\ \A t \in Threads : st[t] \in {"insert", "store"} => job[t].op = "register"

\* No two threads register the same name, but for the raced ones; so below.
OnePerName ==
    \A t, u \in Threads, n \in Names :
        t \in Registering(n) /\ u \in Registering(n) /\ n \notin raced => t = u

\* Who is about to insert a name finds it neither in the map nor in the table.
ToInsert ==
    \A t \in Threads : st[t] = "insert" /\ job[t].of.name \notin raced =>
        /\ users[job[t].of.name] = None
        /\ \A i \in DOMAIN table : table[i].name # job[t].of.name

\* Between the INSERT and the map: the only row of that name is the thread's
\* own, and it is there if the INSERT was confirmed.
ToStore ==
    \A t \in Threads : st[t] = "store" /\ job[t].of.name \notin raced =>
        /\ users[job[t].of.name] = None
        /\ \A i \in DOMAIN table : table[i].name = job[t].of.name => table[i] = job[t].of
        /\ job[t].stored => \E i \in DOMAIN table : table[i] = job[t].of

\* The row's own thread is between the INSERT and the map.
OnItsWay(i) == \E t \in Threads : st[t] = "store" /\ job[t].of = table[i]

\* The map has the password of every row, but for the one between the two.
InMap ==
    \A i \in DOMAIN table :
        table[i].name \notin raced => users[table[i].name] = table[i].pw \/ OnItsWay(i)

\* The map has some password for every row, raced or not.
Covered == \A i \in DOMAIN table : users[table[i].name] # None \/ OnItsWay(i)

Backed ==
    \A a \in acked : a.name \notin raced =>
        users[a.name] = a.pw /\ \E i \in DOMAIN table : table[i] = a

KnownAcked == \A t \in Threads : st[t] # "idle" /\ job[t].known => job[t].of \in acked

LoginsGood ==
    \A t \in Threads :
        st[t] = "done" /\ job[t].op = "login" /\ job[t].known /\ job[t].of.name \notin raced
          => told[t] = "welcome"

Names1 == OnePerName /\ ToInsert /\ ToStore /\ UniqueNames /\ InMap

Accepted == Backed /\ KnownAcked /\ LoginsGood

UsersInv == JobTypes /\ Names1 /\ Covered /\ Accepted

USE PasswordsAssumption

LEMMA UsersInit == Init => UsersInv
<1> SUFFICES ASSUME Init PROVE UsersInv
  OBVIOUS
<1>1. JobTypes
  BY DEF Init, Idle, JobTypes
<1>2. Names1 /\ Covered
  BY DEF Init, Idle, Names1, OnePerName, ToInsert, ToStore, UniqueNames, InMap, Covered, Registering
<1>3. Accepted
  BY DEF Init, Idle, Accepted, Backed, KnownAcked, LoginsGood
<1> QED
  BY <1>1, <1>2, <1>3 DEF UsersInv

\* The pool's own steps.
LEMMA SameData ==
    ASSUME UsersInv, UNCHANGED <<data, st, job, told>>
    PROVE  UsersInv'
<1> USE DEF data, UsersInv
<1>1. JobTypes'
  BY DEF JobTypes
<1>2. Names1' /\ Covered'
  BY DEF Names1, OnePerName, ToInsert, ToStore, UniqueNames, InMap, Covered, OnItsWay, Registering
<1>3. Accepted'
  BY DEF Accepted, Backed, KnownAcked, LoginsGood
<1> QED
  BY <1>1, <1>2, <1>3

\* Steps that add no row, no registration and nobody to those who register:
\* whoever was between two steps still is, or is not in the table's way.
LEMMA NobodyComes ==
    ASSUME UsersInv, UNCHANGED <<users, table, raced>>,
           \A t \in Threads : st'[t] \in {"insert", "store"} => st'[t] = st[t] /\ job'[t] = job[t],
           \A t \in Threads : st[t] = "store" => st'[t] = st[t] /\ job'[t] = job[t]
    PROVE  Names1' /\ Covered'
<1> USE DEF UsersInv
<1>1. OnePerName'
  BY DEF Names1, OnePerName, Registering
<1>2. ToInsert' /\ ToStore' /\ UniqueNames'
  BY DEF Names1, ToInsert, ToStore, UniqueNames
<1>3. InMap' /\ Covered'
  BY DEF Names1, InMap, Covered, OnItsWay
<1> QED
  BY <1>1, <1>2, <1>3 DEF Names1

LEMMA BeginKeeps ==
    ASSUME UsersInv, NEW t \in Threads, NEW op \in {"register", "login"},
           NEW a \in Accounts, Begin(t, op, a)
    PROVE  UsersInv'
<1> USE DEF data, UsersInv
<1>1. /\ st[t] = "idle" /\ st' = [st EXCEPT ![t] = "find"]
      /\ UNCHANGED <<users, table, acked, raced, told>>
  BY DEF Begin, Step
<1> DEFINE j == [op |-> op, of |-> a, known |-> a \in acked, stored |-> FALSE]
<1>2. job' = [job EXCEPT ![t] = j]
  BY DEF Begin
<1>3. j \in Jobs
  <2>1. (a \in acked) \in BOOLEAN
    OBVIOUS
  <2> QED
    BY <2>1 DEF Jobs
<1>4. j.op = op /\ j.of = a /\ (j.known <=> a \in acked)
  OBVIOUS
<1> HIDE DEF j
<1>5. JobTypes'
  BY <1>1, <1>2, <1>3 DEF JobTypes
<1>6. \A u \in Threads : u # t => st'[u] = st[u] /\ job'[u] = job[u]
  BY <1>1, <1>2 DEF JobTypes
<1>7. st'[t] = "find" /\ job'[t] = j
  BY <1>1, <1>2 DEF JobTypes
<1>8. Names1' /\ Covered'
  BY <1>1, <1>6, <1>7, NobodyComes
<1>9. Accepted'
  BY <1>1, <1>4, <1>6, <1>7 DEF Accepted, Backed, KnownAcked, LoginsGood
<1> QED
  BY <1>5, <1>8, <1>9

\* A thread that finds a name free either is the first or makes it raced.
LEMMA FindNameKeeps ==
    ASSUME UsersInv, NEW t \in Threads, FindName(t)
    PROVE  UsersInv'
<1> USE DEF data, UsersInv
<1> DEFINE n == job[t].of.name
<1>1. /\ st[t] = "find" /\ job[t].op = "register" /\ job[t] \in Jobs
      /\ UNCHANGED <<users, table, acked, job>>
  BY DEF FindName, JobTypes
<1>2. job[t].of \in Accounts /\ n \in Names
  BY <1>1 DEF Jobs, Accounts
<1>3. CASE FreeToRegister(n)
  <2>1. /\ st' = [st EXCEPT ![t] = "insert"] /\ told' = told
        /\ raced' = IF Registering(n) = {} THEN raced ELSE raced \cup {n}
    BY <1>3 DEF FindName, Step
  <2>2. st'[t] = "insert" /\ \A u \in Threads : u # t => st'[u] = st[u]
    BY <2>1 DEF JobTypes
  <2>3. raced \subseteq raced' /\ raced' \subseteq Names
    BY <1>2, <2>1 DEF JobTypes
  <2>4. n \notin raced' => Registering(n) = {}
    BY <2>1
  <2>5. users[n] = None
    BY <1>3 DEF FreeToRegister
  <2>6. ASSUME NEW i \in DOMAIN table, n \notin raced' PROVE table[i].name # n
    <3>1. table[i] \in Accounts
      BY DEF JobTypes
    <3>2. table[i].pw # None
      BY <3>1 DEF Accounts
    <3>3. ASSUME table[i].name = n PROVE FALSE
      <4>1. PICK u \in Threads : st[u] = "store" /\ job[u].of = table[i]
        BY <2>3, <2>5, <2>6, <3>2, <3>3 DEF Names1, InMap, OnItsWay
      <4>2. u \in Registering(n)
        BY <3>3, <4>1 DEF Registering
      <4> QED
        BY <2>4, <2>6, <4>2
    <3> QED
      BY <3>3
  <2>7. JobTypes'
    BY <1>1, <2>1, <2>3 DEF JobTypes
  <2>8. OnePerName'
    <3> SUFFICES ASSUME NEW u \in Threads, NEW v \in Threads, NEW m \in Names, m \notin raced',
                        u \in Registering(m)', v \in Registering(m)'
                 PROVE  u = v
      BY DEF OnePerName
    <3>1. /\ u = t \/ u \in Registering(m)
          /\ v = t \/ v \in Registering(m)
          /\ (u = t \/ v = t) => m = n
      BY <1>1, <2>2 DEF Registering
    <3> QED
      BY <2>3, <2>4, <3>1 DEF Names1, OnePerName
  <2>9. ToInsert'
    BY <1>1, <2>2, <2>3, <2>5, <2>6 DEF Names1, ToInsert
  <2>10. ToStore' /\ UniqueNames'
    BY <1>1, <2>2, <2>3 DEF Names1, ToStore, UniqueNames
  <2>11. InMap' /\ Covered'
    BY <1>1, <2>2, <2>3 DEF Names1, InMap, Covered, OnItsWay
  <2>12. Accepted'
    BY <1>1, <2>1, <2>2, <2>3 DEF Accepted, Backed, KnownAcked, LoginsGood
  <2> QED
    BY <2>7, <2>8, <2>9, <2>10, <2>11, <2>12 DEF Names1
<1>4. CASE ~FreeToRegister(n)
  <2>1. /\ st' = [st EXCEPT ![t] = "done"] /\ told' = [told EXCEPT ![t] = "registerError"]
        /\ raced' = raced
    BY <1>4 DEF FindName, Step, Tell
  <2>2. /\ st'[t] = "done"
        /\ \A u \in Threads : u # t => st'[u] = st[u] /\ told'[u] = told[u]
    BY <2>1 DEF JobTypes
  <2>3. JobTypes'
    BY <1>1, <2>1 DEF JobTypes
  <2>4. Names1' /\ Covered'
    BY <1>1, <2>1, <2>2, NobodyComes
  <2>5. Accepted'
    BY <1>1, <2>1, <2>2 DEF Accepted, Backed, KnownAcked, LoginsGood
  <2> QED
    BY <2>3, <2>4, <2>5
<1> QED
  BY <1>3, <1>4

LEMMA LoginKeeps ==
    ASSUME UsersInv, NEW t \in Threads, Login(t)
    PROVE  UsersInv'
<1> USE DEF data, UsersInv
<1> DEFINE page == IF users[job[t].of.name] = job[t].of.pw THEN "welcome" ELSE "logError"
<1>1. /\ st[t] = "find" /\ job[t] \in Jobs
      /\ st' = [st EXCEPT ![t] = "done"] /\ told' = [told EXCEPT ![t] = page]
      /\ UNCHANGED <<users, table, acked, raced, job>>
  BY DEF Login, Step, Tell, JobTypes
<1>2. /\ st'[t] = "done" /\ told'[t] = page
      /\ \A u \in Threads : u # t => st'[u] = st[u] /\ told'[u] = told[u]
  BY <1>1 DEF JobTypes
<1>3. JobTypes'
  BY <1>1 DEF JobTypes
<1>4. Names1' /\ Covered'
  BY <1>1, <1>2, NobodyComes
<1>5. job[t].known /\ job[t].of.name \notin raced => told'[t] = "welcome"
  BY <1>1, <1>2 DEF Accepted, Backed, KnownAcked
<1>6. Accepted'
  BY <1>1, <1>2, <1>5 DEF Accepted, Backed, KnownAcked, LoginsGood
<1> QED
  BY <1>3, <1>4, <1>6

LEMMA InsertKeeps ==
    ASSUME UsersInv, NEW t \in Threads, NEW ok \in BOOLEAN, NEW in \in BOOLEAN,
           Insert(t, ok, in)
    PROVE  UsersInv'
<1> USE DEF data, UsersInv
<1> DEFINE j == [job[t] EXCEPT !.stored = ok]
           mine == job[t].of.name \notin raced
<1>1. /\ st[t] = "insert" /\ (ok => in)
      /\ st' = [st EXCEPT ![t] = "store"] /\ job' = [job EXCEPT ![t].stored = ok]
      /\ UNCHANGED <<users, acked, raced, told>>
  BY DEF Insert, Step
<1>2. job[t] \in Jobs /\ job[t].op = "register"
  BY <1>1 DEF JobTypes
<1>3. job[t].of \in Accounts /\ job[t].of.name \in Names /\ job[t].of.pw \in Passwords
  BY <1>2 DEF Jobs, Accounts
<1>4. j \in Jobs /\ j.op = job[t].op /\ j.of = job[t].of /\ j.known = job[t].known /\ j.stored = ok
  BY <1>2 DEF Jobs
<1>5. job' = [job EXCEPT ![t] = j]
  BY <1>1
<1> HIDE DEF j
<1>6. /\ st'[t] = "store" /\ job'[t] = j
      /\ \A u \in Threads : u # t => st'[u] = st[u] /\ job'[u] = job[u]
  BY <1>1, <1>5 DEF JobTypes
<1>7. table \in Seq(Accounts) /\ table' = IF in THEN Append(table, job[t].of) ELSE table
  BY DEF JobTypes, Insert
<1>8. /\ table' \in Seq(Accounts)
      /\ \A i \in DOMAIN table : i \in DOMAIN table' /\ table'[i] = table[i]
      /\ \A i \in DOMAIN table' : i \notin DOMAIN table => table'[i] = job[t].of
      /\ in => \E i \in DOMAIN table' : table'[i] = job[t].of
  <2>1. CASE in
    <3>1. /\ table' \in Seq(Accounts) /\ Len(table') = Len(table) + 1
          /\ DOMAIN table = 1..Len(table) /\ DOMAIN table' = 1..Len(table')
          /\ \A i \in 1..Len(table) : table'[i] = table[i]
          /\ table'[Len(table) + 1] = job[t].of
      BY <1>3, <1>7, <2>1
    <3> QED
      BY <1>7, <3>1
  <2>2. CASE ~in
    BY <1>7, <2>2
  <2> QED
    BY <2>1, <2>2
<1>9. mine => \A i \in DOMAIN table : table[i].name # job[t].of.name
  BY <1>1 DEF Names1, ToInsert
<1>10. JobTypes'
  BY <1>1, <1>2, <1>4, <1>5, <1>6, <1>8 DEF JobTypes
<1>11. OnePerName'
  BY <1>1, <1>2, <1>4, <1>6 DEF Names1, OnePerName, Registering
<1>12. ASSUME mine, NEW u \in Threads, u # t, st[u] \in {"insert", "store"}
       PROVE  job[u].of.name # job[t].of.name
  BY <1>1, <1>3, <1>12 DEF Names1, OnePerName, Registering
<1>13. \A i \in DOMAIN table' : i \in DOMAIN table \/ table'[i] = job[t].of
  BY <1>8
<1>14. ToInsert'
  <2> SUFFICES ASSUME NEW u \in Threads, st'[u] = "insert", job'[u].of.name \notin raced
      PROVE  /\ users[job'[u].of.name] = None
             /\ \A i \in DOMAIN table' : table'[i].name # job'[u].of.name
    BY <1>1 DEF ToInsert
  <2>1. u # t /\ st[u] = "insert" /\ job'[u] = job[u]
    BY <1>6
  <2>2. job[u].of.name # job[t].of.name
    BY <1>12, <2>1
  <2> QED
    BY <1>8, <1>13, <2>1, <2>2 DEF Names1, ToInsert
<1>15. ToStore'
  <2> SUFFICES ASSUME NEW u \in Threads, st'[u] = "store", job'[u].of.name \notin raced
      PROVE  /\ users[job'[u].of.name] = None
             /\ \A i \in DOMAIN table' :
                  table'[i].name = job'[u].of.name => table'[i] = job'[u].of
             /\ job'[u].stored => \E i \in DOMAIN table' : table'[i] = job'[u].of
    BY <1>1 DEF ToStore
  <2>1. CASE u = t
    <3>1. mine /\ users[job[t].of.name] = None
      BY <1>1, <1>4, <1>6, <2>1 DEF Names1, ToInsert
    <3> QED
      BY <1>1, <1>4, <1>6, <1>8, <1>9, <1>13, <2>1, <3>1
  <2>2. CASE u # t
    <3>1. st[u] = "store" /\ job'[u] = job[u]
      BY <1>6, <2>2
    <3>2. job[u].of.name # job[t].of.name
      BY <1>12, <2>2, <3>1
    <3> QED
      BY <1>8, <1>13, <3>1, <3>2 DEF Names1, ToStore
  <2> QED
    BY <2>1, <2>2
<1>16. UniqueNames'
  <2>1. \A i \in DOMAIN table' : i \notin DOMAIN table => i = Len(table) + 1
    BY <1>3, <1>7
  <2> QED
    BY <1>1, <1>8, <1>9, <2>1 DEF Names1, UniqueNames
<1>17. \A i \in DOMAIN table : OnItsWay(i) => OnItsWay(i)'
  BY <1>1, <1>6, <1>8 DEF OnItsWay
<1>18. \A i \in DOMAIN table' : i \notin DOMAIN table => OnItsWay(i)'
  BY <1>4, <1>6, <1>8 DEF OnItsWay
<1>19. InMap' /\ Covered'
  BY <1>1, <1>8, <1>17, <1>18 DEF Names1, InMap, Covered
<1>20. Accepted'
  <2>1. Backed'
    BY <1>1, <1>8 DEF Accepted, Backed
  <2>2. KnownAcked' /\ LoginsGood'
    BY <1>1, <1>4, <1>6 DEF Accepted, KnownAcked, LoginsGood
  <2> QED
    BY <2>1, <2>2 DEF Accepted
<1> QED
  BY <1>10, <1>11, <1>14, <1>15, <1>16, <1>19, <1>20 DEF Names1

LEMMA StoreKeeps ==
    ASSUME UsersInv, NEW t \in Threads, Store(t)
    PROVE  UsersInv'
<1> USE DEF data, UsersInv
<1> DEFINE a == job[t].of
<1>1. /\ st[t] = "store" /\ st' = [st EXCEPT ![t] = "done"]
      /\ UNCHANGED <<table, raced, job>>
      /\ \E page \in {"log", "registerError"} : told' = [told EXCEPT ![t] = page]
  BY DEF Store, Step, Tell
<1>2. job[t] \in Jobs /\ job[t].op = "register"
  BY <1>1 DEF JobTypes
<1>3. a \in Accounts /\ a.name \in Names /\ a.pw \in Passwords
  BY <1>2 DEF Jobs, Accounts
<1>4. a.name \notin raced => users[a.name] = None
  BY <1>1 DEF Names1, ToStore
<1>5. users' = [users EXCEPT ![a.name] = Stored(t)] /\ Stored(t) \in Passwords
  BY <1>3 DEF Store, Stored, JobTypes
<1>6. /\ users'[a.name] = Stored(t) /\ users'[a.name] # None
      /\ a.name \notin raced => users'[a.name] = a.pw
      /\ \A n \in Names : n # a.name => users'[n] = users[n]
  BY <1>3, <1>4, <1>5 DEF JobTypes, Stored
<1>7. /\ st'[t] = "done"
      /\ \A u \in Threads : u # t => st'[u] = st[u] /\ told'[u] = told[u]
  BY <1>1 DEF JobTypes
<1>8. acked' = IF job[t].stored THEN acked \cup {a} ELSE acked
  BY DEF Store, Succeeded
<1>9. \A i \in DOMAIN table : table[i] \in Accounts
  BY DEF JobTypes
<1> HIDE DEF a
<1>10. JobTypes'
  <2>1. users' \in [Names -> Passwords \cup {None}]
    BY <1>3, <1>5 DEF JobTypes
  <2>2. acked' \subseteq Accounts
    BY <1>3, <1>8 DEF JobTypes
  <2> QED
    BY <1>1, <2>1, <2>2 DEF JobTypes
<1>11. OnePerName'
  BY <1>1, <1>7 DEF Names1, OnePerName, Registering
<1>12. ASSUME NEW u \in Threads, u # t, st[u] \in {"insert", "store"}, job[u].of.name \notin raced
       PROVE  job[u].of.name # a.name /\ job[u].of.name \in Names
  <2>1. job[u] \in Jobs
    BY <1>12 DEF JobTypes
  <2>2. job[u].of.name \in Names
    BY <2>1 DEF Jobs, Accounts
  <2> QED
    BY <1>1, <1>3, <1>12, <2>2 DEF Names1, OnePerName, Registering, a
<1>13. ToInsert' /\ ToStore'
  BY <1>1, <1>6, <1>7, <1>12 DEF Names1, ToInsert, ToStore
<1>14. UniqueNames'
  BY <1>1 DEF Names1, UniqueNames
<1>15. ASSUME NEW i \in DOMAIN table, table[i].name # a.name
       PROVE  users'[table[i].name] = users[table[i].name] /\ (OnItsWay(i) => OnItsWay(i)')
  <2>1. users'[table[i].name] = users[table[i].name]
    BY <1>6, <1>9, <1>15 DEF Accounts
  <2>2. \A u \in Threads : job[u].of = table[i] => u # t
    BY <1>15 DEF a
  <2> QED
    BY <1>1, <1>7, <2>1, <2>2 DEF OnItsWay
<1>16. InMap'
  <2>1. ASSUME NEW i \in DOMAIN table, table[i].name = a.name, table[i].name \notin raced
        PROVE  users'[table[i].name] = table[i].pw
    <3>1. table[i] = a
      BY <1>1, <2>1 DEF Names1, ToStore, a
    <3> QED
      BY <1>6, <2>1, <3>1
  <2> QED
    BY <1>1, <1>15, <2>1 DEF Names1, InMap
<1>17. Covered'
  BY <1>1, <1>6, <1>15 DEF Covered
<1>18. Backed'
  <2> SUFFICES ASSUME NEW b \in acked', b.name \notin raced
      PROVE  users'[b.name] = b.pw /\ \E i \in DOMAIN table : table[i] = b
    BY <1>1 DEF Backed
  <2>1. CASE b = a /\ job[t].stored
    BY <1>1, <1>6, <2>1 DEF Names1, ToStore, a
  <2>2. CASE b \in acked
    <3>1. b \in Accounts /\ users[b.name] = b.pw /\ \E i \in DOMAIN table : table[i] = b
      BY <2>2 DEF Accepted, Backed, JobTypes
    <3>2. b.name # a.name
      BY <1>4, <3>1 DEF Accounts
    <3> QED
      BY <1>6, <3>1, <3>2 DEF Accounts
  <2> QED
    BY <1>8, <2>1, <2>2
<1>19. KnownAcked' /\ LoginsGood'
  BY <1>1, <1>2, <1>7, <1>8 DEF Accepted, KnownAcked, LoginsGood
<1> QED
  BY <1>10, <1>11, <1>13, <1>14, <1>16, <1>17, <1>18, <1>19 DEF Names1, Accepted

LEMMA GiveBackKeeps ==
    ASSUME UsersInv, NEW t \in Threads, GiveBack(t)
    PROVE  UsersInv'
<1> USE DEF data, UsersInv
<1>1. /\ st[t] \in {"idle", "done"} /\ st' = [st EXCEPT ![t] = "idle"]
      /\ job' = [job EXCEPT ![t] = None] /\ told' = [told EXCEPT ![t] = None]
      /\ UNCHANGED <<users, table, acked, raced>>
  BY DEF GiveBack, Step, Tell
<1>2. /\ st'[t] = "idle"
      /\ \A u \in Threads :
            u # t => st'[u] = st[u] /\ job'[u] = job[u] /\ told'[u] = told[u]
  BY <1>1 DEF JobTypes
<1>3. JobTypes'
  BY <1>1, <1>2 DEF JobTypes
<1>4. Names1' /\ Covered'
  BY <1>1, <1>2, NobodyComes
<1>5. Accepted'
  BY <1>1, <1>2 DEF Accepted, Backed, KnownAcked, LoginsGood
<1> QED
  BY <1>3, <1>4, <1>5

\* A set of rows has a last one: the one with the fewest rows behind it.
LEMMA HasLast ==
    ASSUME NEW n \in Nat, NEW S \in SUBSET (1..n), S # {}
    PROVE  \E i \in S : \A j \in S : j <= i
<1> DEFINE R == OpToRel(<, Nat)
           T == {m \in Nat : \E i \in S : m = n - i}
<1>1. T \subseteq Nat /\ T # {}
  <2>1. PICK i \in S : TRUE
    OBVIOUS
  <2>2. i \in Nat /\ n - i \in Nat
    OBVIOUS
  <2> QED
    BY <2>2
<1>2. IsWellFoundedOn(R, Nat)
  BY NatLessThanWellFounded
<1>3. \A x, y \in Nat : y < x => <<y, x>> \in R
  BY DEF OpToRel
<1> HIDE DEF R, T
<1>4. PICK x \in T : \A y \in T : ~(<<y, x>> \in R)
  BY <1>1, <1>2, WFMin
<1>5. PICK i \in S : x = n - i
  BY DEF T
<1>6. ASSUME NEW j \in S PROVE j <= i
  <2>1. j \in Nat /\ i \in Nat /\ n - j \in T
    BY DEF T
  <2>2. ~(n - j < n - i)
    BY <1>1, <1>3, <1>4, <1>5, <2>1
  <2> QED
    BY <2>1, <2>2
<1> QED
  BY <1>6

\* The map read from the table has a password for the names in it only, and
\* with names that are unique the last row of a name is the only one.
LEMMA LastIsARow ==
    ASSUME JobTypes, NEW n \in Names
    PROVE  \/ /\ \A i \in DOMAIN table : table[i].name # n
              /\ LastPassword(table, n) = None
           \/ \E i \in DOMAIN table : table[i].name = n /\ LastPassword(table, n) = table[i].pw
<1> DEFINE at == {i \in DOMAIN table : table[i].name = n}
           last == CHOOSE i \in at : \A j \in at : j <= i
<1>1. CASE at = {}
  BY <1>1 DEF LastPassword
<1>2. CASE at # {}
  <2>1. DOMAIN table = 1..Len(table) /\ Len(table) \in Nat
    BY DEF JobTypes
  <2>2. \E i \in at : \A j \in at : j <= i
    BY <1>2, <2>1, HasLast
  <2>3. last \in at
    BY <2>2
  <2>4. LastPassword(table, n) = table[last].pw
    BY <1>2 DEF LastPassword
  <2> QED
    BY <2>3, <2>4
<1> QED
  BY <1>1, <1>2

LEMMA RestartKeeps ==
    ASSUME UsersInv, Restart
    PROVE  UsersInv'
<1> USE DEF UsersInv
<1>1. /\ users' = [n \in Names |-> LastPassword(table, n)]
      /\ \A t \in Threads : st'[t] = "idle" /\ job'[t] = None /\ told'[t] = None
      /\ UNCHANGED <<table, acked, raced>>
  BY DEF Restart
<1>2. \A i \in DOMAIN table :
         table[i].name \in Names /\ table[i].pw \in Passwords /\ table[i].pw # None
  <2>1. \A i \in DOMAIN table : table[i] \in Accounts
    BY DEF JobTypes
  <2> QED
    BY <2>1 DEF Accounts
<1>3. ASSUME NEW i \in DOMAIN table
      PROVE  /\ users'[table[i].name] # None
             /\ table[i].name \notin raced => users'[table[i].name] = table[i].pw
  <2>1. PICK k \in DOMAIN table :
          table[k].name = table[i].name /\ LastPassword(table, table[i].name) = table[k].pw
    BY <1>2, LastIsARow
  <2>2. users'[table[i].name] = table[k].pw
    BY <1>1, <1>2, <2>1
  <2> QED
    BY <1>2, <2>1, <2>2 DEF Names1, UniqueNames
<1>4. JobTypes'
  <2>1. users' \in [Names -> Passwords \cup {None}]
    BY <1>1, <1>2, LastIsARow
  <2>2. /\ st' = [t \in Threads |-> "idle"]
        /\ job' = [t \in Threads |-> None] /\ told' = [t \in Threads |-> None]
    BY DEF Restart
  <2> QED
    BY <1>1, <2>1, <2>2 DEF JobTypes
<1>5. Names1' /\ Covered'
  BY <1>1, <1>3
  DEF Names1, OnePerName, ToInsert, ToStore, UniqueNames, InMap, Covered, Registering
<1>6. Accepted'
  <2>1. Backed'
    BY <1>1, <1>3 DEF Accepted, Backed
  <2> QED
    BY <1>1, <2>1 DEF Accepted, KnownAcked, LoginsGood
<1> QED
  BY <1>4, <1>5, <1>6

LEMMA UsersNext == UsersInv /\ [Next]_vars => UsersInv'
<1> SUFFICES ASSUME UsersInv, [Next]_vars PROVE UsersInv'
  OBVIOUS
<1>1. CASE Destroy
  BY <1>1, SameData DEF Destroy
<1>2. CASE Restart
  BY <1>2, RestartKeeps
<1>3. ASSUME NEW t \in Threads, Pool(t) \/ Signal(t) PROVE UsersInv'
  BY <1>3, SameData DEF Pool, Signal
<1>4. ASSUME NEW t \in Threads, Asked(t) PROVE UsersInv'
  BY <1>4, BeginKeeps DEF Asked
<1>5. ASSUME NEW t \in Threads, Work(t) PROVE UsersInv'
  BY <1>5, FindNameKeeps, LoginKeeps, StoreKeeps, InsertKeeps DEF Work
<1>6. ASSUME NEW t \in Threads, GiveBack(t) PROVE UsersInv'
  BY <1>6, GiveBackKeeps
<1>7. CASE UNCHANGED vars
  BY <1>7, SameData DEF vars
<1> QED
  BY <1>1, <1>2, <1>3, <1>4, <1>5, <1>6, <1>7 DEF Next

\* Two accounts share a name only if two threads once found it free together,
\* whatever INSERTs fail and wherever the process crashes: m_http_lock, one per
\* slot, leaves this window open and no other.
THEOREM NamesStayUnique == Spec => []UniqueNames
<1>1. UsersInv => UniqueNames
  BY DEF UsersInv, Names1
<1> QED
  BY <1>1, UsersInit, UsersNext, PTL DEF Spec

\* An account whose registration was answered with success has its password
\* in the map, across restarts, and every login with it is welcome, unless its
\* name is one of those.
THEOREM RegisteredCanLogin == Spec => []AckedCanLogin
<1>1. UsersInv => AckedCanLogin
  BY DEF UsersInv, Accepted, Backed, LoginsGood, AckedCanLogin
<1> QED
  BY <1>1, UsersInit, UsersNext, PTL DEF Spec

\* The map in memory is behind the table only while a thread is between its
\* INSERT and the insertion into the map, for every name.
THEOREM MapKeepsUp == Spec => []MapCoversTable
<1>1. ASSUME UsersInv, NEW i \in DOMAIN table, users[table[i].name] = None
      PROVE  \E t \in Registering(table[i].name) : st[t] = "store"
  BY <1>1 DEF UsersInv, Covered, OnItsWay, Registering
<1>2. UsersInv => MapCoversTable
  BY <1>1 DEF MapCoversTable, Rows
<1> QED
  BY <1>2, UsersInit, UsersNext, PTL DEF Spec

----------------------------------------------------------------------------
(* The pool below. *)

LEMMA PoolSteps == Next => Restart \/ [PoolNext]_poolVars
  BY DEF Next, Destroy, Pool, Signal, Asked, Begin, Work, FindName, Login, Insert, Store,
     GiveBack, PoolNext, Put, pool, poolVars

\* Registration and login use the pool as it is meant to be used: whatever is
\* proved of its owners holds of them, also after restarts.
LEMMA UsersOwn == Spec => []Owned
<1>1. Init => Owned
  BY InitOwned DEF Init
<1>2. Owned /\ [Next]_vars => Owned'
  <2>1. Restart => PoolInit'
    BY DEF Restart, PoolInit
  <2>2. PoolInit' => Owned'
    BY InitOwned, PTL
  <2>3. UNCHANGED vars => UNCHANGED poolVars
    BY DEF vars, pool, poolVars
  <2> QED
    BY <2>1, <2>2, <2>3, PoolSteps, NextOwned
<1> QED
  BY <1>1, <1>2, PTL DEF Spec

\* Every variable keeps its type, the pool's included.
THEOREM UsersTypeCorrect == Spec => []TypeOK
<1>1. Owned /\ UsersInv => TypeOK
  BY DEF Owned, Types, Rest, PoolTypeOK, UsersInv, JobTypes, TypeOK
<1> QED
  BY <1>1, UsersOwn, UsersInit, UsersNext, PTL DEF Spec

============================================================================
