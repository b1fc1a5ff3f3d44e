----------------------------- MODULE SlotProofs -----------------------------
(***************************************************************************)
(* WebServer: who has a connection, for every number of clients,           *)
(* descriptors and workers.  Whatever workers drop, however late and in    *)
(* either actor model, the main thread finds a connection's own timer, tick *)
(* takes only its own unless a worker has closed that descriptor, and the  *)
(* connection count is off by exactly the drops and the races.  In the     *)
(* proactor, if no worker drops a connection and no request outlives its   *)
(* timer, one thread at a time has a slot and replies go to the client who *)
(* asked.  In the reactor the handshake on improv works, under any load.   *)
(***************************************************************************)
EXTENDS WebServerProofs, WebServerDrops, FiniteSetTheorems

----------------------------------------------------------------------------
(* Connections and their timers.  A step of the main thread does one of four *)
(* things to them.                                                           *)

\* No descriptor is opened or closed, no node enters or leaves the list.
Keeps ==
    /\ UNCHANGED <<owner, timer, udata, count>>
    /\ \A c \in Clients : (ttl[c] >= 0 => ttl'[c] >= 0) /\ (ttl[c] = -1 => ttl'[c] = -1)

\* cb_func of a node in the list.
Closes(c) ==
    /\ mreg = None /\ ttl[c] >= 0
    /\ CbFunc(udata[c]) /\ FreeNode(c) /\ UNCHANGED <<timer, udata>>

\* init_timer.
Opens(c, f) == mreg = None /\ c \in Backlog /\ f \in FreeFds /\ InitTimer(f, c)

LEMMA MainMoves ==
    ASSUME TimerInv, Main
    PROVE  \/ Keeps
           \/ StoreCount
           \/ \E c \in Clients : Closes(c)
           \/ \E c \in Backlog, f \in FreeFds : Opens(c, f)
<1> DEFINE Moves == \/ Keeps
                    \/ StoreCount
                    \/ \E c \in Clients : Closes(c)
                    \/ \E c \in Backlog, f \in FreeFds : Opens(c, f)
<1> USE DEF kernel, timers, count, pool, flags, clock, loop
<1>1. ASSUME UNCHANGED <<owner, timers, count>> PROVE Moves
  BY <1>1 DEF Keeps
<1>2. ASSUME mreg = None, NEW f \in Fds, HasTimer(f),
             DealTimer(f) \/ (AdjustTimer(f) /\ UNCHANGED <<owner, count>>)
      PROVE  Moves
  <2>1. CASE DealTimer(f)
    <3>1. timer[f] \in Clients /\ ttl[timer[f]] >= 0 /\ udata[timer[f]] = f
      BY <1>2, PointersTyped DEF HasTimer
    <3>2. Closes(timer[f])
      BY <1>2, <2>1, <3>1 DEF DealTimer, Closes
    <3> QED
      BY <3>1, <3>2
  <2>2. CASE AdjustTimer(f) /\ UNCHANGED <<owner, count>>
    BY <1>2, <2>2, AdjustKeeps DEF Keeps
  <2> QED
    BY <1>2, <2>1, <2>2
<1>3. CASE mreg = None /\ MainStep
  <2>1. CASE \/ EpollWait \/ EndBatch \/ DealClient \/ AcceptFails \/ AcceptBusy
             \/ DealSignal \/ TickEnd
    <3>1. UNCHANGED <<owner, timers, count>>
      BY <2>1 DEF EpollWait, EndBatch, DealClient, AcceptFails, AcceptBusy, DealSignal, TickEnd
    <3> QED
      BY <1>1, <3>1
  <2>2. CASE AcceptInit
    BY <1>3, <2>2 DEF AcceptInit, Opens
  <2>3. CASE SpinDone
    <3>1. spin \in Fds /\ HasTimer(spin)
      BY <2>3 DEF SpinDone, TimerInv, LoopShape, TimerLive
    <3> QED
      BY <1>1, <1>2, <1>3, <2>3, <3>1 DEF SpinDone
  <2>4. ASSUME NEW f \in Fds, DealHangup(f) PROVE Moves
    BY <1>2, <1>3, <2>4, HandlingEvents DEF DealHangup
  <2>5. ASSUME NEW f \in Fds, ProactorRead(f) PROVE Moves
    <3>1. HasTimer(f)
      BY <2>5, HandlingEvents DEF ProactorRead
    <3>2. DealTimer(f) \/ (AdjustTimer(f) /\ UNCHANGED <<owner, count>>)
      BY <2>5 DEF ProactorRead
    <3> QED
      BY <1>2, <1>3, <3>1, <3>2
  <2>6. ASSUME NEW f \in Fds, ProactorWrite(f) PROVE Moves
    <3>1. HasTimer(f)
      BY <2>6, HandlingEvents DEF ProactorWrite
    <3>2. DealTimer(f) \/ (AdjustTimer(f) /\ UNCHANGED <<owner, count>>)
      BY <2>6 DEF ProactorWrite
    <3> QED
      BY <1>2, <1>3, <3>1, <3>2
  <2>7. ASSUME NEW f \in Fds, NEW kind, NEW io, ReactorEvent(f, kind, io) PROVE Moves
    <3>1. HasTimer(f) /\ AdjustTimer(f) /\ UNCHANGED <<owner, count>>
      BY <2>7, HandlingEvents DEF ReactorEvent
    <3> QED
      BY <1>2, <1>3, <3>1
  <2>8. ASSUME NEW c \in Clients, TickOne(c) PROVE Moves
    <3>1. Closes(c)
      BY <1>3, <2>8 DEF TickOne, Expired, Closes
    <3> QED
      BY <3>1
  <2> QED
    BY <1>3, <2>1, <2>2, <2>3, <2>4, <2>5, <2>6, <2>7, <2>8 DEF MainStep
<1> QED
  BY <1>3 DEF Main

\* The environment moves the clock, and no node into or out of the list.
LEMMA EnvironmentMoves == ASSUME TimerInv, Environment PROVE Keeps /\ worker' = worker
<1> USE DEF kernel, timers, count, pool, flags, clock, loop
<1>1. UNCHANGED <<owner, timer, udata, count, worker>>
  BY DEF Environment, Connect, Send, Hangup, Terminate, Elapse
<1>2. \A c \in Clients : (ttl[c] >= 0 => ttl'[c] >= 0) /\ (ttl[c] = -1 => ttl'[c] = -1)
  <2>1. CASE Elapse
    BY <2>1 DEF Elapse, TimerInv, Typed, TypeOK
  <2>2. CASE ttl' = ttl
    BY <2>2
  <2> QED
    BY <2>1, <2>2 DEF Environment, Connect, Send, Hangup, Terminate
<1> QED
  BY <1>1, <1>2 DEF Keeps

----------------------------------------------------------------------------
(* The bond of a connection and its timer.  D is the set of descriptors that *)
(* a worker has ever closed.                                                 *)

\* An open descriptor, its client and its timer_node point to each other.
Bonded ==
    \A f \in Fds :
        Open(f) => timer[f] = owner[f] /\ udata[owner[f]] = f /\ ttl[owner[f]] >= 0

\* So does a node in the list with a descriptor outside D.
OwnedBut(D) ==
    \A c \in Clients :
        ttl[c] >= 0 => udata[c] \in Fds /\ (udata[c] \in D \/ owner[udata[c]] = c)

Bonds(D) == TimerInv /\ Bonded /\ OwnedBut(D)

\* The types the proofs below need over and over.
LEMMA BondTypes ==
    ASSUME TimerInv
    PROVE  /\ owner \in [Fds -> Clients \cup {None}] /\ None \notin Clients
           /\ timer \in [Fds -> Clients \cup {None}]
           /\ udata \in [Clients -> Fds \cup {None}] /\ None \notin Fds
           /\ ttl \in [Clients -> -1..Timeout]
           /\ userCount \in Int /\ mreg \in Int \cup {None} /\ None \notin Int
<1>1. TypeOK
  BY DEF TimerInv, Typed
<1>2. /\ owner \in [Fds -> Clients \cup {None}] /\ timer \in [Fds -> Clients \cup {None}]
      /\ udata \in [Clients -> Fds \cup {None}]
  BY <1>1 DEF TypeOK, ClientOrNone, FdOrNone
<1>3. ttl \in [Clients -> -1..Timeout] /\ userCount \in Int /\ mreg \in Int \cup {None}
  BY <1>1 DEF TypeOK
<1> QED
  BY <1>2, <1>3, NoneAssumption

\* The steps that neither open nor close a descriptor.
LEMMA BondsKept ==
    ASSUME NEW D, Bonds(D), TimerInv',
           owner' = owner, timer' = timer, udata' = udata,
           \A c \in Clients : (ttl[c] >= 0 => ttl'[c] >= 0) /\ (ttl[c] = -1 => ttl'[c] = -1)
    PROVE  Bonds(D)'
<1>1. owner \in [Fds -> Clients \cup {None}] /\ ttl \in [Clients -> -1..Timeout]
  BY BondTypes DEF Bonds
<1>2. Bonded'
  BY <1>1 DEF Bonds, Bonded, Open
<1>3. OwnedBut(D)'
  <2> SUFFICES ASSUME NEW c \in Clients, ttl'[c] >= 0
               PROVE  udata'[c] \in Fds /\ (udata'[c] \in D \/ owner'[udata'[c]] = c)
    BY DEF OwnedBut
  <2>1. ttl[c] \in -1..Timeout /\ ttl[c] # -1
    BY <1>1
  <2>2. ttl[c] >= 0
    BY <2>1
  <2> QED
    BY <2>2 DEF Bonds, OwnedBut
<1> QED
  BY <1>2, <1>3 DEF Bonds

\* Closing a descriptor outside D takes the one node that points to it away;
\* one in D may have been opened again for somebody else.
LEMMA CloseBonds ==
    ASSUME NEW D, Bonds(D), TimerInv', NEW c \in Clients, Closes(c)
    PROVE  Bonds(D)'
<1> DEFINE f == udata[c]
<1> USE BondTypes DEF Bonds
<1>1. f \in Fds /\ (f \in D \/ owner[f] = c) /\ UNCHANGED <<timer, udata>>
  BY DEF OwnedBut, Closes
<1>2. owner' = [owner EXCEPT ![f] = None] /\ ttl' = [ttl EXCEPT ![c] = -1]
  BY DEF Closes, CbFunc, CloseFd, FreeNode
<1>3. Bonded'
  <2> SUFFICES ASSUME NEW g \in Fds, owner'[g] # None
               PROVE  timer[g] = owner'[g] /\ udata[owner'[g]] = g /\ ttl'[owner'[g]] >= 0
    BY <1>1 DEF Bonded, Open
  <2>1. g # f /\ owner'[g] = owner[g]
    BY <1>1, <1>2
  <2>2. timer[g] = owner[g] /\ udata[owner[g]] = g /\ ttl[owner[g]] >= 0
    BY <2>1 DEF Bonded, Open
  <2>3. owner[g] \in Clients /\ owner[g] # c
    BY <2>1, <2>2
  <2> QED
    BY <1>2, <2>1, <2>2, <2>3
<1>4. OwnedBut(D)'
  <2> SUFFICES ASSUME NEW d \in Clients, ttl'[d] >= 0
               PROVE  udata[d] \in Fds /\ (udata[d] \in D \/ owner'[udata[d]] = d)
    BY <1>1 DEF OwnedBut
  <2>1. d # c /\ ttl[d] >= 0
    BY <1>2
  <2>2. udata[d] \in Fds /\ (udata[d] \in D \/ owner[udata[d]] = d)
    BY <2>1 DEF OwnedBut
  <2> QED
    BY <1>1, <1>2, <2>1, <2>2
<1> QED
  BY <1>3, <1>4

\* init_timer gives a free descriptor to a client that has no node yet.
LEMMA OpenBonds ==
    ASSUME NEW D, Bonds(D), TimerInv', NEW c, NEW f, Opens(c, f)
    PROVE  Bonds(D)'
<1> USE BondTypes DEF Bonds
<1>1. c \in Clients /\ ttl[c] = -1 /\ f \in Fds /\ owner[f] = None
  BY DEF Opens, Backlog, FreeFds, Open, TimerInv, NoEarlyNode
<1>2. /\ owner' = [owner EXCEPT ![f] = c]
      /\ timer' = [timer EXCEPT ![f] = c] /\ ttl' = [ttl EXCEPT ![c] = Timeout]
      /\ udata' = [udata EXCEPT ![c] = f]
  BY DEF Opens, InitTimer, BindTimer
<1>3. Bonded'
  <2> SUFFICES ASSUME NEW g \in Fds, owner'[g] # None
               PROVE  timer'[g] = owner'[g] /\ udata'[owner'[g]] = g /\ ttl'[owner'[g]] >= 0
    BY DEF Bonded, Open
  <2>1. CASE g = f
    <3>1. owner'[g] = c /\ timer'[g] = c /\ udata'[c] = f /\ ttl'[c] = Timeout
      BY <1>1, <1>2, <2>1
    <3>2. Timeout >= 0
      BY TimeoutAssumption
    <3> QED
      BY <2>1, <3>1, <3>2
  <2>2. CASE g # f
    <3>1. owner'[g] = owner[g] /\ timer'[g] = timer[g]
      BY <1>1, <1>2, <2>2
    <3>2. timer[g] = owner[g] /\ udata[owner[g]] = g /\ ttl[owner[g]] >= 0
      BY <3>1 DEF Bonded, Open
    <3>3. owner[g] \in Clients /\ owner[g] # c
      BY <1>1, <3>1, <3>2
    <3> QED
      BY <1>2, <3>1, <3>2, <3>3
  <2> QED
    BY <2>1, <2>2
<1>4. OwnedBut(D)'
  <2> SUFFICES ASSUME NEW d \in Clients, ttl'[d] >= 0
               PROVE  udata'[d] \in Fds /\ (udata'[d] \in D \/ owner'[udata'[d]] = d)
    BY DEF OwnedBut
  <2>1. CASE d = c
    BY <1>1, <1>2, <2>1
  <2>2. CASE d # c
    <3>1. ttl[d] >= 0 /\ udata'[d] = udata[d]
      BY <1>2, <2>2
    <3>2. udata[d] \in Fds /\ (udata[d] \in D \/ owner[udata[d]] = d)
      BY <3>1 DEF OwnedBut
    <3> QED
      BY <1>1, <1>2, <3>1, <3>2
  <2> QED
    BY <2>1, <2>2
<1> QED
  BY <1>3, <1>4

LEMMA InitBonds == ASSUME NEW D PROVE Init => Bonds(D)
<1> SUFFICES ASSUME Init PROVE Bonds(D)
  OBVIOUS
<1>1. TimerInv
  BY InitTimerInv
<1>2. Bonded
  BY DEF Init, Bonded, Open
<1>3. OwnedBut(D)
  BY DEF Init, OwnedBut
<1> QED
  BY <1>1, <1>2, <1>3 DEF Bonds

LEMMA LoopBonds == ASSUME NEW D, Bonds(D), Environment \/ Main PROVE Bonds(D)'
<1>1. TimerInv /\ TimerInv'
  BY MainTimer, EnvironmentTimer DEF Bonds
<1>2. CASE Keeps
  BY <1>1, <1>2, BondsKept DEF Keeps
<1>3. CASE StoreCount
  BY <1>1, <1>3, BondsKept DEF StoreCount, kernel, timers
<1>4. ASSUME NEW c \in Clients, Closes(c) PROVE Bonds(D)'
  BY <1>1, <1>4, CloseBonds
<1>5. ASSUME NEW c, NEW f, Opens(c, f) PROVE Bonds(D)'
  BY <1>1, <1>5, OpenBonds
<1> QED
  BY <1>1, <1>2, <1>3, <1>4, <1>5, MainMoves, EnvironmentMoves

\* Workers leave the timers alone, and open nothing.
LEMMA WorkKeepsTimers ==
    ASSUME NEW w \in Workers, Work(w)
    PROVE  UNCHANGED <<timers, mreg>> /\ (~CloseConn(w) => owner' = owner)
  BY DEF Work, Take, IoRead, IoWrite, SetTimerFlag, Parse, FillReply, CloseConn, ClearSockfd,
     StoreDecrement, Rearm, kernel, count

----------------------------------------------------------------------------
(* Drops: what a worker's close_conn takes away from the main thread.        *)

DropInv == Bonds(dropped)

LEMMA WorkDrops == ASSUME DropInv, NEW w \in Workers, WorkH(w) PROVE DropInv'
<1> DEFINE s == Slot(w).sockfd
<1> USE BondTypes DEF DropInv, Bonds
<1>1. TimerInv' /\ UNCHANGED timers
  BY WorkTimer, WorkKeepsTimers DEF WorkH
<1>2. dropped \subseteq dropped' /\ \A f \in Fds : owner'[f] = owner[f] \/ (owner'[f] = None /\ f \in dropped')
  <2>1. CASE CloseConn(w)
    <3>1. At(w, "drop") /\ dropped' = dropped \cup ({s} \ {None})
      BY <2>1 DEF CloseConn, WorkH
    <3>2. CASE s = None
      BY <2>1, <3>1, <3>2 DEF CloseConn, kernel
    <3>3. CASE s # None
      BY <2>1, <3>1, <3>3 DEF CloseConn, CloseFd
    <3> QED
      BY <3>2, <3>3
  <2>2. CASE ~CloseConn(w)
    BY <2>2, WorkKeepsTimers DEF WorkH
  <2> QED
    BY <2>1, <2>2
<1>3. Bonded'
  BY <1>1, <1>2 DEF Bonded, Open, timers
<1>4. OwnedBut(dropped)'
  <2> SUFFICES ASSUME NEW c \in Clients, ttl'[c] >= 0
               PROVE  udata'[c] \in Fds /\ (udata'[c] \in dropped' \/ owner'[udata'[c]] = c)
    BY DEF OwnedBut
  <2>1. udata[c] \in Fds /\ (udata[c] \in dropped \/ owner[udata[c]] = c) /\ udata' = udata
    BY <1>1 DEF OwnedBut, timers
  <2> QED
    BY <1>2, <2>1
<1> QED
  BY <1>1, <1>3, <1>4

LEMMA NextDrops == DropInv /\ [HNext]_hvars => DropInv'
<1>1. ASSUME DropInv, Environment \/ Main, dropped' = dropped PROVE DropInv'
  <2>1. PICK D : D = dropped
    OBVIOUS
  <2>2. Bonds(D)
    BY <1>1, <2>1 DEF DropInv, Bonds, OwnedBut
  <2>3. Bonds(D)'
    BY <1>1, <2>2, LoopBonds
  <2> QED
    BY <1>1, <2>1, <2>3 DEF DropInv, Bonds, OwnedBut
<1>2. ASSUME DropInv, UNCHANGED hvars PROVE DropInv'
  <2>1. TimerInv'
    BY <1>2, NextTimer DEF hvars, DropInv, Bonds
  <2> QED
    BY <1>2, <2>1 DEF hvars, history, vars, kernel, timers, DropInv, Bonds, Bonded, OwnedBut, Open
<1> QED
  BY <1>1, <1>2, WorkDrops DEF HNext

LEMMA DropsHold == HSpec => []DropInv
<1>1. HInit => DropInv
  <2> SUFFICES ASSUME HInit PROVE DropInv
    OBVIOUS
  <2>1. Bonds({}) /\ dropped = {}
    BY InitBonds DEF HInit
  <2> QED
    BY <2>1 DEF DropInv, Bonds, OwnedBut
<1> QED
  BY <1>1, NextDrops, PTL DEF HSpec

\* Whatever the workers drop, in either actor model and under any load, an open
\* descriptor's client_timer is its own client's node in the list; a node that
\* has outlived its connection is found only where a worker has closed.
THEOREM OwnTimers == HSpec => []OwnTimer
<1>1. DropInv => OwnTimer
  <2> SUFFICES ASSUME DropInv PROVE OwnTimer
    OBVIOUS
  <2> USE BondTypes DEF DropInv, Bonds
  <2>1. ASSUME NEW f \in Fds, Open(f)
        PROVE  timer[f] = owner[f] /\ owner[f] \in Listed /\ udata[owner[f]] = f
    BY <2>1 DEF Bonded, Open, Listed
  <2>2. ASSUME NEW c \in Listed, udata[c] \notin dropped PROVE owner[udata[c]] = c
    BY <2>2 DEF OwnedBut, Listed
  <2> QED
    BY <2>1, <2>2 DEF OwnTimer
<1> QED
  BY <1>1, DropsHold, PTL

\* On a descriptor no worker has ever closed, tick closes a connection only
\* because its own timer has expired.
THEOREM TickTakesItsOwn == HSpec => TickOnlyOwn
<1> DEFINE Own == \A f \in Fds \ dropped :
             pc = "tick" /\ UNCHANGED worker /\ Open(f) /\ ~Open(f)' => ttl[owner[f]] = 0
<1>1. ASSUME DropInv, [HNext]_hvars PROVE Own
  <2> USE BondTypes DEF DropInv, Bonds, kernel, timers, count, pool, flags, clock, loop
  <2> SUFFICES ASSUME NEW f \in Fds \ dropped, pc = "tick", worker' = worker, Open(f), ~Open(f)'
               PROVE  ttl[owner[f]] = 0
    OBVIOUS
  <2>1. owner' # owner
    BY DEF Open
  <2>2. ~Environment /\ ~UNCHANGED hvars /\ ~StoreCount
    BY <2>1 DEF Environment, Connect, Send, Hangup, Terminate, Elapse, hvars, vars, StoreCount
  <2>3. ASSUME NEW w \in Workers, Work(w) PROVE FALSE
    <3>1. CloseConn(w)
      BY <2>1, <2>3, WorkKeepsTimers
    <3>2. At(w, "drop") /\ (Goto(w, "out") \/ Goto(w, "clear"))
      BY <3>1 DEF CloseConn
    <3>3. worker \in [Workers -> Thread]
      BY <1>1 DEF TimerInv, Typed, TypeOK
    <3>4. worker'[w].pc \in {"out", "clear"} /\ worker[w].pc = "drop"
      BY <3>2, <3>3 DEF At, Goto, Thread
    <3> QED
      BY <3>4
  <2>4. MainStep
    BY <1>1, <2>2, <2>3 DEF HNext, WorkH, Main
  <2>5. PICK c \in Clients : TickOne(c)
    BY <2>1, <2>4 DEF MainStep, EpollWait, EndBatch, DealClient, AcceptFails, AcceptBusy, AcceptInit,
       DealSignal, SpinDone, TickEnd, DealHangup, ProactorRead, ProactorWrite, ReactorEvent, Handling
  <2>6. ttl[c] = 0 /\ owner' = [owner EXCEPT ![udata[c]] = None]
    BY <2>5 DEF TickOne, Expired, CbFunc, CloseFd
  <2>7. f = udata[c]
    BY <2>6 DEF Open
  <2> QED
    BY <1>1, <2>6, <2>7 DEF OwnedBut
<1> QED
  BY <1>1, DropsHold, PTL DEF HSpec, TickOnlyOwn

----------------------------------------------------------------------------
(* The connection count.  At most one thread has read m_user_count and not   *)
(* yet stored it, or a race is on record; what is read or stored lies as far *)
(* below the number of timers as there have been drops.                      *)

Tally(n) == n + drops = Cardinality(Listed)

Balance ==
    /\ mreg # None => Tally(mreg)
    /\ \A w \in Workers : At(w, "store") => Tally(worker[w].count)
    /\ CountSettled => Tally(userCount)

Ledger ==
    /\ IsFiniteSet(Listed) /\ drops \in Int
    /\ raced \/ ~Overlap
    /\ raced \/ Balance

LedgerInv == TimerInv /\ Ledger

\* Whoever writes the count while another is between read and store makes the
\* record of a race.
Recorded == raced' = (raced \/ Overlap')

\* Steps that touch neither the list nor the count.
LEMMA LedgerKept ==
    ASSUME Ledger, Recorded, Listed' = Listed, UNCHANGED <<drops, userCount, mreg>>,
           \A w \in Workers : /\ At(w, "store")' <=> At(w, "store")
                              /\ At(w, "store") => worker'[w].count = worker[w].count
    PROVE  Ledger'
<1>1. (Overlap' <=> Overlap) /\ (CountSettled' <=> CountSettled)
  BY DEF Overlap, CountSettled
<1>2. Balance => Balance'
  BY <1>1 DEF Balance, Tally
<1> QED
  BY <1>1, <1>2 DEF Ledger, Recorded

\* The main thread adds or removes a node, having read a count nobody else is
\* about to change, or races.
LEMMA LedgerStep ==
    ASSUME Ledger, Recorded, NEW d \in {-1, 1}, userCount \in Int, None \notin Int,
           mreg = None, mreg' = userCount + d, UNCHANGED <<worker, drops>>,
           IsFiniteSet(Listed'), Cardinality(Listed') = Cardinality(Listed) + d
    PROVE  Ledger'
<1>1. mreg' # None
  OBVIOUS
<1>2. CASE \E w \in Workers : At(w, "store")
  <2>1. Overlap'
    BY <1>1, <1>2 DEF Overlap, At
  <2> QED
    BY <2>1 DEF Ledger, Recorded
<1>3. CASE \A w \in Workers : ~At(w, "store")
  <2>1. CountSettled /\ ~CountSettled'
    BY <1>1, <1>3 DEF CountSettled
  <2>2. \A w \in Workers : ~At(w, "store")'
    BY <1>3 DEF At
  <2>3. Tally(userCount) => Tally(mreg)'
    <3>1. Tally(userCount) <=> userCount + drops = Cardinality(Listed)
      BY DEF Tally
    <3>2. Tally(mreg)' <=> mreg' + drops' = Cardinality(Listed')
      BY DEF Tally
    <3>3. userCount + d + drops = userCount + drops + d
      BY DEF Ledger
    <3> QED
      BY <3>1, <3>2, <3>3
  <2>4. raced \/ Balance'
    BY <2>1, <2>2, <2>3 DEF Ledger, Balance
  <2> QED
    BY <2>2, <2>4 DEF Ledger, Recorded, Overlap
<1> QED
  BY <1>2, <1>3

LEMMA MainLedger ==
    ASSUME LedgerInv, Environment \/ Main, drops' = drops, Recorded
    PROVE  LedgerInv'
<1> USE BondTypes DEF LedgerInv
<1>1. TimerInv' /\ worker' = worker
  BY EnvironmentTimer, MainTimer, EnvironmentMoves, MainQueue
<1>2. IsFiniteSet(Listed)
  BY DEF Ledger
<1>3. CASE Keeps
  <2>1. Listed' = Listed
    <3>1. ttl' \in [Clients -> -1..Timeout]
      BY <1>1, BondTypes DEF TimerInv, Typed, TypeOK
    <3>2. ASSUME NEW c \in Clients PROVE ttl'[c] >= 0 <=> ttl[c] >= 0
      BY <1>3, <3>1 DEF Keeps
    <3> QED
      BY <3>2 DEF Listed
  <2>2. Ledger'
    BY <1>1, <1>3, <2>1, LedgerKept DEF Keeps, count, At
  <2> QED
    BY <1>1, <2>2
<1>4. CASE StoreCount
  <2>1. mreg # None /\ userCount' = mreg /\ mreg' = None /\ Listed' = Listed
    BY <1>4 DEF StoreCount, Listed, timers
  <2>2. Overlap' => Overlap
    BY <1>1, <2>1 DEF Overlap, At
  <2>3. Balance => Balance'
    BY <1>1, <2>1 DEF Balance, Tally, At
  <2>4. Ledger'
    BY <1>1, <2>1, <2>2, <2>3 DEF Ledger, Recorded
  <2> QED
    BY <1>1, <2>4
<1>5. ASSUME NEW c \in Clients, Closes(c) PROVE LedgerInv'
  <2>1. mreg = None /\ mreg' = userCount + (-1) /\ ttl[c] >= 0 /\ ttl' = [ttl EXCEPT ![c] = -1]
    BY <1>5 DEF Closes, CbFunc, FreeNode
  <2>2. Listed' = Listed \ {c} /\ c \in Listed
    BY <2>1 DEF Listed
  <2>3. IsFiniteSet(Listed') /\ Cardinality(Listed') = Cardinality(Listed) + (-1)
    <3>1. Cardinality(Listed \ {c}) = Cardinality(Listed) - 1 /\ Cardinality(Listed) \in Int
      BY <1>2, <2>2, FS_RemoveElement, FS_CardinalityType
    <3>2. IsFiniteSet(Listed \ {c})
      BY <1>2, <2>2, FS_RemoveElement
    <3> QED
      BY <2>2, <3>1, <3>2
  <2>4. Ledger'
    BY <1>1, <2>1, <2>3, LedgerStep
  <2> QED
    BY <1>1, <2>4
<1>6. ASSUME NEW c, NEW f, Opens(c, f) PROVE LedgerInv'
  <2>1. c \in Clients /\ ttl[c] = -1 /\ mreg = None /\ mreg' = userCount + 1
        /\ ttl' = [ttl EXCEPT ![c] = Timeout]
    BY <1>6 DEF Opens, Backlog, TimerInv, NoEarlyNode, InitTimer, BindTimer
  <2>2. Timeout >= 0
    BY TimeoutAssumption
  <2>3. Listed' = Listed \cup {c} /\ c \notin Listed
    BY <2>1, <2>2 DEF Listed
  <2>4. IsFiniteSet(Listed') /\ Cardinality(Listed') = Cardinality(Listed) + 1
    BY <1>2, <2>3, FS_AddElement
  <2>5. Ledger'
    BY <1>1, <2>1, <2>4, LedgerStep
  <2> QED
    BY <1>1, <2>5
<1> QED
  BY <1>1, <1>3, <1>4, <1>5, <1>6, MainMoves, EnvironmentMoves

LEMMA WorkLedger ==
    ASSUME LedgerInv, NEW w \in Workers, WorkH(w), Recorded
    PROVE  LedgerInv'
<1> USE BondTypes DEF LedgerInv
<1>1. TimerInv' /\ UNCHANGED <<timers, mreg>>
  BY WorkTimer, WorkKeepsTimers DEF WorkH
<1>2. Listed' = Listed
  BY <1>1 DEF Listed, timers
<1>3. worker \in [Workers -> Thread]
  BY DEF TimerInv, Typed, TypeOK
<1>4. CASE ClearSockfd(w)
  <2>1. /\ At(w, "clear") /\ drops' = drops + 1 /\ userCount' = userCount
        /\ worker' = [worker EXCEPT ![w].pc = "store", ![w].count = userCount - 1]
    BY <1>4 DEF ClearSockfd, WorkH, count
  <2>2. /\ worker'[w].pc = "store" /\ worker'[w].count = userCount - 1
        /\ \A u \in Workers \ {w} : worker'[u] = worker[u]
    BY <1>3, <2>1 DEF Thread
  <2>3. IsFiniteSet(Listed)' /\ drops' \in Int
    BY <1>2, <2>1 DEF Ledger
  <2>4. CASE mreg # None \/ \E u \in Workers \ {w} : At(u, "store")
    <3>1. Overlap'
      BY <1>1, <2>2, <2>4 DEF Overlap, At
    <3>2. raced'
      BY <3>1 DEF Recorded
    <3> QED
      BY <1>1, <2>3, <3>2 DEF Ledger
  <2>5. CASE mreg = None /\ \A u \in Workers \ {w} : ~At(u, "store")
    <3>0. ~At(w, "store") /\ At(w, "store")' /\ \A u \in Workers \ {w} : ~At(u, "store")'
      BY <2>1, <2>2, <2>5 DEF At
    <3>1. CountSettled /\ ~CountSettled' /\ ~Overlap'
      BY <1>1, <2>5, <3>0 DEF CountSettled, Overlap
    <3>2. Tally(userCount) => Tally(worker[w].count)'
      <4>1. Tally(userCount) <=> userCount + drops = Cardinality(Listed)
        BY DEF Tally
      <4>2. Tally(worker[w].count)' <=> worker'[w].count + drops' = Cardinality(Listed')
        BY DEF Tally
      <4>3. (userCount - 1) + (drops + 1) = userCount + drops
        BY DEF Ledger
      <4> QED
        BY <1>2, <2>1, <2>2, <4>1, <4>2, <4>3
    <3>3. Balance => Balance'
      BY <1>1, <2>5, <3>0, <3>1, <3>2 DEF Balance
    <3>4. raced' \/ Balance'
      BY <3>3 DEF Ledger, Recorded
    <3> QED
      BY <1>1, <2>3, <3>1, <3>4 DEF Ledger
  <2> QED
    BY <2>4, <2>5
<1>5. CASE StoreDecrement(w)
  <2>1. /\ At(w, "store") /\ drops' = drops /\ userCount' = worker[w].count
        /\ worker' = [worker EXCEPT ![w].pc = "out"]
    BY <1>5 DEF StoreDecrement, WorkH, At, Goto
  <2>2. /\ worker'[w].pc = "out" /\ \A u \in Workers \ {w} : worker'[u] = worker[u]
    BY <1>3, <2>1 DEF Thread
  <2>3. Overlap' => Overlap
    BY <1>1, <2>2 DEF Overlap, At
  <2>4. Balance => Balance'
    <3>1. \A u \in Workers : At(u, "store")' => At(u, "store") /\ worker'[u].count = worker[u].count
      BY <2>2 DEF At
    <3> QED
      BY <1>1, <1>2, <2>1, <3>1 DEF Balance, Tally
  <2> QED
    BY <1>1, <1>2, <2>1, <2>3, <2>4 DEF Ledger, Recorded
<1>6. CASE ~ClearSockfd(w) /\ ~StoreDecrement(w)
  <2>1. userCount' = userCount /\ drops' = drops /\ ~At(w, "clear") /\ ~At(w, "store")
    BY <1>6 DEF WorkH, Work, Take, IoRead, IoWrite, SetTimerFlag, Parse, FillReply, CloseConn, Rearm,
       count, At
  <2>2. (\A u \in Workers \ {w} : worker'[u] = worker[u]) /\ worker'[w].pc # "store"
    <3>1. CASE Take(w)
      BY <1>3, <3>1 DEF Take, Thread
    <3>2. CASE Parse(w)
      <4>1. PICK outcome \in Outcomes \cup {"again"} :
              worker' = [worker EXCEPT ![w].pc = outcome, ![w].from = Slot(w).req]
        BY <3>2 DEF Parse
      <4>2. outcome # "store"
        BY OutcomesAssumption
      <4> QED
        BY <1>3, <4>1, <4>2 DEF Thread
    <3>3. ASSUME NEW p \in {"flag", "parse", "clear", "out"}, Goto(w, p)
          PROVE  (\A u \in Workers \ {w} : worker'[u] = worker[u]) /\ worker'[w].pc # "store"
      BY <1>3, <3>3 DEF Goto, Thread
    <3>4. CASE Finish(w)
      BY <1>3, <3>4 DEF Finish, Idle
    <3> QED
      BY <1>6, <3>1, <3>2, <3>3, <3>4
      DEF WorkH, Work, IoRead, IoWrite, SetTimerFlag, FillReply, CloseConn, Rearm
  <2>3. Ledger'
    BY <1>1, <1>2, <2>1, <2>2, LedgerKept DEF At
  <2> QED
    BY <1>1, <2>3
<1> QED
  BY <1>4, <1>5, <1>6

\* Under any load and in either actor model: until two threads update it at
\* once, m_user_count is the number of timers in the list less one for every
\* connection a worker has closed.
THEOREM CountIsLedger == HSpec => []CountLedger
<1>1. HInit => LedgerInv
  <2> SUFFICES ASSUME HInit PROVE LedgerInv
    OBVIOUS
  <2>1. TimerInv /\ Listed = {} /\ userCount = 0 /\ mreg = None /\ drops = 0
    BY InitTimerInv DEF HInit, Init, Listed
  <2>2. \A w \in Workers : ~At(w, "store")
    BY DEF HInit, Init, Idle, At
  <2>3. ~Overlap /\ Balance
    BY <2>1, <2>2, FS_EmptySet DEF Overlap, Balance, Tally
  <2> QED
    BY <2>1, <2>3, FS_EmptySet DEF LedgerInv, Ledger
<1>2. LedgerInv /\ [HNext]_hvars => LedgerInv'
  <2>1. ASSUME LedgerInv, HNext PROVE LedgerInv'
    BY <2>1, MainLedger, WorkLedger DEF HNext, Recorded
  <2>2. ASSUME LedgerInv, UNCHANGED hvars PROVE LedgerInv'
    <3>1. TimerInv'
      BY <2>2, NextTimer DEF hvars, LedgerInv
    <3> QED
      BY <2>2, <3>1 DEF hvars, history, vars, timers, count, pool, LedgerInv, Ledger, Listed,
         Overlap, At, Balance, Tally, CountSettled
  <2> QED
    BY <2>1, <2>2
<1>3. LedgerInv => CountLedger
  BY DEF LedgerInv, Ledger, Balance, Tally, CountLedger
<1> QED
  BY <1>1, <1>2, <1>3, PTL DEF HSpec

----------------------------------------------------------------------------
(* Without drops.                                                            *)

NoDrops == "drop" \notin Outcomes

\* No worker is in close_conn or about to be.
NotClosing == \A w \in Workers : worker[w].pc \notin {"drop", "clear", "store"}

BondInv == Bonds({}) /\ NotClosing

LEMMA BondFacts ==
    ASSUME BondInv
    PROVE  /\ TimerInv /\ Bonded
           /\ \A c \in Clients : ttl[c] >= 0 => udata[c] \in Fds /\ owner[udata[c]] = c
  BY DEF BondInv, Bonds, OwnedBut

LEMMA LoopClosesNothing == ASSUME BondInv, Environment \/ Main PROVE BondInv'
<1>1. worker' = worker
  BY EnvironmentMoves, MainQueue, BondFacts
<1>2. Bonds({})'
  BY LoopBonds DEF BondInv
<1> QED
  BY <1>1, <1>2 DEF BondInv, NotClosing

LEMMA WorkBonds ==
    ASSUME NoDrops, BondInv, NEW w \in Workers, Work(w)
    PROVE  BondInv'
<1>1. TimerInv /\ TimerInv'
  BY WorkTimer, BondFacts
<1>2. worker \in [Workers -> Thread] /\ NotClosing
  BY <1>1 DEF BondInv, TimerInv, Typed, TypeOK
<1>3. ~CloseConn(w) /\ ~ClearSockfd(w) /\ ~StoreDecrement(w)
  BY <1>2 DEF CloseConn, ClearSockfd, StoreDecrement, At, NotClosing
<1>4. NotClosing'
  <2>1. CASE Parse(w)
    <3>1. PICK outcome \in Outcomes \cup {"again"} :
            worker' = [worker EXCEPT ![w].pc = outcome, ![w].from = Slot(w).req]
      BY <2>1 DEF Parse
    <3>2. outcome \notin {"drop", "clear", "store"}
      BY OutcomesAssumption DEF NoDrops
    <3> QED
      BY <1>2, <3>1, <3>2 DEF NotClosing, Thread
  <2>2. CASE Take(w)
    BY <1>2, <2>2 DEF Take, NotClosing, Thread
  <2>3. ASSUME NEW p \in {"flag", "parse", "out"}, Goto(w, p) PROVE NotClosing'
    BY <1>2, <2>3 DEF Goto, NotClosing, Thread
  <2>4. ASSUME Finish(w) PROVE NotClosing'
    BY <1>2, <2>4 DEF Finish, Idle, NotClosing
  <2> QED
    BY <1>3, <2>1, <2>2, <2>3, <2>4
    DEF Work, IoRead, IoWrite, SetTimerFlag, FillReply, Rearm
<1>5. owner' = owner /\ UNCHANGED timers
  BY <1>3, WorkKeepsTimers
<1>6. Bonds({})'
  BY <1>1, <1>5, BondsKept DEF BondInv, timers
<1> QED
  BY <1>4, <1>6 DEF BondInv

LEMMA NextBonds == ASSUME NoDrops PROVE BondInv /\ [Next]_vars => BondInv'
<1>1. BondInv /\ UNCHANGED vars => BondInv'
  <2> SUFFICES ASSUME BondInv, UNCHANGED vars PROVE BondInv'
    OBVIOUS
  <2>1. TimerInv'
    BY NextTimer, BondFacts
  <2>2. UNCHANGED <<owner, timers, worker>>
    BY DEF vars, kernel, pool
  <2>3. Bonds({})'
    BY <2>1, <2>2, BondsKept DEF BondInv, timers
  <2> QED
    BY <2>2, <2>3 DEF BondInv, NotClosing
<1> QED
  BY <1>1, LoopClosesNothing, WorkBonds DEF Next

----------------------------------------------------------------------------
(* One thread at a time, in the proactor.                                    *)

Calm == ActorModel = 0 /\ Prompt /\ NoDrops

Reported(f) == \E e \in events : e.fd = f
Queued(f) == \E i \in 1..Len(queue) : queue[i] = f
InHand(f) == \E w \in Workers : worker[w].task = f

\* Whoever has a descriptor has spent its one-shot.
Spent == \A f \in Fds : Reported(f) \/ Queued(f) \/ InHand(f) => armed[f] = "off"

\* A descriptor is in one event, one queue entry or one worker's hands.
OneHand ==
    /\ \A f \in Fds : Reported(f) => ~Queued(f) /\ ~InHand(f)
    /\ \A f \in Fds : Queued(f) => ~InHand(f)
    /\ \A i, j \in 1..Len(queue) : queue[i] = queue[j] => i = j
    /\ \A v, w \in Workers : worker[v].task = worker[w].task /\ worker[v].task \in Fds => v = w

\* A request in the queue or with a worker is not due to expire.
OnTime == \A f \in Fds : Queued(f) \/ InHand(f) => ttl[timer[f]] >= 1

\* A slot names its own descriptor.
Named == \A f \in Fds : Open(f) => http[f].sockfd = f

\* Workers parse, answer with what they have parsed, and re-arm.
WorkShape ==
    /\ pc # "spin"
    /\ \A w \in Workers :
         /\ worker[w].pc \in {"idle", "parse", "again", "reply", "out"}
         /\ worker[w].pc = "reply" => worker[w].from \in {None, owner[worker[w].task]}

SlotInv ==
    BondInv /\ HandsFree /\ Spent /\ OneHand /\ OnTime /\ Named /\ WorkShape /\ OwnReply

LEMMA SlotInvTypes ==
    ASSUME SlotInv
    PROVE  /\ BondInv /\ TimerInv /\ TypeOK /\ QueueInv
           /\ Bonded
           /\ \A c \in Clients : ttl[c] >= 0 => udata[c] \in Fds /\ owner[udata[c]] = c
           /\ worker \in [Workers -> Thread] /\ queue \in Seq(Fds) /\ http \in [Fds -> HttpConn]
           /\ armed \in [Fds -> {"none", "off", "in", "out"}]
  BY BondFacts DEF SlotInv, TimerInv, Typed, TypeOK, QueueInv

\* A descriptor that is registered or in somebody's hands is open.
LEMMA TakenIsOpen ==
    ASSUME SlotInv, NEW f \in Fds, armed[f] # "none" \/ Reported(f) \/ Queued(f) \/ InHand(f)
    PROVE  Open(f) /\ timer[f] = owner[f] /\ owner[f] \in Clients
<1> USE BondTypes, SlotInvTypes
<1>1. HasTimer(f)
  BY DEF SlotInv, Spent, TimerInv, TimerLive
<1>2. timer[f] \in Clients /\ owner[udata[timer[f]]] = timer[f] /\ udata[timer[f]] = f
  BY <1>1 DEF HasTimer
<1> QED
  BY <1>2 DEF Open

LEMMA QueueAppended ==
    ASSUME queue \in Seq(Fds), NEW f \in Fds, ~Queued(f), Enqueue(f), OneHand
    PROVE  /\ \A g \in Fds : Queued(g)' => Queued(g) \/ g = f
           /\ \A i, j \in 1..Len(queue') : queue'[i] = queue'[j] => i = j
<1>1. CASE queue' = queue
  BY <1>1 DEF Queued, OneHand
<1>2. CASE queue' = Append(queue, f)
  <2>1. /\ Len(queue') = Len(queue) + 1 /\ queue'[Len(queue) + 1] = f
        /\ \A i \in 1..Len(queue) : queue'[i] = queue[i]
    BY <1>2
  <2>2. Len(queue) \in Nat
    OBVIOUS
  <2>3. \A i \in 1..Len(queue') : i = Len(queue) + 1 \/ i \in 1..Len(queue)
    BY <2>1, <2>2
  <2>4. \A g \in Fds : Queued(g)' => Queued(g) \/ g = f
    BY <2>1, <2>3 DEF Queued
  <2>5. \A i, j \in 1..Len(queue') : queue'[i] = queue'[j] => i = j
    BY <2>1, <2>3 DEF Queued, OneHand
  <2> QED
    BY <2>4, <2>5
<1> QED
  BY <1>1, <1>2 DEF Enqueue

LEMMA QueueTaken ==
    ASSUME queue \in Seq(Fds), queue # <<>>, queue' = Tail(queue), OneHand
    PROVE  /\ Head(queue) \in Fds /\ Queued(Head(queue))
           /\ \A g \in Fds : Queued(g)' => Queued(g) /\ g # Head(queue)
           /\ \A i, j \in 1..Len(queue') : queue'[i] = queue'[j] => i = j
<1>1. Len(queue) \in Nat /\ Len(queue) >= 1
  OBVIOUS
<1>2. Head(queue) = queue[1] /\ queue[1] \in Fds /\ 1 \in 1..Len(queue)
  BY <1>1
<1>3. Len(queue') = Len(queue) - 1 /\ \A i \in 1..Len(queue') : queue'[i] = queue[i + 1]
  OBVIOUS
<1>4. \A i \in 1..Len(queue') : i + 1 \in 1..Len(queue) /\ i + 1 # 1 /\ i \in Int
  BY <1>1, <1>3
<1>5. \A g \in Fds : Queued(g)' => Queued(g) /\ g # Head(queue)
  BY <1>2, <1>3, <1>4 DEF Queued, OneHand
<1>6. ASSUME NEW i \in 1..Len(queue'), NEW j \in 1..Len(queue'), queue'[i] = queue'[j]
      PROVE  i = j
  <2>1. queue[i + 1] = queue[j + 1]
    BY <1>3, <1>6
  <2>2. i + 1 = j + 1
    BY <1>4, <2>1 DEF OneHand
  <2> QED
    BY <1>4, <2>2
<1> QED
  BY <1>2, <1>5, <1>6 DEF Queued

\* Holders only go away, and what is still held keeps its epoll interest.
LEMMA HoldersKept ==
    ASSUME SlotInv, queue' = queue,
           \A w \in Workers : worker'[w].task \in {worker[w].task, None},
           \A g \in Fds : Reported(g)' => Reported(g),
           \A g \in Fds : Reported(g)' \/ Queued(g) \/ InHand(g)' => armed'[g] = armed[g]
    PROVE  Spent' /\ OneHand'
<1>1. \A g \in Fds : (Queued(g)' <=> Queued(g)) /\ (InHand(g)' => InHand(g))
  BY NoneAssumption DEF Queued, InHand
<1>2. Spent'
  BY <1>1 DEF SlotInv, Spent
<1>3. ASSUME NEW v \in Workers, NEW w \in Workers,
             worker'[v].task = worker'[w].task, worker'[v].task \in Fds
      PROVE  v = w
  <2>1. worker[v].task = worker'[v].task /\ worker[w].task = worker'[w].task
    BY <1>3, NoneAssumption
  <2> QED
    BY <1>3, <2>1 DEF SlotInv, OneHand
<1>4. OneHand'
  BY <1>1, <1>3 DEF SlotInv, OneHand
<1> QED
  BY <1>2, <1>4

LEMMA OnTimeKept ==
    ASSUME SlotInv, queue' = queue,
           \A w \in Workers : worker'[w].task \in {worker[w].task, None},
           \A g \in Fds : Queued(g) \/ InHand(g) => timer'[g] = timer[g] /\ ttl'[timer[g]] >= 1
    PROVE  OnTime'
<1>1. \A g \in Fds : (Queued(g)' => Queued(g)) /\ (InHand(g)' => InHand(g))
  BY NoneAssumption DEF Queued, InHand
<1> QED
  BY <1>1 DEF OnTime

\* A handler changes the slot it has in hand, and what that slot holds is of
\* its own client.
LEMMA DataKept ==
    ASSUME SlotInv, NEW f \in Fds, owner' = owner, worker' = worker, pc' # "spin",
           \A g \in Fds \ {f} : http'[g] = http[g],
           http'[f].sockfd = http[f].sockfd,
           Open(f) => http'[f].req \in {None, owner[f]} /\ http'[f].reply \in {None, owner[f]}
    PROVE  Named' /\ WorkShape' /\ OwnReply'
<1>1. Named'
  BY DEF SlotInv, Named, Open
<1>2. WorkShape'
  BY DEF SlotInv, WorkShape
<1>3. OwnReply'
  BY DEF SlotInv, OwnReply, Open
<1> QED
  BY <1>1, <1>2, <1>3

\* Steps that leave slots, descriptors, timers and requests alone.
LEMMA QuietSlots ==
    ASSUME SlotInv, BondInv', pc' # "spin",
           UNCHANGED <<owner, armed, http, timer, ttl, queue, worker>>,
           \A g \in Fds : Reported(g)' => Reported(g)
    PROVE  SlotInv'
<1>1. Spent' /\ OneHand'
  BY HoldersKept
<1>2. OnTime'
  BY OnTimeKept DEF SlotInv, OnTime
<1>3. Named' /\ WorkShape' /\ OwnReply'
  BY DEF SlotInv, Named, WorkShape, OwnReply, Open
<1>4. HandsFree'
  BY DEF SlotInv, HandsFree
<1> QED
  BY <1>1, <1>2, <1>3, <1>4 DEF SlotInv

\* The connection that is closed is in nobody's hands but the closer's.
LEMMA CloseSlots ==
    ASSUME SlotInv, BondInv', pc' # "spin",
           NEW f \in Fds, HasTimer(f), ~Queued(f), ~InHand(f), ~Reported(f)',
           CloseFd(f), FreeNode(timer[f]), UNCHANGED <<timer, queue, worker>>,
           \A g \in Fds : Reported(g)' => Reported(g),
           \A g \in Fds \ {f} : http'[g] = http[g]
    PROVE  SlotInv'
<1> USE BondTypes, SlotInvTypes
<1>1. /\ owner' = [owner EXCEPT ![f] = None] /\ armed' = [armed EXCEPT ![f] = "none"]
      /\ ttl' = [ttl EXCEPT ![timer[f]] = -1]
  BY DEF CloseFd, FreeNode
<1>2. Spent' /\ OneHand'
  <2>1. InHand(f)' => InHand(f)
    BY DEF InHand
  <2>2. \A g \in Fds : Reported(g)' \/ Queued(g) \/ InHand(g)' => armed'[g] = armed[g]
    BY <1>1, <2>1
  <2> QED
    BY <2>2, HoldersKept
<1>3. OnTime'
  <2>1. ASSUME NEW g \in Fds, Queued(g) \/ InHand(g) PROVE ttl'[timer[g]] >= 1
    <3>1. g # f /\ ttl[timer[g]] >= 1
      BY <2>1 DEF SlotInv, OnTime
    <3>2. timer[g] \in Clients /\ udata[timer[g]] = g
      BY <2>1, TakenIsOpen DEF Bonded
    <3>3. timer[g] # timer[f]
      BY <3>1, <3>2 DEF HasTimer
    <3> QED
      BY <1>1, <3>1, <3>2, <3>3
  <2> QED
    BY <2>1, OnTimeKept
<1>4. Named' /\ OwnReply'
  <2> SUFFICES ASSUME NEW g \in Fds, Open(g)'
               PROVE  /\ http'[g].sockfd = g
                      /\ http'[g].req \in {None, owner'[g]} /\ http'[g].reply \in {None, owner'[g]}
    BY DEF Named, OwnReply
  <2>1. g # f /\ owner'[g] = owner[g] /\ Open(g)
    BY <1>1 DEF Open
  <2> QED
    BY <2>1 DEF SlotInv, Named, OwnReply
<1>5. WorkShape'
  <2> SUFFICES ASSUME NEW w \in Workers, worker[w].pc = "reply"
               PROVE  owner'[worker[w].task] = owner[worker[w].task]
    BY DEF SlotInv, WorkShape
  <2>1. worker[w].task \in Fds /\ worker[w].task # f
    BY DEF InHand, QueueInv, Typed, Busy
  <2> QED
    BY <1>1, <2>1
<1>6. HandsFree'
  BY DEF SlotInv, HandsFree
<1> QED
  BY <1>2, <1>3, <1>4, <1>5, <1>6 DEF SlotInv

LEMMA InitSlots == Init => SlotInv
<1> SUFFICES ASSUME Init PROVE SlotInv
  OBVIOUS
<1>1. \A f \in Fds : ~Reported(f) /\ ~Queued(f) /\ ~InHand(f) /\ ~Open(f)
  BY NoneAssumption DEF Init, Reported, Queued, InHand, Idle, Open
<1>2. Spent /\ OneHand /\ OnTime
  BY <1>1, NoneAssumption DEF Spent, OneHand, OnTime, Init, Idle
<1>3. Named /\ OwnReply
  BY <1>1 DEF Named, OwnReply
<1>4. HandsFree /\ WorkShape
  BY DEF Init, Idle, HandsFree, WorkShape
<1>5. BondInv
  BY InitBonds DEF Init, Idle, BondInv, NotClosing
<1> QED
  BY <1>2, <1>3, <1>4, <1>5 DEF SlotInv

LEMMA EnvironmentSlots == ASSUME Calm, SlotInv, Environment PROVE SlotInv'
<1> USE DEF kernel, timers, count, pool, flags, clock, loop
<1> USE BondTypes, SlotInvTypes
<1>1. BondInv'
  BY LoopClosesNothing
<1>2. /\ UNCHANGED <<owner, armed, http, timer, queue, worker, events>> /\ pc' = pc
      /\ \A g \in Fds : Reported(g)' => Reported(g)
  BY DEF Environment, Connect, Send, Hangup, Terminate, Elapse, Reported
<1>3. pc' # "spin"
  BY <1>2 DEF SlotInv, WorkShape
<1>4. CASE ttl' = ttl
  BY <1>1, <1>2, <1>3, <1>4, QuietSlots
<1>5. CASE Elapse
  <2>1. ASSUME NEW g \in Fds, Queued(g) \/ InHand(g) PROVE ttl'[timer[g]] >= 1
    <3>1. timer[g] \in Clients
      BY <2>1, TakenIsOpen
    <3>2. g \in InFlight
      BY <2>1, NoneAssumption DEF InFlight, Queued, InHand
    <3>3. ttl[timer[g]] > 1 /\ ttl[timer[g]] \in Int
      BY <1>5, <3>1, <3>2, NoneAssumption DEF Elapse, Calm
    <3>4. ttl'[timer[g]] = ttl[timer[g]] - 1
      BY <1>5, <3>1, <3>3 DEF Elapse
    <3> QED
      BY <3>3, <3>4
  <2>2. OnTime'
    BY <1>2, <2>1, OnTimeKept
  <2>3. Spent' /\ OneHand'
    BY <1>2, HoldersKept
  <2>4. Named' /\ WorkShape' /\ OwnReply' /\ HandsFree'
    BY <1>2 DEF SlotInv, Named, WorkShape, OwnReply, Open, HandsFree
  <2> QED
    BY <1>1, <2>2, <2>3, <2>4 DEF SlotInv
<1> QED
  BY <1>4, <1>5 DEF Environment, Connect, Send, Hangup, Terminate

\* Handling an event of f: f is nobody else's, and no event of it is left.
LEMMA HandlingSlots ==
    ASSUME SlotInv, NEW f \in Fds, NEW kinds, NEW next, Handling(f, kinds, next)
    PROVE  /\ ~Queued(f) /\ ~InHand(f) /\ ~Reported(f)' /\ Open(f) /\ HasTimer(f)
           /\ \A g \in Fds : Reported(g)' => Reported(g)
           /\ armed[f] = "off" /\ http[f].sockfd = f /\ timer[f] = owner[f]
<1>1. Reported(f)
  BY DEF Handling, Reported
<1>2. (\A e \in events' : e \in events /\ e.fd # f) /\ HasTimer(f)
  BY HandlingEvents, SlotInvTypes
<1>3. Open(f) /\ timer[f] = owner[f]
  BY <1>1, TakenIsOpen
<1> QED
  BY <1>1, <1>2, <1>3 DEF SlotInv, OneHand, Spent, Named, Reported

LEMMA EpollSlots == ASSUME SlotInv, BondInv', EpollWait PROVE SlotInv'
<1> USE SlotInvTypes DEF kernel, timers, count, pool, flags, clock
<1>1. PICK writable \in SUBSET {f \in Fds : armed[f] = "out"} :
        /\ events' = {Event(f, ConnKind(f)) : f \in writable \cup {g \in Fds : Ready(g)}}
                       \cup {e \in {Event(None, "listen")} : ListenReady}
                       \cup {e \in {Event(None, "signal")} : pipe # {}}
        /\ OneShot(writable \cup {f \in Fds : Ready(f)})
  BY DEF EpollWait
<1>2. UNCHANGED <<owner, http, timer, ttl, queue, worker>> /\ pc' = "batch"
  BY DEF EpollWait
<1>3. \A g \in Fds : Reported(g)' => armed[g] \in {"in", "out"} /\ armed'[g] = "off"
  BY <1>1, NoneAssumption DEF Reported, Event, Ready, OneShot
<1>4. \A g \in Fds : (Queued(g)' <=> Queued(g)) /\ (InHand(g)' <=> InHand(g))
  BY <1>2 DEF Queued, InHand
<1>5. \A g \in Fds : armed[g] = "off" => armed'[g] = "off"
  BY <1>1 DEF OneShot
<1>6. Spent'
  BY <1>3, <1>4, <1>5 DEF SlotInv, Spent
<1>7. \A g \in Fds : Reported(g)' => ~Queued(g) /\ ~InHand(g)
  BY <1>3 DEF SlotInv, Spent
<1>8. OneHand'
  BY <1>2, <1>4, <1>7 DEF SlotInv, OneHand
<1>9. OnTime'
  BY <1>2, <1>4 DEF SlotInv, OnTime
<1>10. Named' /\ WorkShape' /\ OwnReply' /\ HandsFree'
  BY <1>2 DEF SlotInv, Named, WorkShape, OwnReply, HandsFree, Open
<1> QED
  BY <1>6, <1>8, <1>9, <1>10 DEF SlotInv

LEMMA AcceptSlots == ASSUME SlotInv, BondInv', AcceptInit PROVE SlotInv'
<1> USE BondTypes, SlotInvTypes DEF kernel, timers, count, pool, flags, clock
<1>1. PICK c \in Backlog, f \in FreeFds : InitTimer(f, c)
  BY DEF AcceptInit
<1>2. c \in Clients /\ f \in Fds /\ ~Open(f) /\ ttl[c] = -1
  BY DEF Backlog, FreeFds, TimerInv, NoEarlyNode
<1>3. /\ owner' = [owner EXCEPT ![f] = c] /\ armed' = [armed EXCEPT ![f] = "in"]
      /\ http' = [http EXCEPT ![f] = FreshSlot(f)]
      /\ timer' = [timer EXCEPT ![f] = c] /\ ttl' = [ttl EXCEPT ![c] = Timeout]
      /\ UNCHANGED <<queue, worker, events>> /\ pc' \in {"batch", "accept"}
  BY <1>1 DEF AcceptInit, InitTimer, InitSlot, BindTimer
<1>4. ~Reported(f) /\ ~Queued(f) /\ ~InHand(f)
  BY <1>2, TakenIsOpen
<1>5. \A g \in Fds : (Reported(g)' <=> Reported(g)) /\ (InHand(g)' <=> InHand(g))
  BY <1>3 DEF Reported, InHand
<1>6. Spent' /\ OneHand'
  <2>1. \A g \in Fds : Reported(g)' \/ Queued(g) \/ InHand(g)' => armed'[g] = armed[g]
    BY <1>3, <1>4, <1>5
  <2> QED
    BY <1>3, <1>5, <2>1, HoldersKept
<1>7. OnTime'
  <2>1. ASSUME NEW g \in Fds, Queued(g) \/ InHand(g)
        PROVE  timer'[g] = timer[g] /\ ttl'[timer[g]] >= 1
    <3>1. g # f /\ timer[g] \in Clients /\ ttl[timer[g]] >= 1
      BY <1>4, <2>1, TakenIsOpen DEF SlotInv, OnTime
    <3>2. timer[g] # c
      BY <1>2, <3>1
    <3> QED
      BY <1>3, <3>1, <3>2
  <2> QED
    BY <1>3, <2>1, OnTimeKept
<1>8. Named' /\ OwnReply'
  <2> SUFFICES ASSUME NEW g \in Fds, Open(g)'
               PROVE  /\ http'[g].sockfd = g
                      /\ http'[g].req \in {None, owner'[g]} /\ http'[g].reply \in {None, owner'[g]}
    BY DEF Named, OwnReply
  <2>1. CASE g = f
    BY <1>2, <1>3, <2>1 DEF FreshSlot
  <2>2. CASE g # f
    BY <1>3, <2>2 DEF SlotInv, Named, OwnReply, Open
  <2> QED
    BY <2>1, <2>2
<1>9. WorkShape' /\ HandsFree'
  <2>1. ASSUME NEW w \in Workers, worker[w].pc = "reply"
        PROVE  owner'[worker[w].task] = owner[worker[w].task]
    <3>1. worker[w].task \in Fds /\ worker[w].task # f
      BY <1>4, <2>1 DEF InHand, QueueInv, Typed, Busy
    <3> QED
      BY <1>3, <3>1
  <2> QED
    BY <1>3, <2>1 DEF SlotInv, WorkShape, HandsFree
<1> QED
  BY <1>6, <1>7, <1>8, <1>9 DEF SlotInv

LEMMA ReadSlots ==
    ASSUME Calm, SlotInv, BondInv', NEW f \in Fds, ProactorRead(f)
    PROVE  SlotInv'
<1> USE BondTypes, SlotInvTypes DEF kernel, timers, count, pool, flags, clock
<1>1. /\ Handling(f, {"in"}, "batch") /\ pc' = "batch" /\ worker' = worker
  BY DEF ProactorRead, Handling
<1>2. /\ ~Queued(f) /\ ~InHand(f) /\ ~Reported(f)' /\ Open(f) /\ HasTimer(f)
      /\ \A g \in Fds : Reported(g)' => Reported(g)
      /\ armed[f] = "off" /\ http[f].sockfd = f /\ timer[f] = owner[f]
  BY <1>1, HandlingSlots
<1>3. CASE DealTimer(f) /\ UNCHANGED <<http, queue>>
  <2>1. CloseFd(f) /\ FreeNode(timer[f]) /\ UNCHANGED timer
    BY <1>3 DEF DealTimer, CbFunc
  <2> QED
    BY <1>1, <1>2, <1>3, <2>1, CloseSlots
<1>4. CASE /\ CanRead(f) /\ ReadInto(f, http[f]) /\ Enqueue(f) /\ AdjustTimer(f)
           /\ UNCHANGED <<owner, armed>>
  <2>1. /\ \A g \in Fds : Queued(g)' => Queued(g) \/ g = f
        /\ \A i, j \in 1..Len(queue') : queue'[i] = queue'[j] => i = j
    BY <1>2, <1>4, QueueAppended DEF SlotInv
  <2>2. \A g \in Fds : InHand(g)' <=> InHand(g)
    BY <1>1 DEF InHand
  <2>3. Spent'
    BY <1>2, <1>4, <2>1, <2>2 DEF SlotInv, Spent
  <2>4. OneHand'
    BY <1>1, <1>2, <2>1, <2>2 DEF SlotInv, OneHand
  <2>5. OnTime'
    <3>1. timer[f] \in Clients /\ ttl' = [ttl EXCEPT ![timer[f]] = Timeout] /\ timer' = timer
      BY <1>2, <1>4 DEF AdjustTimer, Open
    <3>2. Timeout >= 1
      BY TimeoutAssumption
    <3>3. ASSUME NEW g \in Fds, Queued(g)' \/ InHand(g)' PROVE ttl'[timer'[g]] >= 1
      <4>1. CASE timer[g] = timer[f]
        BY <3>1, <3>2, <4>1
      <4>2. CASE timer[g] # timer[f]
        <5>1. Queued(g) \/ InHand(g)
          BY <2>1, <2>2, <3>3, <4>2
        <5>2. timer[g] \in Clients /\ ttl[timer[g]] >= 1
          BY <5>1, TakenIsOpen DEF SlotInv, OnTime
        <5> QED
          BY <3>1, <4>2, <5>2
      <4> QED
        BY <4>1, <4>2
    <3> QED
      BY <3>3 DEF OnTime
  <2>6. Named' /\ WorkShape' /\ OwnReply'
    <3>1. Peer(f) = owner[f]
      BY <1>2, NoneAssumption DEF Peer
    <3>2. http' = [http EXCEPT ![f] = [http[f] EXCEPT
                     !.req = IF net[owner[f]].data THEN owner[f] ELSE http[f].req]]
      BY <1>4, <3>1 DEF ReadInto
    <3>3. /\ http'[f].sockfd = http[f].sockfd /\ http'[f].reply = http[f].reply
          /\ http'[f].req \in {owner[f], http[f].req}
          /\ \A g \in Fds \ {f} : http'[g] = http[g]
      BY <3>2 DEF HttpConn
    <3>4. http[f].req \in {None, owner[f]} /\ http[f].reply \in {None, owner[f]}
      BY <1>2 DEF SlotInv, OwnReply
    <3> QED
      BY <1>1, <1>4, <3>3, <3>4, DataKept
  <2>7. HandsFree'
    BY <1>1 DEF SlotInv, HandsFree
  <2> QED
    BY <2>3, <2>4, <2>5, <2>6, <2>7 DEF SlotInv
<1> QED
  BY <1>3, <1>4 DEF ProactorRead

LEMMA WriteSlots ==
    ASSUME SlotInv, BondInv', NEW f \in Fds, ProactorWrite(f)
    PROVE  SlotInv'
<1> USE BondTypes, SlotInvTypes DEF kernel, timers, count, pool, flags, clock
<1>1. Handling(f, {"out"}, "batch") /\ pc' = "batch" /\ UNCHANGED <<queue, worker>>
  BY DEF ProactorWrite, Handling
<1>2. /\ ~Queued(f) /\ ~InHand(f) /\ ~Reported(f)' /\ Open(f) /\ HasTimer(f)
      /\ \A g \in Fds : Reported(g)' => Reported(g)
      /\ armed[f] = "off" /\ http[f].sockfd = f /\ timer[f] = owner[f]
  BY <1>1, HandlingSlots
<1>3. PICK result \in WriteResults(f) :
        /\ http' = [http EXCEPT ![f] = SlotAfterWrite(f, result)]
        /\ IF result \in WriteFails
           THEN DealTimer(f)
           ELSE /\ RearmAfterWrite(f, result)
                /\ AdjustTimer(f)
                /\ UNCHANGED <<owner, net, edge, count>>
  BY DEF ProactorWrite
<1>4. \A g \in Fds \ {f} : http'[g] = http[g]
  BY <1>3
<1>5. CASE result \in WriteFails
  <2>1. CloseFd(f) /\ FreeNode(timer[f]) /\ UNCHANGED timer
    BY <1>3, <1>5 DEF DealTimer, CbFunc
  <2> QED
    BY <1>1, <1>2, <1>4, <2>1, CloseSlots
<1>6. CASE result \notin WriteFails
  <2>1. AdjustTimer(f) /\ owner' = owner
    BY <1>3, <1>6
  <2>2. \A g \in Fds \ {f} : armed'[g] = armed[g]
    BY <1>2, <1>3, <1>6 DEF RearmAfterWrite, ModFd
  <2>3. Spent' /\ OneHand'
    <3>1. InHand(f)' => InHand(f)
      BY <1>1 DEF InHand
    <3> QED
      BY <1>1, <1>2, <2>2, <3>1, HoldersKept
  <2>4. OnTime'
    <3>1. timer[f] \in Clients /\ ttl' = [ttl EXCEPT ![timer[f]] = Timeout] /\ timer' = timer
      BY <1>2, <2>1 DEF AdjustTimer, Open
    <3>2. Timeout >= 1
      BY TimeoutAssumption
    <3>3. ASSUME NEW g \in Fds, Queued(g) \/ InHand(g)
          PROVE  timer'[g] = timer[g] /\ ttl'[timer[g]] >= 1
      <4>1. timer[g] \in Clients /\ ttl[timer[g]] >= 1
        BY <3>3, TakenIsOpen DEF SlotInv, OnTime
      <4> QED
        BY <3>1, <3>2, <4>1
    <3> QED
      BY <1>1, <3>3, OnTimeKept
  <2>5. Named' /\ WorkShape' /\ OwnReply'
    <3>1. /\ http'[f] = SlotAfterWrite(f, result) /\ http[f] \in HttpConn
      BY <1>3
    <3>2. http[f].req \in {None, owner[f]} /\ http[f].reply \in {None, owner[f]}
      BY <1>2 DEF SlotInv, OwnReply
    <3>3. CASE result \in {"nothing", "done"}
      <4>1. http'[f] = Reset(f)
        BY <3>1, <3>3 DEF SlotAfterWrite
      <4>2. http'[f].sockfd = http[f].sockfd /\ http'[f].req = None /\ http'[f].reply = None
        BY <4>1 DEF Reset, FreshSlot
      <4> QED
        BY <1>1, <1>4, <2>1, <4>2, DataKept
    <3>4. CASE result \notin {"nothing", "done"}
      <4>1. http'[f] = http[f]
        BY <1>6, <3>1, <3>4 DEF SlotAfterWrite, WriteFails
      <4> QED
        BY <1>1, <1>4, <2>1, <3>2, <4>1, DataKept
    <3> QED
      BY <3>3, <3>4
  <2>6. HandsFree'
    BY <1>1 DEF SlotInv, HandsFree
  <2> QED
    BY <2>3, <2>4, <2>5, <2>6 DEF SlotInv
<1> QED
  BY <1>5, <1>6

\* tick closes the descriptor of an expired node, and OnTime says that nobody
\* works on it.
LEMMA TickSlots ==
    ASSUME SlotInv, NEW c \in Clients, TickOne(c)
    PROVE  /\ udata[c] \in Fds /\ HasTimer(udata[c]) /\ timer[udata[c]] = c /\ ttl[c] = 0
           /\ ~Queued(udata[c]) /\ ~InHand(udata[c]) /\ events = {} /\ spin = None
<1> USE BondTypes, SlotInvTypes
<1>1. ttl[c] = 0 /\ pc = "tick"
  BY DEF TickOne, Expired
<1>2. udata[c] \in Fds /\ owner[udata[c]] = c
  BY <1>1
<1>3. timer[udata[c]] = c
  BY <1>2 DEF Bonded, Open
<1>4. HasTimer(udata[c])
  BY <1>1, <1>3 DEF HasTimer
<1>5. ~Queued(udata[c]) /\ ~InHand(udata[c])
  BY <1>1, <1>2, <1>3 DEF SlotInv, OnTime
<1> QED
  BY <1>1, <1>2, <1>3, <1>4, <1>5 DEF TimerInv, LoopShape

LEMMA MainSlots == ASSUME Calm, SlotInv, Main PROVE SlotInv'
<1> USE DEF kernel, timers, count, pool, flags, clock, loop
<1> USE BondTypes, SlotInvTypes
<1>1. BondInv'
  BY LoopClosesNothing
<1>2. CASE EpollWait
  BY <1>1, <1>2, EpollSlots
<1>3. CASE AcceptInit
  BY <1>1, <1>3, AcceptSlots
<1>4. CASE \/ EndBatch \/ DealClient \/ AcceptFails \/ AcceptBusy \/ DealSignal \/ TickEnd
           \/ StoreCount
  <2>1. /\ UNCHANGED <<owner, armed, http, timer, ttl, queue, worker>> /\ events' \subseteq events
        /\ pc' # "spin"
    BY <1>4 DEF EndBatch, DealClient, AcceptFails, AcceptBusy, DealSignal, TickEnd, StoreCount,
       Handling, SlotInv, WorkShape
  <2>2. \A g \in Fds : Reported(g)' => Reported(g)
    BY <2>1 DEF Reported
  <2> QED
    BY <1>1, <2>1, <2>2, QuietSlots
<1>5. ~SpinDone
  BY DEF SpinDone, SlotInv, WorkShape
<1>6. ASSUME NEW f \in Fds, DealHangup(f) PROVE SlotInv'
  <2>1. /\ Handling(f, {"hup"}, "batch") /\ UNCHANGED <<http, timer, queue, worker>> /\ pc' = "batch"
        /\ CloseFd(f) /\ FreeNode(timer[f])
    BY <1>6 DEF DealHangup, DealTimer, CbFunc, Handling
  <2> QED
    BY <1>1, <2>1, HandlingSlots, CloseSlots
<1>7. ASSUME NEW f \in Fds, ProactorRead(f) PROVE SlotInv'
  BY <1>1, <1>7, ReadSlots
<1>8. ASSUME NEW f \in Fds, ProactorWrite(f) PROVE SlotInv'
  BY <1>1, <1>8, WriteSlots
<1>9. ASSUME NEW f, NEW kind, NEW io PROVE ~ReactorEvent(f, kind, io)
  BY DEF ReactorEvent, Calm
<1>10. ASSUME NEW c \in Clients, TickOne(c) PROVE SlotInv'
  <2> DEFINE f == udata[c]
  <2>1. /\ f \in Fds /\ HasTimer(f) /\ timer[f] = c /\ ~Queued(f) /\ ~InHand(f) /\ events = {}
    BY <1>10, TickSlots
  <2>2. /\ CloseFd(f) /\ FreeNode(timer[f]) /\ UNCHANGED <<http, timer, queue, worker, events>>
        /\ pc' = "tick"
    BY <1>10, <2>1 DEF TickOne, CbFunc
  <2>3. \A g \in Fds : ~Reported(g)'
    BY <2>1, <2>2 DEF Reported
  <2> QED
    BY <1>1, <2>1, <2>2, <2>3, CloseSlots
<1> QED
  BY <1>2, <1>3, <1>4, <1>5, <1>6, <1>7, <1>8, <1>9, <1>10 DEF Main, MainStep

LEMMA WorkSlots == ASSUME Calm, SlotInv, NEW w \in Workers, Work(w) PROVE SlotInv'
<1> USE DEF kernel, timers, count, flags, clock, loop
<1> USE BondTypes, SlotInvTypes
<1> DEFINE f == worker[w].task
<1>1. BondInv'
  BY WorkBonds DEF Calm
<1>2. HandsFree'
  BY WorkQueue
<1>3. /\ pc' = pc /\ pc # "spin" /\ UNCHANGED <<timer, ttl, events>>
      /\ \A g \in Fds : Reported(g)' => Reported(g)
  <2>1. UNCHANGED <<pc, timer, ttl, events>>
    BY DEF Work, Take, IoRead, IoWrite, SetTimerFlag, Parse, FillReply, CloseConn, ClearSockfd,
       StoreDecrement, Rearm
  <2> QED
    BY <2>1 DEF Reported, SlotInv, WorkShape
<1>4. /\ ~IoRead(w) /\ ~IoWrite(w) /\ ~SetTimerFlag(w)
      /\ ~CloseConn(w) /\ ~ClearSockfd(w) /\ ~StoreDecrement(w)
  BY DEF SlotInv, WorkShape, IoRead, IoWrite, SetTimerFlag, CloseConn, ClearSockfd,
     StoreDecrement, At
<1>5. worker[w].pc # "idle" =>
         /\ f \in Fds /\ InHand(f) /\ Open(f) /\ http[f].sockfd = f
         /\ http[f].req \in {None, owner[f]} /\ http[f].reply \in {None, owner[f]}
  <2> SUFFICES ASSUME worker[w].pc # "idle"
               PROVE  /\ f \in Fds /\ InHand(f) /\ Open(f) /\ http[f].sockfd = f
                      /\ http[f].req \in {None, owner[f]} /\ http[f].reply \in {None, owner[f]}
    OBVIOUS
  <2>1. f \in Fds
    BY DEF QueueInv, Typed, Busy
  <2>2. InHand(f)
    BY DEF InHand
  <2>3. Open(f)
    BY <2>1, <2>2, TakenIsOpen
  <2> QED
    BY <2>1, <2>2, <2>3 DEF SlotInv, Named, OwnReply
<1>6. CASE Take(w)
  <2> DEFINE h == Head(queue)
  <2>1. /\ worker[w].pc = "idle" /\ queue # <<>> /\ queue' = Tail(queue)
        /\ worker' = [worker EXCEPT ![w].task = h, ![w].pc = "parse"]
        /\ UNCHANGED <<owner, armed, http>>
    BY <1>6 DEF Take, At, Calm
  <2>2. /\ h \in Fds /\ Queued(h)
        /\ \A g \in Fds : Queued(g)' => Queued(g) /\ g # h
        /\ \A i, j \in 1..Len(queue') : queue'[i] = queue'[j] => i = j
    BY <2>1, QueueTaken DEF SlotInv
  <2>3. /\ worker'[w].task = h /\ worker'[w].pc = "parse"
        /\ \A v \in Workers \ {w} : worker'[v] = worker[v]
    BY <2>1 DEF Thread
  <2>4. \A g \in Fds : InHand(g)' => InHand(g) \/ g = h
    BY <2>3 DEF InHand
  <2>5. Spent'
    BY <1>3, <2>1, <2>2, <2>4 DEF SlotInv, Spent
  <2>6. OneHand'
    <3>1. \A v \in Workers \ {w} : worker[v].task # h
      BY <2>2 DEF SlotInv, OneHand, InHand
    <3>2. ASSUME NEW u \in Workers, NEW v \in Workers,
                 worker'[u].task = worker'[v].task, worker'[u].task \in Fds
          PROVE  u = v
      BY <2>3, <3>1, <3>2 DEF SlotInv, OneHand
    <3> QED
      BY <1>3, <2>2, <2>4, <3>2 DEF SlotInv, OneHand
  <2>7. OnTime'
    BY <1>3, <2>2, <2>4 DEF SlotInv, OnTime
  <2>8. Named' /\ OwnReply'
    BY <2>1 DEF SlotInv, Named, OwnReply, Open
  <2>9. WorkShape'
    BY <1>3, <2>1, <2>3 DEF SlotInv, WorkShape
  <2> QED
    BY <1>1, <1>2, <2>5, <2>6, <2>7, <2>8, <2>9 DEF SlotInv
<1>7. ASSUME queue' = queue, armed' = armed, \A v \in Workers : worker'[v].task = worker[v].task
      PROVE  Spent' /\ OneHand' /\ OnTime'
  <2>1. Spent' /\ OneHand'
    BY <1>3, <1>7, HoldersKept
  <2>2. OnTime'
    BY <1>3, <1>7, OnTimeKept DEF SlotInv, OnTime
  <2> QED
    BY <2>1, <2>2
<1>8. CASE Parse(w)
  <2>1. PICK outcome \in Outcomes \cup {"again"} :
          worker' = [worker EXCEPT ![w].pc = outcome, ![w].from = Slot(w).req]
    BY <1>8 DEF Parse
  <2>2. outcome \in {"again", "reply"}
    BY OutcomesAssumption DEF Calm, NoDrops
  <2>3. UNCHANGED <<owner, armed, http, queue>> /\ worker[w].pc # "idle"
    BY <1>8 DEF Parse, At
  <2>4. /\ worker'[w].pc = outcome /\ worker'[w].task = f /\ worker'[w].from = http[f].req
        /\ \A v \in Workers \ {w} : worker'[v] = worker[v]
    BY <2>1 DEF Thread, Slot
  <2>5. Spent' /\ OneHand' /\ OnTime'
    BY <1>7, <2>3, <2>4
  <2>6. WorkShape'
    BY <1>3, <1>5, <2>2, <2>3, <2>4 DEF SlotInv, WorkShape
  <2>7. Named' /\ OwnReply'
    BY <2>3 DEF SlotInv, Named, OwnReply, Open
  <2> QED
    BY <1>1, <1>2, <2>5, <2>6, <2>7 DEF SlotInv
<1>9. CASE FillReply(w)
  <2>1. /\ worker[w].pc = "reply" /\ http' = [http EXCEPT ![f].reply = worker[w].from]
        /\ worker' = [worker EXCEPT ![w].pc = "out"] /\ UNCHANGED <<owner, armed, queue>>
    BY <1>9 DEF FillReply, At, Goto
  <2>2. worker[w].from \in {None, owner[f]}
    BY <2>1 DEF SlotInv, WorkShape
  <2>3. /\ worker'[w].pc = "out" /\ worker'[w].task = f
        /\ \A v \in Workers \ {w} : worker'[v] = worker[v]
    BY <2>1 DEF Thread
  <2>4. /\ http'[f].sockfd = http[f].sockfd /\ http'[f].req = http[f].req
        /\ http'[f].reply = worker[w].from
        /\ \A g \in Fds \ {f} : http'[g] = http[g]
    BY <1>5, <2>1 DEF HttpConn
  <2>5. Spent' /\ OneHand' /\ OnTime'
    BY <1>7, <2>1, <2>3
  <2>6. WorkShape'
    BY <1>3, <2>1, <2>3 DEF SlotInv, WorkShape
  <2>7. Named' /\ OwnReply'
    BY <1>5, <2>1, <2>2, <2>4 DEF SlotInv, Named, OwnReply, Open
  <2> QED
    BY <1>1, <1>2, <2>5, <2>6, <2>7 DEF SlotInv
<1>10. CASE Rearm(w)
  <2>1. /\ worker[w].pc # "idle" /\ worker' = [worker EXCEPT ![w] = Idle]
        /\ UNCHANGED <<owner, http, queue>> /\ (ModFd(f, "in") \/ ModFd(f, "out"))
    BY <1>5, <1>10 DEF Rearm, At, Finish, Slot
  <2>2. /\ worker'[w] = Idle /\ Idle.task = None /\ Idle.pc = "idle"
        /\ \A v \in Workers \ {w} : worker'[v] = worker[v]
    BY <2>1 DEF Idle
  <2>3. PICK h \in Fds : h = worker[w].task
    BY <1>5, <2>1
  <2>4. ~InHand(h)' /\ ~Reported(h)' /\ ~Queued(h)
    <3>1. ~Reported(h) /\ ~Queued(h)
      BY <1>5, <2>3, <2>1 DEF SlotInv, OneHand
    <3>2. \A v \in Workers \ {w} : worker[v].task # h
      BY <2>3 DEF SlotInv, OneHand
    <3>3. ~InHand(h)'
      BY <2>2, <3>2, NoneAssumption DEF InHand
    <3> QED
      BY <1>3, <3>1, <3>3
  <2>5. \A g \in Fds \ {h} : armed'[g] = armed[g]
    BY <2>3, <2>1 DEF ModFd
  <2>6. \A v \in Workers : worker'[v].task \in {worker[v].task, None}
    BY <2>2
  <2>7. Spent' /\ OneHand'
    <3>1. \A g \in Fds : Reported(g)' \/ Queued(g) \/ InHand(g)' => armed'[g] = armed[g]
      BY <2>4, <2>5
    <3> QED
      BY <1>3, <2>1, <2>6, <3>1, HoldersKept
  <2>8. OnTime'
    <3>1. \A g \in Fds : Queued(g) \/ InHand(g) => timer'[g] = timer[g] /\ ttl'[timer[g]] >= 1
      BY <1>3 DEF SlotInv, OnTime
    <3> QED
      BY <2>1, <2>6, <3>1, OnTimeKept
  <2>9. WorkShape'
    BY <1>3, <2>1, <2>2 DEF SlotInv, WorkShape
  <2>10. Named' /\ OwnReply'
    BY <2>1 DEF SlotInv, Named, OwnReply, Open
  <2> QED
    BY <1>1, <1>2, <2>7, <2>8, <2>9, <2>10 DEF SlotInv
<1> QED
  BY <1>4, <1>6, <1>8, <1>9, <1>10 DEF Work

LEMMA NextSlots == ASSUME Calm PROVE SlotInv /\ [Next]_vars => SlotInv'
<1>1. SlotInv /\ UNCHANGED vars => SlotInv'
  <2> SUFFICES ASSUME SlotInv, UNCHANGED vars PROVE SlotInv'
    OBVIOUS
  <2>1. BondInv'
    BY NextBonds DEF SlotInv, Calm
  <2>2. UNCHANGED <<owner, armed, http, timer, ttl, queue, worker, events, pc>>
    BY DEF vars, kernel, timers, pool, loop
  <2>3. pc' # "spin" /\ \A g \in Fds : Reported(g)' => Reported(g)
    BY <2>2 DEF SlotInv, WorkShape, Reported
  <2> QED
    BY <2>1, <2>2, <2>3, QuietSlots
<1> QED
  BY <1>1, EnvironmentSlots, MainSlots, WorkSlots DEF Next

LEMMA SlotsHold == ASSUME Calm PROVE Spec => []SlotInv
  BY InitSlots, NextSlots, PTL DEF Spec

\* In the proactor, if no worker drops a connection and no request is in flight
\* for as long as a timer runs, a descriptor is in one event, queue entry,
\* worker's hands or set of epoll at a time: EPOLLONESHOT does what it is for.
THEOREM OneThreadPerSlot == ASSUME Calm PROVE Spec => []ExclusiveSlot
<1>1. SlotInv => ExclusiveSlot
  <2> SUFFICES ASSUME SlotInv, NEW f \in Fds PROVE Cardinality(Holders(f)) <= 1
    BY DEF ExclusiveSlot
  <2>1. ASSUME NEW S, NEW x, \A y \in S : y = x PROVE Cardinality(S) <= 1
    <3>1. S = {} \/ S = {x}
      BY <2>1
    <3>2. Cardinality({}) = 0 /\ Cardinality({x}) = 1
      BY FS_EmptySet, FS_Singleton
    <3> QED
      BY <3>1, <3>2
  <2>2. CASE Reported(f)
    <3>1. PICK e \in events : e.fd = f
      BY <2>2 DEF Reported
    <3>2. \A d \in events : d.fd = f => d = e
      BY <3>1, SlotInvTypes DEF TimerInv, OneEventPerFd
    <3>3. armed[f] = "off" /\ ~Queued(f) /\ ~InHand(f)
      BY <2>2 DEF SlotInv, Spent, OneHand
    <3>4. \A y \in Holders(f) : y = <<"event", e.kind>>
      BY <3>2, <3>3 DEF Holders, Queued, InHand
    <3> QED
      BY <2>1, <3>4
  <2>3. CASE Queued(f)
    <3>1. PICK i \in 1..Len(queue) : queue[i] = f
      BY <2>3 DEF Queued
    <3>2. \A j \in 1..Len(queue) : queue[j] = f => j = i
      BY <3>1 DEF SlotInv, OneHand
    <3>3. armed[f] = "off" /\ ~Reported(f) /\ ~InHand(f)
      BY <2>3 DEF SlotInv, Spent, OneHand
    <3>4. \A y \in Holders(f) : y = <<"queue", i>>
      BY <3>2, <3>3 DEF Holders, Reported, InHand
    <3> QED
      BY <2>1, <3>4
  <2>4. CASE InHand(f)
    <3>1. PICK w \in Workers : worker[w].task = f
      BY <2>4 DEF InHand
    <3>2. \A v \in Workers : worker[v].task = f => v = w
      BY <3>1 DEF SlotInv, OneHand
    <3>3. armed[f] = "off" /\ ~Reported(f) /\ ~Queued(f)
      BY <2>4 DEF SlotInv, Spent, OneHand
    <3>4. \A y \in Holders(f) : y = <<"worker", w>>
      BY <3>2, <3>3 DEF Holders, Reported, Queued
    <3> QED
      BY <2>1, <3>4
  <2>5. CASE ~Reported(f) /\ ~Queued(f) /\ ~InHand(f)
    <3>1. \A y \in Holders(f) : y = <<"epoll", armed[f]>>
      BY <2>5 DEF Holders, Reported, Queued, InHand
    <3> QED
      BY <2>1, <3>1
  <2> QED
    BY <2>2, <2>3, <2>4, <2>5
<1> QED
  BY <1>1, SlotsHold, PTL

\* Under the same assumptions no client's bytes and no client's response are in
\* the slot of another, however often its descriptor is reused.
THEOREM RepliesGoHome == ASSUME Calm PROVE Spec => []OwnReply
<1>1. SlotInv => OwnReply
  BY DEF SlotInv
<1> QED
  BY <1>1, SlotsHold, PTL

----------------------------------------------------------------------------
(* The reactor's handshake.  The request the main thread spins for is in the *)
(* queue, with a worker that has not answered yet, or answered, and in one   *)
(* of these places only.                                                     *)

NobodyAtIo == \A w \in Workers : ~At(w, "io")
Cleared(fds) == \A f \in fds : http[f].improv = 0

Handshake ==
    \/ /\ pc # "spin"
       /\ queue = <<>> /\ NobodyAtIo /\ Cleared(Fds)
    \/ /\ pc = "spin"
       /\ queue = <<spin>> /\ NobodyAtIo /\ Cleared(Fds)
    \/ /\ pc = "spin"
       /\ queue = <<>> /\ Cleared(Fds)
       /\ \E w \in Workers : /\ At(w, "io") /\ worker[w].task = spin
                            /\ \A v \in Workers \ {w} : ~At(v, "io")
    \/ /\ pc = "spin"
       /\ queue = <<>> /\ NobodyAtIo /\ Cleared(Fds \ {spin})
       /\ http[spin].improv = 1

SpinInv == TimerInv /\ Handshake

LEMMA SpinInvTypes ==
    ASSUME SpinInv
    PROVE  /\ TimerInv /\ LoopShape
           /\ worker \in [Workers -> Thread] /\ http \in [Fds -> HttpConn]
           /\ \A w \in Workers : worker[w].pc # "idle" => worker[w].task \in Fds
  BY DEF SpinInv, TimerInv, Typed, TypeOK, Busy

\* Steps that move none of the parts of the handshake.
LEMMA HandshakeKept ==
    ASSUME SpinInv, TimerInv', pc' = "spin" <=> pc = "spin", spin' = spin, queue' = queue,
           \A w \in Workers : /\ worker'[w].pc = "io" <=> worker[w].pc = "io"
                              /\ worker[w].pc = "io" => worker'[w].task = worker[w].task,
           \A f \in Fds : http'[f].improv = http[f].improv
    PROVE  SpinInv'
<1>1. NobodyAtIo' <=> NobodyAtIo
  BY DEF NobodyAtIo, At
<1>2. /\ Cleared(Fds)' <=> Cleared(Fds)
      /\ Cleared(Fds \ {spin})' <=> Cleared(Fds \ {spin})
  BY DEF Cleared
<1>3. CASE pc # "spin" \/ queue = <<spin>>
  BY <1>1, <1>2, <1>3 DEF SpinInv, Handshake
<1>4. CASE /\ pc = "spin" /\ queue = <<>> /\ Cleared(Fds)
           /\ \E w \in Workers : /\ At(w, "io") /\ worker[w].task = spin
                                /\ \A v \in Workers \ {w} : ~At(v, "io")
  BY <1>2, <1>4 DEF SpinInv, Handshake, At
<1>5. CASE /\ pc = "spin" /\ queue = <<>> /\ NobodyAtIo /\ Cleared(Fds \ {spin})
           /\ http[spin].improv = 1
  <2>1. http'[spin].improv = 1
    BY <1>5, SpinInvTypes DEF LoopShape
  <2> QED
    BY <1>1, <1>2, <1>5, <2>1 DEF SpinInv, Handshake
<1> QED
  BY <1>3, <1>4, <1>5 DEF SpinInv, Handshake

LEMMA InitSpin == Init => SpinInv
<1> SUFFICES ASSUME Init PROVE SpinInv
  OBVIOUS
<1>1. Handshake
  BY DEF Init, Idle, FreshSlot, Handshake, NobodyAtIo, Cleared, At
<1> QED
  BY <1>1, InitTimerInv DEF SpinInv

LEMMA EnvironmentSpin == SpinInv /\ Environment => SpinInv'
<1> SUFFICES ASSUME SpinInv, Environment PROVE SpinInv'
  OBVIOUS
<1>1. TimerInv'
  BY EnvironmentTimer DEF SpinInv
<1>2. UNCHANGED <<pc, spin, queue, worker, http>>
  BY DEF Environment, Connect, Send, Hangup, Terminate, Elapse, pool, loop
<1> QED
  BY <1>1, <1>2, HandshakeKept

LEMMA MainSpin == ASSUME ActorModel = 1, SpinInv, Main PROVE SpinInv'
<1> USE DEF kernel, timers, count, pool, flags, clock, loop
<1> USE SpinInvTypes
<1>1. TimerInv'
  BY MainTimer DEF SpinInv
<1>2. ASSUME pc' = "spin" <=> pc = "spin", UNCHANGED <<spin, queue, worker, http>> PROVE SpinInv'
  BY <1>1, <1>2, HandshakeKept
<1>3. CASE \/ EpollWait \/ EndBatch \/ DealClient \/ AcceptFails \/ AcceptBusy
           \/ DealSignal \/ TickEnd \/ StoreCount
           \/ (\E f \in Fds : DealHangup(f)) \/ (\E c \in Clients : TickOne(c))
  BY <1>2, <1>3 DEF EpollWait, EndBatch, DealClient, AcceptFails, AcceptBusy, DealSignal, TickEnd,
     StoreCount, DealHangup, TickOne, Handling
<1>4. CASE AcceptInit
  <2>1. /\ pc = "accept" /\ pc' \in {"accept", "batch"} /\ UNCHANGED <<spin, queue, worker>>
        /\ \E f \in Fds : http' = [http EXCEPT ![f] = FreshSlot(f)]
    BY <1>4 DEF AcceptInit, InitTimer, InitSlot, FreeFds
  <2>2. \A f \in Fds : http[f].improv = 0
    BY <2>1 DEF SpinInv, Handshake, Cleared
  <2>3. \A f \in Fds : http'[f].improv = http[f].improv
    BY <2>1, <2>2 DEF FreshSlot
  <2> QED
    BY <1>1, <2>1, <2>3, HandshakeKept
<1>5. CASE SpinDone
  <2>1. /\ pc = "spin" /\ spin \in Fds /\ http[spin].improv = 1
        /\ http' = [http EXCEPT ![spin].improv = 0, ![spin].tflag = 0]
        /\ pc' = "batch" /\ UNCHANGED <<queue, worker>>
    BY <1>5 DEF SpinDone, ClearFlags, LoopShape
  <2>2. queue = <<>> /\ NobodyAtIo /\ Cleared(Fds \ {spin})
    BY <2>1 DEF SpinInv, Handshake, Cleared
  <2>3. http'[spin].improv = 0
    BY <2>1 DEF HttpConn
  <2>4. ASSUME NEW f \in Fds PROVE http'[f].improv = 0
    BY <2>1, <2>2, <2>3 DEF Cleared
  <2>5. Cleared(Fds)' /\ NobodyAtIo'
    BY <2>1, <2>2, <2>4 DEF Cleared, NobodyAtIo, At
  <2> QED
    BY <1>1, <2>1, <2>2, <2>5 DEF SpinInv, Handshake
<1>6. ASSUME NEW f \in Fds, NEW kind, NEW io, ReactorEvent(f, kind, io) PROVE SpinInv'
  <2>1. /\ pc = "batch" /\ pc' = "spin" /\ spin' = f /\ worker' = worker /\ Enqueue(f)
        /\ http' = IF HasRoom THEN [http EXCEPT ![f].io = io] ELSE http
    BY <1>6 DEF ReactorEvent, Handling
  <2>2. queue = <<>> /\ NobodyAtIo /\ Cleared(Fds)
    BY <2>1 DEF SpinInv, Handshake
  <2>3. HasRoom
    BY <2>2, MaxRequestsAssumption DEF HasRoom
  <2>4. queue' = <<f>>
    BY <2>1, <2>2, <2>3 DEF Enqueue
  <2>5. NobodyAtIo' /\ Cleared(Fds)'
    BY <2>1, <2>2, <2>3 DEF NobodyAtIo, At, Cleared, HttpConn
  <2> QED
    BY <1>1, <2>1, <2>4, <2>5 DEF SpinInv, Handshake
<1>7. \A f \in Fds : ~ProactorRead(f) /\ ~ProactorWrite(f)
  BY DEF ProactorRead, ProactorWrite
<1> QED
  BY <1>3, <1>4, <1>5, <1>6, <1>7 DEF Main, MainStep

LEMMA WorkSpin == ASSUME ActorModel = 1, SpinInv, NEW w \in Workers, Work(w) PROVE SpinInv'
<1> USE DEF kernel, timers, count, flags, clock, loop
<1> USE SpinInvTypes
<1>1. TimerInv'
  BY WorkTimer DEF SpinInv
<1>2. UNCHANGED <<pc, spin>>
  BY DEF Work, Take, IoRead, IoWrite, SetTimerFlag, Parse, FillReply, CloseConn, ClearSockfd,
     StoreDecrement, Rearm
<1>3. CASE Take(w)
  <2>1. queue # <<>> /\ queue' = Tail(queue) /\ http' = http /\ worker[w].pc = "idle"
    BY <1>3 DEF Take, At
  <2>2. pc = "spin" /\ queue = <<spin>> /\ NobodyAtIo /\ Cleared(Fds)
    BY <2>1 DEF SpinInv, Handshake
  <2>3. queue' = <<>> /\ worker' = [worker EXCEPT ![w].task = spin, ![w].pc = "io"]
    BY <1>3, <2>2 DEF Take
  <2>4. /\ worker'[w].pc = "io" /\ worker'[w].task = spin
        /\ \A v \in Workers \ {w} : worker'[v] = worker[v]
    BY <2>3 DEF Thread
  <2>5. Cleared(Fds)'
    BY <2>1, <2>2 DEF Cleared
  <2>6. \A v \in Workers \ {w} : ~At(v, "io")'
    BY <2>2, <2>4 DEF NobodyAtIo, At
  <2> QED
    BY <1>1, <1>2, <2>2, <2>3, <2>4, <2>5, <2>6 DEF SpinInv, Handshake, At
<1>4. CASE IoRead(w) \/ IoWrite(w)
  <2>1. worker[w].pc = "io" /\ queue' = queue
    BY <1>4 DEF IoRead, IoWrite, At
  <2>2. /\ pc = "spin" /\ queue = <<>> /\ Cleared(Fds) /\ worker[w].task = spin
        /\ \A v \in Workers \ {w} : ~At(v, "io")
    BY <2>1 DEF SpinInv, Handshake, NobodyAtIo, At
  <2>3. spin \in Fds
    BY <2>2 DEF LoopShape
  <2>4. http'[spin].improv = 1 /\ \A f \in Fds \ {spin} : http'[f] = http[f]
    <3>1. CASE IoRead(w)
      <4>1. PICK q : \/ http' = [http EXCEPT ![spin] = [[http[spin] EXCEPT !.improv = 1] EXCEPT !.req = q]]
                     \/ http' = [http EXCEPT ![spin].improv = 1]
        BY <2>2, <3>1 DEF IoRead, ReadInto
      <4> QED
        BY <2>3, <4>1 DEF HttpConn
    <3>2. CASE IoWrite(w)
      <4>1. PICK r \in WriteResults(spin) :
              http' = [http EXCEPT ![spin] = [SlotAfterWrite(spin, r) EXCEPT !.improv = 1]]
        BY <2>2, <3>2 DEF IoWrite
      <4>2. SlotAfterWrite(spin, r) \in HttpConn
        BY <2>3, WriteTypes DEF TimerInv, Typed
      <4> QED
        BY <2>3, <4>1, <4>2 DEF HttpConn
    <3> QED
      BY <1>4, <3>1, <3>2
  <2>5. worker'[w].pc # "io" /\ \A v \in Workers \ {w} : worker'[v] = worker[v]
    <3>1. Goto(w, "parse") \/ Goto(w, "flag") \/ Finish(w)
      BY <1>4 DEF IoRead, IoWrite
    <3> QED
      BY <3>1 DEF Goto, Finish, Idle, Thread
  <2>6. NobodyAtIo'
    BY <2>2, <2>5 DEF NobodyAtIo, At
  <2>7. Cleared(Fds \ {spin})'
    BY <1>2, <2>2, <2>4 DEF Cleared
  <2> QED
    BY <1>1, <1>2, <2>1, <2>2, <2>4, <2>6, <2>7 DEF SpinInv, Handshake
<1>5. ASSUME UNCHANGED <<queue>>, worker[w].pc \notin {"idle", "io"},
             \A v \in Workers \ {w} : worker'[v] = worker[v], worker'[w].pc # "io",
             \A f \in Fds : http'[f].improv = http[f].improv
      PROVE  SpinInv'
  <2>1. \A v \in Workers : /\ worker'[v].pc = "io" <=> worker[v].pc = "io"
                           /\ worker[v].pc = "io" => worker'[v].task = worker[v].task
    BY <1>5
  <2> QED
    BY <1>1, <1>2, <1>5, <2>1, HandshakeKept
<1>6. CASE SetTimerFlag(w) \/ FillReply(w) \/ ClearSockfd(w)
  <2>1. queue' = queue /\ worker[w].pc \in {"flag", "reply", "clear"}
    BY <1>6 DEF SetTimerFlag, FillReply, ClearSockfd, At
  <2>2. \A f \in Fds : http'[f].improv = http[f].improv
    BY <1>6, <2>1 DEF SetTimerFlag, FillReply, ClearSockfd, HttpConn
  <2>3. /\ worker'[w].pc \in {"idle", "out", "store"}
        /\ \A v \in Workers \ {w} : worker'[v] = worker[v]
    BY <1>6 DEF SetTimerFlag, FillReply, ClearSockfd, Goto, Finish, Idle, Thread
  <2> QED
    BY <1>5, <2>1, <2>2, <2>3
<1>7. CASE Parse(w) \/ CloseConn(w) \/ StoreDecrement(w) \/ Rearm(w)
  <2>1. /\ UNCHANGED <<queue, http>>
        /\ worker[w].pc \in {"parse", "drop", "store", "again", "out"}
    BY <1>7 DEF Parse, CloseConn, StoreDecrement, Rearm, At
  <2>2. worker'[w].pc # "io" /\ \A v \in Workers \ {w} : worker'[v] = worker[v]
    <3>1. CASE Parse(w)
      <4>1. PICK outcome \in Outcomes \cup {"again"} :
              worker' = [worker EXCEPT ![w].pc = outcome, ![w].from = Slot(w).req]
        BY <3>1 DEF Parse
      <4>2. outcome # "io"
        BY OutcomesAssumption
      <4> QED
        BY <4>1, <4>2 DEF Thread
    <3>2. CASE CloseConn(w) \/ StoreDecrement(w) \/ Rearm(w)
      <4>1. Goto(w, "out") \/ Goto(w, "clear") \/ Finish(w)
        BY <3>2 DEF CloseConn, StoreDecrement, Rearm
      <4> QED
        BY <4>1 DEF Goto, Finish, Idle, Thread
    <3> QED
      BY <1>7, <3>1, <3>2
  <2> QED
    BY <1>5, <2>1, <2>2
<1> QED
  BY <1>3, <1>4, <1>6, <1>7 DEF Work

LEMMA NextSpin == ASSUME ActorModel = 1 PROVE SpinInv /\ [Next]_vars => SpinInv'
<1>1. SpinInv /\ UNCHANGED vars => SpinInv'
  <2> SUFFICES ASSUME SpinInv, UNCHANGED vars PROVE SpinInv'
    OBVIOUS
  <2>1. TimerInv'
    BY NextTimer DEF SpinInv
  <2>2. UNCHANGED <<pc, spin, queue, worker, http>>
    BY DEF vars, pool, loop
  <2> QED
    BY <2>1, <2>2, HandshakeKept
<1> QED
  BY <1>1, EnvironmentSpin, MainSpin, WorkSpin DEF Next

\* In the reactor, with any number of workers and under any load: the queue has
\* room for every request, the one the main thread spins for is on its way until
\* improv is set, and no improv is left set when the spin is over.
THEOREM HandshakeWorks == ASSUME ActorModel = 1 PROVE Spec => []SpinServed
<1>1. SpinInv => SpinServed
  <2> SUFFICES ASSUME SpinInv PROVE SpinServed
    OBVIOUS
  <2>1. CASE queue = <<>>
    BY <2>1 DEF SpinInv, Handshake, SpinServed, Cleared
  <2>2. CASE pc = "spin" /\ queue = <<spin>>
    <3>1. Len(queue) = 1 /\ queue[1] = spin /\ 1 \in 1..Len(queue)
      BY <2>2
    <3> QED
      BY <2>2, <3>1 DEF SpinServed
  <2> QED
    BY <2>1, <2>2 DEF SpinInv, Handshake
<1> QED
  BY <1>1, InitSpin, NextSpin, PTL DEF Spec

============================================================================
