-------------------------- MODULE WebServerProofs --------------------------
(***************************************************************************)
(* WebServer for every number of clients, descriptors and workers, both    *)
(* actor models and all trigger modes, under any load: its types, that the *)
(* timer pointer the main thread follows is always good, that SIGALRM      *)
(* never stops coming, and that the request queue is used as a TaskQueue.  *)
(***************************************************************************)
EXTENDS WebServer, TLAPS

USE NoneAssumption, TimeoutAssumption, MaxRequestsAssumption, OutcomesAssumption

\* A worker that is not idle has a descriptor in hand.
Busy == \A w \in Workers : worker[w].pc # "idle" => worker[w].task \in Fds

Typed == TypeOK /\ Busy

----------------------------------------------------------------------------
(* Types: first the operators the actions are built from. *)

LEMMA EndpointFields ==
    \A e \in Endpoint :
       /\ \A b \in BOOLEAN : [e EXCEPT !.data = b] \in Endpoint /\ [e EXCEPT !.eof = b] \in Endpoint
       /\ \A s \in {"new", "backlog", "open", "closed"} : [e EXCEPT !.st = s] \in Endpoint
  BY DEF Endpoint

LEMMA HttpConnFlags ==
    \A s \in HttpConn, i \in {0, 1} :
       /\ [s EXCEPT !.io = i] \in HttpConn
       /\ [s EXCEPT !.improv = i] \in HttpConn
       /\ [s EXCEPT !.improv = i, !.tflag = i] \in HttpConn
  BY DEF HttpConn

LEMMA CloseFdType ==
    ASSUME TypeOK, NEW f, CloseFd(f)
    PROVE  /\ owner' \in [Fds -> ClientOrNone]
           /\ armed' \in [Fds -> {"none", "off", "in", "out"}]
           /\ net' \in [Clients -> Endpoint]
           /\ edge' \in BOOLEAN
  BY DEF TypeOK, CloseFd, ClientOrNone, Endpoint

LEMMA ModFdType ==
    ASSUME TypeOK, NEW fd, NEW interest \in {"in", "out"}, ModFd(fd, interest)
    PROVE  armed' \in [Fds -> {"none", "off", "in", "out"}]
  BY DEF TypeOK, ModFd

LEMMA CbFuncType ==
    ASSUME TypeOK, NEW f, CbFunc(f)
    PROVE  userCount' \in Int /\ mreg' \in Int \cup {None}
  BY DEF TypeOK, CbFunc

LEMMA FreeNodeType ==
    ASSUME TypeOK, NEW c, FreeNode(c)
    PROVE  ttl' \in [Clients -> -1..Timeout]
<1>1. ttl \in [Clients -> -1..Timeout] /\ ttl' = [ttl EXCEPT ![c] = -1]
  BY DEF TypeOK, FreeNode
<1>2. -1 \in -1..Timeout
  OBVIOUS
<1> QED
  BY <1>1, <1>2

LEMMA DealTimerType ==
    ASSUME TypeOK, NEW f, DealTimer(f)
    PROVE  /\ owner' \in [Fds -> ClientOrNone]
           /\ armed' \in [Fds -> {"none", "off", "in", "out"}]
           /\ net' \in [Clients -> Endpoint]
           /\ edge' \in BOOLEAN
           /\ userCount' \in Int /\ mreg' \in Int \cup {None}
           /\ timer' \in [Fds -> ClientOrNone]
           /\ ttl' \in [Clients -> -1..Timeout]
           /\ udata' \in [Clients -> FdOrNone]
<1>1. CbFunc(f) /\ FreeNode(timer[f]) /\ timer' = timer /\ udata' = udata
  BY DEF DealTimer
<1>2. CloseFd(f)
  BY <1>1 DEF CbFunc
<1> QED
  BY <1>1, <1>2, CloseFdType, CbFuncType, FreeNodeType DEF TypeOK

LEMMA AdjustTimerType ==
    ASSUME TypeOK, NEW f \in Fds, AdjustTimer(f)
    PROVE  /\ timer' \in [Fds -> ClientOrNone]
           /\ ttl' \in [Clients -> -1..Timeout]
           /\ udata' \in [Clients -> FdOrNone]
<1>1. Timeout \in -1..Timeout /\ ttl \in [Clients -> -1..Timeout]
  BY DEF TypeOK
<1>2. ttl' \in [Clients -> -1..Timeout]
  BY <1>1 DEF AdjustTimer
<1> QED
  BY <1>2 DEF AdjustTimer, TypeOK

LEMMA EnqueueType ==
    ASSUME TypeOK, NEW f \in Fds, Enqueue(f)
    PROVE  queue' \in Seq(Fds) /\ Len(queue') <= MaxRequests
<1>1. CASE HasRoom
  <2>1. queue' = Append(queue, f) /\ Len(queue) < MaxRequests
    BY <1>1 DEF Enqueue, HasRoom
  <2>2. queue' \in Seq(Fds) /\ Len(queue') = Len(queue) + 1
    BY <2>1 DEF TypeOK
  <2> QED
    BY <2>1, <2>2 DEF TypeOK
<1>2. CASE ~HasRoom
  BY <1>2 DEF Enqueue, TypeOK
<1> QED
  BY <1>1, <1>2

LEMMA SlotTypes ==
    ASSUME TypeOK, NEW f \in Fds
    PROVE  /\ http[f] \in HttpConn
           /\ Reset(f) \in HttpConn
           /\ FreshSlot(f) \in HttpConn
           /\ \A c \in ClientOrNone : [http[f] EXCEPT !.reply = c] \in HttpConn
           /\ \A s \in HttpConn, i \in {0, 1} : [s EXCEPT !.improv = i] \in HttpConn
<1>1. http[f] \in HttpConn
  BY DEF TypeOK
<1>2. FreshSlot(f) \in HttpConn
  BY DEF FreshSlot, HttpConn, FdOrNone, ClientOrNone
<1>3. http[f].sockfd \in FdOrNone
  BY <1>1 DEF HttpConn
<1>4. Reset(f) \in HttpConn
  BY <1>3 DEF Reset, FreshSlot, HttpConn, FdOrNone, ClientOrNone
<1>5. \A c \in ClientOrNone : [http[f] EXCEPT !.reply = c] \in HttpConn
  BY <1>1 DEF HttpConn
<1>6. \A s \in HttpConn, i \in {0, 1} : [s EXCEPT !.improv = i] \in HttpConn
  BY DEF HttpConn
<1> QED
  BY <1>1, <1>2, <1>4, <1>5, <1>6

LEMMA PeerType ==
    ASSUME TypeOK, NEW f \in Fds
    PROVE  Peer(f) \in ClientOrNone
<1>1. http[f] \in HttpConn
  BY SlotTypes
<1>2. http[f].sockfd \in FdOrNone
  BY <1>1 DEF HttpConn
<1> QED
  BY <1>2 DEF Peer, TypeOK, FdOrNone, ClientOrNone

LEMMA ReadIntoType ==
    ASSUME TypeOK, NEW f \in Fds, NEW slot \in HttpConn, CanRead(f), ReadInto(f, slot)
    PROVE  http' \in [Fds -> HttpConn] /\ net' \in [Clients -> Endpoint]
<1>1. Peer(f) \in Clients
  BY PeerType DEF CanRead, ClientOrNone
<1>2. [slot EXCEPT !.req = IF net[Peer(f)].data THEN Peer(f) ELSE slot.req] \in HttpConn
  BY <1>1 DEF HttpConn, ClientOrNone
<1>3. http' \in [Fds -> HttpConn]
  BY <1>2 DEF ReadInto, TypeOK
<1>4. PICK left \in BOOLEAN : net' = [net EXCEPT ![Peer(f)].data = left]
  BY DEF ReadInto
<1>5. [net[Peer(f)] EXCEPT !.data = left] \in Endpoint
  BY <1>1, EndpointFields DEF TypeOK
<1>6. net' \in [Clients -> Endpoint]
  BY <1>1, <1>4, <1>5 DEF TypeOK
<1> QED
  BY <1>3, <1>6

LEMMA WriteTypes ==
    ASSUME TypeOK, NEW f \in Fds, NEW result \in WriteResults(f)
    PROVE  /\ SlotAfterWrite(f, result) \in HttpConn
           /\ RearmAfterWrite(f, result)
                => armed' \in [Fds -> {"none", "off", "in", "out"}]
<1>1. SlotAfterWrite(f, result) \in HttpConn
  BY SlotTypes DEF SlotAfterWrite, ClientOrNone
<1>2. ASSUME RearmAfterWrite(f, result)
      PROVE  armed' \in [Fds -> {"none", "off", "in", "out"}]
  BY <1>2, ModFdType DEF RearmAfterWrite, TypeOK
<1> QED
  BY <1>1, <1>2

LEMMA HandlingType ==
    ASSUME TypeOK, NEW fd, NEW kinds, NEW next, Handling(fd, kinds, next)
    PROVE  events' \subseteq [fd : FdOrNone, kind : {"listen", "signal", "hup", "in", "out"}]
  BY DEF TypeOK, Handling

----------------------------------------------------------------------------
(* Types of the whole state. *)

LEMMA InitTyped == Init => Typed
<1> SUFFICES ASSUME Init PROVE Typed
  OBVIOUS
<1>1. FreshSlot(None) \in HttpConn
  BY DEF FreshSlot, HttpConn, FdOrNone, ClientOrNone
<1>2. Idle \in Thread /\ Idle.pc = "idle"
  BY DEF Idle, Thread, FdOrNone, ClientOrNone
<1>3. -1 \in -1..Timeout
  OBVIOUS
<1>4. [st |-> "new", data |-> FALSE, eof |-> FALSE] \in Endpoint
  BY DEF Endpoint
<1>5. worker \in [Workers -> Thread] /\ Busy
  BY <1>2 DEF Init, Busy
<1>6. http \in [Fds -> HttpConn] /\ net \in [Clients -> Endpoint]
  BY <1>1, <1>4 DEF Init
<1>7. ttl \in [Clients -> -1..Timeout]
  BY <1>3 DEF Init
<1>8. queue \in Seq(Fds) /\ Len(queue) <= MaxRequests
  BY DEF Init
<1>9. /\ owner \in [Fds -> ClientOrNone] /\ timer \in [Fds -> ClientOrNone]
      /\ udata \in [Clients -> FdOrNone] /\ armed \in [Fds -> {"none", "off", "in", "out"}]
  BY DEF Init, FdOrNone, ClientOrNone
<1>10. /\ events \subseteq [fd : FdOrNone, kind : {"listen", "signal", "hup", "in", "out"}]
       /\ spin \in FdOrNone /\ pipe \subseteq {"ALRM", "TERM"}
  BY DEF Init, FdOrNone
<1>11. userCount \in Int /\ mreg \in Int \cup {None}
  BY DEF Init
<1>12. /\ edge \in BOOLEAN /\ timeout \in BOOLEAN /\ stop \in BOOLEAN /\ alarm \in BOOLEAN
       /\ pc \in {"wait", "batch", "accept", "spin", "tick", "stopped"}
  BY DEF Init
<1> QED
  BY <1>5, <1>6, <1>7, <1>8, <1>9, <1>10, <1>11, <1>12 DEF Typed, TypeOK

\* The steps of the environment change neither worker nor anything else by
\* more than a field.
LEMMA EnvironmentTyped == Typed /\ Environment => Typed'
<1> SUFFICES ASSUME Typed, Environment PROVE Typed'
  OBVIOUS
<1> USE DEF Typed, kernel, timers, count, pool, flags, clock, loop
<1>1. ASSUME NEW c \in Clients, Connect(c) \/ Send(c) \/ Hangup(c) PROVE Typed'
  <2>1. net[c] \in Endpoint
    BY DEF TypeOK
  <2>2. /\ [net[c] EXCEPT !.st = "backlog"] \in Endpoint
        /\ [net[c] EXCEPT !.data = TRUE] \in Endpoint
        /\ [net[c] EXCEPT !.eof = TRUE] \in Endpoint
    BY <2>1, EndpointFields
  <2>3. PICK e \in Endpoint : net' = [net EXCEPT ![c] = e]
    BY <1>1, <2>2 DEF Connect, Send, Hangup
  <2>4. net' \in [Clients -> Endpoint]
    BY <2>3 DEF TypeOK
  <2>5. edge' \in BOOLEAN
    BY <1>1 DEF Connect, Send, Hangup, TypeOK
  <2> QED
    BY <1>1, <2>4, <2>5 DEF Connect, Send, Hangup, TypeOK, Busy
<1>2. CASE Terminate
  BY <1>2 DEF Terminate, TypeOK, Busy
<1>3. CASE Elapse
  <2>1. ttl \in [Clients -> -1..Timeout]
    BY DEF TypeOK
  <2>2. ttl' \in [Clients -> -1..Timeout]
    BY <1>3, <2>1 DEF Elapse
  <2> QED
    BY <1>3, <2>2 DEF Elapse, TypeOK, Busy
<1> QED
  BY <1>1, <1>2, <1>3 DEF Environment

LEMMA MainTyped == Typed /\ Main => Typed'
<1> SUFFICES ASSUME Typed, Main PROVE Typed'
  OBVIOUS
<1> USE DEF Typed, kernel, timers, count, pool, flags, clock, loop
<1>1. CASE EpollWait
  <2>1. events' \subseteq [fd : FdOrNone, kind : {"listen", "signal", "hup", "in", "out"}]
    <3>1. PICK writable \in SUBSET {f \in Fds : armed[f] = "out"} :
            events' = {Event(f, ConnKind(f)) : f \in writable \cup {g \in Fds : Ready(g)}}
                        \cup {e \in {Event(None, "listen")} : ListenReady}
                        \cup {e \in {Event(None, "signal")} : pipe # {}}
      BY <1>1 DEF EpollWait
    <3>2. ASSUME NEW f \in Fds, armed[f] \in {"in", "out"}
          PROVE  Event(f, ConnKind(f))
                   \in [fd : FdOrNone, kind : {"listen", "signal", "hup", "in", "out"}]
      BY <3>2 DEF Event, ConnKind, FdOrNone
    <3> QED
      BY <3>1, <3>2 DEF Ready, Event, FdOrNone
  <2>2. armed' \in [Fds -> {"none", "off", "in", "out"}]
    BY <1>1 DEF EpollWait, OneShot, TypeOK
  <2> QED
    BY <1>1, <2>1, <2>2 DEF EpollWait, TypeOK, Busy
<1>2. CASE EndBatch
  BY <1>2 DEF EndBatch, TypeOK, Busy
<1>3. CASE DealClient
  BY <1>3, HandlingType DEF DealClient, Handling, TypeOK, Busy
<1>4. CASE AcceptFails
  BY <1>4 DEF AcceptFails, TypeOK, Busy
<1>5. CASE AcceptBusy
  <2>1. PICK c \in Backlog : net' = [net EXCEPT ![c].st = "closed"]
    BY <1>5 DEF AcceptBusy
  <2>2. c \in Clients /\ [net[c] EXCEPT !.st = "closed"] \in Endpoint
    BY EndpointFields DEF TypeOK, Backlog
  <2>3. net' \in [Clients -> Endpoint]
    BY <2>1, <2>2 DEF TypeOK
  <2> QED
    BY <1>5, <2>3 DEF AcceptBusy, TypeOK, Busy
<1>6. CASE AcceptInit
  <2>1. PICK c \in Backlog, f \in FreeFds : InitTimer(f, c)
    BY <1>6 DEF AcceptInit
  <2>2. c \in Clients /\ f \in Fds
    BY DEF Backlog, FreeFds
  <2>3. [net[c] EXCEPT !.st = "open"] \in Endpoint /\ FreshSlot(f) \in HttpConn
    BY <2>2, SlotTypes, EndpointFields DEF TypeOK
  <2>4. /\ owner' \in [Fds -> ClientOrNone]
        /\ armed' \in [Fds -> {"none", "off", "in", "out"}]
        /\ net' \in [Clients -> Endpoint]
        /\ http' \in [Fds -> HttpConn]
    BY <2>1, <2>2, <2>3 DEF InitTimer, InitSlot, TypeOK, ClientOrNone
  <2>5. mreg' \in Int
    BY <2>1 DEF InitTimer, TypeOK
  <2>6. /\ timer' \in [Fds -> ClientOrNone]
        /\ ttl' \in [Clients -> -1..Timeout]
        /\ udata' \in [Clients -> FdOrNone]
    <3>1. Timeout \in -1..Timeout
      OBVIOUS
    <3> QED
      BY <2>1, <2>2, <3>1 DEF InitTimer, BindTimer, TypeOK, ClientOrNone, FdOrNone
  <2> QED
    BY <1>6, <2>4, <2>5, <2>6 DEF AcceptInit, TypeOK, Busy
<1>7. CASE DealSignal
  BY <1>7, HandlingType DEF DealSignal, Handling, TypeOK, Busy
<1>8. CASE SpinDone
  <2>1. http' \in [Fds -> HttpConn]
    <3>1. \A f \in Fds : [http[f] EXCEPT !.improv = 0, !.tflag = 0] \in HttpConn
      BY HttpConnFlags DEF TypeOK
    <3> QED
      BY <1>8, <3>1 DEF SpinDone, ClearFlags, TypeOK
  <2>2. CASE http[spin].tflag = 1
    BY <1>8, <2>1, <2>2, DealTimerType DEF SpinDone, TypeOK, Busy, FdOrNone
  <2>3. CASE http[spin].tflag # 1
    BY <1>8, <2>1, <2>3 DEF SpinDone, TypeOK, Busy, FdOrNone
  <2> QED
    BY <2>2, <2>3
<1>9. CASE TickEnd
  BY <1>9 DEF TickEnd, SetAlarm, TypeOK, Busy
<1>10. ASSUME NEW f \in Fds, DealHangup(f) PROVE Typed'
  BY <1>10, DealTimerType, HandlingType DEF DealHangup, Handling, TypeOK, Busy
<1>11. ASSUME NEW f \in Fds, ProactorRead(f) PROVE Typed'
  <2>1. events' \subseteq [fd : FdOrNone, kind : {"listen", "signal", "hup", "in", "out"}]
    BY <1>11, HandlingType DEF ProactorRead
  <2>2. CASE /\ CanRead(f) /\ ReadInto(f, http[f]) /\ Enqueue(f) /\ AdjustTimer(f)
             /\ UNCHANGED <<owner, armed, edge, mreg, userCount>>
    <3>1. http' \in [Fds -> HttpConn] /\ net' \in [Clients -> Endpoint]
      BY <2>2, SlotTypes, ReadIntoType
    <3> QED
      BY <1>11, <2>1, <2>2, <3>1, EnqueueType, AdjustTimerType
      DEF ProactorRead, Handling, TypeOK, Busy
  <2>3. CASE CannotRead(f) /\ DealTimer(f) /\ UNCHANGED <<http, queue>>
    BY <1>11, <2>1, <2>3, DealTimerType DEF ProactorRead, Handling, TypeOK, Busy
  <2> QED
    BY <1>11, <2>2, <2>3 DEF ProactorRead
<1>12. ASSUME NEW f \in Fds, ProactorWrite(f) PROVE Typed'
  <2>1. events' \subseteq [fd : FdOrNone, kind : {"listen", "signal", "hup", "in", "out"}]
    BY <1>12, HandlingType DEF ProactorWrite
  <2>2. PICK result \in WriteResults(f) :
          /\ http' = [http EXCEPT ![f] = SlotAfterWrite(f, result)]
          /\ IF result \in WriteFails
             THEN DealTimer(f)
             ELSE /\ RearmAfterWrite(f, result)
                  /\ AdjustTimer(f)
                  /\ UNCHANGED <<owner, net, edge, count>>
    BY <1>12 DEF ProactorWrite
  <2>3. http' \in [Fds -> HttpConn]
    BY <2>2, WriteTypes DEF TypeOK
  <2>4. CASE result \in WriteFails
    BY <1>12, <2>1, <2>2, <2>3, <2>4, DealTimerType DEF ProactorWrite, Handling, TypeOK, Busy
  <2>5. CASE result \notin WriteFails
    BY <1>12, <2>1, <2>2, <2>3, <2>5, WriteTypes, AdjustTimerType
    DEF ProactorWrite, Handling, TypeOK, Busy
  <2> QED
    BY <2>4, <2>5
<1>13. ASSUME NEW f \in Fds, NEW kind, NEW io \in {0, 1}, ReactorEvent(f, kind, io)
       PROVE  Typed'
  <2>1. [http[f] EXCEPT !.io = io] \in HttpConn
    BY HttpConnFlags DEF TypeOK
  <2>2. http' \in [Fds -> HttpConn]
    BY <1>13, <2>1 DEF ReactorEvent, TypeOK
  <2> QED
    BY <1>13, <2>2, EnqueueType, AdjustTimerType, HandlingType
    DEF ReactorEvent, Handling, TypeOK, Busy, FdOrNone
<1>14. ASSUME NEW c \in Clients, TickOne(c) PROVE Typed'
  <2>1. CloseFd(udata[c])
    BY <1>14 DEF TickOne, CbFunc
  <2> QED
    BY <1>14, <2>1, CloseFdType, CbFuncType, FreeNodeType DEF TickOne, TypeOK, Busy
<1>15. CASE StoreCount
  BY <1>15 DEF StoreCount, TypeOK, Busy
<1> QED
  BY <1>1, <1>2, <1>3, <1>4, <1>5, <1>6, <1>7, <1>8, <1>9, <1>10, <1>11, <1>12, <1>13, <1>14,
     <1>15
  DEF Main, MainStep

LEMMA WorkTyped == ASSUME NEW w \in Workers PROVE Typed /\ Work(w) => Typed'
<1> SUFFICES ASSUME Typed, Work(w) PROVE Typed'
  OBVIOUS
<1> USE DEF Typed, kernel, timers, count, flags, clock, loop
<1> DEFINE f == worker[w].task
<1>0. /\ worker[w] \in Thread
      /\ ~At(w, "idle") => f \in Fds /\ http[f] \in HttpConn /\ Slot(w) = http[f]
  BY SlotTypes DEF TypeOK, Busy, At, Slot
<1>1. ASSUME NEW p \in {"io", "flag", "parse", "again", "reply", "drop", "clear", "store", "out"},
             Goto(w, p), ~At(w, "idle")
      PROVE  worker' \in [Workers -> Thread] /\ Busy'
  <2>1. [worker[w] EXCEPT !.pc = p] \in Thread
    BY <1>0 DEF Thread
  <2> QED
    BY <1>0, <1>1, <2>1 DEF Goto, TypeOK, Busy
<1>2. ASSUME Finish(w) PROVE worker' \in [Workers -> Thread] /\ Busy'
  <2>1. Idle \in Thread /\ Idle.pc = "idle"
    BY DEF Idle, Thread, FdOrNone, ClientOrNone
  <2> QED
    BY <1>2, <2>1 DEF Finish, TypeOK, Busy
<1>3. CASE Take(w)
  <2>1. /\ Head(queue) \in Fds /\ Tail(queue) \in Seq(Fds)
        /\ Len(Tail(queue)) <= MaxRequests
    BY <1>3 DEF Take, TypeOK
  <2>2. PICK p \in {"io", "parse"} :
          worker' = [worker EXCEPT ![w].task = Head(queue), ![w].pc = p]
    BY <1>3 DEF Take
  <2>3. [worker[w] EXCEPT !.task = Head(queue), !.pc = p] \in Thread
    BY <1>0, <2>1 DEF Thread, FdOrNone
  <2>4. worker' \in [Workers -> Thread]
    BY <2>2, <2>3 DEF TypeOK
  <2>5. Busy'
    BY <1>0, <2>1, <2>2 DEF Busy, TypeOK, Thread
  <2> QED
    BY <1>3, <2>1, <2>4, <2>5 DEF Take, TypeOK
<1>4. CASE IoRead(w)
  <2>1. ~At(w, "idle")
    BY <1>4 DEF IoRead, At
  <2>2. [http[f] EXCEPT !.improv = 1] \in HttpConn
    BY <1>0, <2>1, SlotTypes
  <2>3. CASE CanRead(f) /\ ReadInto(f, [http[f] EXCEPT !.improv = 1]) /\ Goto(w, "parse")
    <3>1. http' \in [Fds -> HttpConn] /\ net' \in [Clients -> Endpoint]
      BY <1>0, <2>1, <2>2, <2>3, ReadIntoType
    <3> QED
      BY <1>1, <1>4, <2>1, <2>3, <3>1 DEF IoRead, TypeOK
  <2>4. CASE http' = [http EXCEPT ![f].improv = 1] /\ Goto(w, "flag") /\ UNCHANGED net
    <3>1. http' \in [Fds -> HttpConn]
      BY <2>2, <2>4 DEF TypeOK
    <3> QED
      BY <1>1, <1>4, <2>1, <2>4, <3>1 DEF IoRead, TypeOK
  <2> QED
    BY <1>4, <2>3, <2>4 DEF IoRead
<1>5. CASE IoWrite(w)
  <2>1. ~At(w, "idle")
    BY <1>5 DEF IoWrite, At
  <2>2. PICK result \in WriteResults(f) :
          /\ http' = [http EXCEPT ![f] = [SlotAfterWrite(f, result) EXCEPT !.improv = 1]]
          /\ RearmAfterWrite(f, result)
          /\ IF result \in WriteFails THEN Goto(w, "flag") ELSE Finish(w)
    BY <1>5 DEF IoWrite
  <2>3. http' \in [Fds -> HttpConn]
    BY <1>0, <2>1, <2>2, WriteTypes, SlotTypes DEF TypeOK
  <2>4. armed' \in [Fds -> {"none", "off", "in", "out"}]
    BY <1>0, <2>1, <2>2, WriteTypes
  <2>5. worker' \in [Workers -> Thread] /\ Busy'
    BY <1>1, <1>2, <2>1, <2>2
  <2> QED
    BY <1>5, <2>3, <2>4, <2>5 DEF IoWrite, TypeOK
<1>6. CASE SetTimerFlag(w)
  <2>1. ~At(w, "idle")
    BY <1>6 DEF SetTimerFlag, At
  <2>2. [http[f] EXCEPT !.tflag = 1] \in HttpConn
    BY <1>0, <2>1 DEF HttpConn
  <2> QED
    BY <1>2, <1>6, <2>2 DEF SetTimerFlag, TypeOK
<1>7. CASE Parse(w)
  <2>1. ~At(w, "idle")
    BY <1>7 DEF Parse, At
  <2>2. PICK outcome \in {"again", "reply", "drop"} :
          worker' = [worker EXCEPT ![w].pc = outcome, ![w].from = Slot(w).req]
    BY <1>7 DEF Parse
  <2>3. Slot(w).req \in ClientOrNone
    BY <1>0, <2>1 DEF HttpConn
  <2>4. [worker[w] EXCEPT !.pc = outcome, !.from = Slot(w).req] \in Thread
    BY <1>0, <2>3 DEF Thread
  <2>5. worker' \in [Workers -> Thread] /\ Busy'
    BY <1>0, <2>1, <2>2, <2>4 DEF TypeOK, Busy
  <2> QED
    BY <1>7, <2>5 DEF Parse, TypeOK
<1>8. CASE FillReply(w)
  <2>1. ~At(w, "idle")
    BY <1>8 DEF FillReply, At
  <2>2. worker[w].from \in ClientOrNone
    BY <1>0 DEF Thread
  <2>3. [http[f] EXCEPT !.reply = worker[w].from] \in HttpConn
    BY <1>0, <2>1, <2>2, SlotTypes
  <2> QED
    BY <1>1, <1>8, <2>1, <2>3 DEF FillReply, TypeOK
<1>9. CASE CloseConn(w)
  <2>1. ~At(w, "idle")
    BY <1>9 DEF CloseConn, At
  <2>2. CASE Goto(w, "out") /\ UNCHANGED kernel
    BY <1>1, <1>9, <2>1, <2>2 DEF CloseConn, TypeOK
  <2>3. CASE Goto(w, "clear") /\ CloseFd(Slot(w).sockfd)
    BY <1>1, <1>9, <2>1, <2>3, CloseFdType DEF CloseConn, TypeOK
  <2> QED
    BY <1>9, <2>2, <2>3 DEF CloseConn
<1>10. CASE ClearSockfd(w)
  <2>1. ~At(w, "idle")
    BY <1>10 DEF ClearSockfd, At
  <2>2. [http[f] EXCEPT !.sockfd = None] \in HttpConn
    BY <1>0, <2>1 DEF HttpConn, FdOrNone
  <2>3. userCount - 1 \in Int
    BY DEF TypeOK
  <2>4. [worker[w] EXCEPT !.pc = "store", !.count = userCount - 1] \in Thread
    BY <1>0, <2>3 DEF Thread
  <2>5. worker' \in [Workers -> Thread] /\ Busy'
    BY <1>0, <1>10, <2>1, <2>4 DEF ClearSockfd, TypeOK, Busy
  <2> QED
    BY <1>10, <2>2, <2>5 DEF ClearSockfd, TypeOK
<1>11. CASE StoreDecrement(w)
  <2>1. ~At(w, "idle") /\ worker[w].count \in Int
    BY <1>0, <1>11 DEF StoreDecrement, At, Thread
  <2> QED
    BY <1>1, <1>11, <2>1 DEF StoreDecrement, TypeOK
<1>12. CASE Rearm(w)
  <2>1. armed' \in [Fds -> {"none", "off", "in", "out"}]
    BY <1>12, ModFdType DEF Rearm
  <2> QED
    BY <1>2, <1>12, <2>1 DEF Rearm, TypeOK
<1> QED
  BY <1>3, <1>4, <1>5, <1>6, <1>7, <1>8, <1>9, <1>10, <1>11, <1>12 DEF Work

LEMMA NextTyped == Typed /\ [Next]_vars => Typed'
<1>1. Typed /\ UNCHANGED vars => Typed'
  BY DEF Typed, TypeOK, Busy, vars, kernel, timers, count, pool, flags, clock, loop
<1> QED
  BY <1>1, EnvironmentTyped, MainTyped, WorkTyped DEF Next

LEMMA Typing == Spec => []Typed
  BY InitTyped, NextTyped, PTL DEF Spec

\* Every variable keeps its type whatever the load, the actor model and the
\* trigger modes; in particular the request queue keeps within m_max_requests.
THEOREM TypeCorrect == Spec => []TypeOK
  BY Typing, PTL DEF Typed

----------------------------------------------------------------------------
(* The timer pointer.  TimerLive needs to know that a descriptor has one     *)
(* event in a batch, that none is left when the loop waits or ticks, that    *)
(* the loop spins on one descriptor at a time, and that a client that has    *)
(* not been accepted has no node yet.                                        *)

OneEventPerFd ==
    \A d, e \in events : d.fd = e.fd /\ d.fd \in Fds => d = e

LoopShape ==
    /\ pc \in {"wait", "tick", "stopped"} => events = {}
    /\ pc # "spin" => spin = None
    /\ pc = "spin" => spin \in Fds
    /\ \A e \in events : e.fd \in Fds => e.fd # spin

NoEarlyNode ==
    \A c \in Clients : net[c].st \in {"new", "backlog"} => ttl[c] = -1

TimerInv == Typed /\ TimerLive /\ OneEventPerFd /\ LoopShape /\ NoEarlyNode

\* Needs(f): what obliges f to have a timer.
Needs(f) == armed[f] # "none" \/ spin = f \/ \E e \in events : e.fd = f

\* A step that creates no new obligation and takes no node away keeps TimerLive.
LEMMA TimersKept ==
    ASSUME TimerLive,
           \A f \in Fds : Needs(f)' => Needs(f),
           timer' = timer, udata' = udata,
           \A c \in Clients : ttl[c] >= 0 => ttl'[c] >= 0,
           \A f \in Fds : timer[f] # None => timer[f] \in Clients
    PROVE  TimerLive'
  BY DEF TimerLive, HasTimer, Needs

\* deal_timer frees the node of the descriptor it closes, and of no other.
LEMMA TimerDealt ==
    ASSUME TimerInv, NEW f \in Fds, DealTimer(f), HasTimer(f),
           spin' = None \/ spin' = spin, spin' # f,
           \A e \in events' : e \in events /\ e.fd # f
    PROVE  TimerLive'
<1> SUFFICES ASSUME NEW g \in Fds, Needs(g)' PROVE HasTimer(g)'
  BY DEF TimerLive, Needs
<1>1. armed' = [armed EXCEPT ![f] = "none"] /\ timer' = timer /\ udata' = udata
      /\ ttl' = [ttl EXCEPT ![timer[f]] = -1]
  BY DEF DealTimer, CbFunc, CloseFd, FreeNode
<1>2. g # f
  BY <1>1 DEF Needs, TimerInv, Typed, TypeOK
<1>3. Needs(g)
  BY <1>1, <1>2 DEF Needs, TimerInv, Typed, TypeOK
<1>4. HasTimer(g)
  BY <1>3 DEF TimerInv, TimerLive, Needs
<1>5. timer[g] # timer[f] /\ timer[g] \in Clients
  BY <1>2, <1>4 DEF HasTimer, TimerInv, Typed, TypeOK, ClientOrNone
<1> QED
  BY <1>1, <1>4, <1>5 DEF HasTimer, TimerInv, Typed, TypeOK

LEMMA EarlyNodesKept ==
    ASSUME TimerInv,
           \A c \in Clients : net'[c].st \in {"new", "backlog"} =>
                                 net[c].st \in {"new", "backlog"},
           \A c \in Clients : ttl[c] = -1 => ttl'[c] = -1
    PROVE  NoEarlyNode'
  BY DEF TimerInv, NoEarlyNode

\* Closing a descriptor moves clients to "closed" at most.
LEMMA CloseFdKeepsNew ==
    ASSUME TimerInv, NEW f, CloseFd(f)
    PROVE  \A c \in Clients : net'[c].st \in {"new", "backlog"} =>
                                 net[c].st \in {"new", "backlog"}
  BY DEF CloseFd

LEMMA FreeNodeKeepsFree ==
    ASSUME TimerInv, NEW d, FreeNode(d)
    PROVE  \A c \in Clients : ttl[c] = -1 => ttl'[c] = -1
  BY DEF FreeNode, TimerInv, Typed, TypeOK

\* Adjusting the timer of a descriptor that has one keeps the others.
LEMMA AdjustKeeps ==
    ASSUME TimerInv, NEW f \in Fds, HasTimer(f), AdjustTimer(f)
    PROVE  /\ timer' = timer /\ udata' = udata
           /\ \A c \in Clients : ttl[c] >= 0 => ttl'[c] >= 0
           /\ \A c \in Clients : ttl[c] = -1 => ttl'[c] = -1
<1>1. timer[f] \in Clients /\ ttl[timer[f]] >= 0
  BY DEF HasTimer, TimerInv, Typed, TypeOK, ClientOrNone
<1> QED
  BY <1>1 DEF AdjustTimer, HasTimer, TimerInv, Typed, TypeOK

LEMMA PointersTyped ==
    ASSUME TimerInv
    PROVE  \A f \in Fds : timer[f] # None => timer[f] \in Clients
  BY DEF TimerInv, Typed, TypeOK, ClientOrNone

\* Handling takes one event away, and it was the only one of its descriptor.
LEMMA HandlingEvents ==
    ASSUME TimerInv, NEW f \in Fds, NEW kinds, NEW next, Handling(f, kinds, next)
    PROVE  /\ \A e \in events' : e \in events /\ e.fd # f
           /\ OneEventPerFd' /\ HasTimer(f) /\ pc = "batch" /\ spin = None
<1>1. PICK e \in events : e.fd = f /\ events' = events \ {e}
  BY DEF Handling
<1>2. HasTimer(f)
  BY <1>1 DEF TimerInv, TimerLive
<1>3. pc = "batch" /\ spin = None
  BY DEF Handling, TimerInv, LoopShape
<1>4. \A d \in events' : d \in events /\ d.fd # f
  BY <1>1 DEF TimerInv, OneEventPerFd
<1> QED
  BY <1>1, <1>2, <1>3, <1>4 DEF TimerInv, OneEventPerFd

LEMMA InitTimerInv == Init => TimerInv
<1> SUFFICES ASSUME Init PROVE TimerInv
  OBVIOUS
<1>1. Typed
  BY InitTyped
<1>2. TimerLive /\ OneEventPerFd /\ LoopShape /\ NoEarlyNode
  BY DEF Init, TimerLive, OneEventPerFd, LoopShape, NoEarlyNode
<1> QED
  BY <1>1, <1>2 DEF TimerInv

LEMMA EnvironmentTimer == TimerInv /\ Environment => TimerInv'
<1> SUFFICES ASSUME TimerInv, Environment PROVE TimerInv'
  OBVIOUS
<1> USE DEF kernel, timers, count, pool, flags, clock, loop
<1>0. Typed'
  BY EnvironmentTyped DEF TimerInv
<1>1. OneEventPerFd' /\ LoopShape'
  BY DEF Environment, Connect, Send, Hangup, Terminate, Elapse, TimerInv, OneEventPerFd, LoopShape
<1>2. CASE ttl' = ttl
  <2>1. armed' = armed /\ spin' = spin /\ events' = events /\ timer' = timer /\ udata' = udata
    BY DEF Environment, Connect, Send, Hangup, Terminate, Elapse
  <2>2. TimerLive'
    BY <1>2, <2>1 DEF TimerInv, TimerLive, HasTimer
  <2>3. \A c \in Clients : net'[c].st \in {"new", "backlog"} => net[c].st \in {"new", "backlog"}
    <3>1. ASSUME NEW c \in Clients, Connect(c) \/ Send(c) \/ Hangup(c)
          PROVE  \A d \in Clients : net'[d].st \in {"new", "backlog"} => net[d].st \in {"new", "backlog"}
      <4>1. net[c] \in Endpoint /\ net \in [Clients -> Endpoint]
        BY DEF TimerInv, Typed, TypeOK
      <4>2. /\ [net[c] EXCEPT !.data = TRUE].st = net[c].st
            /\ [net[c] EXCEPT !.eof = TRUE].st = net[c].st
        BY <4>1 DEF Endpoint
      <4>3. PICK e : /\ net' = [net EXCEPT ![c] = e]
                     /\ net[c].st = "new" \/ e.st = net[c].st
        BY <3>1, <4>2 DEF Connect, Send, Hangup
      <4> QED
        BY <4>1, <4>3
    <3>2. CASE net' = net
      BY <3>2
    <3> QED
      BY <3>1, <3>2 DEF Environment, Terminate, Elapse
  <2>4. NoEarlyNode'
    BY <1>2, <2>3, EarlyNodesKept
  <2> QED
    BY <1>0, <1>1, <2>2, <2>4 DEF TimerInv
<1>3. CASE Elapse
  <2>1. \A c \in Clients : (ttl[c] >= 0 => ttl'[c] >= 0) /\ (ttl[c] = -1 => ttl'[c] = -1)
    BY <1>3 DEF Elapse, TimerInv, Typed, TypeOK
  <2>2. TimerLive'
    BY <1>3, <2>1, TimersKept, PointersTyped DEF Elapse, TimerInv, Needs
  <2>3. NoEarlyNode'
    BY <1>3, <2>1, EarlyNodesKept DEF Elapse
  <2> QED
    BY <1>0, <1>1, <2>2, <2>3 DEF TimerInv
<1> QED
  BY <1>2, <1>3 DEF Environment, Connect, Send, Hangup, Terminate

LEMMA MainTimer == TimerInv /\ Main => TimerInv'
<1> SUFFICES ASSUME TimerInv, Main PROVE TimerInv'
  OBVIOUS
<1> USE DEF kernel, timers, count, pool, flags, clock, loop
<1>0. Typed'
  BY MainTyped DEF TimerInv
<1>1. CASE EpollWait
  <2>1. PICK writable \in SUBSET {f \in Fds : armed[f] = "out"} :
          /\ events' = {Event(f, ConnKind(f)) : f \in writable \cup {g \in Fds : Ready(g)}}
                         \cup {e \in {Event(None, "listen")} : ListenReady}
                         \cup {e \in {Event(None, "signal")} : pipe # {}}
          /\ OneShot(writable \cup {f \in Fds : Ready(f)})
    BY <1>1 DEF EpollWait
  <2>2. \A e \in events' : e.fd \in Fds => armed[e.fd] # "none" /\ e = Event(e.fd, ConnKind(e.fd))
    BY <2>1 DEF Event, Ready
  <2>3. \A f \in Fds : Needs(f)' => Needs(f)
    BY <1>1, <2>1, <2>2 DEF EpollWait, OneShot, Needs, Ready, TimerInv, Typed, TypeOK
  <2>4. TimerLive'
    BY <1>1, <2>3, TimersKept, PointersTyped DEF EpollWait, TimerInv, Typed, TypeOK
  <2>5. OneEventPerFd'
    BY <2>2 DEF OneEventPerFd
  <2>6. LoopShape'
    BY <1>1 DEF EpollWait, TimerInv, LoopShape
  <2>7. NoEarlyNode'
    BY <1>1 DEF EpollWait, TimerInv, NoEarlyNode
  <2> QED
    BY <1>0, <2>4, <2>5, <2>6, <2>7 DEF TimerInv
<1>2. CASE EndBatch
  BY <1>0, <1>2 DEF EndBatch, TimerInv, TimerLive, HasTimer, OneEventPerFd, LoopShape, NoEarlyNode
<1>3. CASE DealClient \/ DealSignal
  BY <1>0, <1>3 DEF DealClient, DealSignal, Handling, TimerInv, TimerLive, HasTimer, OneEventPerFd,
     LoopShape, NoEarlyNode
<1>4. CASE AcceptFails
  BY <1>0, <1>4 DEF AcceptFails, TimerInv, TimerLive, HasTimer, OneEventPerFd, LoopShape, NoEarlyNode
<1>5. CASE AcceptBusy
  <2>1. \A c \in Clients : net'[c].st \in {"new", "backlog"} => net[c].st \in {"new", "backlog"}
    BY <1>5 DEF AcceptBusy, Backlog, TimerInv, Typed, TypeOK, Endpoint
  <2>2. NoEarlyNode'
    BY <1>5, <2>1, EarlyNodesKept DEF AcceptBusy
  <2> QED
    BY <1>0, <1>5, <2>2 DEF AcceptBusy, TimerInv, TimerLive, HasTimer, OneEventPerFd, LoopShape
<1>6. CASE AcceptInit
  <2>1. PICK c \in Backlog, f \in FreeFds : InitTimer(f, c)
    BY <1>6 DEF AcceptInit
  <2>2. c \in Clients /\ f \in Fds /\ ttl[c] = -1
    BY DEF Backlog, FreeFds, TimerInv, NoEarlyNode
  <2>3. /\ armed' = [armed EXCEPT ![f] = "in"] /\ timer' = [timer EXCEPT ![f] = c]
        /\ ttl' = [ttl EXCEPT ![c] = Timeout] /\ udata' = [udata EXCEPT ![c] = f]
        /\ net' = [net EXCEPT ![c].st = "open"] /\ events' = events /\ spin' = spin
    BY <1>6, <2>1 DEF InitTimer, BindTimer, AcceptInit
  <2>4. ASSUME NEW g \in Fds, Needs(g)' PROVE HasTimer(g)'
    <3>1. CASE g = f
      <4>1. timer'[f] = c /\ ttl'[c] = Timeout /\ udata'[c] = f
        BY <2>2, <2>3 DEF TimerInv, Typed, TypeOK
      <4> QED
        BY <2>2, <3>1, <4>1 DEF HasTimer
    <3>2. CASE g # f
      <4>1. Needs(g)
        BY <2>3, <2>4, <3>2 DEF Needs, TimerInv, Typed, TypeOK
      <4>2. HasTimer(g)
        BY <4>1 DEF Needs, TimerInv, TimerLive
      <4>3. timer[g] \in Clients /\ timer[g] # c
        BY <2>2, <4>2 DEF HasTimer, TimerInv, Typed, TypeOK, ClientOrNone
      <4> QED
        BY <2>2, <2>3, <3>2, <4>2, <4>3 DEF HasTimer, TimerInv, Typed, TypeOK
    <3> QED
      BY <3>1, <3>2
  <2>5. TimerLive'
    BY <2>4 DEF TimerLive, Needs
  <2>6. NoEarlyNode'
    <3>1. ASSUME NEW d \in Clients, net'[d].st \in {"new", "backlog"} PROVE ttl'[d] = -1
      <4>1. d # c
        BY <2>2, <2>3, <3>1 DEF TimerInv, Typed, TypeOK, Endpoint
      <4> QED
        BY <2>2, <2>3, <3>1, <4>1 DEF TimerInv, NoEarlyNode, Typed, TypeOK
    <3> QED
      BY <3>1 DEF NoEarlyNode
  <2>7. OneEventPerFd' /\ LoopShape'
    BY <1>6, <2>3 DEF AcceptInit, TimerInv, OneEventPerFd, LoopShape
  <2> QED
    BY <1>0, <2>5, <2>6, <2>7 DEF TimerInv
<1>7. ASSUME NEW f \in Fds, DealTimer(f), HasTimer(f),
             \A e \in events' : e \in events /\ e.fd # f,
             OneEventPerFd', spin' = None, pc' = "batch"
      PROVE  TimerInv'
  <2>1. TimerLive'
    BY <1>7, TimerDealt
  <2>2. CloseFd(f) /\ FreeNode(timer[f])
    BY <1>7 DEF DealTimer, CbFunc
  <2>3. NoEarlyNode'
    BY <2>2, EarlyNodesKept, CloseFdKeepsNew, FreeNodeKeepsFree
  <2>4. LoopShape'
    BY <1>7 DEF LoopShape
  <2> QED
    BY <1>0, <1>7, <2>1, <2>3, <2>4 DEF TimerInv
<1>8. ASSUME NEW f \in Fds, AdjustTimer(f), HasTimer(f),
             \A e \in events' : e \in events /\ e.fd # f,
             OneEventPerFd', LoopShape', spin' \in {None, f},
             \A g \in Fds : armed'[g] # "none" => armed[g] # "none",
             \A c \in Clients : net'[c].st = net[c].st
      PROVE  TimerInv'
  <2>1. ASSUME NEW g \in Fds, Needs(g)' PROVE HasTimer(g)'
    <3>1. HasTimer(g)
      BY <1>8, <2>1 DEF Needs, TimerInv, TimerLive
    <3> QED
      BY <1>8, <3>1, AdjustKeeps, PointersTyped DEF HasTimer
  <2>2. TimerLive'
    BY <2>1 DEF TimerLive, Needs
  <2>3. NoEarlyNode'
    BY <1>8, EarlyNodesKept, AdjustKeeps
  <2> QED
    BY <1>0, <1>8, <2>2, <2>3 DEF TimerInv
<1>9. CASE SpinDone
  <2>1. (spin \in Fds /\ HasTimer(spin)) \/ spin = None
    BY DEF TimerInv, TimerLive, Typed, TypeOK, FdOrNone
  <2>2. CASE http[spin].tflag = 1 /\ spin \in Fds
    <3>1. DealTimer(spin) /\ spin' = None /\ pc' = "batch" /\ events' = events
      BY <1>9, <2>2 DEF SpinDone
    <3>2. \A e \in events' : e \in events /\ e.fd # spin
      BY <2>2, <3>1 DEF TimerInv, LoopShape
    <3>3. OneEventPerFd'
      BY <3>1 DEF TimerInv, OneEventPerFd
    <3> QED
      BY <1>7, <2>1, <2>2, <3>1, <3>2, <3>3
  <2>3. CASE http[spin].tflag # 1
    BY <1>0, <1>9, <2>3 DEF SpinDone, TimerInv, TimerLive, HasTimer, OneEventPerFd, LoopShape,
       NoEarlyNode
  <2> QED
    BY <1>9, <2>2, <2>3 DEF SpinDone, TimerInv, LoopShape
<1>10. CASE TickEnd
  BY <1>0, <1>10 DEF TickEnd, TimerInv, TimerLive, HasTimer, OneEventPerFd, LoopShape, NoEarlyNode
<1>11. ASSUME NEW f \in Fds, DealHangup(f) PROVE TimerInv'
  <2>1. Handling(f, {"hup"}, "batch") /\ DealTimer(f) /\ spin' = spin
    BY <1>11 DEF DealHangup
  <2>2. pc' = "batch"
    BY <2>1 DEF Handling
  <2> QED
    BY <1>7, <2>1, <2>2, HandlingEvents
<1>12. ASSUME NEW f \in Fds, ProactorRead(f) PROVE TimerInv'
  <2>1. Handling(f, {"in"}, "batch") /\ spin' = spin
    BY <1>12 DEF ProactorRead
  <2>2. pc' = "batch"
    BY <2>1 DEF Handling
  <2>3. CASE CanRead(f) /\ ReadInto(f, http[f]) /\ AdjustTimer(f) /\ UNCHANGED armed
    <3>1. \A c \in Clients : net'[c].st = net[c].st
      BY <2>3 DEF ReadInto, TimerInv, Typed, TypeOK, Endpoint
    <3>2. LoopShape'
      BY <2>1, <2>2, HandlingEvents DEF LoopShape
    <3> QED
      BY <1>8, <2>1, <2>3, <3>1, <3>2, HandlingEvents
  <2>4. CASE DealTimer(f)
    BY <1>7, <2>1, <2>2, <2>4, HandlingEvents
  <2> QED
    BY <1>12, <2>3, <2>4 DEF ProactorRead
<1>13. ASSUME NEW f \in Fds, ProactorWrite(f) PROVE TimerInv'
  <2>1. Handling(f, {"out"}, "batch") /\ spin' = spin
    BY <1>13 DEF ProactorWrite
  <2>2. pc' = "batch"
    BY <2>1 DEF Handling
  <2>3. PICK result \in WriteResults(f) :
          IF result \in WriteFails
          THEN DealTimer(f)
          ELSE RearmAfterWrite(f, result) /\ AdjustTimer(f) /\ UNCHANGED net
    BY <1>13 DEF ProactorWrite
  <2>4. CASE DealTimer(f)
    BY <1>7, <2>1, <2>2, <2>4, HandlingEvents
  <2>5. CASE RearmAfterWrite(f, result) /\ AdjustTimer(f) /\ UNCHANGED net
    <3>1. \A g \in Fds : armed'[g] # "none" => armed[g] # "none"
      BY <2>5 DEF RearmAfterWrite, ModFd
    <3>2. LoopShape'
      BY <2>1, <2>2, HandlingEvents DEF LoopShape
    <3> QED
      BY <1>8, <2>1, <2>5, <3>1, <3>2, HandlingEvents
  <2> QED
    BY <2>3, <2>4, <2>5
<1>14. ASSUME NEW f \in Fds, NEW kind, NEW io, ReactorEvent(f, kind, io) PROVE TimerInv'
  <2>1. Handling(f, {kind}, "spin") /\ spin' = f /\ AdjustTimer(f) /\ UNCHANGED <<armed, net>>
    BY <1>14 DEF ReactorEvent
  <2>2. pc' = "spin"
    BY <2>1 DEF Handling
  <2>3. LoopShape'
    BY <2>1, <2>2, HandlingEvents DEF LoopShape
  <2> QED
    BY <1>8, <2>1, <2>3, HandlingEvents
<1>15. ASSUME NEW c \in Clients, TickOne(c) PROVE TimerInv'
  <2>1. CloseFd(udata[c]) /\ FreeNode(c) /\ pc = "tick" /\ UNCHANGED <<timer, udata, loop>>
    BY <1>15 DEF TickOne, CbFunc
  <2>2. events = {} /\ spin = None
    BY <2>1 DEF TimerInv, LoopShape
  <2>3. ASSUME NEW g \in Fds, Needs(g)' PROVE HasTimer(g)'
    <3>1. armed'[g] # "none"
      BY <2>1, <2>2, <2>3 DEF Needs
    <3>2. armed[g] # "none" /\ g # udata[c]
      BY <2>1, <3>1 DEF CloseFd, TimerInv, Typed, TypeOK
    <3>3. HasTimer(g)
      BY <3>2 DEF TimerInv, TimerLive
    <3>4. timer[g] # c /\ timer[g] \in Clients
      BY <3>2, <3>3 DEF HasTimer, TimerInv, Typed, TypeOK, ClientOrNone
    <3> QED
      BY <2>1, <3>3, <3>4 DEF HasTimer, FreeNode, TimerInv, Typed, TypeOK
  <2>4. TimerLive'
    BY <2>3 DEF TimerLive, Needs
  <2>5. NoEarlyNode'
    BY <2>1, EarlyNodesKept, CloseFdKeepsNew, FreeNodeKeepsFree
  <2>6. OneEventPerFd' /\ LoopShape'
    BY <2>1 DEF TimerInv, OneEventPerFd, LoopShape
  <2> QED
    BY <1>0, <2>4, <2>5, <2>6 DEF TimerInv
<1>16. CASE StoreCount
  BY <1>0, <1>16 DEF StoreCount, TimerInv, TimerLive, HasTimer, OneEventPerFd, LoopShape, NoEarlyNode
<1> QED
  BY <1>1, <1>2, <1>3, <1>4, <1>5, <1>6, <1>9, <1>10, <1>11, <1>12, <1>13, <1>14, <1>15, <1>16
  DEF Main, MainStep

\* A worker re-arms only what is registered, and closing takes obligations away.
LEMMA WorkTimer == ASSUME NEW w \in Workers PROVE TimerInv /\ Work(w) => TimerInv'
<1> SUFFICES ASSUME TimerInv, Work(w) PROVE TimerInv'
  OBVIOUS
<1> USE DEF kernel, timers, count, flags, clock, loop
<1>0. Typed'
  BY WorkTyped DEF TimerInv
<1>1. UNCHANGED <<timers, loop>>
  BY DEF Work, Take, IoRead, IoWrite, SetTimerFlag, Parse, FillReply, CloseConn, ClearSockfd,
     StoreDecrement, Rearm
<1>2. \A f \in Fds : armed'[f] # "none" => armed[f] # "none"
  <2>1. CASE IoWrite(w)
    BY <2>1 DEF IoWrite, RearmAfterWrite, ModFd
  <2>2. CASE CloseConn(w)
    BY <2>2 DEF CloseConn, CloseFd, TimerInv, Typed, TypeOK
  <2>3. CASE Rearm(w)
    BY <2>3 DEF Rearm, ModFd
  <2> QED
    BY <2>1, <2>2, <2>3 DEF Work, Take, IoRead, SetTimerFlag, Parse, FillReply, ClearSockfd,
       StoreDecrement
<1>3. \A c \in Clients : net'[c].st \in {"new", "backlog"} => net[c].st \in {"new", "backlog"}
  <2>1. CASE IoRead(w)
    <3>1. PICK left \in BOOLEAN :
            net' = net \/ net' = [net EXCEPT ![Peer(worker[w].task)].data = left]
      BY <2>1 DEF IoRead, ReadInto
    <3>2. \A d \in Clients : [net[d] EXCEPT !.data = left].st = net[d].st
      BY DEF TimerInv, Typed, TypeOK, Endpoint
    <3> QED
      BY <3>1, <3>2 DEF TimerInv, Typed, TypeOK
  <2>2. CASE CloseConn(w)
    BY <2>2 DEF CloseConn, CloseFd
  <2> QED
    BY <2>1, <2>2 DEF Work, Take, IoWrite, SetTimerFlag, Parse, FillReply, ClearSockfd,
       StoreDecrement, Rearm
<1>4. TimerLive'
  BY <1>1, <1>2 DEF TimerInv, TimerLive, HasTimer
<1>5. NoEarlyNode'
  BY <1>1, <1>3, EarlyNodesKept
<1>6. OneEventPerFd' /\ LoopShape'
  BY <1>1 DEF TimerInv, OneEventPerFd, LoopShape
<1> QED
  BY <1>0, <1>4, <1>5, <1>6 DEF TimerInv

LEMMA NextTimer == TimerInv /\ [Next]_vars => TimerInv'
<1>1. TimerInv /\ UNCHANGED vars => TimerInv'
  <2> SUFFICES ASSUME TimerInv, UNCHANGED vars PROVE TimerInv'
    OBVIOUS
  <2>1. Typed'
    BY NextTyped DEF TimerInv
  <2> QED
    BY <2>1 DEF TimerInv, TimerLive, HasTimer, OneEventPerFd, LoopShape, NoEarlyNode,
       vars, kernel, timers, loop
<1> QED
  BY <1>1, EnvironmentTimer, MainTimer, WorkTimer DEF Next

\* Whatever the workers close behind its back, whenever the main thread has an
\* event of a descriptor in hand or spins on one, client_timer points to a node
\* that is in the list and belongs to that descriptor: deal_timer's call of
\* timer->cb_func before its test of timer is never a call through a bad pointer.
THEOREM TimersAreLive == Spec => []TimerLive
<1>1. TimerInv => TimerLive
  BY DEF TimerInv
<1> QED
  BY <1>1, InitTimerInv, NextTimer, PTL DEF Spec

----------------------------------------------------------------------------
(* The alarm. *)

\* tick runs only on a noted signal.
ChainInv == AlarmChain /\ (pc = "tick" => timeout)

LEMMA NextChain == ChainInv /\ [Next]_vars => ChainInv'
<1> SUFFICES ASSUME ChainInv, [Next]_vars PROVE ChainInv'
  OBVIOUS
<1> USE DEF ChainInv, AlarmChain, Stopped, kernel, timers, count, pool, flags, clock, loop
<1>1. CASE Environment
  BY <1>1 DEF Environment, Connect, Send, Hangup, Terminate, Elapse
<1>2. CASE EpollWait \/ EndBatch \/ DealClient \/ AcceptFails \/ AcceptBusy \/ AcceptInit
  BY <1>2 DEF EpollWait, EndBatch, DealClient, Handling, AcceptFails, AcceptBusy, AcceptInit
<1>3. CASE DealSignal
  BY <1>3 DEF DealSignal, Handling
<1>4. CASE SpinDone \/ StoreCount
  BY <1>4 DEF SpinDone, StoreCount
<1>5. CASE TickEnd
  BY <1>5 DEF TickEnd, SetAlarm
<1>6. ASSUME NEW f \in Fds,
             \/ DealHangup(f) \/ ProactorRead(f) \/ ProactorWrite(f)
             \/ ReactorEvent(f, "in", 0) \/ ReactorEvent(f, "out", 1)
      PROVE  ChainInv'
  BY <1>6 DEF DealHangup, ProactorRead, ProactorWrite, ReactorEvent, Handling
<1>7. ASSUME NEW c \in Clients, TickOne(c) PROVE ChainInv'
  BY <1>7 DEF TickOne
<1>8. ASSUME NEW w \in Workers, Work(w) PROVE ChainInv'
  BY <1>8 DEF Work, Take, IoRead, IoWrite, SetTimerFlag, Parse, FillReply, CloseConn, ClearSockfd,
     StoreDecrement, Rearm
<1>9. CASE UNCHANGED vars
  BY <1>9 DEF vars
<1> QED
  BY <1>1, <1>2, <1>3, <1>4, <1>5, <1>6, <1>7, <1>8, <1>9 DEF Next, Main, MainStep

\* The chain alarm, SIGALRM, pipe, timeout_flag, tick, alarm never breaks and
\* never runs twice, in either actor model and under any load.
THEOREM AlarmNeverStops == Spec => []AlarmChain
<1>1. Init => ChainInv
  BY DEF Init, ChainInv, AlarmChain
<1>2. ChainInv => AlarmChain
  BY DEF ChainInv
<1> QED
  BY <1>1, <1>2, NextChain, PTL DEF Spec

----------------------------------------------------------------------------
(* The request queue. *)

\* The request TaskQueue sees running is the worker's task; an idle one has none.
HandsFree == \A w \in Workers : worker[w].pc = "idle" => worker[w].task = None

QueueInv == Typed /\ HandsFree

LEMMA EnvironmentQueue ==
    Environment => UNCHANGED <<queue, worker>>
  BY DEF Environment, Connect, Send, Hangup, Terminate, Elapse, pool

\* The main thread offers a request or leaves the queue alone.
LEMMA EnqueueIsAccept ==
    ASSUME NEW f \in Fds, Enqueue(f), UNCHANGED worker
    PROVE  [TQ!TQNext]_(TQ!tqvars)
<1>1. CASE HasRoom
  <2>1. TQ!Accept(f)
    BY <1>1 DEF Enqueue, HasRoom, TQ!Accept
  <2> QED
    BY <2>1 DEF TQ!TQNext
<1>2. CASE ~HasRoom
  BY <1>2 DEF Enqueue, TQ!tqvars
<1> QED
  BY <1>1, <1>2

LEMMA MainQueue ==
    ASSUME Main
    PROVE  worker' = worker /\ [TQ!TQNext]_(TQ!tqvars)
<1> USE DEF pool
<1>1. CASE queue' = queue /\ worker' = worker
  BY <1>1 DEF TQ!tqvars
<1>2. ASSUME NEW f \in Fds, ProactorRead(f)
      PROVE  worker' = worker /\ (Enqueue(f) \/ queue' = queue)
  BY <1>2 DEF ProactorRead
<1>3. ASSUME NEW f \in Fds, NEW kind, NEW io, ReactorEvent(f, kind, io)
      PROVE  worker' = worker /\ Enqueue(f)
  BY <1>3 DEF ReactorEvent
<1>4. CASE \E f \in Fds : ProactorRead(f) \/ ReactorEvent(f, "in", 0) \/ ReactorEvent(f, "out", 1)
  BY <1>1, <1>2, <1>3, <1>4, EnqueueIsAccept
<1>5. CASE \/ EpollWait \/ EndBatch \/ DealClient \/ AcceptFails \/ AcceptBusy \/ AcceptInit
           \/ DealSignal \/ SpinDone \/ TickEnd \/ StoreCount
           \/ \E f \in Fds : DealHangup(f) \/ ProactorWrite(f)
           \/ \E c \in Clients : TickOne(c)
  <2>1. queue' = queue /\ worker' = worker
    BY <1>5 DEF EpollWait, EndBatch, DealClient, AcceptFails, AcceptBusy, AcceptInit, DealSignal,
       SpinDone, TickEnd, StoreCount, DealHangup, ProactorWrite, TickOne
  <2> QED
    BY <1>1, <2>1
<1> QED
  BY <1>4, <1>5 DEF Main, MainStep

\* What a worker does to the queue and to its own task.
LEMMA WorkQueue ==
    ASSUME QueueInv, NEW w \in Workers, Work(w)
    PROVE  HandsFree' /\ [TQ!TQNext]_(TQ!tqvars)
<1> DEFINE tasks == [v \in Workers |-> worker[v].task]
<1>1. worker \in [Workers -> Thread] /\ queue \in Seq(Fds) /\ HandsFree /\ Busy
  BY DEF QueueInv, Typed, TypeOK
<1>2. CASE Take(w)
  <2>1. PICK p \in {"io", "parse"} :
          worker' = [worker EXCEPT ![w].task = Head(queue), ![w].pc = p]
    BY <1>2 DEF Take
  <2>2. tasks' = [tasks EXCEPT ![w] = Head(queue)] /\ tasks[w] = None
    BY <1>1, <1>2, <2>1 DEF Take, At, HandsFree, Thread
  <2>3. TQ!Start(w)
    BY <1>2, <2>2 DEF Take, TQ!Start
  <2>4. HandsFree'
    BY <1>1, <2>1 DEF HandsFree, Thread
  <2> QED
    BY <2>3, <2>4 DEF TQ!TQNext
<1>3. ASSUME Finish(w), ~At(w, "idle"), queue' = queue
      PROVE  HandsFree' /\ [TQ!TQNext]_(TQ!tqvars)
  <2>1. tasks' = [tasks EXCEPT ![w] = None] /\ tasks[w] # None
    BY <1>1, <1>3 DEF Finish, Idle, Busy, At
  <2>2. TQ!Complete(w)
    BY <1>3, <2>1 DEF TQ!Complete
  <2>3. HandsFree'
    BY <1>1, <1>3 DEF HandsFree, Finish, Idle
  <2> QED
    BY <2>2, <2>3 DEF TQ!TQNext
<1>4. ASSUME NEW t \in Thread, t.task = worker[w].task, t.pc # "idle",
             worker' = [worker EXCEPT ![w] = t], queue' = queue
      PROVE  HandsFree' /\ [TQ!TQNext]_(TQ!tqvars)
  <2>1. tasks' = tasks
    BY <1>1, <1>4
  <2>2. HandsFree'
    BY <1>1, <1>4 DEF HandsFree
  <2> QED
    BY <1>4, <2>1, <2>2 DEF TQ!tqvars
<1>5. ASSUME NEW p \in {"flag", "parse", "clear", "out"}, Goto(w, p), queue' = queue
      PROVE  HandsFree' /\ [TQ!TQNext]_(TQ!tqvars)
  <2> DEFINE t == [worker[w] EXCEPT !.pc = p]
  <2>1. t \in Thread /\ t.task = worker[w].task /\ t.pc # "idle"
    BY <1>1 DEF Thread
  <2>2. worker' = [worker EXCEPT ![w] = t]
    BY <1>5 DEF Goto
  <2> QED
    BY <1>4, <1>5, <2>1, <2>2
<1>6. CASE IoRead(w) \/ IoWrite(w) \/ SetTimerFlag(w) \/ Rearm(w)
  <2>1. queue' = queue /\ ~At(w, "idle")
    BY <1>6 DEF IoRead, IoWrite, SetTimerFlag, Rearm, At
  <2>2. Goto(w, "parse") \/ Goto(w, "flag") \/ Finish(w)
    BY <1>6 DEF IoRead, IoWrite, SetTimerFlag, Rearm
  <2> QED
    BY <1>3, <1>5, <2>1, <2>2
<1>7. CASE FillReply(w) \/ CloseConn(w) \/ StoreDecrement(w)
  <2>1. queue' = queue /\ (Goto(w, "out") \/ Goto(w, "clear"))
    BY <1>7 DEF FillReply, CloseConn, StoreDecrement
  <2> QED
    BY <1>5, <2>1
<1>8. CASE Parse(w)
  <2>1. PICK outcome \in {"again", "reply", "drop"} :
          worker' = [worker EXCEPT ![w].pc = outcome, ![w].from = Slot(w).req]
    BY <1>8 DEF Parse
  <2>2. worker[w].task \in Fds /\ queue' = queue
    BY <1>1, <1>8 DEF Parse, At, Busy
  <2>3. Slot(w).req \in ClientOrNone
    BY <2>2, SlotTypes DEF Slot, HttpConn, QueueInv, Typed
  <2> DEFINE t == [worker[w] EXCEPT !.pc = outcome, !.from = Slot(w).req]
  <2>4. t \in Thread /\ t.task = worker[w].task /\ t.pc # "idle"
    BY <1>1, <2>3 DEF Thread
  <2>5. worker' = [worker EXCEPT ![w] = t]
    BY <1>1, <2>1
  <2> QED
    BY <1>4, <2>2, <2>4, <2>5
<1>9. CASE ClearSockfd(w)
  <2>1. worker' = [worker EXCEPT ![w].pc = "store", ![w].count = userCount - 1] /\ queue' = queue
    BY <1>9 DEF ClearSockfd
  <2> DEFINE t == [worker[w] EXCEPT !.pc = "store", !.count = userCount - 1]
  <2>2. userCount - 1 \in Int
    BY DEF QueueInv, Typed, TypeOK
  <2>3. t \in Thread /\ t.task = worker[w].task /\ t.pc # "idle"
    BY <1>1, <2>2 DEF Thread
  <2>4. worker' = [worker EXCEPT ![w] = t]
    BY <1>1, <2>1
  <2> QED
    BY <1>4, <2>1, <2>3, <2>4
<1> QED
  BY <1>2, <1>6, <1>7, <1>8, <1>9 DEF Work

LEMMA NextQueue ==
    QueueInv /\ [Next]_vars => QueueInv' /\ [TQ!TQNext]_(TQ!tqvars)
<1> SUFFICES ASSUME QueueInv, [Next]_vars
             PROVE  QueueInv' /\ [TQ!TQNext]_(TQ!tqvars)
  OBVIOUS
<1>1. Typed'
  BY NextTyped DEF QueueInv
<1>2. CASE queue' = queue /\ worker' = worker
  BY <1>1, <1>2 DEF QueueInv, HandsFree, TQ!tqvars
<1>3. CASE Main
  <2>1. worker' = worker /\ [TQ!TQNext]_(TQ!tqvars)
    BY <1>3, MainQueue
  <2> QED
    BY <1>1, <2>1 DEF QueueInv, HandsFree
<1>4. ASSUME NEW w \in Workers, Work(w)
      PROVE  QueueInv' /\ [TQ!TQNext]_(TQ!tqvars)
  <2>1. HandsFree' /\ [TQ!TQNext]_(TQ!tqvars)
    BY <1>4, WorkQueue
  <2> QED
    BY <1>1, <2>1 DEF QueueInv
<1>5. CASE Environment \/ UNCHANGED vars
  BY <1>2, <1>5, EnvironmentQueue DEF vars, pool
<1> QED
  BY <1>3, <1>4, <1>5 DEF Next

\* The main thread and the workers use the request queue only as the thread
\* pool offers it, in both actor models, with drops and under any load: every
\* step of the server accepts a request, starts one in the order of arrival,
\* completes one, or leaves the queue and the workers' requests as they are.
THEOREM QueueRefinement == Spec => UsesTaskQueue
<1>1. Init => QueueInv
  BY InitTyped DEF QueueInv, HandsFree, Init, Idle
<1>2. Init => TQ!TQInit
  BY DEF Init, TQ!TQInit, Idle
<1> QED
  BY <1>1, <1>2, NextQueue, PTL DEF Spec, UsesTaskQueue, TQ!TQSpec

============================================================================
