----------------------------- MODULE WebServer -----------------------------
(***************************************************************************)
(* The event loop of ToyWebServer, its worker threads and what they share: *)
(* the kernel's descriptor and epoll tables, the http_conn slots indexed   *)
(* by descriptor, the client timers, the connection count and the request  *)
(* queue.  The main thread runs WebServer::eventLoop; each worker runs     *)
(* threadpool::run.  Clients and the clock are the environment.            *)
(*                                                                         *)
(* Every client connects once, so a client also names its connection and   *)
(* its timer_node.  The timer list is the set of nodes with ttl >= 0, a    *)
(* node's ttl being the time slots left before it expires.                 *)
(*                                                                         *)
(* An operator whose comment begins with "Defective" is the operator after *)
(* it with a plausible mistake; nothing uses it.  The README names the     *)
(* property that each of them would break.                                 *)
(***************************************************************************)
EXTENDS Integers, Sequences, FiniteSets

CONSTANTS
    Clients, Fds, Workers, None,
    ActorModel,     \* 0: proactor, 1: reactor
    ListenMode,     \* 0: level-triggered listening socket, 1: edge-triggered
    ConnMode,       \* the same for the client sockets
    MaxUsers,       \* MAX_FD
    MaxRequests,    \* m_max_requests
    Timeout,        \* time slots a client may stay silent (3 in the code)
    Outcomes,       \* what http_conn::process may conclude in this instance
    Prompt,         \* TRUE: no request is in flight for Timeout slots
    CanStop         \* TRUE: SIGTERM may be sent

ASSUME NoneAssumption == None \notin Clients \cup Fds \cup Int
ASSUME TimeoutAssumption == Timeout \in Nat \ {0}
ASSUME MaxRequestsAssumption == MaxRequests \in Nat \ {0}
ASSUME OutcomesAssumption == Outcomes \subseteq {"again", "reply", "drop"}

VARIABLES
    owner,      \* kernel descriptor table: the client each fd is connected to
    armed,      \* epoll interest of each fd; "off" is a spent one-shot
    net,        \* the clients' side of the connections
    edge,       \* an edge of the listening socket not yet reported
    http,       \* m_http_conns, one slot per fd
    timer,      \* m_client_datas[fd].client_timer
    ttl,        \* slots left of each timer_node, -1 when it is not in the list
    udata,      \* the fd in the client_data a timer_node points to
    userCount,  \* http_conn::m_user_count
    mreg,       \* count the main thread has computed and not yet stored
    queue,      \* m_work_queue
    worker,     \* program counter and locals of each worker
    pc,         \* where the main thread is in eventLoop
    events,     \* reported events the loop has not handled yet
    spin,       \* the fd whose improv flag the main thread busy-waits for
    timeout,    \* timeout_flag
    stop,       \* stop_server
    alarm,      \* an alarm() is pending
    pipe        \* signal numbers written to m_pipefd[1] and not read

kernel == <<owner, armed, net, edge>>
timers == <<timer, ttl, udata>>
count  == <<userCount, mreg>>
pool   == <<queue, worker>>
flags  == <<timeout, stop>>
clock  == <<alarm, pipe>>
loop   == <<pc, events, spin>>
vars   == <<kernel, http, timers, count, pool, flags, clock, loop>>

FreshSlot(fd) == [sockfd |-> fd, req |-> None, reply |-> None,
                  io |-> 0, improv |-> 0, tflag |-> 0]

Stopped == pc = "stopped"

----------------------------------------------------------------------------
(* What the handlers share. *)

Open(f) == owner[f] # None

\* The client at the other end of the socket a slot believes it holds.
Peer(f) == IF http[f].sockfd = None THEN None ELSE owner[http[f].sockfd]

\* removefd, and the epoll_ctl and close of cb_func.
CloseFd(f) ==
    /\ owner' = [owner EXCEPT ![f] = None]
    /\ armed' = [armed EXCEPT ![f] = "none"]
    /\ net' = [c \in Clients |->
                 IF owner[f] = c THEN [st |-> "closed", data |-> FALSE, eof |-> FALSE]
                                 ELSE net[c]]
    /\ UNCHANGED edge

\* EPOLL_CTL_MOD fails on a descriptor that is not registered.
ModFd(fd, interest) ==
    armed' = [f \in Fds |-> IF f = fd /\ armed[f] # "none" THEN interest ELSE armed[f]]

\* http_conn::init() without arguments.
Reset(f) == [FreshSlot(f) EXCEPT !.sockfd = http[f].sockfd]

\* Defective: the node stays in the list.
FreeNodeForgotten(c) == UNCHANGED ttl

FreeNode(c) == ttl' = [ttl EXCEPT ![c] = -1]

\* Defective: the connection count is left as it was.
CbFuncKeepsCount(f) == CloseFd(f) /\ UNCHANGED count

CbFunc(f) == CloseFd(f) /\ mreg' = userCount - 1 /\ UNCHANGED userCount

DealTimer(f) == CbFunc(f) /\ FreeNode(timer[f]) /\ UNCHANGED <<timer, udata>>

AdjustTimer(f) ==
    /\ ttl' = IF timer[f] = None THEN ttl ELSE [ttl EXCEPT ![timer[f]] = Timeout]
    /\ UNCHANGED <<timer, udata>>

\* Defective: one request too many.
HasRoomForOneMore == Len(queue) <= MaxRequests

\* Defective: one request too few.
HasRoomForOneLess == Len(queue) + 1 < MaxRequests

HasRoom == Len(queue) < MaxRequests

\* Defective: the newest request goes first.
EnqueueInFront(f) == queue' = IF HasRoom THEN <<f>> \o queue ELSE queue

Enqueue(f) == queue' = IF HasRoom THEN Append(queue, f) ELSE queue

\* recv returns bytes: an edge-triggered read goes on until EAGAIN, and
\* returns false when it meets the end of the stream first.
CanRead(f) ==
    LET c == Peer(f) IN
    /\ c # None
    /\ IF ConnMode = 0 THEN net[c].data ELSE ~net[c].eof

\* read() also fails when unparsed bytes fill m_read_buf; edge-triggered, new
\* ones may fill it as well, and the next recv has no room and returns 0.
BufferMayFill(f) == \/ http[f].req # None
                    \/ ConnMode = 1 /\ net[Peer(f)].data

CannotRead(f) == CanRead(f) => BufferMayFill(f)

\* The effects of a read() that returns true; a level-triggered one is a
\* single recv, which may leave bytes in the socket.
ReadInto(f, slot) ==
    LET c == Peer(f) IN
    /\ http' = [http EXCEPT ![f] = [slot EXCEPT
                  !.req = IF net[c].data THEN c ELSE slot.req]]
    /\ \E left \in IF ConnMode = 0 THEN BOOLEAN ELSE {FALSE} :
          net' = [net EXCEPT ![c].data = left]

\* How http_conn::write may end.  "done" is a keep-alive response sent in
\* full, "last" one without keep-alive, which returns false after re-arming.
WriteResults(f) ==
    IF http[f].reply = None
    THEN {"nothing"}
    ELSE {r \in {"again", "done", "last"} : Peer(f) # None}
         \cup {r \in {"error"} : Peer(f) = None \/ net[Peer(f)].eof}

WriteFails == {"last", "error"}

SlotAfterWrite(f, result) ==
    CASE result \in {"nothing", "done"} -> Reset(f)
      [] result = "last" -> [http[f] EXCEPT !.reply = None]
      [] OTHER -> http[f]

RearmAfterWrite(f, result) ==
    IF result = "error"
    THEN UNCHANGED armed
    ELSE ModFd(http[f].sockfd, IF result = "again" THEN "out" ELSE "in")

----------------------------------------------------------------------------
(* The environment: clients, signals and time. *)

Connect(c) ==
    /\ net[c].st = "new"
    /\ net' = [net EXCEPT ![c].st = "backlog"]
    /\ edge' = TRUE
    /\ UNCHANGED <<owner, armed, http, timers, count, pool, flags, clock, loop>>

\* Only the arrival of bytes where there were none is a step.
Send(c) ==
    /\ net[c].st = "open" /\ ~net[c].data /\ ~net[c].eof
    /\ net' = [net EXCEPT ![c].data = TRUE]
    /\ UNCHANGED <<owner, armed, edge, http, timers, count, pool, flags, clock, loop>>

Hangup(c) ==
    /\ net[c].st = "open" /\ ~net[c].eof
    /\ net' = [net EXCEPT ![c].eof = TRUE]
    /\ UNCHANGED <<owner, armed, edge, http, timers, count, pool, flags, clock, loop>>

Terminate ==
    /\ CanStop /\ ~Stopped
    /\ pipe' = pipe \cup {"TERM"}
    /\ UNCHANGED <<kernel, http, timers, count, pool, flags, alarm, loop>>

\* The fds some thread has taken in hand and not yet re-armed or closed.
InFlight ==
    ({e.fd : e \in events} \cup {queue[i] : i \in 1..Len(queue)}
       \cup {worker[w].task : w \in Workers} \cup {spin}) \ {None}

\* TIMESLOT seconds pass.  tick reads the clock once, so time stands still
\* while it walks the list.
Elapse ==
    /\ pc # "tick"
    /\ Prompt => \A f \in InFlight : timer[f] # None => ttl[timer[f]] > 1
    /\ ttl' = [c \in Clients |-> IF ttl[c] > 0 THEN ttl[c] - 1 ELSE ttl[c]]
    /\ alarm' = FALSE
    /\ pipe' = IF alarm THEN pipe \cup {"ALRM"} ELSE pipe
    /\ UNCHANGED <<kernel, http, timer, udata, count, pool, flags, loop>>

----------------------------------------------------------------------------
(* The main thread, eventLoop. *)

Event(fd, kind) == [fd |-> fd, kind |-> kind]

ConnKind(f) == IF net[owner[f]].eof THEN "hup" ELSE armed[f]

Ready(f) ==
    /\ armed[f] \in {"in", "out"}
    /\ net[owner[f]].eof \/ (armed[f] = "in" /\ net[owner[f]].data)

\* Defective: the level-triggered listening socket reports edges only.
ListenEdgeOnly == edge

ListenReady == IF ListenMode = 0 THEN \E c \in Clients : net[c].st = "backlog"
                                 ELSE edge

\* Defective: no EPOLLONESHOT.
NoOneShot(ready) == UNCHANGED armed

OneShot(ready) == armed' = [f \in Fds |-> IF f \in ready THEN "off" ELSE armed[f]]

\* A socket armed for output may or may not have room in its send buffer.
EpollWait ==
    /\ pc = "wait"
    /\ \E writable \in SUBSET {f \in Fds : armed[f] = "out"} :
         LET ready == writable \cup {f \in Fds : Ready(f)}
         IN  /\ events' = {Event(f, ConnKind(f)) : f \in ready}
                    \cup {e \in {Event(None, "listen")} : ListenReady}
                    \cup {e \in {Event(None, "signal")} : pipe # {}}
             /\ OneShot(ready)
    /\ events' # {}
    /\ pc' = "batch"
    /\ edge' = FALSE
    /\ UNCHANGED <<owner, net, http, timers, count, pool, flags, clock, spin>>

\* The loop takes up one event of the batch and goes to next.
Handling(fd, kinds, next) ==
    /\ pc = "batch"
    /\ \E e \in events : e.fd = fd /\ e.kind \in kinds /\ events' = events \ {e}
    /\ pc' = next

DealClient ==
    /\ Handling(None, {"listen"}, "accept")
    /\ UNCHANGED <<kernel, http, timers, count, pool, flags, clock, spin>>

Backlog == {c \in Clients : net[c].st = "backlog"}
FreeFds == {f \in Fds : ~Open(f)}

\* accept() fails: nobody waits, or the process is out of descriptors.
AcceptFails ==
    /\ pc = "accept"
    /\ Backlog = {} \/ FreeFds = {}
    /\ pc' = "batch"
    /\ UNCHANGED <<kernel, http, timers, count, pool, flags, clock, events, spin>>

\* show_error: the new connection is closed again, and both modes give up.
AcceptBusy ==
    /\ pc = "accept"
    /\ FreeFds # {} /\ userCount >= MaxUsers
    /\ \E c \in Backlog : net' = [net EXCEPT ![c].st = "closed"]
    /\ pc' = "batch"
    /\ UNCHANGED <<owner, armed, edge, http, timers, count, pool, flags, clock, events, spin>>

\* Defective: the private init() is not called, so old bytes stay behind.
KeepSlot(f) == http' = [http EXCEPT ![f].sockfd = f]

InitSlot(f) == http' = [http EXCEPT ![f] = FreshSlot(f)]

\* Defective: a client_timer left by an earlier connection is not replaced.
BindTimerOnce(f, c) ==
    /\ timer' = IF timer[f] = None THEN [timer EXCEPT ![f] = c] ELSE timer
    /\ ttl' = [ttl EXCEPT ![c] = Timeout]
    /\ udata' = [udata EXCEPT ![c] = f]

\* A new timer_node and the client_data that points to it.
BindTimer(f, c) ==
    /\ timer' = [timer EXCEPT ![f] = c]
    /\ ttl' = [ttl EXCEPT ![c] = Timeout]
    /\ udata' = [udata EXCEPT ![c] = f]

\* init_timer: the slot, the descriptor and the timer of a new connection.
InitTimer(f, c) ==
    /\ owner' = [owner EXCEPT ![f] = c]
    /\ armed' = [armed EXCEPT ![f] = "in"]
    /\ net' = [net EXCEPT ![c].st = "open"]
    /\ InitSlot(f)
    /\ mreg' = userCount + 1
    /\ BindTimer(f, c)

AcceptInit ==
    /\ pc = "accept"
    /\ userCount < MaxUsers
    /\ \E c \in Backlog, f \in FreeFds : InitTimer(f, c)
    /\ pc' = IF ListenMode = 0 THEN "batch" ELSE "accept"
    /\ UNCHANGED <<edge, userCount, pool, flags, clock, events, spin>>

DealHangup(f) ==
    /\ Handling(f, {"hup"}, "batch")
    /\ DealTimer(f)
    /\ UNCHANGED <<http, pool, flags, clock, spin>>

DealSignal ==
    /\ Handling(None, {"signal"}, "batch")
    /\ timeout' = (timeout \/ "ALRM" \in pipe)
    /\ stop' = (stop \/ "TERM" \in pipe)
    /\ pipe' = {}
    /\ UNCHANGED <<kernel, http, timers, count, pool, alarm, spin>>

ProactorRead(f) ==
    /\ ActorModel = 0
    /\ Handling(f, {"in"}, "batch")
    /\ \/ /\ CanRead(f)
          /\ ReadInto(f, http[f])
          /\ Enqueue(f)
          /\ AdjustTimer(f)
          /\ UNCHANGED <<owner, armed, edge, mreg, userCount>>
       \/ /\ CannotRead(f)
          /\ DealTimer(f)
          /\ UNCHANGED <<http, queue>>
    /\ UNCHANGED <<worker, flags, clock, spin>>

ProactorWrite(f) ==
    /\ ActorModel = 0
    /\ Handling(f, {"out"}, "batch")
    /\ \E result \in WriteResults(f) :
         /\ http' = [http EXCEPT ![f] = SlotAfterWrite(f, result)]
         /\ IF result \in WriteFails
            THEN DealTimer(f)
            ELSE /\ RearmAfterWrite(f, result)
                 /\ AdjustTimer(f)
                 /\ UNCHANGED <<owner, net, edge, count>>
    /\ UNCHANGED <<pool, flags, clock, spin>>

\* deal_read and deal_write of the reactor; io is the m_io_state appended.
ReactorEvent(f, kind, io) ==
    /\ ActorModel = 1
    /\ Handling(f, {kind}, "spin")
    /\ spin' = f
    /\ AdjustTimer(f)
    /\ Enqueue(f)
    /\ http' = IF HasRoom THEN [http EXCEPT ![f].io = io] ELSE http
    /\ UNCHANGED <<kernel, count, worker, flags, clock>>

\* Defective: improv is left set.
ClearTimerFlag(f) == http' = [http EXCEPT ![f].tflag = 0]

ClearFlags(f) == http' = [http EXCEPT ![f].improv = 0, ![f].tflag = 0]

\* The busy-wait on improv ends.
SpinDone ==
    /\ pc = "spin"
    /\ http[spin].improv = 1
    /\ ClearFlags(spin)
    /\ IF http[spin].tflag = 1 THEN DealTimer(spin)
                               ELSE UNCHANGED <<kernel, timers, count>>
    /\ pc' = "batch"
    /\ spin' = None
    /\ UNCHANGED <<pool, flags, clock, events>>

\* The timers are looked at once the whole batch has been handled.
EndBatch ==
    /\ pc = "batch" /\ events = {}
    /\ pc' = IF timeout THEN "tick" ELSE IF stop THEN "stopped" ELSE "wait"
    /\ UNCHANGED <<kernel, http, timers, count, pool, flags, clock, events, spin>>

\* Defective: off by one, a node expires a slot early.
ExpiredEarly == {c \in Clients : ttl[c] \in {0, 1}}

Expired == {c \in Clients : ttl[c] = 0}

TickOne(c) ==
    /\ pc = "tick" /\ c \in Expired
    /\ CbFunc(udata[c])
    /\ FreeNode(c)
    /\ UNCHANGED <<http, timer, udata, pool, flags, clock, loop>>

\* Defective: timer_handler does not set the alarm again.
AlarmOnlyOnce == UNCHANGED alarm

SetAlarm == alarm' = TRUE

TickEnd ==
    /\ pc = "tick" /\ Expired = {}
    /\ SetAlarm
    /\ timeout' = FALSE
    /\ pc' = IF stop THEN "stopped" ELSE "wait"
    /\ UNCHANGED <<kernel, http, timers, count, pool, stop, pipe, events, spin>>

\* The store half of m_user_count++ and m_user_count--.
StoreCount ==
    /\ mreg # None
    /\ userCount' = mreg
    /\ mreg' = None
    /\ UNCHANGED <<kernel, http, timers, pool, flags, clock, loop>>

MainStep ==
    \/ EpollWait \/ EndBatch
    \/ DealClient \/ AcceptFails \/ AcceptBusy \/ AcceptInit
    \/ DealSignal \/ SpinDone \/ TickEnd
    \/ \E f \in Fds : \/ DealHangup(f) \/ ProactorRead(f) \/ ProactorWrite(f)
                      \/ ReactorEvent(f, "in", 0) \/ ReactorEvent(f, "out", 1)
    \/ \E c \in Clients : TickOne(c)

Main == (mreg = None /\ MainStep) \/ StoreCount

----------------------------------------------------------------------------
(* A worker, threadpool::run. *)

\* Worker w goes to p; from and count are locals of process and close_conn.
Goto(w, p) == worker' = [worker EXCEPT ![w].pc = p]
Idle == [pc |-> "idle", task |-> None, from |-> None, count |-> 0]
Finish(w) == worker' = [worker EXCEPT ![w] = Idle]
At(w, p) == worker[w].pc = p
Slot(w) == http[worker[w].task]

Take(w) ==
    /\ At(w, "idle") /\ queue # <<>>
    /\ queue' = Tail(queue)
    /\ worker' = [worker EXCEPT ![w].task = Head(queue),
                                ![w].pc = IF ActorModel = 1 THEN "io" ELSE "parse"]
    /\ UNCHANGED <<kernel, http, timers, count, flags, clock, loop>>

\* The reactor's worker reads; improv is set before the request is parsed.
IoRead(w) ==
    LET f == worker[w].task
    IN  /\ At(w, "io") /\ Slot(w).io = 0
        /\ \/ CanRead(f) /\ ReadInto(f, [http[f] EXCEPT !.improv = 1]) /\ Goto(w, "parse")
           \/ /\ CannotRead(f)
              /\ http' = [http EXCEPT ![f].improv = 1]
              /\ Goto(w, "flag")
              /\ UNCHANGED net
        /\ UNCHANGED <<owner, armed, edge, timers, count, queue, flags, clock, loop>>

IoWrite(w) ==
    LET f == worker[w].task
    IN  /\ At(w, "io") /\ Slot(w).io = 1
        /\ \E result \in WriteResults(f) :
             /\ http' = [http EXCEPT ![f] = [SlotAfterWrite(f, result) EXCEPT !.improv = 1]]
             /\ RearmAfterWrite(f, result)
             /\ IF result \in WriteFails THEN Goto(w, "flag") ELSE Finish(w)
        /\ UNCHANGED <<owner, net, edge, timers, count, queue, flags, clock, loop>>

\* timer_flag is set in a second step, after improv.
SetTimerFlag(w) ==
    /\ At(w, "flag")
    /\ http' = [http EXCEPT ![worker[w].task].tflag = 1]
    /\ Finish(w)
    /\ UNCHANGED <<kernel, timers, count, queue, flags, clock, loop>>

\* process_read and the verdict of process_write.
Parse(w) ==
    /\ At(w, "parse")
    /\ \E outcome \in IF Slot(w).req = None THEN {"again"} ELSE Outcomes :
         worker' = [worker EXCEPT ![w].pc = outcome, ![w].from = Slot(w).req]
    /\ UNCHANGED <<kernel, http, timers, count, queue, flags, clock, loop>>

\* process_write fills the slot's write buffer.
FillReply(w) ==
    /\ At(w, "reply")
    /\ http' = [http EXCEPT ![worker[w].task].reply = worker[w].from]
    /\ Goto(w, "out")
    /\ UNCHANGED <<kernel, timers, count, queue, flags, clock, loop>>

\* close_conn, in three steps; process goes on to modfd whatever it did.
CloseConn(w) ==
    /\ At(w, "drop")
    /\ IF Slot(w).sockfd = None
       THEN Goto(w, "out") /\ UNCHANGED kernel
       ELSE Goto(w, "clear") /\ CloseFd(Slot(w).sockfd)
    /\ UNCHANGED <<http, timers, count, queue, flags, clock, loop>>

ClearSockfd(w) ==
    /\ At(w, "clear")
    /\ http' = [http EXCEPT ![worker[w].task].sockfd = None]
    /\ worker' = [worker EXCEPT ![w].pc = "store", ![w].count = userCount - 1]
    /\ UNCHANGED <<kernel, timers, count, queue, flags, clock, loop>>

StoreDecrement(w) ==
    /\ At(w, "store")
    /\ userCount' = worker[w].count
    /\ Goto(w, "out")
    /\ UNCHANGED <<kernel, http, timers, mreg, queue, flags, clock, loop>>

\* process ends by re-arming the descriptor the slot now names.
Rearm(w) ==
    /\ \/ At(w, "again") /\ ModFd(Slot(w).sockfd, "in")
       \/ At(w, "out") /\ ModFd(Slot(w).sockfd, "out")
    /\ Finish(w)
    /\ UNCHANGED <<owner, net, edge, http, timers, count, queue, flags, clock, loop>>

Work(w) ==
    \/ Take(w) \/ IoRead(w) \/ IoWrite(w) \/ SetTimerFlag(w) \/ Parse(w)
    \/ FillReply(w) \/ CloseConn(w) \/ ClearSockfd(w) \/ StoreDecrement(w) \/ Rearm(w)

----------------------------------------------------------------------------

\* Workers are running and the alarm is set when eventLoop begins.  The slots
\* come from new[] and are not initialised; no one reads one before init().
Init ==
    /\ owner = [f \in Fds |-> None]
    /\ armed = [f \in Fds |-> "none"]
    /\ net = [c \in Clients |-> [st |-> "new", data |-> FALSE, eof |-> FALSE]]
    /\ edge = FALSE
    /\ http = [f \in Fds |-> FreshSlot(None)]
    /\ timer = [f \in Fds |-> None]
    /\ ttl = [c \in Clients |-> -1]
    /\ udata = [c \in Clients |-> None]
    /\ userCount = 0 /\ mreg = None
    /\ queue = <<>> /\ worker = [w \in Workers |-> Idle]
    /\ pc = "wait" /\ events = {} /\ spin = None
    /\ timeout = FALSE /\ stop = FALSE
    /\ alarm = TRUE /\ pipe = {}

Environment ==
    \/ \E c \in Clients : Connect(c) \/ Send(c) \/ Hangup(c)
    \/ Terminate \/ Elapse

Next == Environment \/ Main \/ \E w \in Workers : Work(w)

Spec == Init /\ [][Next]_vars

\* The scheduler runs every runnable thread and time goes on.
Fairness ==
    /\ WF_vars(Main)
    /\ \A w \in Workers : WF_vars(Work(w))
    /\ WF_vars(Elapse)

FairSpec == Spec /\ Fairness

----------------------------------------------------------------------------
(* Correctness. *)

FdOrNone == Fds \cup {None}
ClientOrNone == Clients \cup {None}

Endpoint == [st : {"new", "backlog", "open", "closed"}, data : BOOLEAN, eof : BOOLEAN]
HttpConn == [sockfd : FdOrNone, req : ClientOrNone, reply : ClientOrNone,
             io : {0, 1}, improv : {0, 1}, tflag : {0, 1}]
Thread == [pc : {"idle", "io", "flag", "parse", "again", "reply", "drop", "clear", "store", "out"},
           task : FdOrNone, from : ClientOrNone, count : Int]

\* Every variable keeps its type; the request queue never outgrows m_max_requests.
TypeOK ==
    /\ owner \in [Fds -> ClientOrNone]
    /\ armed \in [Fds -> {"none", "off", "in", "out"}]
    /\ net \in [Clients -> Endpoint]
    /\ edge \in BOOLEAN
    /\ http \in [Fds -> HttpConn]
    /\ timer \in [Fds -> ClientOrNone]
    /\ ttl \in [Clients -> -1..Timeout]
    /\ udata \in [Clients -> FdOrNone]
    /\ userCount \in Int /\ mreg \in Int \cup {None}
    /\ queue \in Seq(Fds) /\ Len(queue) <= MaxRequests
    /\ worker \in [Workers -> Thread]
    /\ pc \in {"wait", "batch", "accept", "spin", "tick", "stopped"}
    /\ events \subseteq [fd : FdOrNone, kind : {"listen", "signal", "hup", "in", "out"}]
    /\ spin \in FdOrNone
    /\ timeout \in BOOLEAN /\ stop \in BOOLEAN
    /\ alarm \in BOOLEAN /\ pipe \subseteq {"ALRM", "TERM"}

\* The main thread dereferences client_timer without asking whether it points
\* anywhere: of a descriptor epoll may report or has reported, and of the one
\* it spins on, it must be a node that is in the list and belongs to that fd.
HasTimer(f) == timer[f] # None /\ ttl[timer[f]] >= 0 /\ udata[timer[f]] = f

TimerLive ==
    \A f \in Fds :
        (armed[f] # "none" \/ spin = f \/ \E e \in events : e.fd = f) => HasTimer(f)

\* SIGALRM is raised again and again because timer_handler re-arms it: until
\* the loop stops, exactly one of these holds: the alarm is set, its signal is
\* in the pipe, or the loop has noted it.
AlarmChain ==
    ~Stopped => /\ alarm \/ "ALRM" \in pipe \/ timeout
                /\ alarm => "ALRM" \notin pipe /\ ~timeout
                /\ "ALRM" \in pipe => ~timeout

\* EPOLLONESHOT is there so that one thread at a time has a connection: a
\* descriptor is in at most one of the reported events, the request queue, the
\* workers' hands and the set epoll may still report.
Holders(f) ==
    {<<"event", e.kind>> : e \in {x \in events : x.fd = f}}
      \cup {<<"queue", i>> : i \in {j \in 1..Len(queue) : queue[j] = f}}
      \cup {<<"worker", w>> : w \in {v \in Workers : worker[v].task = f}}
      \cup {<<"epoll", a>> : a \in {armed[f]} \cap {"in", "out"}}

ExclusiveSlot == \A f \in Fds : Cardinality(Holders(f)) <= 1

\* What a slot has read and what it is about to send belong to the client its
\* descriptor is connected to.
OwnReply ==
    \A f \in Fds : Open(f) => /\ http[f].req \in {None, owner[f]}
                              /\ http[f].reply \in {None, owner[f]}

\* The loop and the workers use the request queue as the thread pool offers it.
TQ == INSTANCE TaskQueue
        WITH Requests <- Fds, running <- [w \in Workers |-> worker[w].task]

UsesTaskQueue == TQ!TQSpec

\* tick closes a connection only when its own timer has expired and no thread
\* is working on it.
TickOnlyIdle ==
    [][\A f \in Fds :
          pc = "tick" /\ UNCHANGED worker /\ Open(f) /\ ~Open(f)'
            => ttl[timer[f]] = 0 /\ f \notin InFlight]_vars

\* The reactor's handshake: the queue holds no more than the request the main
\* thread waits for, that request is on its way until improv is set, and no
\* improv is left over when the main thread moves on.  timer_flag may be: the
\* worker sets it after improv, and the main thread reads it right after that.
SpinServed ==
    /\ Len(queue) <= 1
    /\ pc = "spin" => \/ http[spin].improv = 1
                      \/ \E i \in 1..Len(queue) : queue[i] = spin
                      \/ \E w \in Workers : worker[w].task = spin /\ At(w, "io")
    /\ pc # "spin" => \A f \in Fds : http[f].improv = 0

\* A connection whose client has hung up is closed in the end.
HungUpClosed ==
    \A c \in Clients :
        (net[c].st = "open" /\ net[c].eof) ~> (net[c].st = "closed" \/ Stopped)

\* As long as descriptors keep becoming free a client that has connected is
\* accepted, or turned away, in the end.  Without a free one accept() fails,
\* and a client that keeps its connection busy keeps all others waiting.
BacklogServed ==
    ([]<>(FreeFds # {})) =>
        \A c \in Clients : net[c].st = "backlog" ~> (net[c].st # "backlog" \/ Stopped)

\* The main thread's busy-wait on improv ends.
SpinEnds == pc = "spin" ~> pc # "spin"

============================================================================
