-------------------------------- MODULE Log --------------------------------
(***************************************************************************)
(* Log and its block_queue<string>: threads that call write_log and then   *)
(* flush, as the LOG_ macros do, and in asynchronous mode the thread that  *)
(* takes lines from a circular queue and writes them.  A call enters       *)
(* m_log_mutex several times; what it does inside one critical section is  *)
(* one step.  The section that only formats the line is left out.          *)
(***************************************************************************)
EXTENDS Integers, Sequences, FiniteSets

CONSTANTS
    Callers,    \* the threads that log
    QueueSize,  \* max_queue_size
    Split,      \* m_log_split_lines
    LinesEach,  \* bound: lines one caller logs
    Days,       \* bound: days that pass
    Writer, None

ASSUME SizesAssumption == QueueSize \in Nat \ {0} /\ Split \in Nat \ {0}
ASSUME BoundsAssumption == LinesEach \in Nat /\ Days \in Nat \ {0}
ASSUME CallersAssumption == IsFiniteSet(Callers)

\* A line carries its time stamp.
Lines == [by : Callers, n : 1..LinesEach, day : 1..Days]

ASSUME NoneAssumption == None \notin Lines

VARIABLES
    async,      \* m_log_is_async
    day,        \* today, for the clock
    today,      \* m_log_today
    count,      \* m_log_line_count
    fp,         \* the file behind m_log_fp: its day and its suffix, 0 for none
    out,        \* what was written: the line, its file, and whether past the queue
    flushed,    \* how many of them have left the buffer of stdio
    array, front, back, size,   \* block_queue
    pc, line,   \* where each caller is, and its line
    writer,     \* where async_write_log is
    hand,       \* its single_log
    refused,    \* lines that push did not take
    late        \* has midnight struck in the middle of a call

file == <<today, count, fp>>
ring == <<array, front, back, size>>
written == <<out, flushed>>
calls == <<pc, line>>
thread == <<writer, hand>>
clock == <<day, late>>
vars == <<async, clock, file, written, ring, calls, thread, refused>>

\* WebServer::log_write makes the log synchronous or asynchronous.
Init ==
    /\ async \in BOOLEAN
    /\ day = 1 /\ today = 1 /\ count = 0 /\ fp = [day |-> 1, part |-> 0]
    /\ out = <<>> /\ flushed = 0
    /\ array = [i \in 0..QueueSize - 1 |-> None] /\ front = -1 /\ back = -1 /\ size = 0
    /\ pc = [c \in Callers |-> "idle"]
    /\ line = [c \in Callers |-> [by |-> c, n |-> 0, day |-> 1]]
    /\ writer = IF async THEN "pop" ELSE "none"
    /\ hand = None /\ refused = {} /\ late = FALSE

Goto(c, p) == pc' = [pc EXCEPT ![c] = p]

----------------------------------------------------------------------------
(* The circular queue. *)

\* Defective: one line too many.
RingFullTooLate == size > QueueSize

RingFull == size >= QueueSize

NextSlot(i) == (i + 1) % QueueSize

Ringed(l) ==
    /\ back' = NextSlot(back)
    /\ array' = [array EXCEPT ![NextSlot(back)] = l]
    /\ size' = size + 1
    /\ UNCHANGED front

\* Defective: nobody is woken.
WakeNobody == UNCHANGED writer

Broadcast == writer' = IF writer = "asleep" THEN "pop" ELSE writer

----------------------------------------------------------------------------
(* write_log and flush. *)

\* gettimeofday.
Call(c) ==
    /\ pc[c] = "idle" /\ line[c].n < LinesEach
    /\ line' = [line EXCEPT ![c] = [by |-> c, n |-> @.n + 1, day |-> day]]
    /\ Goto(c, "count")
    /\ UNCHANGED <<async, clock, file, written, ring, thread, refused>>

\* Defective: a file nothing was counted for is kept past midnight.
NewDayIfUsed(d) == today # d /\ count > 0

NewDay(d) == today # d

Counted(d) == IF NewDay(d) THEN 0 ELSE count + 1

\* The first critical section: counting, and the change of file.
Count(c) ==
    LET d == line[c].day IN
    /\ pc[c] = "count"
    /\ today' = IF NewDay(d) THEN d ELSE today
    /\ count' = Counted(d)
    /\ IF NewDay(d) \/ (count + 1) % Split = 0
       THEN /\ fp' = [day |-> d, part |-> IF NewDay(d) THEN 0 ELSE (count + 1) \div Split]
            /\ flushed' = Len(out)
       ELSE UNCHANGED <<fp, flushed>>
    /\ Goto(c, "route")
    /\ UNCHANGED <<async, clock, out, ring, line, thread, refused>>

\* full() has the queue's lock for itself.
Route(c) ==
    /\ pc[c] = "route"
    /\ Goto(c, IF async /\ ~RingFull THEN "push" ELSE "put")
    /\ UNCHANGED <<async, clock, file, written, ring, line, thread, refused>>

\* push(), whose result nobody reads.
Push(c) ==
    /\ pc[c] = "push"
    /\ IF RingFull
       THEN refused' = refused \cup {line[c]} /\ UNCHANGED ring
       ELSE Ringed(line[c]) /\ UNCHANGED refused
    /\ Broadcast
    /\ Goto(c, "flush")
    /\ UNCHANGED <<async, clock, file, written, line, hand>>

Put(c) ==
    /\ pc[c] = "put"
    /\ out' = Append(out, [line |-> line[c], file |-> fp, direct |-> TRUE])
    /\ Goto(c, "flush")
    /\ UNCHANGED <<async, clock, file, flushed, ring, line, thread, refused>>

\* Defective: the last line stays in the buffer.
FlushedBut == IF out = <<>> THEN 0 ELSE Len(out) - 1

Flushed == Len(out)

Flush(c) ==
    /\ pc[c] = "flush"
    /\ flushed' = Flushed
    /\ Goto(c, "idle")
    /\ UNCHANGED <<async, clock, file, out, ring, line, thread, refused>>

----------------------------------------------------------------------------
(* async_write_log. *)

\* Defective: the newest line is taken.
PopNewest ==
    /\ writer = "pop" /\ size > 0
    /\ back' = (back + QueueSize - 1) % QueueSize
    /\ hand' = array[back]
    /\ size' = size - 1
    /\ writer' = "write"
    /\ UNCHANGED <<async, clock, file, written, array, front, calls, refused>>

Pop ==
    /\ writer = "pop" /\ size > 0
    /\ front' = NextSlot(front)
    /\ hand' = array[NextSlot(front)]
    /\ size' = size - 1
    /\ writer' = "write"
    /\ UNCHANGED <<async, clock, file, written, array, back, calls, refused>>

Sleep ==
    /\ writer = "pop" /\ size <= 0
    /\ writer' = "asleep"
    /\ UNCHANGED <<async, clock, file, written, ring, calls, hand, refused>>

\* pthread_cond_wait may return for no reason.
Wake ==
    /\ writer = "asleep"
    /\ writer' = "pop"
    /\ UNCHANGED <<async, clock, file, written, ring, calls, hand, refused>>

\* Written, and not flushed.
Write ==
    /\ writer = "write"
    /\ out' = Append(out, [line |-> hand, file |-> fp, direct |-> FALSE])
    /\ hand' = None
    /\ writer' = "pop"
    /\ UNCHANGED <<async, clock, file, flushed, ring, calls, refused>>

----------------------------------------------------------------------------

Midnight ==
    /\ day < Days
    /\ day' = day + 1
    /\ late' = (late \/ \E c \in Callers : pc[c] \notin {"idle", "flush"})
    /\ UNCHANGED <<async, file, written, ring, calls, thread, refused>>

Log(c) == Count(c) \/ Route(c) \/ Push(c) \/ Put(c) \/ Flush(c)

WriteLog == Pop \/ Sleep \/ Write

Next == Midnight \/ WriteLog \/ Wake \/ \E c \in Callers : Call(c) \/ Log(c)

Spec == Init /\ [][Next]_vars

\* A call goes on to its end, and so does the writing thread.
Fairness == WF_vars(WriteLog) /\ \A c \in Callers : WF_vars(Log(c))

FairSpec == Spec /\ Fairness

----------------------------------------------------------------------------
(* Correctness. *)

\* Each variable keeps its type, and the queue its bound.
TypeOK ==
    /\ async \in BOOLEAN /\ late \in BOOLEAN
    /\ day \in 1..Days /\ today \in 1..Days /\ count \in Nat
    /\ fp \in [day : 1..Days, part : Nat]
    /\ out \in Seq([line : Lines, file : [day : 1..Days, part : Nat], direct : BOOLEAN])
    /\ flushed \in 0..Len(out)
    /\ array \in [0..QueueSize - 1 -> Lines \cup {None}]
    /\ front \in -1..QueueSize - 1 /\ back \in -1..QueueSize - 1 /\ size \in 0..QueueSize
    /\ pc \in [Callers -> {"idle", "count", "route", "push", "put", "flush"}]
    /\ line \in [Callers -> [by : Callers, n : 0..LinesEach, day : 1..Days]]
    /\ writer \in {"none", "pop", "asleep", "write"}
    /\ hand \in Lines \cup {None} /\ refused \subseteq Lines

\* The lines in the queue, oldest first.
Queued == [i \in 1..size |-> array[(front + i) % QueueSize]]

InHand == IF hand = None THEN {} ELSE {hand}

\* Every line that is in the files, in the queue or with the writing thread.
Kept == {out[i].line : i \in DOMAIN out} \cup {Queued[i] : i \in DOMAIN Queued} \cup InHand

\* No line is logged twice, and none that was handed over is lost unless push
\* refused it; full() having said otherwise, that takes a second caller.
EveryLineOnce ==
    /\ Cardinality(Kept) = Len(out) + size + Cardinality(InHand)
    /\ Kept \cap refused = {}
    /\ \A c \in Callers : \A n \in 1..line[c].n :
          n < line[c].n \/ pc[c] \in {"flush", "idle"}
             => \E l \in Kept \cup refused : l.by = c /\ l.n = n
    /\ \A l \in refused : \E c \in Callers \ {l.by} : line[c].n > 0

\* The lines of one caller are written in the order it logged them, except
\* that a line which found the queue full goes before those in the queue.
OrderKept ==
    \A i, j \in DOMAIN out :
        i < j /\ out[i].line.by = out[j].line.by /\ out[i].line.n > out[j].line.n
           => async /\ out[i].direct /\ ~out[j].direct

\* When a synchronous call returns its line has left the buffer of stdio, by its
\* own fflush or the one of a change of file; what the system keeps of it is
\* another matter.
SyncDurable ==
    ~async => \A c \in Callers :
        pc[c] = "idle" /\ line[c].n > 0 => \E i \in 1..flushed : out[i].line = line[c]

\* As long as midnight does not strike in the middle of a call, a line is in
\* the file of its day, or of a later day if it had to queue, and a file has
\* no more than Split lines, besides those that were counted for the one
\* before and held back by their call or by the queue.
RightFile ==
    ~late => \A i \in DOMAIN out :
        /\ out[i].file.day >= out[i].line.day
        /\ out[i].direct => out[i].file.day = out[i].line.day
        /\ Cardinality({j \in DOMAIN out : out[j].file = out[i].file})
             <= Split + Cardinality(Callers) - 1 + (IF async THEN QueueSize + 1 ELSE 0)

\* The circular queue and the thread that empties it implement the bounded
\* first-in first-out queue, fairness included.
TQ == INSTANCE TaskQueue WITH
        Requests <- Lines, Workers <- {Writer}, MaxRequests <- QueueSize,
        queue <- Queued, running <- [w \in {Writer} |-> hand]

ImplementsTaskQueue == TQ!TQFairSpec

============================================================================
