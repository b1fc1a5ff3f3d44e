----------------------------- MODULE LogProofs -----------------------------
(***************************************************************************)
(* Log for any number of callers, any queue and any length of the files:   *)
(* its types, that a synchronous call returns with its line on the disk,   *)
(* that the circular queue is a first-in first-out queue, that every line  *)
(* is written once and each caller's in order, and in which file.          *)
(***************************************************************************)
EXTENDS Log, FiniteSetTheorems, TLAPS

USE SizesAssumption, BoundsAssumption, NoneAssumption

----------------------------------------------------------------------------
(* The circular queue. *)

LEMMA WrapOnce == ASSUME NEW x \in 0..2 * QueueSize - 1
                  PROVE  x % QueueSize = IF x < QueueSize THEN x ELSE x - QueueSize
  OBVIOUS

RingTypes ==
    /\ array \in [0..QueueSize - 1 -> Lines \cup {None}]
    /\ front \in -1..QueueSize - 1 /\ back \in -1..QueueSize - 1 /\ size \in 0..QueueSize

\* The queue's ends are its size apart, and all in between are lines.
RingShape ==
    /\ back \in {front + size, front + size - QueueSize}
    /\ Queued \in Seq(Lines)

RingOk == RingTypes /\ RingShape

LEMMA NextAt == ASSUME NEW i \in -1..QueueSize - 1
                PROVE  NextSlot(i) = IF i = QueueSize - 1 THEN 0 ELSE i + 1
  BY WrapOnce DEF NextSlot

\* push puts a line behind the others.
LEMMA RingPush == ASSUME RingOk, ~RingFull, NEW l \in Lines, Ringed(l)
                  PROVE  RingOk' /\ Queued' = Append(Queued, l)
<1> USE DEF RingOk, RingTypes, RingFull, Ringed
<1>1. NextSlot(back) \in 0..QueueSize - 1 /\ NextSlot(back) \in {front + size + 1, front + size + 1 - QueueSize}
  BY NextAt DEF RingShape
<1>2. RingTypes'
  BY <1>1
<1>3. ASSUME NEW i \in 1..size
      PROVE  (front + i) % QueueSize \in 0..QueueSize - 1 /\ (front + i) % QueueSize # NextSlot(back)
  <2> DEFINE x == front + i
  <2>1. x \in 0..2 * QueueSize - 1
    OBVIOUS
  <2>2. x % QueueSize = IF x < QueueSize THEN x ELSE x - QueueSize
    BY <2>1, WrapOnce
  <2> QED
    BY <1>1, <1>3, <2>2
<1>4. (front + size + 1) % QueueSize = NextSlot(back)
  <2> DEFINE x == front + size + 1
  <2>1. x \in 0..2 * QueueSize - 1
    OBVIOUS
  <2>2. x % QueueSize = IF x < QueueSize THEN x ELSE x - QueueSize
    BY <2>1, WrapOnce
  <2> QED
    BY <1>1, <2>2
<1>5. Queued' = Append(Queued, l)
  <2>1. \A i \in 1..size : array'[(front + i) % QueueSize] = array[(front + i) % QueueSize]
    BY <1>1, <1>3
  <2>2. array'[(front + size + 1) % QueueSize] = l
    BY <1>1, <1>4
  <2>3. Append(Queued, l) = [i \in 1..size + 1 |-> IF i = size + 1 THEN l ELSE array[(front + i) % QueueSize]]
    BY DEF Queued
  <2>4. Queued' = [i \in 1..size + 1 |-> array'[(front + i) % QueueSize]]
    BY DEF Queued
  <2>5. ASSUME NEW i \in 1..size + 1
        PROVE  array'[(front + i) % QueueSize] = IF i = size + 1 THEN l ELSE array[(front + i) % QueueSize]
    <3>1. CASE i = size + 1
      <4>1. front + i = front + size + 1
        BY <3>1
      <4> QED
        BY <2>2, <3>1, <4>1
    <3>2. CASE i \in 1..size
      <4>1. i # size + 1
        BY <3>2
      <4> HIDE DEF RingOk, RingTypes, RingFull, Ringed
      <4> QED
        BY <2>1, <3>2, <4>1
    <3> QED
      BY <3>1, <3>2
  <2> HIDE DEF RingOk, RingTypes, RingFull, Ringed
  <2> QED
    BY <2>3, <2>4, <2>5
<1>6. RingShape'
  BY <1>1, <1>5 DEF RingShape
<1> QED
  BY <1>2, <1>5, <1>6

\* pop takes the oldest line.
LEMMA RingPop == ASSUME RingOk, Pop
                 PROVE  /\ RingOk' /\ Queued # <<>>
                        /\ hand' = Head(Queued) /\ hand' \in Lines
                        /\ Queued' = Tail(Queued)
<1> USE DEF RingOk, RingTypes, Pop
<1>1. NextSlot(front) = IF front = QueueSize - 1 THEN 0 ELSE front + 1
  BY NextAt
<1>2. Queued # <<>> /\ Len(Queued) = size /\ Queued[1] \in Lines
  BY DEF Queued, RingShape
<1>3. hand' = Queued[1]
  BY DEF NextSlot, Queued
<1>4. ASSUME NEW i \in 1..size - 1
      PROVE  (NextSlot(front) + i) % QueueSize = (front + (i + 1)) % QueueSize
  <2> DEFINE x == NextSlot(front) + i
             y == front + (i + 1)
  <2>1. x \in 0..2 * QueueSize - 1 /\ y \in 0..2 * QueueSize - 1
    BY <1>1
  <2>2. x % QueueSize = IF x < QueueSize THEN x ELSE x - QueueSize
    BY <2>1, WrapOnce
  <2>3. y % QueueSize = IF y < QueueSize THEN y ELSE y - QueueSize
    BY <2>1, WrapOnce
  <2> QED
    BY <1>1, <2>2, <2>3
<1>5. Queued' = Tail(Queued)
  <2>1. size' = size - 1 /\ array' = array /\ front' = NextSlot(front)
    OBVIOUS
  <2>2. \A i \in 1..size - 1 : Tail(Queued)[i] = array[(front + (i + 1)) % QueueSize]
    BY <1>2 DEF Queued
  <2>3. Tail(Queued) = [i \in 1..size - 1 |-> array[(front + (i + 1)) % QueueSize]]
    BY <1>2, <2>2 DEF RingShape
  <2> QED
    BY <1>4, <2>1, <2>3 DEF Queued
<1>6. RingTypes'
  BY <1>1
<1>7. RingShape'
  BY <1>1, <1>2, <1>5 DEF RingShape
<1> QED
  BY <1>2, <1>3, <1>5, <1>6, <1>7

----------------------------------------------------------------------------
(* Types, with where each line is. *)

Records == [line : Lines, file : [day : 1..Days, part : Nat], direct : BOOLEAN]

InCall ==
    /\ \A c \in Callers : pc[c] # "idle" => line[c] \in Lines
    /\ IF writer = "write" THEN hand \in Lines ELSE hand = None

LogInv == TypeOK /\ RingShape /\ InCall

LEMMA LogInit == Init => LogInv
<1> SUFFICES ASSUME Init PROVE LogInv
  OBVIOUS
<1> USE DEF Init
<1>1. /\ line \in [Callers -> [by : Callers, n : 0..LinesEach, day : 1..Days]]
      /\ pc \in [Callers -> {"idle", "count", "route", "push", "put", "flush"}]
  OBVIOUS
<1>2. RingTypes
  BY DEF RingTypes
<1>3. /\ day \in 1..Days /\ today \in 1..Days /\ fp \in [day : 1..Days, part : Nat]
      /\ out = <<>> /\ flushed = 0 /\ Len(<<>>) = 0 /\ out \in Seq(Records)
  OBVIOUS
<1>4. TypeOK
  <2>1. async \in BOOLEAN /\ late \in BOOLEAN /\ count \in Nat /\ refused \subseteq Lines
    OBVIOUS
  <2>2. writer \in {"none", "pop", "asleep", "write"} /\ hand \in Lines \cup {None}
    OBVIOUS
  <2>3. flushed \in 0..Len(out)
    BY <1>3
  <2> HIDE DEF Init
  <2> QED
    BY <1>1, <1>2, <1>3, <2>1, <2>2, <2>3 DEF TypeOK, RingTypes, Records
<1>5. Queued = <<>>
  BY DEF Queued
<1> QED
  BY <1>4, <1>5 DEF LogInv, RingShape, InCall

LEMMA RingOfInv == LogInv => RingOk
  BY DEF LogInv, RingOk, RingTypes, TypeOK

\* The queue is what it was when its variables are.
LEMMA SameRing == ASSUME UNCHANGED ring PROVE Queued' = Queued /\ (RingShape => RingShape')
<1>1. Queued' = Queued
  BY DEF ring, Queued
<1> QED
  BY <1>1 DEF ring, RingShape

\* A line at the end of the file leaves those before it where they are.
LEMMA AppendRecord ==
    ASSUME TypeOK, NEW r \in Records
    PROVE  /\ Append(out, r) \in Seq(Records) /\ Len(Append(out, r)) = Len(out) + 1
           /\ \A i \in 1..Len(out) : Append(out, r)[i] = out[i]
           /\ Append(out, r)[Len(out) + 1] = r
  BY DEF TypeOK, Records

LEMMA DivNat == ASSUME NEW n \in Nat PROVE n \div Split \in Nat
<1> DEFINE q == n \div Split
<1>1. q \in Int
  OBVIOUS
<1>2. n = Split * q + (n % Split) /\ n % Split \in 0..Split - 1
  OBVIOUS
<1>3. q >= 0
  <2> SUFFICES ASSUME q <= -1 PROVE FALSE
    BY <1>1
  <2>1. Split * q <= -Split
    BY <1>1
  <2> QED
    BY <1>2, <2>1
<1> QED
  BY <1>1, <1>3

LEMMA LogNext == LogInv /\ [Next]_vars => LogInv'
<1> SUFFICES ASSUME LogInv, [Next]_vars PROVE LogInv'
  OBVIOUS
<1> USE DEF LogInv
<1>1. ASSUME NEW c \in Callers, Call(c) PROVE LogInv'
  BY <1>1, SameRing DEF Call, TypeOK, InCall, Goto, Lines, clock, file, written, ring, thread
<1>2. ASSUME NEW c \in Callers, Count(c) PROVE LogInv'
  <2>1. line[c] \in Lines /\ line[c].day \in 1..Days
    BY <1>2 DEF Count, InCall, Lines
  <2>2. (count + 1) \div Split \in Nat
    <3>1. count + 1 \in Nat
      BY DEF TypeOK
    <3> QED
      BY <3>1, DivNat
  <2>3. TypeOK'
    BY <1>2, <2>1, <2>2 DEF Count, TypeOK, Goto, Counted, NewDay, clock, ring, thread
  <2>4. InCall'
    BY <1>2, <2>1 DEF Count, TypeOK, InCall, Goto, thread
  <2> QED
    BY <1>2, <2>3, <2>4, SameRing DEF Count
<1>3. ASSUME NEW c \in Callers, Route(c) PROVE LogInv'
  BY <1>3, SameRing DEF Route, TypeOK, InCall, Goto, clock, file, written, ring, thread
<1>4. ASSUME NEW c \in Callers, Push(c) PROVE LogInv'
  <2>1. line[c] \in Lines
    BY <1>4 DEF Push, InCall
  <2>2. RingOk'
    <3>1. CASE RingFull
      BY <1>4, <3>1, SameRing, RingOfInv DEF Push, RingOk, RingTypes, ring
    <3>2. CASE ~RingFull
      BY <1>4, <2>1, <3>2, RingPush, RingOfInv DEF Push
    <3> QED
      BY <3>1, <3>2
  <2>3. InCall'
    BY <1>4 DEF Push, TypeOK, InCall, Goto, Broadcast
  <2>4. TypeOK'
    BY <1>4, <2>1, <2>2 DEF Push, TypeOK, Goto, Broadcast, clock, file, written, RingOk, RingTypes, InCall
  <2> QED
    BY <2>2, <2>3, <2>4 DEF RingOk
<1>5. ASSUME NEW c \in Callers, Put(c) PROVE LogInv'
  <2> DEFINE r == [line |-> line[c], file |-> fp, direct |-> TRUE]
  <2>1. r \in Records
    BY <1>5 DEF Put, InCall, TypeOK, Records
  <2>2. out' \in Seq(Records) /\ Len(out') = Len(out) + 1
    BY <1>5, <2>1, AppendRecord DEF Put
  <2>3. TypeOK'
    BY <1>5, <2>2 DEF Put, TypeOK, Records, Goto, clock, file, ring, thread
  <2>4. InCall'
    BY <1>5 DEF Put, TypeOK, InCall, Goto, thread
  <2> QED
    BY <1>5, <2>3, <2>4, SameRing DEF Put
<1>6. ASSUME NEW c \in Callers, Flush(c) PROVE LogInv'
  BY <1>6, SameRing DEF Flush, Flushed, TypeOK, InCall, Goto, clock, file, ring, thread
<1>7. CASE Pop
  <2>1. RingOk' /\ hand' \in Lines
    BY <1>7, RingPop, RingOfInv
  <2>2. TypeOK'
    BY <1>7, <2>1 DEF Pop, TypeOK, RingOk, RingTypes, clock, file, written, calls
  <2>3. InCall'
    BY <1>7, <2>1 DEF Pop, InCall, calls
  <2> QED
    BY <2>1, <2>2, <2>3 DEF RingOk
<1>8. CASE Sleep \/ Wake
  BY <1>8, SameRing DEF Sleep, Wake, TypeOK, InCall, clock, file, written, ring, calls
<1>9. CASE Write
  <2> DEFINE r == [line |-> hand, file |-> fp, direct |-> FALSE]
  <2>1. r \in Records
    BY <1>9 DEF Write, InCall, TypeOK, Records
  <2>2. out' \in Seq(Records) /\ Len(out') = Len(out) + 1
    BY <1>9, <2>1, AppendRecord DEF Write
  <2>3. TypeOK'
    BY <1>9, <2>2 DEF Write, TypeOK, Records, clock, file, ring, calls
  <2>4. InCall'
    BY <1>9 DEF Write, InCall, calls
  <2> QED
    BY <1>9, <2>3, <2>4, SameRing DEF Write
<1>10. CASE Midnight
  BY <1>10, SameRing DEF Midnight, TypeOK, InCall, file, written, ring, calls, thread
<1>11. CASE UNCHANGED vars
  BY <1>11, SameRing DEF vars, TypeOK, InCall, clock, file, written, ring, calls, thread
<1> QED
  BY <1>1, <1>2, <1>3, <1>4, <1>5, <1>6, <1>7, <1>8, <1>9, <1>10, <1>11
  DEF Next, WriteLog, Log

LEMMA LogInvariance == Spec => []LogInv
  BY LogInit, LogNext, PTL DEF Spec

\* Every variable of the log keeps its type, and the queue its bound.
THEOREM LogTypeCorrect == Spec => []TypeOK
  BY LogInvariance, PTL DEF LogInv

----------------------------------------------------------------------------
(* The synchronous log. *)

\* A line that its call has put is in the files, and flushed when the call is
\* over; nothing goes to the queue.
InFiles(c, n) == \E i \in 1..n : out[i].line = line[c]

DurableInv ==
    ~async => \A c \in Callers :
        /\ pc[c] # "push"
        /\ pc[c] = "flush" => InFiles(c, Len(out))
        /\ pc[c] = "idle" /\ line[c].n > 0 => InFiles(c, flushed)

\* What is in the files stays there.
LEMMA FilesGrow ==
    ASSUME TypeOK, TypeOK', NEW c \in Callers, line'[c] = line[c],
           Len(out) <= Len(out'), \A i \in 1..Len(out) : out'[i] = out[i],
           flushed <= flushed'
    PROVE  /\ InFiles(c, Len(out)) => InFiles(c, Len(out))'
           /\ InFiles(c, flushed) => InFiles(c, flushed)'
<1>1. Len(out) \in Nat /\ flushed \in 0..Len(out)
  <2>1. out \in Seq(Records) /\ flushed \in 0..Len(out)
    BY DEF TypeOK, Records
  <2> QED
    BY <2>1
<1>2. Len(out') \in Nat /\ flushed' \in 0..Len(out')
  <2>1. out' \in Seq(Records) /\ flushed' \in 0..Len(out')
    BY DEF TypeOK, Records
  <2> QED
    BY <2>1
<1> QED
  BY <1>1, <1>2 DEF InFiles

\* A step that leaves a caller alone and writes behind what is written.
LEMMA OthersDurable ==
    ASSUME TypeOK, TypeOK', DurableInv, async' = async, NEW S \in SUBSET Callers,
           \A c \in S : line'[c] = line[c] /\ pc'[c] = pc[c],
           Len(out) <= Len(out'), \A i \in 1..Len(out) : out'[i] = out[i],
           flushed <= flushed'
    PROVE  ~async' => \A c \in S :
             /\ pc'[c] # "push"
             /\ pc'[c] = "flush" => InFiles(c, Len(out))'
             /\ pc'[c] = "idle" /\ line'[c].n > 0 => InFiles(c, flushed)'
<1> SUFFICES ASSUME ~async, NEW c \in S
             PROVE  /\ pc'[c] # "push"
                    /\ pc'[c] = "flush" => InFiles(c, Len(out))'
                    /\ pc'[c] = "idle" /\ line'[c].n > 0 => InFiles(c, flushed)'
  OBVIOUS
<1>1. c \in Callers
  OBVIOUS
<1>2. line'[c] = line[c] /\ pc'[c] = pc[c]
  OBVIOUS
<1>3. (InFiles(c, Len(out)) => InFiles(c, Len(out))') /\ (InFiles(c, flushed) => InFiles(c, flushed)')
  BY <1>1, <1>2, FilesGrow
<1> QED
  BY <1>1, <1>2, <1>3 DEF DurableInv

LEMMA DurableNext == LogInv /\ LogInv' /\ DurableInv /\ [Next]_vars => DurableInv'
<1> SUFFICES ASSUME TypeOK, TypeOK', InCall, DurableInv, [Next]_vars PROVE DurableInv'
  BY DEF LogInv
<1>0. Len(out) \in Nat /\ flushed \in 0..Len(out)
  BY DEF TypeOK
<1>1. ASSUME NEW c \in Callers,
             \A o \in Callers \ {c} : line'[o] = line[o] /\ pc'[o] = pc[o],
             async' = async, Len(out) <= Len(out'), \A i \in 1..Len(out) : out'[i] = out[i],
             flushed <= flushed',
             ~async => /\ pc'[c] # "push"
                       /\ pc'[c] = "flush" => InFiles(c, Len(out))'
                       /\ pc'[c] = "idle" /\ line'[c].n > 0 => InFiles(c, flushed)'
      PROVE  DurableInv'
  BY <1>1, OthersDurable DEF DurableInv
<1>2. ASSUME UNCHANGED calls, async' = async, Len(out) <= Len(out'),
             \A i \in 1..Len(out) : out'[i] = out[i], flushed <= flushed'
      PROVE  DurableInv'
  BY <1>2, OthersDurable DEF DurableInv, calls
<1>3. ASSUME NEW c \in Callers, Call(c) PROVE DurableInv'
  BY <1>0, <1>1, <1>3 DEF Call, Goto, TypeOK, written
<1>4. ASSUME NEW c \in Callers, Count(c) PROVE DurableInv'
  <2>1. flushed <= flushed' /\ out' = out
    BY <1>0, <1>4 DEF Count
  <2> QED
    BY <1>0, <1>1, <1>4, <2>1 DEF Count, Goto, TypeOK
<1>5. ASSUME NEW c \in Callers, Route(c) PROVE DurableInv'
  BY <1>0, <1>1, <1>5 DEF Route, Goto, TypeOK, written
<1>6. ASSUME NEW c \in Callers, Push(c) PROVE DurableInv'
  BY <1>0, <1>1, <1>6 DEF Push, Goto, TypeOK, written, DurableInv
<1>7. ASSUME NEW c \in Callers, Put(c) PROVE DurableInv'
  <2> DEFINE r == [line |-> line[c], file |-> fp, direct |-> TRUE]
  <2>1. r \in Records
    BY <1>7 DEF Put, InCall, TypeOK, Records
  <2>2. Len(out') = Len(out) + 1 /\ (\A i \in 1..Len(out) : out'[i] = out[i]) /\ out'[Len(out) + 1] = r
    BY <1>7, <2>1, AppendRecord DEF Put
  <2>3. InFiles(c, Len(out))'
    BY <1>0, <1>7, <2>2 DEF Put, InFiles
  <2> QED
    BY <1>0, <1>1, <1>7, <2>2, <2>3 DEF Put, Goto, TypeOK
<1>8. ASSUME NEW c \in Callers, Flush(c) PROVE DurableInv'
  <2>1. ~async => InFiles(c, flushed)'
    BY <1>8 DEF Flush, Flushed, DurableInv, InFiles
  <2> QED
    BY <1>0, <1>1, <1>8, <2>1 DEF Flush, Flushed, Goto, TypeOK
<1>9. CASE Pop \/ Sleep \/ Wake \/ Midnight \/ UNCHANGED vars
  BY <1>0, <1>2, <1>9 DEF Pop, Sleep, Wake, Midnight, vars, written
<1>10. CASE Write
  <2> DEFINE r == [line |-> hand, file |-> fp, direct |-> FALSE]
  <2>1. r \in Records
    BY <1>10 DEF Write, InCall, TypeOK, Records
  <2>2. Len(out') = Len(out) + 1 /\ \A i \in 1..Len(out) : out'[i] = out[i]
    BY <1>10, <2>1, AppendRecord DEF Write
  <2> QED
    BY <1>0, <1>2, <1>10, <2>2 DEF Write
<1> QED
  BY <1>3, <1>4, <1>5, <1>6, <1>7, <1>8, <1>9, <1>10 DEF Next, WriteLog, Log

\* A synchronous call returns with its line flushed, whatever the other
\* callers do in between and however often the file is changed.
THEOREM SyncCallsAreDurable == Spec => []SyncDurable
<1>1. Init => DurableInv
  BY DEF Init, DurableInv
<1>2. DurableInv => SyncDurable
  BY DEF DurableInv, SyncDurable, InFiles
<1> QED
  BY <1>1, <1>2, DurableNext, LogInvariance, PTL DEF Spec

----------------------------------------------------------------------------
(* The queue as the caller sees it. *)

LEMMA QueueInit == Init => TQ!TQInit
<1> SUFFICES ASSUME Init PROVE TQ!TQInit
  OBVIOUS
<1>1. Queued = <<>>
  BY DEF Init, Queued
<1>2. hand = None
  BY DEF Init
<1> QED
  BY <1>1, <1>2 DEF TQ!TQInit

LEMMA QueueNext == LogInv /\ [Next]_vars => [TQ!TQNext]_TQ!tqvars
<1> SUFFICES ASSUME LogInv, [Next]_vars PROVE [TQ!TQNext]_TQ!tqvars
  OBVIOUS
<1>1. ASSUME UNCHANGED ring, UNCHANGED hand PROVE UNCHANGED TQ!tqvars
  BY <1>1, SameRing DEF TQ!tqvars
<1>2. Len(Queued) = size
  BY DEF Queued, LogInv, RingShape, TypeOK
<1>3. ASSUME NEW c \in Callers, Push(c) PROVE [TQ!TQNext]_TQ!tqvars
  <2>1. CASE RingFull
    BY <1>1, <1>3, <2>1 DEF Push
  <2>2. CASE ~RingFull
    <3>1. line[c] \in Lines
      BY <1>3 DEF Push, LogInv, InCall
    <3>2. Queued' = Append(Queued, line[c]) /\ size < QueueSize
      BY <1>3, <2>2, <3>1, RingPush, RingOfInv DEF Push, RingFull, LogInv, TypeOK
    <3>3. TQ!Accept(line[c])
      BY <1>2, <1>3, <3>2 DEF Push, TQ!Accept
    <3> QED
      BY <3>1, <3>3 DEF TQ!TQNext
  <2> QED
    BY <2>1, <2>2
<1>4. ASSUME Pop PROVE [TQ!TQNext]_TQ!tqvars
  <2>1. Queued # <<>> /\ hand' = Head(Queued) /\ Queued' = Tail(Queued)
    BY <1>4, RingPop, RingOfInv
  <2>2. hand = None
    BY <1>4 DEF Pop, LogInv, InCall
  <2>3. TQ!Start(Writer)
    BY <2>1, <2>2 DEF TQ!Start
  <2> QED
    BY <2>3 DEF TQ!TQNext
<1>5. ASSUME Write PROVE [TQ!TQNext]_TQ!tqvars
  <2>1. hand # None
    BY <1>5 DEF Write, LogInv, InCall
  <2>2. hand' = None /\ Queued' = Queued
    BY <1>5, SameRing DEF Write
  <2>3. TQ!Complete(Writer)
    BY <2>1, <2>2 DEF TQ!Complete
  <2> QED
    BY <2>3 DEF TQ!TQNext
<1>6. ASSUME NEW c \in Callers, Call(c) \/ Count(c) \/ Route(c) \/ Put(c) \/ Flush(c)
      PROVE  UNCHANGED TQ!tqvars
  BY <1>1, <1>6 DEF Call, Count, Route, Put, Flush, thread
<1>7. CASE Sleep \/ Wake \/ Midnight \/ UNCHANGED vars
  BY <1>1, <1>7 DEF Sleep, Wake, Midnight, vars, thread
<1> QED
  BY <1>3, <1>4, <1>5, <1>6, <1>7 DEF Next, WriteLog, Log

\* Every step of the log is a step of the abstract first-in first-out queue or
\* leaves it unchanged, for a circular queue of any length.
THEOREM LogRefinement == Spec => TQ!TQSpec
  BY QueueInit, QueueNext, LogInvariance, PTL DEF Spec, TQ!TQSpec

----------------------------------------------------------------------------
(* Where the lines are. *)

\* Where a caller still holds its line.
Handing == {"count", "route", "push", "put"}

\* The lines that are on their way to the files.
Waiting == {Queued[i] : i \in DOMAIN Queued} \cup InHand

\* Only an asynchronous log uses the queue and its thread.
Mode ==
    /\ writer = "none" <=> ~async
    /\ ~async => size = 0
    /\ \A c \in Callers : pc[c] = "push" => async

\* A caller's line bears its name, and what it has handed over is older than
\* what it holds.
Past ==
    /\ \A c \in Callers : line[c].by = c
    /\ \A l \in Kept \cup refused :
          /\ l.n <= line[l.by].n
          /\ pc[l.by] \in Handing => l.n < line[l.by].n

LEMMA ModeInvariance == Spec => []Mode
<1>1. Init => Mode
  BY DEF Init, Mode
<1>2. LogInv /\ Mode /\ [Next]_vars => Mode'
  <2> SUFFICES ASSUME LogInv, Mode, [Next]_vars PROVE Mode'
    OBVIOUS
  <2> USE DEF Mode
  <2>1. ASSUME NEW c \in Callers, Call(c) \/ Count(c) \/ Put(c) \/ Flush(c) PROVE Mode'
    BY <2>1 DEF Call, Count, Put, Flush, Goto, LogInv, TypeOK, ring, thread
  <2>2. ASSUME NEW c \in Callers, Route(c) PROVE Mode'
    BY <2>2 DEF Route, Goto, LogInv, TypeOK, ring, thread
  <2>3. ASSUME NEW c \in Callers, Push(c) PROVE Mode'
    BY <2>3 DEF Push, Broadcast, Goto, LogInv, TypeOK, ring
  <2>4. CASE Pop \/ Sleep \/ Wake \/ Write \/ Midnight \/ UNCHANGED vars
    BY <2>4 DEF Pop, Sleep, Wake, Write, Midnight, vars, LogInv, TypeOK, ring, calls, thread
  <2> QED
    BY <2>1, <2>2, <2>3, <2>4 DEF Next, WriteLog, Log
<1> QED
  BY <1>1, <1>2, LogInvariance, PTL DEF Spec

LEMMA Domains == LogInv => DOMAIN Queued = 1..size /\ DOMAIN out = 1..Len(out) /\ Len(out) \in Nat
  BY DEF LogInv, TypeOK, Queued

LEMMA LinesKept == LogInv => Kept \subseteq Lines /\ Waiting \subseteq Kept /\ refused \subseteq Lines
<1> SUFFICES ASSUME LogInv PROVE Kept \subseteq Lines /\ Waiting \subseteq Kept /\ refused \subseteq Lines
  OBVIOUS
<1>1. \A i \in DOMAIN out : out[i].line \in Lines
  <2>1. out \in Seq(Records)
    BY DEF LogInv, TypeOK, Records
  <2>2. \A i \in DOMAIN out : out[i] \in Records
    BY <2>1
  <2> QED
    BY <2>2 DEF Records
<1>2. \A i \in DOMAIN Queued : Queued[i] \in Lines
  <2>1. Queued \in Seq(Lines)
    BY DEF LogInv, RingShape
  <2> QED
    BY <2>1
<1>3. InHand \subseteq Lines
  BY DEF LogInv, TypeOK, InHand
<1> QED
  BY <1>1, <1>2, <1>3 DEF Kept, Waiting, LogInv, TypeOK

\* A step that leaves the files, the queue and the hand alone.
LEMMA Untouched ==
    ASSUME out' = out, UNCHANGED ring, hand' = hand
    PROVE  Kept' = Kept /\ Waiting' = Waiting /\ Queued' = Queued /\ InHand' = InHand
  BY SameRing DEF Kept, Waiting, InHand

\* A line goes from its caller to the queue.
LEMMA Accepted ==
    ASSUME LogInv, NEW c \in Callers, Push(c), ~RingFull
    PROVE  /\ line[c] \in Lines /\ Queued' = Append(Queued, line[c])
           /\ Kept' = Kept \cup {line[c]} /\ Waiting' = Waiting \cup {line[c]}
           /\ InHand' = InHand /\ refused' = refused /\ out' = out
<1>1. line[c] \in Lines
  BY DEF Push, LogInv, InCall
<1>2. Queued' = Append(Queued, line[c])
  BY <1>1, RingPush, RingOfInv DEF Push
<1>3. out' = out /\ hand' = hand /\ refused' = refused
  BY DEF Push, written
<1>4. {Queued[i] : i \in DOMAIN Queued}' = {Queued[i] : i \in DOMAIN Queued} \cup {line[c]}
  <2>1. Queued \in Seq(Lines)
    BY DEF LogInv, RingShape
  <2> DEFINE q == Append(Queued, line[c])
  <2>2. DOMAIN q = DOMAIN Queued \cup {Len(Queued) + 1} /\ q[Len(Queued) + 1] = line[c]
        /\ \A i \in DOMAIN Queued : q[i] = Queued[i]
    BY <1>1, <2>1
  <2>3. {Queued[i] : i \in DOMAIN Queued}' = {q[i] : i \in DOMAIN q}
    BY <1>2
  <2> HIDE DEF q
  <2> QED
    BY <2>2, <2>3
<1> QED
  BY <1>1, <1>2, <1>3, <1>4 DEF Kept, Waiting, InHand

\* A line goes from its caller past the queue to the files.
LEMMA PutDown ==
    ASSUME LogInv, NEW c \in Callers, Put(c)
    PROVE  /\ line[c] \in Lines /\ Queued' = Queued /\ InHand' = InHand
           /\ Len(out') = Len(out) + 1 /\ \A i \in 1..Len(out) : out'[i] = out[i]
           /\ out'[Len(out) + 1] = [line |-> line[c], file |-> fp, direct |-> TRUE]
           /\ Kept' = Kept \cup {line[c]} /\ Waiting' = Waiting /\ refused' = refused
<1> DEFINE r == [line |-> line[c], file |-> fp, direct |-> TRUE]
<1>1. line[c] \in Lines
  BY DEF Put, LogInv, InCall
<1>2. r \in Records /\ out' = Append(out, r)
  BY <1>1 DEF Put, LogInv, TypeOK, Records
<1>3. Len(out') = Len(out) + 1 /\ (\A i \in 1..Len(out) : out'[i] = out[i]) /\ out'[Len(out) + 1] = r
  BY <1>2, AppendRecord DEF LogInv
<1>4. Queued' = Queued /\ hand' = hand /\ refused' = refused
  BY SameRing DEF Put, thread
<1>5. {out[i].line : i \in DOMAIN out}' = {out[i].line : i \in DOMAIN out} \cup {line[c]}
  <2>1. DOMAIN out = 1..Len(out) /\ Len(out) \in Nat
    BY Domains
  <2>2. DOMAIN out' = 1..Len(out) + 1
    BY <1>2 DEF LogInv, TypeOK
  <2>3. r.line = line[c]
    OBVIOUS
  <2> HIDE DEF r
  <2> QED
    BY <1>3, <2>1, <2>2, <2>3
<1> QED
  BY <1>1, <1>3, <1>4, <1>5 DEF Kept, Waiting, InHand

\* The oldest line goes from the queue to the thread.
LEMMA TakenOut ==
    ASSUME LogInv, Pop
    PROVE  /\ Queued # <<>> /\ Queued' = Tail(Queued) /\ InHand' = {Queued[1]} /\ InHand = {}
           /\ Kept' = Kept /\ Waiting' = Waiting /\ refused' = refused /\ out' = out
<1>1. Queued # <<>> /\ Queued' = Tail(Queued) /\ hand' = Queued[1] /\ hand' \in Lines
  BY RingPop, RingOfInv
<1>2. hand = None /\ out' = out /\ refused' = refused
  BY DEF Pop, LogInv, InCall, written
<1>3. InHand' = {Queued[1]} /\ InHand = {}
  BY <1>1, <1>2 DEF InHand
<1>4. {Queued[i] : i \in DOMAIN Queued} = {Queued[i] : i \in DOMAIN Queued}' \cup {Queued[1]}
  <2>1. Queued \in Seq(Lines)
    BY DEF LogInv, RingShape
  <2> DEFINE q == Tail(Queued)
  <2>2. DOMAIN q = 1..Len(Queued) - 1 /\ \A i \in DOMAIN q : q[i] = Queued[i + 1]
    BY <1>1, <2>1
  <2>3. DOMAIN Queued = 1..Len(Queued) /\ Len(Queued) \in Nat /\ 1 \in DOMAIN Queued
    BY <1>1, <2>1
  <2>4. {Queued[i] : i \in DOMAIN Queued}' = {q[i] : i \in DOMAIN q}
    BY <1>1
  <2> HIDE DEF q
  <2>5. ASSUME NEW i \in DOMAIN Queued, i # 1 PROVE \E j \in DOMAIN q : q[j] = Queued[i]
    <3>1. i - 1 \in DOMAIN q /\ (i - 1) + 1 = i
      BY <2>2, <2>3, <2>5
    <3> QED
      BY <2>2, <3>1
  <2>6. \A j \in DOMAIN q : \E i \in DOMAIN Queued : q[j] = Queued[i]
    BY <2>2, <2>3
  <2>7. \A x : (\E i \in DOMAIN Queued : x = Queued[i]) <=> (x = Queued[1] \/ \E j \in DOMAIN q : x = q[j])
    <3>1. 1 \in DOMAIN Queued
      BY <2>3
    <3> QED
      BY <3>1, <2>5, <2>6
  <2>8. \A x : x \in {Queued[i] : i \in DOMAIN Queued}
               <=> x \in {q[i] : i \in DOMAIN q} \cup {Queued[1]}
    BY <2>7
  <2>9. {Queued[i] : i \in DOMAIN Queued} = {q[i] : i \in DOMAIN q} \cup {Queued[1]}
    BY <2>8
  <2> QED
    BY <2>4, <2>9
<1> QED
  BY <1>1, <1>2, <1>3, <1>4 DEF Kept, Waiting

\* The thread's line goes to the files.
LEMMA WrittenDown ==
    ASSUME LogInv, Write
    PROVE  /\ hand \in Lines /\ InHand = {hand} /\ InHand' = {} /\ Queued' = Queued
           /\ Len(out') = Len(out) + 1 /\ \A i \in 1..Len(out) : out'[i] = out[i]
           /\ out'[Len(out) + 1] = [line |-> hand, file |-> fp, direct |-> FALSE]
           /\ Kept' = Kept /\ Waiting' = {Queued[i] : i \in DOMAIN Queued} /\ refused' = refused
<1> DEFINE r == [line |-> hand, file |-> fp, direct |-> FALSE]
<1>1. hand \in Lines /\ hand # None
  BY DEF Write, LogInv, InCall
<1>2. r \in Records /\ out' = Append(out, r)
  BY <1>1 DEF Write, LogInv, TypeOK, Records
<1>3. Len(out') = Len(out) + 1 /\ (\A i \in 1..Len(out) : out'[i] = out[i]) /\ out'[Len(out) + 1] = r
  BY <1>2, AppendRecord DEF LogInv
<1>4. Queued' = Queued /\ hand' = None /\ refused' = refused
  BY SameRing DEF Write
<1>5. {out[i].line : i \in DOMAIN out}' = {out[i].line : i \in DOMAIN out} \cup {hand}
  <2>1. DOMAIN out = 1..Len(out) /\ Len(out) \in Nat
    BY Domains
  <2>2. DOMAIN out' = 1..Len(out) + 1
    BY <1>2 DEF LogInv, TypeOK
  <2>3. r.line = hand
    OBVIOUS
  <2> HIDE DEF r
  <2> QED
    BY <1>3, <2>1, <2>2, <2>3
<1>6. InHand = {hand} /\ InHand' = {}
  BY <1>1, <1>4 DEF InHand
<1> QED
  BY <1>1, <1>3, <1>4, <1>5, <1>6 DEF Kept, Waiting

\* A step by which only one caller moves, and hands over no line but its own.
LEMMA PastStep ==
    ASSUME LogInv, Past, NEW c \in Callers,
           \A o \in Callers : line'[o] = line[o] /\ (o # c => pc'[o] = pc[o]),
           \/ /\ pc[c] \in Handing /\ pc'[c] \notin Handing /\ line[c] \in Lines
              /\ Kept' \cup refused' \subseteq Kept \cup refused \cup {line[c]}
           \/ /\ pc'[c] \in Handing => pc[c] \in Handing
              /\ Kept' \cup refused' \subseteq Kept \cup refused
    PROVE  Past'
<1>1. \A o \in Callers : line'[o].by = o
  BY DEF Past
<1>2. ASSUME NEW l \in Kept' \cup refused'
      PROVE  l.n <= line'[l.by].n /\ (pc'[l.by] \in Handing => l.n < line'[l.by].n)
  <2>1. CASE l \in Kept \cup refused
    <3>1. l.by \in Callers
      BY <2>1, LinesKept DEF Lines
    <3> QED
      BY <2>1, <3>1 DEF Past
  <2>2. CASE l = line[c] /\ pc'[c] \notin Handing
    <3>1. l.by = c /\ line[c].n \in Int /\ line'[c] = line[c]
      BY <2>2 DEF Past, LogInv, TypeOK
    <3> QED
      BY <2>2, <3>1
  <2> QED
    BY <1>2, <2>1, <2>2
<1> QED
  BY <1>1, <1>2 DEF Past

LEMMA PastInvariance == Spec => []Past
<1>1. Init => Past
  <2> SUFFICES ASSUME Init PROVE Past
    OBVIOUS
  <2>1. Queued = <<>> /\ out = <<>> /\ InHand = {} /\ refused = {}
    BY DEF Init, Queued, InHand
  <2>2. Kept \cup refused = {}
    BY <2>1 DEF Kept
  <2>3. \A c \in Callers : line[c].by = c
    BY DEF Init
  <2> QED
    BY <2>2, <2>3 DEF Past
<1>2. LogInv /\ Past /\ [Next]_vars => Past'
  <2> SUFFICES ASSUME LogInv, Past, [Next]_vars PROVE Past'
    OBVIOUS
  <2>1. ASSUME NEW c \in Callers, Call(c) PROVE Past'
    <3>1. Kept' = Kept /\ refused' = refused
      BY <2>1, Untouched DEF Call, written, thread
    <3>2. line' = [line EXCEPT ![c] = [by |-> c, n |-> line[c].n + 1, day |-> day]]
          /\ pc' = [pc EXCEPT ![c] = "count"]
      BY <2>1 DEF Call, Goto
    <3>3. \A o \in Callers : line'[o].by = o
      BY <3>2 DEF Past, LogInv, TypeOK
    <3>4. ASSUME NEW l \in Kept \cup refused
          PROVE  l.n <= line'[l.by].n /\ (pc'[l.by] \in Handing => l.n < line'[l.by].n)
      <4>1. l.by \in Callers /\ l.n \in Int
        BY LinesKept DEF Lines
      <4>2. CASE l.by = c
        <5>1. l.n <= line[c].n /\ line[c].n \in Int /\ line'[c].n = line[c].n + 1
          BY <3>2, <4>2 DEF Past, LogInv, TypeOK
        <5> QED
          BY <4>1, <4>2, <5>1
      <4>3. CASE l.by # c
        <5>1. line'[l.by] = line[l.by] /\ pc'[l.by] = pc[l.by]
          BY <3>2, <4>1, <4>3 DEF LogInv, TypeOK
        <5> QED
          BY <5>1 DEF Past
      <4> QED
        BY <4>2, <4>3
    <3> QED
      BY <3>1, <3>3, <3>4 DEF Past
  <2>2. ASSUME NEW c \in Callers, Count(c) \/ Route(c) \/ Flush(c) PROVE Past'
    <3>1. Kept' = Kept /\ refused' = refused
      BY <2>2, Untouched DEF Count, Route, Flush, written, thread
    <3>2. line' = line /\ \A o \in Callers : o # c => pc'[o] = pc[o]
      BY <2>2 DEF Count, Route, Flush, Goto, LogInv, TypeOK
    <3>3. pc'[c] \in Handing => pc[c] \in Handing
      BY <2>2 DEF Count, Route, Flush, Goto, LogInv, TypeOK, Handing
    <3>4. (\A o \in Callers : line'[o] = line[o] /\ (o # c => pc'[o] = pc[o])) /\ Kept' \cup refused' \subseteq Kept \cup refused
      BY <3>1, <3>2
    <3> QED
      BY <3>3, <3>4, PastStep
  <2>3. ASSUME NEW c \in Callers, Push(c) \/ Put(c) PROVE Past'
    <3>1. line' = line /\ (\A o \in Callers : o # c => pc'[o] = pc[o])
          /\ pc[c] \in Handing /\ pc'[c] = "flush"
      BY <2>3 DEF Push, Put, Goto, LogInv, TypeOK, Handing
    <3>2. line[c] \in Lines
      BY <2>3 DEF Push, Put, LogInv, InCall
    <3>3. Kept' \cup refused' \subseteq Kept \cup refused \cup {line[c]}
      <4>1. CASE Push(c) /\ RingFull
        BY <4>1, Untouched DEF Push, written
      <4>2. CASE Push(c) /\ ~RingFull
        BY <4>2, Accepted
      <4>3. CASE Put(c)
        BY <4>3, PutDown
      <4> QED
        BY <2>3, <4>1, <4>2, <4>3
    <3>4. "flush" \notin Handing
      BY DEF Handing
    <3> QED
      BY <3>1, <3>2, <3>3, <3>4, PastStep
  <2>4. ASSUME UNCHANGED calls, Kept' = Kept, refused' = refused PROVE Past'
    BY <2>4 DEF calls, Past
  <2>5. CASE Pop \/ Write
    BY <2>4, <2>5, TakenOut, WrittenDown DEF Pop, Write
  <2>6. CASE Sleep \/ Wake \/ Midnight \/ UNCHANGED vars
    BY <2>4, <2>6, Untouched DEF Sleep, Wake, Midnight, vars, written, thread
  <2> QED
    BY <2>1, <2>2, <2>3, <2>5, <2>6 DEF Next, WriteLog, Log
<1> QED
  BY <1>1, <1>2, LogInvariance, PTL DEF Spec

----------------------------------------------------------------------------
(* The order of one caller's lines. *)

Behind(k, l) == k.by = l.by => k.n < l.n

QueueInOrder == \A i, j \in DOMAIN Queued : i < j => Behind(Queued[i], Queued[j])

HandIsOldest == \A h \in InHand : \A i \in DOMAIN Queued : Behind(h, Queued[i])

\* What went through the queue is older than what is in it; what went past it
\* is at least another line.
FilesFirst == \A i \in DOMAIN out : \A l \in Waiting :
    /\ ~(out[i].line.by = l.by /\ out[i].line.n = l.n)
    /\ out[i].direct \/ Behind(out[i].line, l)

FilesInOrder == \A i, j \in DOMAIN out : i < j =>
    \/ Behind(out[i].line, out[j].line)
    \/ async /\ out[i].direct /\ ~out[j].direct /\ Behind(out[j].line, out[i].line)

InOrder == QueueInOrder /\ HandIsOldest /\ FilesFirst /\ FilesInOrder

\* All that is kept is older than the line a caller is about to hand over.
LEMMA AllBehind ==
    ASSUME LogInv, Past, NEW c \in Callers, pc[c] \in {"push", "put"}, NEW l \in Kept
    PROVE  Behind(l, line[c])
<1>1. l.by = c => l.n < line[c].n
  BY DEF Past, Handing
<1> QED
  BY <1>1 DEF Past, Behind

LEMMA OrderPush ==
    ASSUME LogInv, LogInv', Past, InOrder, NEW c \in Callers, Push(c), ~RingFull
    PROVE  InOrder'
<1>1. /\ line[c] \in Lines /\ Queued' = Append(Queued, line[c])
      /\ Waiting' = Waiting \cup {line[c]} /\ InHand' = InHand /\ out' = out /\ async' = async
  BY Accepted DEF Push
<1>2. \A l \in Kept : Behind(l, line[c])
  BY AllBehind DEF Push
<1>3. \A i \in DOMAIN Queued : Queued[i] \in Kept
  BY DEF Kept
<1>4. DOMAIN Queued = 1..size /\ size \in Nat /\ DOMAIN Queued' = 1..size + 1
      /\ Queued'[size + 1] = line[c] /\ \A i \in 1..size : Queued'[i] = Queued[i]
  <2>1. Queued \in Seq(Lines) /\ Len(Queued) = size
    BY DEF LogInv, RingShape, TypeOK, Queued
  <2>2. DOMAIN Queued = 1..size /\ size \in Nat
    BY <2>1
  <2> QED
    BY <1>1, <2>1, <2>2
<1>5. QueueInOrder'
  <2> SUFFICES ASSUME NEW i \in DOMAIN Queued', NEW j \in DOMAIN Queued', i < j
               PROVE  Behind(Queued'[i], Queued'[j])
    BY DEF QueueInOrder
  <2>1. i \in 1..size /\ Queued'[i] = Queued[i]
    BY <1>4
  <2>2. CASE j \in 1..size
    BY <1>4, <2>1, <2>2 DEF InOrder, QueueInOrder
  <2>3. CASE j = size + 1
    BY <1>2, <1>3, <1>4, <2>1, <2>3
  <2> QED
    BY <1>4, <2>2, <2>3
<1>6. HandIsOldest'
  <2> SUFFICES ASSUME NEW h \in InHand, NEW i \in 1..size + 1 PROVE Behind(h, Queued'[i])
    BY <1>1, <1>4 DEF HandIsOldest
  <2>1. h \in Kept
    BY DEF Kept
  <2>2. CASE i \in 1..size
    BY <1>4, <2>2 DEF InOrder, HandIsOldest
  <2>3. CASE i = size + 1
    BY <1>2, <1>4, <2>1, <2>3
  <2> QED
    BY <1>4, <2>2, <2>3
<1>7. FilesFirst'
  <2>1. ASSUME NEW i \in DOMAIN out
        PROVE  ~(out[i].line.by = line[c].by /\ out[i].line.n = line[c].n) /\ Behind(out[i].line, line[c])
    <3>1. out[i].line \in Kept
      BY DEF Kept
    <3>2. Behind(out[i].line, line[c]) /\ out[i].line.n \in Int /\ line[c].n \in Int
      BY <1>1, <1>2, <3>1, LinesKept DEF Lines
    <3> QED
      BY <3>2 DEF Behind
  <2> QED
    BY <1>1, <2>1 DEF InOrder, FilesFirst
<1>8. FilesInOrder'
  BY <1>1 DEF InOrder, FilesInOrder
<1> QED
  BY <1>5, <1>6, <1>7, <1>8 DEF InOrder

\* A record that goes to the end of the files.
LEMMA OrderAppended ==
    ASSUME LogInv, LogInv', InOrder, async' = async, Len(out') = Len(out) + 1,
           \A i \in 1..Len(out) : out'[i] = out[i],
           \A i \in 1..Len(out) :
              \/ Behind(out[i].line, out'[Len(out) + 1].line)
              \/ /\ async /\ out[i].direct /\ ~out'[Len(out) + 1].direct
                 /\ Behind(out'[Len(out) + 1].line, out[i].line)
    PROVE  FilesInOrder'
<1>1. DOMAIN out = 1..Len(out) /\ Len(out) \in Nat /\ DOMAIN out' = 1..Len(out) + 1
  BY DEF LogInv, TypeOK
<1> SUFFICES ASSUME NEW i \in DOMAIN out', NEW j \in DOMAIN out', i < j
             PROVE  \/ Behind(out'[i].line, out'[j].line)
                    \/ async /\ out'[i].direct /\ ~out'[j].direct /\ Behind(out'[j].line, out'[i].line)
  BY DEF FilesInOrder
<1>2. i \in 1..Len(out) /\ out'[i] = out[i]
  BY <1>1
<1>3. CASE j \in 1..Len(out)
  BY <1>1, <1>2, <1>3 DEF InOrder, FilesInOrder
<1>4. CASE j = Len(out) + 1
  BY <1>2, <1>4
<1> QED
  BY <1>1, <1>3, <1>4

LEMMA OrderPut ==
    ASSUME LogInv, LogInv', Past, InOrder, NEW c \in Callers, Put(c)
    PROVE  InOrder'
<1> DEFINE m == Len(out) + 1
<1>1. /\ line[c] \in Lines /\ Queued' = Queued /\ InHand' = InHand /\ Waiting' = Waiting
      /\ Len(out') = m /\ \A i \in 1..Len(out) : out'[i] = out[i]
      /\ out'[m].line = line[c] /\ out'[m].direct
  <2>1. out'[m] = [line |-> line[c], file |-> fp, direct |-> TRUE]
    BY PutDown
  <2>2. out'[m].line = line[c] /\ out'[m].direct
    BY <2>1
  <2> QED
    BY <2>2, PutDown
<1>2. \A l \in Kept : Behind(l, line[c])
  BY AllBehind DEF Put
<1>3. DOMAIN out = 1..Len(out) /\ Len(out) \in Nat /\ DOMAIN out' = 1..m
  BY <1>1 DEF LogInv, TypeOK
<1>4. \A i \in DOMAIN out : out[i].line \in Kept
  BY DEF Kept
<1>5. FilesInOrder'
  <2>1. \A i \in 1..Len(out) : Behind(out[i].line, out'[m].line)
    BY <1>1, <1>2, <1>3, <1>4
  <2>2. async' = async
    BY DEF Put
  <2> QED
    BY <1>1, <2>1, <2>2, OrderAppended
<1>6. FilesFirst'
  <2> SUFFICES ASSUME NEW i \in 1..m, NEW l \in Waiting
               PROVE  /\ ~(out'[i].line.by = l.by /\ out'[i].line.n = l.n)
                      /\ out'[i].direct \/ Behind(out'[i].line, l)
    BY <1>1, <1>3 DEF FilesFirst
  <2>1. CASE i \in 1..Len(out)
    BY <1>1, <1>3, <2>1 DEF InOrder, FilesFirst
  <2>2. CASE i = m
    <3>1. Behind(l, line[c]) /\ l.n \in Int
      BY <1>2, LinesKept DEF Lines
    <3>2. ~(line[c].by = l.by /\ line[c].n = l.n)
      BY <1>1, <3>1 DEF Behind, Lines
    <3> QED
      BY <1>1, <2>2, <3>2
  <2> QED
    BY <1>3, <2>1, <2>2
<1> QED
  BY <1>1, <1>5, <1>6 DEF InOrder, QueueInOrder, HandIsOldest

LEMMA OrderPop ==
    ASSUME LogInv, LogInv', InOrder, Pop
    PROVE  InOrder'
<1>1. /\ Queued' = Tail(Queued) /\ InHand' = {Queued[1]} /\ Queued # <<>>
      /\ Waiting' = Waiting /\ out' = out /\ async' = async
  BY TakenOut DEF Pop
<1>2. Len(Queued) \in Nat /\ Len(Queued) >= 1 /\ DOMAIN Queued = 1..Len(Queued)
      /\ DOMAIN Queued' = 1..Len(Queued) - 1
      /\ \A i \in 1..Len(Queued) - 1 : Queued'[i] = Queued[i + 1]
  <2>1. Queued \in Seq(Lines)
    BY DEF LogInv, RingShape
  <2> QED
    BY <1>1, <2>1
<1>3. QueueInOrder'
  <2> SUFFICES ASSUME NEW i \in 1..Len(Queued) - 1, NEW j \in 1..Len(Queued) - 1, i < j
               PROVE  Behind(Queued'[i], Queued'[j])
    BY <1>2 DEF QueueInOrder
  <2>1. i + 1 \in DOMAIN Queued /\ j + 1 \in DOMAIN Queued /\ i + 1 < j + 1
    BY <1>2
  <2>2. Behind(Queued[i + 1], Queued[j + 1])
    BY <2>1 DEF InOrder, QueueInOrder
  <2> QED
    BY <1>2, <2>2
<1>4. HandIsOldest'
  <2> SUFFICES ASSUME NEW i \in 1..Len(Queued) - 1 PROVE Behind(Queued[1], Queued'[i])
    BY <1>1, <1>2 DEF HandIsOldest
  <2>1. i + 1 \in DOMAIN Queued /\ 1 \in DOMAIN Queued /\ 1 < i + 1
    BY <1>2
  <2>2. Behind(Queued[1], Queued[i + 1])
    BY <2>1 DEF InOrder, QueueInOrder
  <2> QED
    BY <1>2, <2>2
<1> QED
  BY <1>1, <1>3, <1>4 DEF InOrder, FilesFirst, FilesInOrder

LEMMA OrderWrite ==
    ASSUME LogInv, LogInv', Mode, InOrder, Write
    PROVE  InOrder'
<1> DEFINE m == Len(out) + 1
<1>1. /\ hand \in Lines /\ InHand = {hand} /\ InHand' = {} /\ Queued' = Queued
      /\ Len(out') = m /\ \A i \in 1..Len(out) : out'[i] = out[i]
      /\ out'[m].line = hand /\ ~out'[m].direct
      /\ Waiting' = {Queued[i] : i \in DOMAIN Queued}
  BY WrittenDown
<1>2. async /\ async' = async
  BY DEF Write, Mode
<1>3. DOMAIN out = 1..Len(out) /\ Len(out) \in Nat /\ DOMAIN out' = 1..m
  BY <1>1 DEF LogInv, TypeOK
<1>4. hand \in Waiting /\ Waiting' \subseteq Waiting
  BY <1>1 DEF Waiting
<1>5. ASSUME NEW i \in 1..Len(out)
      PROVE  Behind(out[i].line, hand) \/ (out[i].direct /\ Behind(hand, out[i].line))
  <2>1. /\ ~(out[i].line.by = hand.by /\ out[i].line.n = hand.n)
        /\ out[i].direct \/ Behind(out[i].line, hand)
    BY <1>3, <1>4 DEF InOrder, FilesFirst
  <2>2. out[i].line \in Kept
    BY <1>3 DEF Kept
  <2>3. out[i].line.n \in Int /\ hand.n \in Int
    BY <1>1, <2>2, LinesKept DEF Lines
  <2> QED
    BY <2>1, <2>3 DEF Behind
<1>6. FilesInOrder'
  BY <1>1, <1>2, <1>5, OrderAppended
<1>7. FilesFirst'
  <2> SUFFICES ASSUME NEW i \in 1..m, NEW l \in Waiting'
               PROVE  /\ ~(out'[i].line.by = l.by /\ out'[i].line.n = l.n)
                      /\ out'[i].direct \/ Behind(out'[i].line, l)
    BY <1>3 DEF FilesFirst
  <2>1. CASE i \in 1..Len(out)
    BY <1>1, <1>3, <1>4, <2>1 DEF InOrder, FilesFirst
  <2>2. CASE i = m
    <3>1. Behind(hand, l)
      BY <1>1 DEF InOrder, HandIsOldest
    <3>2. hand.n \in Int /\ l.n \in Int
      BY <1>1, <1>4, LinesKept DEF Lines
    <3> QED
      BY <1>1, <2>2, <3>1, <3>2 DEF Behind
  <2> QED
    BY <1>3, <2>1, <2>2
<1> QED
  BY <1>1, <1>6, <1>7 DEF InOrder, QueueInOrder, HandIsOldest

LEMMA OrderInvariance == Spec => []InOrder
<1>1. Init => InOrder
  <2> SUFFICES ASSUME Init PROVE InOrder
    OBVIOUS
  <2>1. Queued = <<>> /\ out = <<>> /\ InHand = {}
    BY DEF Init, Queued, InHand
  <2> QED
    BY <2>1 DEF InOrder, QueueInOrder, HandIsOldest, FilesFirst, FilesInOrder
<1>2. LogInv /\ LogInv' /\ Mode /\ Past /\ InOrder /\ [Next]_vars => InOrder'
  <2> SUFFICES ASSUME LogInv, LogInv', Mode, Past, InOrder, [Next]_vars PROVE InOrder'
    OBVIOUS
  <2>1. ASSUME out' = out, UNCHANGED ring, hand' = hand, async' = async PROVE InOrder'
    BY <2>1, Untouched DEF InOrder, QueueInOrder, HandIsOldest, FilesFirst, FilesInOrder
  <2>2. ASSUME NEW c \in Callers, Call(c) \/ Count(c) \/ Route(c) \/ Flush(c) PROVE InOrder'
    BY <2>1, <2>2 DEF Call, Count, Route, Flush, written, thread
  <2>3. ASSUME NEW c \in Callers, Push(c) PROVE InOrder'
    BY <2>1, <2>3, OrderPush DEF Push, written
  <2>4. CASE Sleep \/ Wake \/ Midnight \/ UNCHANGED vars
    BY <2>1, <2>4 DEF Sleep, Wake, Midnight, vars, written, thread
  <2> QED
    BY <2>2, <2>3, <2>4, OrderPut, OrderPop, OrderWrite DEF Next, WriteLog, Log
<1> QED
  BY <1>1, <1>2, LogInvariance, ModeInvariance, PastInvariance, PTL DEF Spec

\* The lines of one caller are written in the order it logged them, except that
\* a line which found the queue full goes before those in the queue.
THEOREM LinesInOrder == Spec => []OrderKept
<1>1. LogInv /\ InOrder => OrderKept
  <2> SUFFICES ASSUME LogInv, InOrder, NEW i \in DOMAIN out, NEW j \in DOMAIN out, i < j,
                      out[i].line.by = out[j].line.by, out[i].line.n > out[j].line.n
               PROVE  async /\ out[i].direct /\ ~out[j].direct
    BY DEF OrderKept
  <2>1. out[i].line.n \in Int /\ out[j].line.n \in Int
    BY LinesKept DEF Kept, Lines
  <2>2. ~Behind(out[i].line, out[j].line)
    BY <2>1 DEF Behind
  <2> QED
    BY <2>2 DEF InOrder, FilesInOrder
<1> QED
  BY <1>1, LogInvariance, OrderInvariance, PTL

----------------------------------------------------------------------------
(* Every line once. *)

HandedOver(c, n) == \E l \in Kept \cup refused : l.by = c /\ l.n = n

\* Nothing that was handed over is missing, and a line push may yet refuse has
\* another caller's lines before it in the queue.
Accounted ==
    /\ Kept \cap refused = {}
    /\ \A c \in Callers : \A n \in 1..line[c].n :
          n < line[c].n \/ pc[c] \in {"flush", "idle"} => HandedOver(c, n)
    /\ \A l \in refused : \E o \in Callers \ {l.by} : line[o].n > 0
    /\ \A c \in Callers : pc[c] = "push" /\ RingFull => \E o \in Callers \ {c} : line[o].n > 0

\* The caller that hands its line over, or loses it.
LEMMA AccountedHandOver ==
    ASSUME LogInv, Past, Accounted, NEW c \in Callers, pc[c] \in {"push", "put"},
           line' = line, pc' = [pc EXCEPT ![c] = "flush"],
           Kept' \cup refused' = Kept \cup refused \cup {line[c]}
    PROVE  \A o \in Callers : \A n \in 1..line'[o].n :
             n < line'[o].n \/ pc'[o] \in {"flush", "idle"} => HandedOver(o, n)'
<1> SUFFICES ASSUME NEW o \in Callers, NEW n \in 1..line[o].n,
                    n < line[o].n \/ pc'[o] \in {"flush", "idle"}
             PROVE  HandedOver(o, n)'
  OBVIOUS
<1>1. HandedOver(o, n) => HandedOver(o, n)'
  BY DEF HandedOver
<1>2. CASE o # c
  BY <1>1, <1>2 DEF Accounted, LogInv, TypeOK
<1>3. CASE o = c /\ n < line[c].n
  BY <1>1, <1>3 DEF Accounted
<1>4. CASE o = c /\ n = line[c].n
  <2>1. line[c].by = c
    BY DEF Past
  <2> QED
    BY <1>4, <2>1 DEF HandedOver
<1>5. line[o].n \in Int /\ n \in Int
  BY DEF LogInv, TypeOK
<1> QED
  BY <1>2, <1>3, <1>4, <1>5

\* A line that its caller is about to hand over is nowhere yet.
LEMMA NowhereYet ==
    ASSUME LogInv, Past, NEW c \in Callers, pc[c] \in {"push", "put"}
    PROVE  line[c] \notin Kept \cup refused
<1>1. line[c].by = c /\ line[c].n \in Int
  BY DEF Past, LogInv, TypeOK
<1>2. \A l \in Kept \cup refused : l = line[c] => l.n < line[c].n
  BY <1>1 DEF Past, Handing
<1> QED
  BY <1>1, <1>2

LEMMA AccountedNext == LogInv /\ Past /\ Accounted /\ [Next]_vars => Accounted'
<1> SUFFICES ASSUME LogInv, Past, Accounted, [Next]_vars PROVE Accounted'
  OBVIOUS
<1>1. ASSUME Kept' = Kept, refused' = refused, UNCHANGED calls, RingFull' => RingFull
      PROVE  Accounted'
  BY <1>1 DEF Accounted, HandedOver, calls
<1>2. ASSUME NEW c \in Callers, Call(c) PROVE Accounted'
  <2>1. Kept' = Kept /\ refused' = refused /\ RingFull' = RingFull
    BY <1>2, Untouched DEF Call, written, thread, ring, RingFull
  <2>2. line' = [line EXCEPT ![c] = [by |-> c, n |-> line[c].n + 1, day |-> day]]
        /\ pc' = [pc EXCEPT ![c] = "count"] /\ pc[c] = "idle"
    BY <1>2 DEF Call, Goto
  <2>3. \A o \in Callers : line[o].n > 0 => line'[o].n > 0
    BY <2>2 DEF LogInv, TypeOK
  <2>4. ASSUME NEW o \in Callers, NEW n \in 1..line'[o].n,
               n < line'[o].n \/ pc'[o] \in {"flush", "idle"}
        PROVE  HandedOver(o, n)
    <3>1. CASE o # c
      BY <2>2, <2>4, <3>1 DEF Accounted, LogInv, TypeOK
    <3>2. CASE o = c
      <4>1. line[c].n \in Nat /\ line'[c].n = line[c].n + 1 /\ pc'[c] = "count"
        BY <2>2 DEF LogInv, TypeOK
      <4>2. n \in 1..line[c].n
        BY <2>4, <3>2, <4>1
      <4> QED
        BY <2>2, <3>2, <4>2 DEF Accounted
    <3> QED
      BY <3>1, <3>2
  <2>5. \A o \in Callers : pc'[o] = "push" => pc[o] = "push"
    BY <2>2 DEF LogInv, TypeOK
  <2>6. \A o, n : HandedOver(o, n)' <=> HandedOver(o, n)
    BY <2>1 DEF HandedOver
  <2>7. (Kept \cap refused = {})' /\ (\A l \in refused : \E o \in Callers \ {l.by} : line[o].n > 0)'
    BY <2>1, <2>3 DEF Accounted
  <2>8. \A o \in Callers : pc'[o] = "push" /\ RingFull' => \E p \in Callers \ {o} : line'[p].n > 0
    BY <2>1, <2>3, <2>5 DEF Accounted
  <2> QED
    BY <2>4, <2>6, <2>7, <2>8 DEF Accounted
<1>3. ASSUME NEW c \in Callers, Count(c) \/ Route(c) \/ Flush(c) PROVE Accounted'
  <2>1. Kept' = Kept /\ refused' = refused /\ RingFull' = RingFull /\ line' = line
    BY <1>3, Untouched DEF Count, Route, Flush, written, thread, ring, RingFull
  <2>2. \A o \in Callers : pc'[o] = "push" /\ RingFull => pc[o] = "push"
    BY <1>3 DEF Count, Route, Flush, Goto, LogInv, TypeOK
  <2>3. \A o \in Callers : pc'[o] \in {"flush", "idle"} => pc[o] \in {"flush", "idle"}
    BY <1>3 DEF Count, Route, Flush, Goto, LogInv, TypeOK
  <2> QED
    BY <2>1, <2>2, <2>3 DEF Accounted, HandedOver
<1>4. ASSUME NEW c \in Callers, Push(c), RingFull PROVE Accounted'
  <2>1. Kept' = Kept /\ refused' = refused \cup {line[c]} /\ RingFull' = RingFull
    BY <1>4, Untouched DEF Push, written, ring, RingFull
  <2>2. line' = line /\ pc' = [pc EXCEPT ![c] = "flush"] /\ pc[c] = "push"
    BY <1>4 DEF Push, Goto
  <2>3. line[c] \notin Kept \cup refused /\ line[c].by = c
    BY <2>2, NowhereYet DEF Past
  <2>4. \E o \in Callers \ {c} : line[o].n > 0
    BY <1>4, <2>2 DEF Accounted
  <2>5. \A o \in Callers : \A n \in 1..line'[o].n :
          n < line'[o].n \/ pc'[o] \in {"flush", "idle"} => HandedOver(o, n)'
    BY <2>1, <2>2, AccountedHandOver
  <2>6. \A o \in Callers : pc'[o] = "push" => pc[o] = "push"
    BY <2>2 DEF LogInv, TypeOK
  <2>7. (Kept \cap refused = {})' /\ (\A l \in refused : \E o \in Callers \ {l.by} : line[o].n > 0)'
    BY <2>1, <2>2, <2>3, <2>4 DEF Accounted
  <2>8. \A o \in Callers : pc'[o] = "push" /\ RingFull' => \E p \in Callers \ {o} : line'[p].n > 0
    BY <2>1, <2>2, <2>6 DEF Accounted
  <2> QED
    BY <2>5, <2>7, <2>8 DEF Accounted
<1>5. ASSUME NEW c \in Callers, (Push(c) /\ ~RingFull) \/ Put(c) PROVE Accounted'
  <2>1. Kept' = Kept \cup {line[c]} /\ refused' = refused /\ line[c] \in Lines
    BY <1>5, Accepted, PutDown
  <2>2. line' = line /\ pc' = [pc EXCEPT ![c] = "flush"] /\ pc[c] \in {"push", "put"}
    BY <1>5 DEF Push, Put, Goto
  <2>3. line[c] \notin Kept \cup refused
    BY <2>2, NowhereYet
  <2>4. \A o \in Callers : \A n \in 1..line'[o].n :
          n < line'[o].n \/ pc'[o] \in {"flush", "idle"} => HandedOver(o, n)'
    BY <2>1, <2>2, AccountedHandOver
  <2>5. \A o \in Callers : pc'[o] = "push" => pc[o] = "push" /\ o # c
    BY <2>2 DEF LogInv, TypeOK
  <2>6. line[c].n > 0
    BY <2>1 DEF Lines
  <2>7. (Kept \cap refused = {})' /\ (\A l \in refused : \E o \in Callers \ {l.by} : line[o].n > 0)'
    BY <2>1, <2>2, <2>3 DEF Accounted
  <2>8. \A o \in Callers : pc'[o] = "push" /\ RingFull' => \E p \in Callers \ {o} : line'[p].n > 0
    BY <2>2, <2>5, <2>6
  <2> QED
    BY <2>4, <2>7, <2>8 DEF Accounted
<1>6. CASE Pop
  <2>1. Kept' = Kept /\ refused' = refused /\ UNCHANGED calls
    BY <1>6, TakenOut DEF Pop
  <2>2. RingFull' => RingFull
    BY <1>6 DEF Pop, RingFull, LogInv, TypeOK
  <2> QED
    BY <1>1, <2>1, <2>2
<1>7. CASE Write
  BY <1>1, <1>7, WrittenDown DEF Write, ring, RingFull
<1>8. CASE Sleep \/ Wake \/ Midnight \/ UNCHANGED vars
  BY <1>1, <1>8, Untouched DEF Sleep, Wake, Midnight, vars, written, thread, ring, RingFull
<1> QED
  BY <1>2, <1>3, <1>4, <1>5, <1>6, <1>7, <1>8 DEF Next, WriteLog, Log

LEMMA AccountedInvariance == Spec => []Accounted
<1>1. Init => Accounted
  <2> SUFFICES ASSUME Init PROVE Accounted
    OBVIOUS
  <2>1. refused = {} /\ \A c \in Callers : line[c].n = 0 /\ pc[c] = "idle"
    BY DEF Init
  <2> QED
    BY <2>1 DEF Accounted
<1> QED
  BY <1>1, AccountedNext, LogInvariance, PastInvariance, PTL DEF Spec

\* As many elements as places, when no two places hold the same.
LEMMA AllDifferent ==
    ASSUME NEW n \in Nat, NEW f, NEW S, \A i \in 1..n : f[i] \in S,
           \A x \in S : \E i \in 1..n : f[i] = x,
           \A i, j \in 1..n : i < j => f[i] # f[j]
    PROVE  IsFiniteSet(S) /\ Cardinality(S) = n
<1> DEFINE g == [i \in 1..n |-> f[i]]
<1>1. \A i, j \in 1..n : g[i] = g[j] => i = j
  OBVIOUS
<1>2. g \in [1..n -> S] /\ \A x \in S : \E i \in 1..n : g[i] = x
  OBVIOUS
<1> HIDE DEF g
<1>3. g \in Bijection(1..n, S)
  BY <1>1, <1>2 DEF Bijection, Injection, IsInjective, Surjection
<1>4. ExistsBijection(1..n, S)
  BY <1>3 DEF ExistsBijection
<1> QED
  BY <1>4, FS_CountingElements, FS_NatBijection

LEMMA DisjointSum ==
    ASSUME NEW S, NEW T, IsFiniteSet(S), IsFiniteSet(T), S \cap T = {}
    PROVE  IsFiniteSet(S \cup T) /\ Cardinality(S \cup T) = Cardinality(S) + Cardinality(T)
<1>1. Cardinality(S \cap T) = 0 /\ Cardinality(S) \in Nat /\ Cardinality(T) \in Nat
  BY FS_EmptySet, FS_CardinalityType
<1>2. /\ IsFiniteSet(S \cup T)
      /\ Cardinality(S \cup T) = Cardinality(S) + Cardinality(T) - Cardinality(S \cap T)
  BY FS_Union
<1> QED
  BY <1>1, <1>2

LEMMA KeptOnce == LogInv /\ InOrder => Cardinality(Kept) = Len(out) + size + Cardinality(InHand)
<1> SUFFICES ASSUME LogInv, InOrder PROVE Cardinality(Kept) = Len(out) + size + Cardinality(InHand)
  OBVIOUS
<1> DEFINE F == {out[i].line : i \in DOMAIN out}
           Q == {Queued[i] : i \in DOMAIN Queued}
           o == [i \in 1..Len(out) |-> out[i].line]
<1>1. DOMAIN Queued = 1..size /\ size \in Nat /\ DOMAIN out = 1..Len(out) /\ Len(out) \in Nat
  BY Domains DEF LogInv, TypeOK
<1>2. F \subseteq Lines /\ Q \subseteq Lines /\ InHand \subseteq Lines /\ Q \cup InHand = Waiting
  BY LinesKept DEF Kept, Waiting
<1>3. ASSUME NEW k \in Lines, NEW l \in Lines, Behind(k, l) \/ Behind(l, k) PROVE k # l
  BY <1>3 DEF Behind, Lines
<1>4. IsFiniteSet(F) /\ Cardinality(F) = Len(out)
  <2>1. \A i, j \in 1..Len(out) : i < j => out[i].line # out[j].line
    BY <1>1, <1>2, <1>3 DEF InOrder, FilesInOrder
  <2>2. \A i, j \in 1..Len(out) : i < j => o[i] # o[j]
    BY <2>1
  <2>3. (\A i \in 1..Len(out) : o[i] \in F) /\ \A x \in F : \E i \in 1..Len(out) : o[i] = x
    BY <1>1
  <2> HIDE DEF o, F
  <2> QED
    BY <1>1, <2>2, <2>3, AllDifferent
<1>5. IsFiniteSet(Q) /\ Cardinality(Q) = size
  <2>1. \A i, j \in 1..size : i < j => Queued[i] # Queued[j]
    BY <1>1, <1>2, <1>3 DEF InOrder, QueueInOrder
  <2>2. (\A i \in 1..size : Queued[i] \in Q) /\ \A x \in Q : \E i \in 1..size : Queued[i] = x
    BY <1>1
  <2> HIDE DEF Q
  <2> QED
    BY <1>1, <2>1, <2>2, AllDifferent
<1>6. IsFiniteSet(InHand) /\ Cardinality(InHand) \in Nat
  BY FS_EmptySet, FS_Singleton, FS_CardinalityType DEF InHand
<1>7. Q \cap InHand = {}
  BY <1>2, <1>3 DEF InOrder, HandIsOldest
<1>8. F \cap (Q \cup InHand) = {}
  <2>1. \A l \in Waiting : \A i \in DOMAIN out : out[i].line # l
    BY DEF InOrder, FilesFirst
  <2> QED
    BY <1>2, <2>1
<1>9. IsFiniteSet(Q \cup InHand) /\ Cardinality(Q \cup InHand) = size + Cardinality(InHand)
  BY <1>1, <1>5, <1>6, <1>7, DisjointSum
<1>10. Cardinality(F \cup (Q \cup InHand)) = Len(out) + (size + Cardinality(InHand))
  <2> DEFINE W == Q \cup InHand
  <2>1. IsFiniteSet(F) /\ IsFiniteSet(W) /\ F \cap W = {}
    BY <1>4, <1>8, <1>9
  <2> HIDE DEF F, W
  <2>2. Cardinality(F \cup W) = Cardinality(F) + Cardinality(W)
    BY <2>1, DisjointSum
  <2> USE DEF W
  <2> QED
    BY <1>4, <1>9, <2>2
<1>11. Kept = F \cup (Q \cup InHand)
  BY DEF Kept
<1> QED
  BY <1>1, <1>6, <1>10, <1>11

\* No line is logged twice, and none that was handed over is lost unless push
\* refused it, which takes a second caller: full() has said no to the same line.
THEOREM NoLineLostOrDoubled == Spec => []EveryLineOnce
<1>1. LogInv /\ InOrder /\ Accounted => EveryLineOnce
  BY KeptOnce DEF Accounted, EveryLineOnce, HandedOver
<1> QED
  BY <1>1, LogInvariance, OrderInvariance, AccountedInvariance, PTL

----------------------------------------------------------------------------
(* The files. *)

\* The callers whose line has been counted and not been handed over.
Counting == {c \in Callers : pc[c] \in {"route", "push", "put"}}

InFile(f) == {j \in DOMAIN out : out[j].file = f}

\* The lines that may go to a later file than the one they were counted for.
Slack == Cardinality(Callers) - 1 + (IF async THEN QueueSize + 1 ELSE 0)

\* The file is the one of today and of the count, and what is under way is of
\* today, or has not been counted yet, or has had to queue.
FileOfToday ==
    /\ fp.day = today /\ today <= day /\ fp.part = count \div Split
    /\ \A c \in Callers : pc[c] \in Handing =>
          line[c].day = day /\ (pc[c] # "count" => today = day)
    /\ \A l \in Waiting : l.day <= today

\* No file is older than its lines, and none comes after the one that is open.
FilesDated == \A i \in DOMAIN out :
    /\ out[i].file.day < today \/ (out[i].file.day = today /\ out[i].file.part <= fp.part)
    /\ out[i].file.day >= out[i].line.day
    /\ out[i].direct => out[i].file.day = out[i].line.day

\* The open file and all that is still to be written to it.
OpenFile == InFile(fp)

Filling == Cardinality(OpenFile) + size + Cardinality(InHand) + Cardinality(Counting)

Filled ==
    /\ Filling <= (count % Split) + 1 + Slack
    /\ \A i \in DOMAIN out : Cardinality(InFile(out[i].file)) <= Split + Slack

FileInv == ~late => FileOfToday /\ FilesDated /\ Filled

\* One more line is in the same file, or opens the next.
LEMMA NextPart ==
    ASSUME NEW n \in Nat
    PROVE  IF (n + 1) % Split = 0 THEN (n + 1) \div Split = (n \div Split) + 1
           ELSE (n + 1) \div Split = n \div Split /\ (n + 1) % Split = (n % Split) + 1
<1> DEFINE q == n \div Split
           p == (n + 1) \div Split
           r == n % Split
           t == (n + 1) % Split
<1>1. q \in Int /\ p \in Int /\ r \in 0..Split - 1 /\ t \in 0..Split - 1 /\ Split \in Nat \ {0}
  OBVIOUS
<1>2. n = Split * q + r /\ n + 1 = Split * p + t
  OBVIOUS
<1> HIDE DEF q, p, r, t
<1>3. Split * p = Split * q + (r + 1 - t)
  BY <1>1, <1>2
<1>4. p >= q
  <2> SUFFICES ASSUME p <= q - 1 PROVE FALSE
    BY <1>1
  <2>1. Split * p <= Split * (q - 1)
    BY <1>1
  <2>2. Split * (q - 1) = Split * q - Split
    BY <1>1
  <2> QED
    BY <1>1, <1>3, <2>1, <2>2
<1>5. p <= q + 1
  <2> SUFFICES ASSUME p >= q + 2 PROVE FALSE
    BY <1>1
  <2>1. Split * p >= Split * (q + 2)
    BY <1>1
  <2>2. Split * (q + 2) = Split * q + 2 * Split
    BY <1>1
  <2> QED
    BY <1>1, <1>3, <2>1, <2>2
<1>6. CASE p = q
  BY <1>1, <1>2, <1>6 DEF q, p, r, t
<1>7. CASE p = q + 1
  <2>1. Split * p = Split * q + Split
    BY <1>1, <1>7
  <2>2. r + 1 - t = Split
    BY <1>1, <1>3, <2>1
  <2>3. t = 0
    BY <1>1, <2>2
  <2> QED
    BY <1>7, <2>3 DEF q, p, r, t
<1> QED
  BY <1>1, <1>4, <1>5, <1>6, <1>7

\* What is counted here is finite.
Sizes ==
    /\ \A f : IsFiniteSet(InFile(f)) /\ Cardinality(InFile(f)) \in Nat
    /\ IsFiniteSet(OpenFile) /\ Cardinality(OpenFile) \in Nat
    /\ IsFiniteSet(Counting) /\ Cardinality(Counting) \in Nat
    /\ Cardinality(Counting) <= Cardinality(Callers) /\ Cardinality(Callers) \in Nat
    /\ IsFiniteSet(InHand) /\ Cardinality(InHand) \in 0..1
    /\ size \in 0..QueueSize /\ count \in Nat /\ count % Split \in 0..Split - 1
    /\ Slack \in Int

LEMMA Finite == LogInv => Sizes
<1> SUFFICES ASSUME LogInv PROVE Sizes
  OBVIOUS
<1>1. ASSUME NEW f PROVE IsFiniteSet(InFile(f)) /\ Cardinality(InFile(f)) \in Nat
  <2>1. IsFiniteSet(1..Len(out)) /\ InFile(f) \in SUBSET (1..Len(out))
    BY Domains, FS_Interval DEF InFile
  <2> QED
    BY <2>1, FS_Subset, FS_CardinalityType
<1>2. /\ IsFiniteSet(Counting) /\ Cardinality(Counting) \in Nat
      /\ Cardinality(Counting) <= Cardinality(Callers) /\ Cardinality(Callers) \in Nat
  BY CallersAssumption, FS_Subset, FS_CardinalityType DEF Counting
<1>3. IsFiniteSet(InHand) /\ Cardinality(InHand) \in 0..1
  BY FS_EmptySet, FS_Singleton DEF InHand
<1>4. size \in 0..QueueSize /\ count \in Nat
  BY DEF LogInv, TypeOK
<1>5. count % Split \in 0..Split - 1
  BY <1>4
<1>6. Slack \in Int
  BY <1>2 DEF Slack
<1> QED
  BY <1>1, <1>2, <1>3, <1>4, <1>5, <1>6 DEF Sizes, OpenFile

LEMMA FiniteNext == LogInv' => Sizes'
  BY Finite, PTL

LEMMA Leaves ==
    ASSUME LogInv, NEW c \in Counting, pc' = [pc EXCEPT ![c] = "flush"]
    PROVE  Cardinality(Counting') = Cardinality(Counting) - 1
<1>1. Counting' = Counting \ {c}
  BY DEF Counting, LogInv, TypeOK
<1> QED
  BY <1>1, Finite, FS_RemoveElement DEF Sizes

\* A step that opens no file and writes nothing.
LEMMA FilledStep ==
    ASSUME LogInv, Filled, out' = out, fp' = fp, async' = async,
           Filling' <= Filling + (count' % Split) - (count % Split), count' \in Nat, Filling' \in Int
    PROVE  Filled'
<1>1. Slack' = Slack /\ \A i \in DOMAIN out' : InFile(out[i].file)' = InFile(out[i].file)
  <2>1. Slack' = Slack
    BY DEF Slack
  <2>2. ASSUME NEW i \in DOMAIN out' PROVE InFile(out[i].file)' = InFile(out[i].file)
    BY DEF InFile
  <2> QED
    BY <2>1, <2>2
<1>2. Filling \in Int /\ Slack \in Int /\ count % Split \in Int /\ count' % Split \in Int
  BY Finite DEF Filling, Sizes
<1>3. Filling' <= (count' % Split) + 1 + Slack'
  <2> DEFINE r == count % Split
             t == count' % Split
  <2>1. Filling <= r + 1 + Slack
    BY DEF Filled
  <2>2. Filling' <= Filling + t - r /\ r \in Int /\ t \in Int
    BY <1>2
  <2> HIDE DEF r, t
  <2>3. Filling' <= t + 1 + Slack
    BY <1>2, <2>1, <2>2
  <2> USE DEF t
  <2> QED
    BY <1>1, <2>3
<1>4. \A i \in DOMAIN out' : Cardinality(InFile(out[i].file))' <= Split + Slack'
  BY <1>1 DEF Filled, InFile
<1> QED
  BY <1>3, <1>4 DEF Filled

\* A line that is written to the open file, and was to be.
LEMMA FilledAppended ==
    ASSUME LogInv, LogInv', Filled, async' = async, fp' = fp, count' = count,
           Len(out') = Len(out) + 1, \A i \in 1..Len(out) : out'[i] = out[i],
           out'[Len(out) + 1].file = fp,
           size' + Cardinality(InHand') + Cardinality(Counting')
             = size + Cardinality(InHand) + Cardinality(Counting) - 1
    PROVE  Filled'
<1> DEFINE m == Len(out) + 1
<1>1. DOMAIN out = 1..Len(out) /\ Len(out) \in Nat /\ DOMAIN out' = 1..m
  BY DEF LogInv, TypeOK
<1>2. OpenFile' = OpenFile \cup {m} /\ m \notin OpenFile
  BY <1>1 DEF InFile, OpenFile
<1>3. ASSUME NEW f, f # fp PROVE {j \in DOMAIN out' : out'[j].file = f} = InFile(f)
  <2>1. \A j : j \in DOMAIN out' /\ out'[j].file = f <=> j \in DOMAIN out /\ out[j].file = f
    BY <1>1, <1>3
  <2> QED
    BY <2>1 DEF InFile
<1>4. Cardinality(OpenFile') = Cardinality(OpenFile) + 1
  <2>1. IsFiniteSet(OpenFile)
    BY Finite DEF Sizes
  <2>2. Cardinality(OpenFile \cup {m}) = Cardinality(OpenFile) + 1
    BY <1>2, <2>1, FS_AddElement
  <2> QED
    BY <1>2, <2>2
<1>5. Filling' = Filling /\ Filling \in Int /\ Slack' = Slack /\ Slack \in Int
  <2>1. Cardinality(InHand') \in Int /\ Cardinality(Counting') \in Int /\ size' \in Int
    BY FiniteNext DEF Sizes
  <2>2. Cardinality(InHand) \in Int /\ Cardinality(Counting) \in Int /\ size \in Int
        /\ Cardinality(OpenFile) \in Int /\ Slack \in Int
    BY Finite DEF Sizes
  <2>3. Filling' = Cardinality(OpenFile') + size' + Cardinality(InHand') + Cardinality(Counting')
    BY DEF Filling
  <2>4. Filling = Cardinality(OpenFile) + size + Cardinality(InHand) + Cardinality(Counting)
    BY DEF Filling
  <2> DEFINE x == size' + Cardinality(InHand') + Cardinality(Counting')
             y == size + Cardinality(InHand) + Cardinality(Counting)
  <2>5. x \in Int /\ y \in Int /\ x = y - 1
    BY <2>1, <2>2
  <2>6. Filling = Cardinality(OpenFile) + y
    BY <2>2, <2>4
  <2>7. Filling' = Cardinality(OpenFile') + x
    <3>1. Cardinality(OpenFile') \in Int
      BY <1>4, <2>2
    <3> QED
      BY <2>1, <2>3, <3>1
  <2> HIDE DEF x, y
  <2>8. Filling' = Filling /\ Filling \in Int
    BY <1>4, <2>2, <2>5, <2>6, <2>7
  <2> QED
    BY <2>2, <2>8 DEF Slack
<1>6. Filling' <= (count' % Split) + 1 + Slack'
  BY <1>5 DEF Filled
<1>7. Cardinality(OpenFile') <= Split + Slack
  <2>1. Filling' >= Cardinality(OpenFile')
    <3>1. /\ Cardinality(InHand') \in Nat /\ Cardinality(Counting') \in Nat /\ size' \in Nat
          /\ Cardinality(OpenFile') \in Nat
      <4>1. Sizes'
        BY FiniteNext
      <4>2. /\ Cardinality(InHand') \in 0..1 /\ Cardinality(Counting') \in Nat
            /\ Cardinality(OpenFile') \in Nat /\ size' \in 0..QueueSize
        BY <4>1, Zenon DEF Sizes
      <4> QED
        BY <4>2
    <3> QED
      BY <3>1 DEF Filling
  <2>2. count' % Split \in 0..Split - 1
    BY FiniteNext DEF Sizes
  <2>3. Cardinality(OpenFile') \in Int
    BY <1>4, Finite DEF Sizes
  <2> QED
    BY <1>5, <1>6, <2>1, <2>2, <2>3
<1>8. ASSUME NEW i \in DOMAIN out' PROVE Cardinality(InFile(out[i].file))' <= Split + Slack'
  <2>1. CASE out'[i].file = fp
    BY <1>5, <1>7, <2>1 DEF InFile, OpenFile
  <2>2. CASE out'[i].file # fp
    <3>1. i \in DOMAIN out /\ out'[i] = out[i]
      BY <1>1, <2>2
    <3>2. InFile(out[i].file)' = InFile(out[i].file)
      BY <1>3, <2>2, <3>1 DEF InFile
    <3> QED
      BY <1>5, <3>1, <3>2 DEF Filled
  <2> QED
    BY <2>1, <2>2
<1> QED
  BY <1>6, <1>8 DEF Filled

\* A line that is counted: it goes to the open file, or opens the next one.
LEMMA CountedLine ==
    ASSUME LogInv, FileOfToday, NEW c \in Callers, Count(c)
    PROVE  /\ day' = day /\ today' = day /\ fp'.day = day /\ fp'.part = count' \div Split
           /\ \/ fp' = fp /\ today = day /\ count' % Split = (count % Split) + 1
              \/ /\ today < day \/ (today = day /\ fp'.part = fp.part + 1)
                 /\ count' % Split = 0
<1>1. line[c].day = day /\ today <= day /\ today \in Int /\ day \in Int /\ count \in Nat
      /\ fp.day = today /\ fp.part = count \div Split
  BY DEF Count, FileOfToday, Handing, LogInv, TypeOK
<1>2. day' = day /\ NewDay(line[c].day) = (today # day)
  BY <1>1 DEF Count, clock, NewDay
<1>3. CASE today # day
  <2>1. today' = day /\ count' = 0 /\ fp' = [day |-> day, part |-> 0]
    BY <1>1, <1>2, <1>3 DEF Count, Counted
  <2>2. 0 \div Split = 0 /\ 0 % Split = 0
    OBVIOUS
  <2>3. fp'.day = day /\ fp'.part = 0 /\ today < day
    BY <1>1, <1>3, <2>1
  <2> QED
    BY <1>2, <2>1, <2>2, <2>3
<1>4. CASE today = day
  <2>1. today' = day /\ count' = count + 1
    BY <1>1, <1>2, <1>4 DEF Count, Counted
  <2>2. CASE (count + 1) % Split = 0
    <3>1. fp' = [day |-> day, part |-> (count + 1) \div Split]
      BY <1>1, <1>2, <1>4, <2>2 DEF Count
    <3>2. (count + 1) \div Split = (count \div Split) + 1
      BY <1>1, <2>2, NextPart
    <3>3. fp'.day = day /\ fp'.part = (count + 1) \div Split
      BY <3>1
    <3> QED
      BY <1>1, <1>2, <1>4, <2>1, <2>2, <3>2, <3>3
  <2>3. CASE (count + 1) % Split # 0
    <3>1. fp' = fp
      BY <1>1, <1>2, <1>4, <2>3 DEF Count
    <3>2. (count + 1) \div Split = count \div Split /\ (count + 1) % Split = (count % Split) + 1
      BY <1>1, <2>3, NextPart
    <3> QED
      BY <1>1, <1>2, <1>4, <2>1, <3>1, <3>2
  <2> QED
    BY <2>2, <2>3
<1> QED
  BY <1>3, <1>4

LEMMA FileTypes == LogInv => \A i \in DOMAIN out :
    /\ out[i].file.day \in Int /\ out[i].file.part \in Int /\ out[i].line.day \in Int
    /\ out[i].direct \in BOOLEAN
<1> SUFFICES ASSUME LogInv, NEW i \in DOMAIN out
             PROVE  /\ out[i].file.day \in Int /\ out[i].file.part \in Int /\ out[i].line.day \in Int
                    /\ out[i].direct \in BOOLEAN
  OBVIOUS
<1>1. out \in Seq(Records)
  BY DEF LogInv, TypeOK, Records
<1>2. out[i] \in Records
  BY <1>1
<1>3. out[i].line \in Lines /\ out[i].file \in [day : 1..Days, part : Nat] /\ out[i].direct \in BOOLEAN
  BY <1>2 DEF Records
<1> QED
  BY <1>3 DEF Lines

LEMMA FileTodayNext ==
    ASSUME LogInv, LogInv', FileOfToday, [Next]_vars, ~late'
    PROVE  FileOfToday'
<1>1. day \in Int /\ today \in Int /\ \A l \in Waiting : l.day \in Int
  <2>1. \A l \in Waiting : l \in Lines
    BY LinesKept
  <2>2. \A l \in Waiting : l.day \in Int
    BY <2>1 DEF Lines
  <2> QED
    BY <2>2 DEF LogInv, TypeOK
<1>2. ASSUME UNCHANGED file, UNCHANGED day, UNCHANGED line,
             \A c \in Callers : /\ pc'[c] \in Handing => pc[c] \in Handing
                                /\ pc'[c] \in Handing \ {"count"} => pc[c] # "count",
             \A l \in Waiting' : l.day <= today
      PROVE  FileOfToday'
  BY <1>2 DEF FileOfToday, file
<1>3. ASSUME NEW c \in Callers, Call(c) PROVE FileOfToday'
  <2>1. Waiting' = Waiting /\ UNCHANGED file /\ day' = day
    BY <1>3, Untouched DEF Call, written, thread, clock
  <2>2. ASSUME NEW o \in Callers, pc'[o] \in Handing
        PROVE  line'[o].day = day /\ (pc'[o] # "count" => today = day)
    <3>1. CASE o = c
      BY <1>3, <3>1 DEF Call, Goto, LogInv, TypeOK
    <3>2. CASE o # c
      BY <1>3, <2>2, <3>2 DEF Call, Goto, LogInv, TypeOK, FileOfToday
    <3> QED
      BY <3>1, <3>2
  <2> QED
    BY <2>1, <2>2 DEF FileOfToday, file
<1>4. ASSUME NEW c \in Callers, Count(c) PROVE FileOfToday'
  <2>1. Waiting' = Waiting /\ line' = line
    BY <1>4, Untouched DEF Count, thread
  <2>2. day' = day /\ today' = day /\ fp'.day = day /\ fp'.part = count' \div Split
    BY <1>4, CountedLine
  <2>3. \A o \in Callers : pc'[o] \in Handing => pc[o] \in Handing
    BY <1>4 DEF Count, Goto, LogInv, TypeOK, Handing
  <2>4. \A l \in Waiting' : l.day <= day
    BY <1>1, <2>1 DEF FileOfToday
  <2>5. today' <= day'
    BY <1>1, <2>2
  <2> QED
    BY <2>1, <2>2, <2>3, <2>4, <2>5 DEF FileOfToday
<1>5. ASSUME NEW c \in Callers, Route(c) \/ Flush(c) PROVE FileOfToday'
  <2>1. Waiting' = Waiting /\ line' = line /\ UNCHANGED file /\ day' = day
    BY <1>5, Untouched DEF Route, Flush, written, thread, clock
  <2>2. \A o \in Callers : /\ pc'[o] \in Handing => pc[o] \in Handing
                           /\ pc'[o] \in Handing \ {"count"} => pc[o] # "count"
    BY <1>5 DEF Route, Flush, Goto, LogInv, TypeOK, Handing
  <2> QED
    BY <1>2, <2>1, <2>2 DEF FileOfToday
<1>6. ASSUME NEW c \in Callers, Push(c) \/ Put(c) PROVE FileOfToday'
  <2>1. line' = line /\ UNCHANGED file /\ day' = day
    BY <1>6 DEF Push, Put, clock
  <2>2. \A o \in Callers : /\ pc'[o] \in Handing => pc[o] \in Handing
                           /\ pc'[o] \in Handing \ {"count"} => pc[o] # "count"
    BY <1>6 DEF Push, Put, Goto, LogInv, TypeOK, Handing
  <2>3. line[c].day = today
    BY <1>6 DEF Push, Put, FileOfToday, Handing
  <2>4. Waiting' \subseteq Waiting \cup {line[c]}
    <3>1. CASE Push(c) /\ RingFull
      BY <3>1, Untouched DEF Push, written
    <3> QED
      BY <1>6, <3>1, Accepted, PutDown
  <2> QED
    BY <1>1, <1>2, <2>1, <2>2, <2>3, <2>4 DEF FileOfToday
<1>7. CASE Pop \/ Write
  <2>1. UNCHANGED calls /\ UNCHANGED file /\ UNCHANGED clock
    BY <1>7 DEF Pop, Write
  <2>2. Waiting' \subseteq Waiting
    BY <1>7, TakenOut, WrittenDown DEF Waiting
  <2> QED
    BY <1>2, <2>1, <2>2 DEF FileOfToday, calls, clock
<1>8. CASE Sleep \/ Wake \/ UNCHANGED vars
  <2>1. UNCHANGED calls /\ UNCHANGED file /\ UNCHANGED clock
    BY <1>8 DEF Sleep, Wake, vars
  <2>2. Waiting' = Waiting
    BY <1>8, Untouched DEF Sleep, Wake, vars, written, thread
  <2> QED
    BY <1>2, <2>1, <2>2 DEF FileOfToday, calls, clock
<1>9. CASE Midnight
  <2>1. Waiting' = Waiting /\ UNCHANGED file /\ UNCHANGED calls /\ day' = day + 1
    BY <1>9, Untouched DEF Midnight, written, thread
  <2>2. \A c \in Callers : pc[c] \notin Handing
    BY <1>9 DEF Midnight, Handing
  <2> QED
    BY <1>1, <2>1, <2>2 DEF FileOfToday, file, calls
<1> QED
  BY <1>3, <1>4, <1>5, <1>6, <1>7, <1>8, <1>9 DEF Next, WriteLog, Log

LEMMA FilesDatedNext ==
    ASSUME LogInv, LogInv', FileOfToday, FilesDated, [Next]_vars
    PROVE  FilesDated'
<1> DEFINE m == Len(out) + 1
<1>0. DOMAIN out = 1..Len(out) /\ Len(out) \in Nat /\ day \in Int /\ today \in Int /\ fp.part \in Int
  BY DEF LogInv, TypeOK
<1>1. ASSUME UNCHANGED out, UNCHANGED file PROVE FilesDated'
  BY <1>1 DEF FilesDated, file
<1>2. ASSUME Len(out') = m, \A i \in 1..Len(out) : out'[i] = out[i], UNCHANGED file,
             out'[m].file = fp, out'[m].line.day <= today,
             out'[m].direct => out'[m].line.day = today
      PROVE  FilesDated'
  <2>1. DOMAIN out' = 1..m
    BY <1>2 DEF LogInv, TypeOK
  <2> SUFFICES ASSUME NEW i \in 1..m
               PROVE  /\ out'[i].file.day < today \/ (out'[i].file.day = today /\ out'[i].file.part <= fp.part)
                      /\ out'[i].file.day >= out'[i].line.day
                      /\ out'[i].direct => out'[i].file.day = out'[i].line.day
    BY <1>2, <2>1 DEF FilesDated, file
  <2>2. CASE i \in 1..Len(out)
    BY <1>0, <1>2, <2>2 DEF FilesDated
  <2>3. CASE i = m
    <3>1. fp.day = today
      BY DEF FileOfToday
    <3>2. out'[m].line.day \in Int
      <4>1. m \in DOMAIN out'
        BY <1>0, <2>1
      <4>2. out' \in Seq(Records)
        BY DEF LogInv, TypeOK, Records
      <4>3. out'[m] \in Records
        BY <4>1, <4>2
      <4>4. out'[m].line \in Lines
        BY <4>3 DEF Records
      <4> QED
        BY <4>4 DEF Lines
    <3> QED
      BY <1>0, <1>2, <2>3, <3>1, <3>2
  <2> QED
    BY <1>0, <2>2, <2>3
<1>3. ASSUME NEW c \in Callers, Count(c) PROVE FilesDated'
  <2>1. out' = out
    BY <1>3 DEF Count
  <2>2. today' = day /\ fp'.day = day
        /\ ((fp' = fp /\ today = day) \/ today < day \/ (today = day /\ fp'.part = fp.part + 1))
    BY <1>3, CountedLine
  <2>3. ASSUME NEW i \in DOMAIN out
        PROVE  out[i].file.day < today' \/ (out[i].file.day = today' /\ out[i].file.part <= fp'.part)
    <3>1. out[i].file.day < today \/ (out[i].file.day = today /\ out[i].file.part <= fp.part)
      BY DEF FilesDated
    <3>2. out[i].file.day \in Int /\ out[i].file.part \in Int
      BY FileTypes
    <3> QED
      BY <1>0, <2>2, <3>1, <3>2
  <2> QED
    BY <2>1, <2>3 DEF FilesDated
<1>4. ASSUME NEW c \in Callers, Put(c) PROVE FilesDated'
  <2>1. line[c].day = today /\ UNCHANGED file
    BY <1>4 DEF Put, FileOfToday, Handing
  <2>2. Len(out') = m /\ (\A i \in 1..Len(out) : out'[i] = out[i])
        /\ out'[m] = [line |-> line[c], file |-> fp, direct |-> TRUE]
    BY <1>4, PutDown
  <2>3. out'[m].file = fp /\ out'[m].line.day = today
    BY <2>1, <2>2
  <2> QED
    BY <1>0, <1>2, <2>1, <2>2, <2>3
<1>5. ASSUME Write PROVE FilesDated'
  <2>1. UNCHANGED file
    BY <1>5 DEF Write
  <2>2. Len(out') = m /\ (\A i \in 1..Len(out) : out'[i] = out[i])
        /\ out'[m] = [line |-> hand, file |-> fp, direct |-> FALSE] /\ InHand = {hand}
    BY <1>5, WrittenDown
  <2>3. hand.day <= today
    BY <2>2 DEF FileOfToday, Waiting
  <2>4. out'[m].file = fp /\ out'[m].line = hand /\ ~out'[m].direct
    BY <2>2
  <2> QED
    BY <1>2, <2>1, <2>2, <2>3, <2>4
<1>6. ASSUME NEW c \in Callers, Call(c) \/ Route(c) \/ Push(c) \/ Flush(c) PROVE FilesDated'
  BY <1>1, <1>6 DEF Call, Route, Push, Flush, written
<1>7. CASE Pop \/ Sleep \/ Wake \/ Midnight \/ UNCHANGED vars
  BY <1>1, <1>7 DEF Pop, Sleep, Wake, Midnight, vars, written
<1> QED
  BY <1>3, <1>4, <1>5, <1>6, <1>7 DEF Next, WriteLog, Log

\* What waits when a new file is opened.
LEMMA OpenedEmpty ==
    ASSUME LogInv, LogInv', Mode, Filled, out' = out, async' = async,
           UNCHANGED <<size, hand, writer>>, count' % Split = 0,
           \A i \in DOMAIN out : out[i].file # fp'
    PROVE  Filled'
<1>1. OpenFile' = {}
  BY DEF OpenFile, InFile
<1>2. Cardinality(OpenFile') = 0
  BY <1>1, FS_EmptySet
<1>3. size + Cardinality(InHand) <= IF async THEN QueueSize + 1 ELSE 0
  <2>1. size \in 0..QueueSize /\ Cardinality(InHand) \in 0..1
    BY Finite DEF Sizes
  <2>2. CASE ~async
    <3>1. size = 0 /\ hand = None
      BY <2>2 DEF Mode, LogInv, InCall
    <3>2. Cardinality(InHand) = 0
      BY <3>1, FS_EmptySet DEF InHand
    <3> QED
      BY <2>2, <3>1, <3>2
  <2> QED
    BY <2>1, <2>2
<1>4. Cardinality(Counting') <= Cardinality(Callers) /\ Cardinality(Counting') \in Nat
      /\ Cardinality(Callers) \in Nat /\ size \in Nat /\ Cardinality(InHand) \in Nat
  BY Finite, FiniteNext DEF Sizes
<1>5. Cardinality(InHand') = Cardinality(InHand) /\ size' = size
  BY DEF InHand
<1>6. Filling' = 0 + size + Cardinality(InHand) + Cardinality(Counting')
  BY <1>2, <1>5 DEF Filling
<1>7. Slack' = Slack /\ Slack = Cardinality(Callers) - 1 + (IF async THEN QueueSize + 1 ELSE 0)
  BY DEF Slack
<1>8. Filling' <= 0 + 1 + Slack
  BY <1>3, <1>4, <1>6, <1>7
<1>9. \A i \in DOMAIN out' : Cardinality(InFile(out[i].file))' <= Split + Slack'
  <2>1. ASSUME NEW i \in DOMAIN out' PROVE InFile(out[i].file)' = InFile(out[i].file)
    BY DEF InFile
  <2> QED
    BY <1>7, <2>1 DEF Filled
<1> QED
  BY <1>7, <1>8, <1>9 DEF Filled

LEMMA FilledNext ==
    ASSUME LogInv, LogInv', Mode, FileOfToday, FilesDated, Filled, [Next]_vars
    PROVE  Filled'
<1>1. /\ Cardinality(OpenFile) \in Nat /\ Cardinality(Counting) \in Nat /\ Cardinality(InHand) \in 0..1
      /\ size \in Nat /\ count \in Nat /\ count % Split \in Int
  BY Finite DEF Sizes
<1>2. /\ Cardinality(OpenFile') \in Nat /\ Cardinality(Counting') \in Nat /\ Cardinality(InHand') \in 0..1
      /\ size' \in Nat /\ count' \in Nat /\ count' % Split \in Int
  BY FiniteNext DEF Sizes
<1>3. Filling' \in Int /\ Filling \in Int
  BY <1>1, <1>2 DEF Filling
<1>4. ASSUME UNCHANGED out, UNCHANGED file, UNCHANGED async,
             size' + Cardinality(InHand') + Cardinality(Counting')
               <= size + Cardinality(InHand) + Cardinality(Counting)
      PROVE  Filled'
  <2>1. OpenFile' = OpenFile
    BY <1>4 DEF OpenFile, InFile, file
  <2>2. fp' = fp /\ count' = count
    BY <1>4 DEF file
  <2>3. Filling' <= Filling
    BY <1>1, <1>2, <1>4, <2>1 DEF Filling
  <2>4. Filling' <= Filling + (count' % Split) - (count % Split)
    BY <1>1, <1>3, <2>2, <2>3
  <2> QED
    BY <1>2, <1>3, <1>4, <2>2, <2>4, FilledStep
<1>5. ASSUME Counting' = Counting, InHand' = InHand, UNCHANGED size
      PROVE  size' + Cardinality(InHand') + Cardinality(Counting')
               <= size + Cardinality(InHand) + Cardinality(Counting)
  BY <1>1, <1>5
<1>6. ASSUME NEW c \in Callers, Call(c) \/ Route(c) \/ Flush(c) PROVE Filled'
  <2>1. Counting' = Counting
    BY <1>6 DEF Call, Route, Flush, Goto, Counting, LogInv, TypeOK
  <2>2. InHand' = InHand /\ UNCHANGED size /\ UNCHANGED out /\ UNCHANGED file /\ UNCHANGED async
    BY <1>6 DEF Call, Route, Flush, thread, ring, written, InHand
  <2> QED
    BY <1>4, <1>5, <2>1, <2>2
<1>7. ASSUME NEW c \in Callers, Count(c) PROVE Filled'
  <2>1. UNCHANGED out /\ UNCHANGED <<size, hand, writer>> /\ UNCHANGED async
    BY <1>7 DEF Count, ring, thread
  <2>2. CASE fp' = fp /\ count' % Split = (count % Split) + 1
    <3>1. Counting' = Counting \cup {c} /\ c \notin Counting
      <4>1. pc[c] = "count" /\ pc' = [pc EXCEPT ![c] = "route"]
        BY <1>7 DEF Count, Goto
      <4>2. pc'[c] = "route" /\ \A o \in Callers : o # c => pc'[o] = pc[o]
        BY <4>1 DEF LogInv, TypeOK
      <4> QED
        BY <4>1, <4>2 DEF Counting
    <3>2. Cardinality(Counting') = Cardinality(Counting) + 1
      <4>1. IsFiniteSet(Counting)
        BY Finite DEF Sizes
      <4> QED
        BY <3>1, <4>1, FS_AddElement
    <3>3. OpenFile' = OpenFile /\ InHand' = InHand
      BY <2>1, <2>2 DEF OpenFile, InFile, InHand
    <3>4. Filling' = Filling + 1
      BY <1>1, <2>1, <3>2, <3>3 DEF Filling
    <3>5. Filling' <= Filling + (count' % Split) - (count % Split)
      BY <1>1, <1>3, <2>2, <3>4
    <3> QED
      BY <1>2, <1>3, <2>1, <2>2, <3>5, FilledStep
  <2>3. CASE /\ fp'.day = day /\ (today < day \/ (today = day /\ fp'.part = fp.part + 1))
             /\ count' % Split = 0
    <3>1. ASSUME NEW i \in DOMAIN out PROVE out[i].file # fp'
      <4>1. out[i].file.day < today \/ (out[i].file.day = today /\ out[i].file.part <= fp.part)
        BY DEF FilesDated
      <4>2. out[i].file.day \in Int /\ out[i].file.part \in Int /\ fp.part \in Int /\ today \in Int /\ day \in Int
        <5>1. fp.part \in Int /\ today \in Int /\ day \in Int
          BY DEF LogInv, TypeOK
        <5> QED
          BY <5>1, FileTypes
      <4>3. out[i].file.day < day \/ (out[i].file.day = day /\ out[i].file.part < fp'.part)
        BY <2>3, <4>1, <4>2
      <4>4. out[i].file.day # day \/ out[i].file.part # fp'.part
        BY <2>3, <4>2, <4>3
      <4> QED
        BY <2>3, <4>4
    <3> QED
      BY <2>1, <2>3, <3>1, OpenedEmpty
  <2> QED
    BY <1>7, <2>2, <2>3, CountedLine
<1>8. ASSUME NEW c \in Callers, Push(c) PROVE Filled'
  <2>1. c \in Counting /\ pc' = [pc EXCEPT ![c] = "flush"]
    BY <1>8 DEF Push, Goto, Counting
  <2>2. Cardinality(Counting') = Cardinality(Counting) - 1
    BY <2>1, Leaves
  <2>3. UNCHANGED out /\ UNCHANGED file /\ UNCHANGED async /\ InHand' = InHand
    BY <1>8 DEF Push, written, InHand
  <2>4. size' <= size + 1
    BY <1>1, <1>8 DEF Push, Ringed, ring
  <2>5. size' + Cardinality(InHand') + Cardinality(Counting')
          <= size + Cardinality(InHand) + Cardinality(Counting)
    BY <1>1, <1>2, <2>2, <2>3, <2>4
  <2> QED
    BY <1>4, <2>3, <2>5
<1>9. ASSUME NEW c \in Callers, Put(c) PROVE Filled'
  <2>1. c \in Counting /\ pc' = [pc EXCEPT ![c] = "flush"]
    BY <1>9 DEF Put, Goto, Counting
  <2>2. Cardinality(Counting') = Cardinality(Counting) - 1
    BY <2>1, Leaves
  <2>3. /\ Len(out') = Len(out) + 1 /\ InHand' = InHand
        /\ \A i \in 1..Len(out) : out'[i] = out[i]
        /\ out'[Len(out) + 1] = [line |-> line[c], file |-> fp, direct |-> TRUE]
    BY <1>9, PutDown
  <2>4. async' = async /\ fp' = fp /\ count' = count /\ size' = size
    BY <1>9 DEF Put, file, ring
  <2>5. out'[Len(out) + 1].file = fp
    BY <2>3
  <2>6. size' + Cardinality(InHand') + Cardinality(Counting')
          = size + Cardinality(InHand) + Cardinality(Counting) - 1
    BY <1>1, <1>2, <2>2, <2>3, <2>4
  <2> QED
    BY <2>3, <2>4, <2>5, <2>6, FilledAppended
<1>10. ASSUME Pop PROVE Filled'
  <2>1. Cardinality(InHand') = 1 /\ Cardinality(InHand) = 0
    BY <1>10, TakenOut, FS_EmptySet, FS_Singleton
  <2>2. size' = size - 1 /\ Counting' = Counting /\ UNCHANGED out /\ UNCHANGED file /\ UNCHANGED async
    BY <1>10 DEF Pop, calls, Counting, written
  <2>3. size' + Cardinality(InHand') + Cardinality(Counting')
          <= size + Cardinality(InHand) + Cardinality(Counting)
    BY <1>1, <2>1, <2>2
  <2> QED
    BY <1>4, <2>2, <2>3
<1>11. ASSUME Write PROVE Filled'
  <2>1. /\ InHand = {hand} /\ InHand' = {} /\ Len(out') = Len(out) + 1
        /\ \A i \in 1..Len(out) : out'[i] = out[i]
        /\ out'[Len(out) + 1] = [line |-> hand, file |-> fp, direct |-> FALSE]
    BY <1>11, WrittenDown
  <2>2. Cardinality(InHand') = 0 /\ Cardinality(InHand) = 1
    BY <2>1, FS_EmptySet, FS_Singleton
  <2>3. async' = async /\ fp' = fp /\ count' = count /\ size' = size /\ Counting' = Counting
    BY <1>11 DEF Write, file, ring, calls, Counting
  <2>4. out'[Len(out) + 1].file = fp
    BY <2>1
  <2>5. size' + Cardinality(InHand') + Cardinality(Counting')
          = size + Cardinality(InHand) + Cardinality(Counting) - 1
    BY <1>1, <2>2, <2>3
  <2> QED
    BY <2>1, <2>3, <2>4, <2>5, FilledAppended
<1>12. CASE Sleep \/ Wake \/ Midnight \/ UNCHANGED vars
  <2>1. Counting' = Counting /\ InHand' = InHand /\ UNCHANGED size
        /\ UNCHANGED out /\ UNCHANGED file /\ UNCHANGED async
    BY <1>12 DEF Sleep, Wake, Midnight, vars, calls, thread, ring, written, InHand, Counting
  <2> QED
    BY <1>4, <1>5, <2>1
<1> QED
  BY <1>6, <1>7, <1>8, <1>9, <1>10, <1>11, <1>12 DEF Next, WriteLog, Log

LEMMA FileInit == Init => FileInv
<1> SUFFICES ASSUME Init PROVE FileOfToday /\ FilesDated /\ Filled
  BY DEF FileInv
<1>1. LogInv
  BY LogInit
<1>2. out = <<>> /\ Queued = <<>> /\ InHand = {} /\ size = 0 /\ count = 0
  BY DEF Init, Queued, InHand
<1>3. Waiting = {} /\ Counting = {} /\ OpenFile = {} /\ \A c \in Callers : pc[c] = "idle"
  BY <1>2 DEF Init, Waiting, Counting, OpenFile, InFile
<1>4. 0 \div Split = 0 /\ 0 % Split = 0
  OBVIOUS
<1>5. FileOfToday
  BY <1>2, <1>3, <1>4 DEF Init, FileOfToday, Handing
<1>6. FilesDated
  BY <1>2 DEF FilesDated
<1>7. Filled
  <2>1. Filling = 0
    BY <1>2, <1>3, FS_EmptySet DEF Filling
  <2>2. Cardinality(Callers) \in Nat
    BY <1>1, Finite DEF Sizes
  <2>3. 0 <= 0 + 1 + Slack
    BY <2>2 DEF Slack
  <2> QED
    BY <1>2, <1>4, <2>1, <2>3 DEF Filled
<1> QED
  BY <1>5, <1>6, <1>7

LEMMA FileInvariance == Spec => []FileInv
<1>1. LogInv /\ LogInv' /\ Mode /\ FileInv /\ [Next]_vars => FileInv'
  <2> SUFFICES ASSUME LogInv, LogInv', Mode, FileInv, [Next]_vars, ~late'
               PROVE  FileOfToday' /\ FilesDated' /\ Filled'
    BY DEF FileInv
  <2>1. ~late
    BY DEF Next, WriteLog, Log, Midnight, Call, Count, Route, Push, Put, Flush, Pop, Sleep, Wake, Write,
           vars, clock
  <2> QED
    BY <2>1, FileTodayNext, FilesDatedNext, FilledNext DEF FileInv
<1> QED
  BY <1>1, FileInit, LogInvariance, ModeInvariance, PTL DEF Spec

\* As long as midnight does not strike in the middle of a call, a line is in
\* the file of its day, or of a later one if it had to queue, and a file has no
\* more than Split lines, besides those that were held back.
THEOREM LinesInTheirFile == Spec => []RightFile
<1>1. LogInv /\ FileInv => RightFile
  <2> SUFFICES ASSUME LogInv, ~late, FilesDated, Filled, NEW i \in DOMAIN out
               PROVE  /\ out[i].file.day >= out[i].line.day
                      /\ out[i].direct => out[i].file.day = out[i].line.day
                      /\ Cardinality({j \in DOMAIN out : out[j].file = out[i].file})
                           <= Split + Cardinality(Callers) - 1 + (IF async THEN QueueSize + 1 ELSE 0)
    BY DEF FileInv, RightFile
  <2>1. Cardinality(InFile(out[i].file)) <= Split + Slack
    BY DEF Filled
  <2>2. Split + Slack = Split + Cardinality(Callers) - 1 + (IF async THEN QueueSize + 1 ELSE 0)
    BY Finite DEF Slack, Sizes
  <2> QED
    BY <2>1, <2>2 DEF FilesDated, InFile
<1> QED
  BY <1>1, LogInvariance, FileInvariance, PTL

============================================================================
