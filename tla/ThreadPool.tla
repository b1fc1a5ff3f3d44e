----------------------------- MODULE ThreadPool -----------------------------
(***************************************************************************)
(* threadpool<T>: one producer, the main thread in append or append_p, and *)
(* the workers in run, which share a list under m_queue_lock and are woken *)
(* through the semaphore m_queue_sem.  A signal handled by a worker makes  *)
(* sem_wait return without a decrement, and run ignores what it returned.  *)
(***************************************************************************)
EXTENDS Naturals, Sequences, FiniteSets

CONSTANTS Requests, Workers, MaxRequests, None, Main

ASSUME WorkersAssumption == IsFiniteSet(Workers) /\ Main \notin Workers
ASSUME NoneAssumption == None \notin Requests \cup Workers \cup {Main}
ASSUME MaxRequestsAssumption == MaxRequests \in Nat \ {0}

VARIABLES
    queue,      \* m_work_queue
    sem,        \* value of m_queue_sem
    lock,       \* holder of m_queue_lock
    producer,   \* where the main thread is in append
    request,    \* append's argument
    pc,         \* where each worker is in run
    task        \* run's local request

mainVars == <<producer, request>>
vars == <<queue, sem, lock, mainVars, pc, task>>

Init ==
    /\ queue = <<>> /\ sem = 0 /\ lock = None
    /\ producer = "idle" /\ request = None
    /\ pc = [w \in Workers |-> "wait"]
    /\ task = [w \in Workers |-> None]

----------------------------------------------------------------------------
(* append and append_p. *)

AppendLock(r) ==
    /\ producer = "idle" /\ lock = None
    /\ lock' = Main /\ producer' = "locked" /\ request' = r
    /\ UNCHANGED <<queue, sem, pc, task>>

\* Defective: one request too many.
FullTooLate == Len(queue) > MaxRequests

Full == Len(queue) >= MaxRequests

AppendFull ==
    /\ producer = "locked" /\ Full
    /\ lock' = None /\ producer' = "idle" /\ request' = None
    /\ UNCHANGED <<queue, sem, pc, task>>

AppendPush ==
    /\ producer = "locked" /\ ~Full
    /\ queue' = Append(queue, request)
    /\ producer' = "pushed"
    /\ UNCHANGED <<sem, lock, request, pc, task>>

AppendUnlock ==
    /\ producer = "pushed"
    /\ lock' = None /\ producer' = "post"
    /\ UNCHANGED <<queue, sem, request, pc, task>>

\* Defective: the semaphore is posted only when the queue was empty.
PostIfEmpty == IF Len(queue) <= 1 THEN sem + 1 ELSE sem

Posted == sem + 1

AppendPost ==
    /\ producer = "post"
    /\ sem' = Posted
    /\ producer' = "idle" /\ request' = None
    /\ UNCHANGED <<queue, lock, pc, task>>

Producer ==
    \/ \E r \in Requests : AppendLock(r)
    \/ AppendFull \/ AppendPush \/ AppendUnlock \/ AppendPost

----------------------------------------------------------------------------
(* run. *)

Goto(w, p) == pc' = [pc EXCEPT ![w] = p]

SemBlock(w) ==
    /\ pc[w] = "wait" /\ sem = 0
    /\ Goto(w, "blocked")
    /\ UNCHANGED <<queue, sem, lock, mainVars, task>>

SemTake(w) ==
    /\ pc[w] \in {"wait", "blocked"} /\ sem > 0
    /\ sem' = sem - 1
    /\ Goto(w, "woken")
    /\ UNCHANGED <<queue, lock, mainVars, task>>

\* EINTR: the worker goes on as if it had been posted.
SemInterrupted(w) ==
    /\ pc[w] = "blocked"
    /\ Goto(w, "woken")
    /\ UNCHANGED <<queue, sem, lock, mainVars, task>>

Lock(w) ==
    /\ pc[w] = "woken" /\ lock = None
    /\ lock' = w
    /\ Goto(w, "locked")
    /\ UNCHANGED <<queue, sem, mainVars, task>>

FindEmpty(w) ==
    /\ pc[w] = "locked" /\ queue = <<>>
    /\ lock' = None
    /\ Goto(w, "wait")
    /\ UNCHANGED <<queue, sem, mainVars, task>>

\* Defective: the newest request.
Newest == queue[Len(queue)]

Front == Head(queue)

Pop(w) ==
    /\ pc[w] = "locked" /\ queue # <<>>
    /\ task' = [task EXCEPT ![w] = Front]
    /\ queue' = Tail(queue)
    /\ Goto(w, "popped")
    /\ UNCHANGED <<sem, lock, mainVars>>

Unlock(w) ==
    /\ pc[w] = "popped"
    /\ lock' = None
    /\ Goto(w, "run")
    /\ UNCHANGED <<queue, sem, mainVars, task>>

\* read, process or write of the request return.
Run(w) ==
    /\ pc[w] = "run"
    /\ task' = [task EXCEPT ![w] = None]
    /\ Goto(w, "wait")
    /\ UNCHANGED <<queue, sem, lock, mainVars>>

Work(w) ==
    \/ SemBlock(w) \/ SemTake(w) \/ Lock(w) \/ FindEmpty(w)
    \/ Pop(w) \/ Unlock(w) \/ Run(w)

Next == Producer \/ \E w \in Workers : Work(w) \/ SemInterrupted(w)

Spec == Init /\ [][Next]_vars

\* Threads run, a posted semaphore lets some waiter through, and a mutex that
\* is free again and again is granted to whoever waits for it.
Fairness ==
    /\ WF_vars(AppendFull \/ AppendPush \/ AppendUnlock \/ AppendPost)
    /\ \A w \in Workers : WF_vars(Work(w)) /\ SF_vars(Lock(w))

FairSpec == Spec /\ Fairness

----------------------------------------------------------------------------
(* Correctness. *)

\* Each variable keeps its type, and the queue its bound.
TypeOK ==
    /\ queue \in Seq(Requests) /\ Len(queue) <= MaxRequests
    /\ sem \in Nat
    /\ lock \in Workers \cup {Main, None}
    /\ producer \in {"idle", "locked", "pushed", "post"}
    /\ request \in Requests \cup {None}
    /\ pc \in [Workers -> {"wait", "blocked", "woken", "locked", "popped", "run"}]
    /\ task \in [Workers -> Requests \cup {None}]

\* A thread is inside its critical section exactly when it holds the mutex,
\* and append and run have their argument where they use it.
LockHeld ==
    /\ producer \in {"locked", "pushed"} <=> lock = Main
    /\ \A w \in Workers : pc[w] \in {"locked", "popped"} <=> lock = w
    /\ producer # "idle" => request \in Requests
    /\ \A w \in Workers : pc[w] \in {"popped", "run"} <=> task[w] # None

Woken == {w \in Workers : pc[w] \in {"woken", "locked"}}

PostPending == IF producer \in {"pushed", "post"} THEN 1 ELSE 0

\* No wake-up is lost: for every queued request there is a semaphore unit, a
\* post on its way, or a worker that has been woken and not yet looked.
NoLostWakeup == Len(queue) <= sem + PostPending + Cardinality(Woken)

\* The pool implements the task queue, with the queue as it is and a worker's
\* local variable as the request it runs; fairness included.
TQ == INSTANCE TaskQueue WITH running <- task

ImplementsTaskQueue == TQ!TQFairSpec

============================================================================
