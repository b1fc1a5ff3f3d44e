----------------------------- MODULE TaskQueue -----------------------------
(***************************************************************************)
(* What the thread pool promises the event loop: a bounded first-in        *)
(* first-out queue of requests.  A request that finds it full is dropped;  *)
(* any other is handed to exactly one worker, in the order of arrival.     *)
(***************************************************************************)
EXTENDS Naturals, Sequences

CONSTANTS Requests, Workers, MaxRequests, None

VARIABLES
    queue,      \* requests accepted and not yet started
    running     \* the request each worker is executing, or None

tqvars == <<queue, running>>

TQInit ==
    /\ queue = <<>>
    /\ running = [w \in Workers |-> None]

Accept(r) ==
    /\ Len(queue) < MaxRequests
    /\ queue' = Append(queue, r)
    /\ UNCHANGED running

Start(w) ==
    /\ queue # <<>> /\ running[w] = None
    /\ running' = [running EXCEPT ![w] = Head(queue)]
    /\ queue' = Tail(queue)

Complete(w) ==
    /\ running[w] # None
    /\ running' = [running EXCEPT ![w] = None]
    /\ UNCHANGED queue

TQNext ==
    \/ \E r \in Requests : Accept(r)
    \/ \E w \in Workers : Start(w) \/ Complete(w)

TQSpec == TQInit /\ [][TQNext]_tqvars

\* A request never waits for ever while a worker has nothing to do.
TQFairSpec == TQSpec /\ WF_tqvars(\E w \in Workers : Start(w))

============================================================================
