-------------------------- MODULE ThreadPoolProofs --------------------------
(***************************************************************************)
(* ThreadPool for every number of workers and every queue length: its      *)
(* types, its mutual exclusion, that no wake-up is lost although sem_wait  *)
(* may be interrupted, and that it implements TaskQueue.                   *)
(***************************************************************************)
EXTENDS ThreadPool, FiniteSetTheorems, TLAPS

\* The mutex and the locals of append and run are what LockHeld says; this and
\* TypeOK are inductive together.
Inv == TypeOK /\ LockHeld

USE NoneAssumption, WorkersAssumption, MaxRequestsAssumption

LEMMA InitInv == Init => Inv
  BY DEF Init, Inv, TypeOK, LockHeld

LEMMA NextInv == Inv /\ [Next]_vars => Inv'
<1> SUFFICES ASSUME Inv, [Next]_vars PROVE Inv'
  OBVIOUS
<1> USE DEF Inv, TypeOK, LockHeld, mainVars
<1>1. ASSUME NEW r \in Requests, AppendLock(r) PROVE Inv'
  BY <1>1 DEF AppendLock
<1>2. CASE AppendFull
  BY <1>2 DEF AppendFull
<1>3. CASE AppendPush
  <2>1. request \in Requests
    BY <1>3 DEF AppendPush
  <2>2. Append(queue, request) \in Seq(Requests) /\ Len(Append(queue, request)) = Len(queue) + 1
    BY <2>1
  <2> QED
    BY <1>3, <2>1, <2>2 DEF AppendPush, Full
<1>4. CASE AppendUnlock
  BY <1>4 DEF AppendUnlock
<1>5. CASE AppendPost
  BY <1>5 DEF AppendPost, Posted
<1>6. ASSUME NEW w \in Workers, SemBlock(w) PROVE Inv'
  BY <1>6 DEF SemBlock, Goto
<1>7. ASSUME NEW w \in Workers, SemTake(w) PROVE Inv'
  BY <1>7 DEF SemTake, Goto
<1>8. ASSUME NEW w \in Workers, SemInterrupted(w) PROVE Inv'
  BY <1>8 DEF SemInterrupted, Goto
<1>9. ASSUME NEW w \in Workers, Lock(w) PROVE Inv'
  BY <1>9 DEF Lock, Goto
<1>10. ASSUME NEW w \in Workers, FindEmpty(w) PROVE Inv'
  BY <1>10 DEF FindEmpty, Goto
<1>11. ASSUME NEW w \in Workers, Pop(w) PROVE Inv'
  <2>1. Head(queue) \in Requests /\ Tail(queue) \in Seq(Requests) /\ Len(Tail(queue)) = Len(queue) - 1
    BY <1>11 DEF Pop
  <2> QED
    BY <1>11, <2>1 DEF Pop, Front, Goto
<1>12. ASSUME NEW w \in Workers, Unlock(w) PROVE Inv'
  BY <1>12 DEF Unlock, Goto
<1>13. ASSUME NEW w \in Workers, Run(w) PROVE Inv'
  BY <1>13 DEF Run, Goto
<1>14. CASE UNCHANGED vars
  BY <1>14 DEF vars, mainVars
<1> QED
  BY <1>1, <1>2, <1>3, <1>4, <1>5, <1>6, <1>7, <1>8, <1>9, <1>10, <1>11, <1>12, <1>13, <1>14
  DEF Next, Producer, Work

LEMMA Invariance == Spec => []Inv
  BY InitInv, NextInv, PTL DEF Spec

\* The variables keep their types, and the queue never exceeds m_max_requests.
THEOREM TypeCorrect == Spec => []TypeOK
  BY Invariance, PTL DEF Inv

\* The queue's mutex admits one thread at a time, for any number of threads.
LEMMA MutualExclusion ==
    Spec => [](\A v, w \in Workers :
                  pc[v] \in {"locked", "popped"} /\ pc[w] \in {"locked", "popped"} => v = w)
<1>1. Inv => \A v, w \in Workers :
                pc[v] \in {"locked", "popped"} /\ pc[w] \in {"locked", "popped"} => v = w
  BY DEF Inv, LockHeld
<1> QED
  BY <1>1, Invariance, PTL

----------------------------------------------------------------------------
(* No lost wake-up. *)

\* Woken is finite, grows by a worker that wakes and shrinks by one that pops.
LEMMA WokenFinite == IsFiniteSet(Woken) /\ Cardinality(Woken) \in Nat
<1>1. Woken \subseteq Workers
  BY DEF Woken
<1> QED
  BY <1>1, FS_Subset, FS_CardinalityType

LEMMA WokenGrows ==
    ASSUME NEW w \in Workers, w \notin Woken, Woken' = Woken \cup {w}
    PROVE  Cardinality(Woken') = Cardinality(Woken) + 1
  BY WokenFinite, FS_AddElement

LEMMA WokenShrinks ==
    ASSUME NEW w \in Workers, w \in Woken, Woken' = Woken \ {w}
    PROVE  Cardinality(Woken') = Cardinality(Woken) - 1
  BY WokenFinite, FS_RemoveElement

LEMMA NextWakeup == Inv /\ NoLostWakeup /\ [Next]_vars => NoLostWakeup'
<1> SUFFICES ASSUME Inv, NoLostWakeup, [Next]_vars PROVE NoLostWakeup'
  OBVIOUS
<1> DEFINE C == Cardinality(Woken)
<1>0. C \in Nat /\ sem \in Nat /\ Len(queue) \in Nat /\ PostPending \in {0, 1}
  BY WokenFinite DEF Inv, TypeOK, PostPending
<1>1. ASSUME pc' = pc PROVE Woken' = Woken
  BY <1>1 DEF Woken
<1>2. ASSUME NEW r \in Requests, AppendLock(r) PROVE NoLostWakeup'
  BY <1>0, <1>1, <1>2 DEF AppendLock, NoLostWakeup, PostPending
<1>3. CASE AppendFull
  BY <1>0, <1>1, <1>3 DEF AppendFull, NoLostWakeup, PostPending
<1>4. CASE AppendPush
  <2>1. Len(queue') = Len(queue) + 1
    BY <1>4 DEF AppendPush, Inv, TypeOK, LockHeld
  <2>2. PostPending = 0 /\ PostPending' = 1
    BY <1>4 DEF AppendPush, PostPending
  <2> QED
    BY <1>0, <1>1, <1>4, <2>1, <2>2 DEF AppendPush, NoLostWakeup
<1>5. CASE AppendUnlock
  BY <1>0, <1>1, <1>5 DEF AppendUnlock, NoLostWakeup, PostPending
<1>6. CASE AppendPost
  <2>1. PostPending = 1 /\ PostPending' = 0
    BY <1>6 DEF AppendPost, PostPending
  <2> QED
    BY <1>0, <1>1, <1>6, <2>1 DEF AppendPost, Posted, NoLostWakeup
<1>7. ASSUME NEW w \in Workers, SemBlock(w) PROVE NoLostWakeup'
  <2>1. Woken' = Woken
    BY <1>7 DEF SemBlock, Goto, Woken, Inv, TypeOK
  <2> QED
    BY <1>0, <1>7, <2>1 DEF SemBlock, NoLostWakeup, PostPending, mainVars
<1>8. ASSUME NEW w \in Workers, SemTake(w) PROVE NoLostWakeup'
  <2>1. w \notin Woken /\ Woken' = Woken \cup {w}
    BY <1>8 DEF SemTake, Goto, Woken, Inv, TypeOK
  <2>2. Cardinality(Woken') = C + 1
    BY <2>1, WokenGrows
  <2>3. sem' = sem - 1 /\ PostPending' = PostPending /\ queue' = queue
    BY <1>8 DEF SemTake, PostPending, mainVars
  <2> QED
    BY <1>0, <2>2, <2>3 DEF NoLostWakeup
<1>9. ASSUME NEW w \in Workers, SemInterrupted(w) PROVE NoLostWakeup'
  <2>1. w \notin Woken /\ Woken' = Woken \cup {w}
    BY <1>9 DEF SemInterrupted, Goto, Woken, Inv, TypeOK
  <2>2. Cardinality(Woken') = C + 1
    BY <2>1, WokenGrows
  <2>3. sem' = sem /\ PostPending' = PostPending /\ queue' = queue
    BY <1>9 DEF SemInterrupted, PostPending, mainVars
  <2> QED
    BY <1>0, <2>2, <2>3 DEF NoLostWakeup
<1>10. ASSUME NEW w \in Workers, Lock(w) PROVE NoLostWakeup'
  <2>1. Woken' = Woken
    BY <1>10 DEF Lock, Goto, Woken, Inv, TypeOK
  <2> QED
    BY <1>0, <1>10, <2>1 DEF Lock, NoLostWakeup, PostPending, mainVars
<1>11. ASSUME NEW w \in Workers, FindEmpty(w) PROVE NoLostWakeup'
  <2>1. Woken' \subseteq Workers
    BY DEF Woken
  <2>2. Cardinality(Woken') \in Nat
    BY <2>1, FS_Subset, FS_CardinalityType
  <2>3. Len(queue') = 0 /\ sem' \in Nat /\ PostPending' \in {0, 1}
    BY <1>0, <1>11 DEF FindEmpty, PostPending, mainVars
  <2> QED
    BY <2>2, <2>3 DEF NoLostWakeup
<1>12. ASSUME NEW w \in Workers, Pop(w) PROVE NoLostWakeup'
  <2>1. w \in Woken /\ Woken' = Woken \ {w}
    BY <1>12 DEF Pop, Goto, Woken, Inv, TypeOK
  <2>2. Cardinality(Woken') = C - 1
    BY <2>1, WokenShrinks
  <2>3. Len(queue') = Len(queue) - 1
    BY <1>12 DEF Pop, Inv, TypeOK
  <2>4. sem' = sem /\ PostPending' = PostPending
    BY <1>12 DEF Pop, PostPending, mainVars
  <2> QED
    BY <1>0, <2>2, <2>3, <2>4 DEF NoLostWakeup
<1>13. ASSUME NEW w \in Workers, Unlock(w) \/ Run(w) PROVE NoLostWakeup'
  <2>1. Woken' = Woken
    BY <1>13 DEF Unlock, Run, Goto, Woken, Inv, TypeOK
  <2> QED
    BY <1>0, <1>13, <2>1 DEF Unlock, Run, NoLostWakeup, PostPending, mainVars
<1>14. CASE UNCHANGED vars
  BY <1>0, <1>1, <1>14 DEF vars, mainVars, NoLostWakeup, PostPending
<1> QED
  BY <1>2, <1>3, <1>4, <1>5, <1>6, <1>7, <1>8, <1>9, <1>10, <1>11, <1>12, <1>13, <1>14
  DEF Next, Producer, Work

\* For any number of workers, a queued request always has a semaphore unit, a
\* pending post or a woken worker: append's post after the unlock and run's
\* unchecked sem_wait never leave a request that nobody will look for.
THEOREM WakeupsKept == Spec => []NoLostWakeup
<1>1. Init => NoLostWakeup
  <2>1. Woken \subseteq Workers
    BY DEF Woken
  <2>2. Cardinality(Woken) \in Nat
    BY <2>1, FS_Subset, FS_CardinalityType
  <2> QED
    BY <2>2 DEF Init, NoLostWakeup, PostPending
<1> QED
  BY <1>1, Invariance, NextWakeup, PTL DEF Spec

----------------------------------------------------------------------------
(* Refinement. *)

\* Every step of the pool is a step of the task queue or leaves it alone, for
\* any number of workers: the list, the mutex and the semaphore together are a
\* bounded FIFO queue that hands each request to one worker.
THEOREM Refinement == Spec => TQ!TQSpec
<1>1. Init => TQ!TQInit
  BY DEF Init, TQ!TQInit
<1>2. Inv /\ [Next]_vars => [TQ!TQNext]_(TQ!tqvars)
  <2> SUFFICES ASSUME Inv, [Next]_vars PROVE [TQ!TQNext]_(TQ!tqvars)
    OBVIOUS
  <2> USE DEF TQ!tqvars, mainVars
  <2>1. CASE AppendPush
    <3>1. TQ!Accept(request)
      BY <2>1 DEF AppendPush, Full, TQ!Accept, Inv, TypeOK
    <3> QED
      BY <2>1, <3>1 DEF AppendPush, Inv, LockHeld, TQ!TQNext
  <2>2. ASSUME NEW w \in Workers, Pop(w) PROVE [TQ!TQNext]_(TQ!tqvars)
    <3>1. TQ!Start(w)
      BY <2>2 DEF Pop, Front, TQ!Start, Inv, LockHeld
    <3> QED
      BY <3>1 DEF TQ!TQNext
  <2>3. ASSUME NEW w \in Workers, Run(w) PROVE [TQ!TQNext]_(TQ!tqvars)
    <3>1. TQ!Complete(w)
      BY <2>3 DEF Run, TQ!Complete, Inv, LockHeld
    <3> QED
      BY <3>1 DEF TQ!TQNext
  <2>4. ASSUME NEW r \in Requests, AppendLock(r) PROVE UNCHANGED TQ!tqvars
    BY <2>4 DEF AppendLock
  <2>5. CASE AppendFull \/ AppendUnlock \/ AppendPost
    BY <2>5 DEF AppendFull, AppendUnlock, AppendPost
  <2>6. ASSUME NEW w \in Workers,
               \/ SemBlock(w) \/ SemTake(w) \/ SemInterrupted(w)
               \/ Lock(w) \/ FindEmpty(w) \/ Unlock(w)
        PROVE  UNCHANGED TQ!tqvars
    BY <2>6 DEF SemBlock, SemTake, SemInterrupted, Lock, FindEmpty, Unlock
  <2>7. CASE UNCHANGED vars
    BY <2>7 DEF vars
  <2> QED
    BY <2>1, <2>2, <2>3, <2>4, <2>5, <2>6, <2>7 DEF Next, Producer, Work
<1> QED
  BY <1>1, <1>2, Invariance, PTL DEF Spec, TQ!TQSpec

============================================================================
