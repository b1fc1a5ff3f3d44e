--------------------------- MODULE ConnPoolProofs ---------------------------
(***************************************************************************)
(* ConnPool for every number of threads and connections: with at least as  *)
(* many connections as threads get_conn neither fails nor sleeps; with     *)
(* fewer it is still safe from popping an empty list, as long as no signal *)
(* interrupts sem_wait; and whatever happens a connection has one holder,  *)
(* and is open while it has one, and no connection is lost.                *)
(***************************************************************************)
EXTENDS ConnPool, FiniteSetTheorems, TLAPS

USE NoneAssumption, FiniteAssumption

\* Threads that hold a unit of the semaphore, and those that hold a connection.
Reserved ==
    {t \in Threads : pc[t] \in {"reserved", "taking", "taken", "using",
                                "releasing", "released", "post"}}

Holding == {t \in Threads : pc[t] \in {"taken", "using", "releasing"}}

\* There is a connection for every thread.
Ample == Cardinality(Threads) <= Cardinality(Conns)

\* No unit and no connection gets lost: the semaphore and the threads that
\* have passed it add up to the connections there are, and so do the list and
\* the threads that work with one.
Units == sem + Cardinality(Reserved) = Cardinality(Conns)
Links == Len(list) + Cardinality(Holding) = Cardinality(Conns)

Types ==
    /\ list \in Seq(Conns)
    /\ sem \in Nat
    /\ pc \in [Threads -> {"idle", "null", "wait", "blocked", "reserved", "taking", "taken",
                           "using", "releasing", "released", "post", "fault"}]
    /\ con \in [Threads -> Conns \cup {None}]
    /\ \A t \in Holding : con[t] \in Conns

Calm == NoNull /\ NeverBlocks

Sound == Types /\ Units /\ Links /\ fault = {} /\ (Ample => Calm)

\* Nothing has happened yet that upsets the counts: where nobody sleeps,
\* signals do no harm.
Quiet == closed = {} /\ (Ample \/ ~signalled)

Inv == Types /\ (Quiet => Sound)

LEMMA ConnsFinite == Cardinality(Conns) \in Nat /\ Cardinality(Threads) \in Nat
  BY FS_CardinalityType

LEMMA SubsetFinite ==
    ASSUME NEW S, S \subseteq Threads
    PROVE  /\ IsFiniteSet(S) /\ Cardinality(S) \in Nat
           /\ Cardinality(S) <= Cardinality(Threads)
           /\ \A t \in Threads : t \notin S => Cardinality(S) < Cardinality(Threads)
<1>1. IsFiniteSet(S) /\ Cardinality(S) <= Cardinality(Threads)
  BY FS_Subset
<1>2. Cardinality(S) \in Nat
  BY <1>1, FS_CardinalityType
<1>3. ASSUME NEW t \in Threads, t \notin S PROVE Cardinality(S) < Cardinality(Threads)
  <2>1. S \cup {t} \subseteq Threads
    BY <1>3
  <2>2. Cardinality(S \cup {t}) = Cardinality(S) + 1
    BY <1>1, <1>3, FS_AddElement
  <2>3. Cardinality(S \cup {t}) <= Cardinality(Threads)
    BY <2>1, FS_Subset
  <2> QED
    BY <1>2, <2>2, <2>3, ConnsFinite
<1> QED
  BY <1>1, <1>2, <1>3

\* What the counts say of a thread that is about to look, wait or take.
LEMMA Counts ==
    ASSUME Sound, NEW t \in Threads
    PROVE  /\ Ample /\ t \notin Holding => list # <<>>
           /\ Ample /\ t \notin Reserved => sem > 0
           /\ t \in Reserved /\ t \notin Holding => list # <<>>
<1>1. Holding \subseteq Threads /\ Reserved \subseteq Threads /\ Holding \subseteq Reserved
  BY DEF Holding, Reserved
<1>2. Cardinality(Holding) \in Nat /\ Cardinality(Reserved) \in Nat
  BY <1>1, SubsetFinite
<1>3. Len(list) \in Nat /\ sem \in Nat
  BY DEF Sound, Types
<1>4. (list = <<>>) => Cardinality(Holding) = Cardinality(Conns)
  BY <1>2, ConnsFinite DEF Sound, Links
<1>5. ASSUME Ample, t \notin Holding PROVE list # <<>>
  <2>1. Cardinality(Holding) < Cardinality(Threads)
    BY <1>1, <1>5, SubsetFinite
  <2> QED
    BY <1>2, <1>4, <1>5, <2>1, ConnsFinite DEF Ample
<1>6. ASSUME Ample, t \notin Reserved PROVE sem > 0
  <2>1. Cardinality(Reserved) < Cardinality(Threads)
    BY <1>1, <1>6, SubsetFinite
  <2> QED
    BY <1>2, <1>3, <1>6, <2>1, ConnsFinite DEF Ample, Sound, Units
<1>7. ASSUME t \in Reserved, t \notin Holding PROVE list # <<>>
  <2>1. Holding \subseteq Reserved \ {t} /\ IsFiniteSet(Reserved)
    BY <1>1, <1>7, SubsetFinite
  <2>2. IsFiniteSet(Reserved \ {t}) /\ Cardinality(Reserved \ {t}) = Cardinality(Reserved) - 1
    BY <1>7, <2>1, FS_RemoveElement
  <2>3. Cardinality(Holding) <= Cardinality(Reserved) - 1
    BY <2>1, <2>2, FS_Subset
  <2>4. Cardinality(Reserved) <= Cardinality(Conns)
    BY <1>2, <1>3, ConnsFinite DEF Sound, Units
  <2> QED
    BY <1>2, <1>4, <2>3, <2>4, ConnsFinite
<1> QED
  BY <1>5, <1>6, <1>7

\* A step of t changes the counted sets by t at most.
LEMMA SetGrows ==
    ASSUME NEW S, NEW t \in Threads, S \subseteq Threads, t \notin S
    PROVE  Cardinality(S \cup {t}) = Cardinality(S) + 1
  BY SubsetFinite, FS_AddElement

LEMMA SetShrinks ==
    ASSUME NEW S, NEW t \in Threads, S \subseteq Threads, t \in S
    PROVE  Cardinality(S \ {t}) = Cardinality(S) - 1
  BY SubsetFinite, FS_RemoveElement

LEMMA InitInv == PoolInit => Sound
<1> SUFFICES ASSUME PoolInit PROVE Sound
  OBVIOUS
<1>1. Reserved = {} /\ Holding = {}
  BY DEF PoolInit, Reserved, Holding
<1>2. Cardinality(Reserved) = 0 /\ Cardinality(Holding) = 0
  BY <1>1, FS_EmptySet
<1>3. list \in Seq(Conns) /\ Len(list) = Cardinality(Conns)
  BY ConnsFinite DEF PoolInit, Orders
<1> QED
  BY <1>1, <1>2, <1>3, ConnsFinite
  DEF PoolInit, Sound, Types, Units, Links, Calm, NoNull, NeverBlocks

LEMMA SoundKept ==
    ASSUME Sound, [PoolNext]_poolVars, Quiet'
    PROVE  Sound'
<1> USE DEF shared, counters, events
<1>0. /\ Holding \subseteq Threads /\ Reserved \subseteq Threads
      /\ Cardinality(Holding) \in Nat /\ Cardinality(Reserved) \in Nat
      /\ Len(list) \in Nat /\ sem \in Nat
  BY SubsetFinite DEF Holding, Reserved, Sound, Types
<1>1. ASSUME NEW t \in Threads,
             Types', Units', Links', fault' = fault,
             \E p \in {"idle", "wait", "reserved", "taking", "taken", "using", "releasing",
                       "released", "post"} : Goto(t, p)
      PROVE  Sound'
  BY <1>1 DEF Sound, Types, Goto, Calm, NoNull, NeverBlocks, Ample
<1>2. ASSUME NEW t \in Threads, CheckEmpty(t) PROVE Sound'
  <2>1. Reserved' = Reserved /\ Holding' = Holding /\ t \notin Holding
    BY <1>2 DEF CheckEmpty, Goto, Reserved, Holding, Sound, Types
  <2>2. Types' /\ Units' /\ Links'
    BY <1>2, <2>1 DEF CheckEmpty, Goto, Sound, Types, Units, Links
  <2>3. Ample => list # <<>>
    BY <2>1, Counts
  <2> QED
    BY <1>2, <2>2, <2>3
    DEF CheckEmpty, Goto, Sound, Types, Calm, NoNull, NeverBlocks, Ample
<1>3. ASSUME NEW t \in Threads, SemBlock(t) PROVE Sound'
  <2>1. Reserved' = Reserved /\ Holding' = Holding /\ t \notin Reserved
    BY <1>3 DEF SemBlock, Goto, Reserved, Holding, Sound, Types
  <2>2. Types' /\ Units' /\ Links'
    BY <1>3, <2>1 DEF SemBlock, Goto, Sound, Types, Units, Links
  <2>3. ~Ample
    BY <1>0, <1>3, <2>1, Counts DEF SemBlock
  <2> QED
    BY <1>3, <2>2, <2>3 DEF SemBlock, Sound, Ample
<1>4. ASSUME NEW t \in Threads, SemTake(t) PROVE Sound'
  <2>1. Reserved' = Reserved \cup {t} /\ Holding' = Holding /\ t \notin Reserved
    BY <1>4 DEF SemTake, Goto, Reserved, Holding, Sound, Types
  <2>2. Cardinality(Reserved') = Cardinality(Reserved) + 1
    BY <1>0, <2>1, SetGrows
  <2>3. sem' = sem - 1 /\ sem' \in Nat
    BY <1>0, <1>4 DEF SemTake, UnitTaken
  <2>4. Types'
    BY <1>4, <2>1, <2>3 DEF SemTake, Goto, Sound, Types
  <2>5. Units'
    BY <1>0, <2>2, <2>3, ConnsFinite DEF Sound, Units
  <2>6. Links'
    BY <1>4, <2>1 DEF SemTake, Sound, Links
  <2> QED
    BY <1>1, <1>4, <2>4, <2>5, <2>6 DEF SemTake
<1>5. ASSUME NEW t \in Threads, SemInterrupted(t) PROVE Sound'
  BY <1>5 DEF SemInterrupted, Quiet, Sound, Calm, NeverBlocks, Ample
<1>6. ASSUME NEW t \in Threads, LockToTake(t) PROVE Sound'
  <2>1. Reserved' = Reserved /\ Holding' = Holding
    BY <1>6 DEF LockToTake, Goto, Reserved, Holding, Sound, Types
  <2>2. Types' /\ Units' /\ Links'
    BY <1>6, <2>1 DEF LockToTake, Goto, Sound, Types, Units, Links
  <2> QED
    BY <1>1, <1>6, <2>2 DEF LockToTake
<1>7. ASSUME NEW t \in Threads, Take(t) PROVE Sound'
  <2>1. t \in Reserved /\ t \notin Holding
    BY <1>7 DEF Take, Reserved, Holding
  <2>2. list # <<>>
    BY <2>1, Counts
  <2>3. Reserved' = Reserved /\ Holding' = Holding \cup {t}
    BY <1>7, <2>2 DEF Take, Goto, Reserved, Holding, Sound, Types
  <2>4. Cardinality(Holding') = Cardinality(Holding) + 1
    BY <1>0, <2>1, <2>3, SetGrows
  <2>5. /\ Head(list) \in Conns /\ Tail(list) \in Seq(Conns)
        /\ Len(Tail(list)) = Len(list) - 1
    BY <2>2 DEF Sound, Types
  <2>6. Types'
    <3>1. con' = [con EXCEPT ![t] = Head(list)] /\ list' = Tail(list) /\ sem' = sem
      BY <1>7, <2>2 DEF Take, Popped
    <3>2. \A u \in Holding' : con'[u] \in Conns
      BY <2>3, <2>5, <3>1, <1>0 DEF Sound, Types
    <3>3. pc' = [pc EXCEPT ![t] = "taken"]
      BY <1>7, <2>2 DEF Take, Goto
    <3> QED
      BY <2>5, <3>1, <3>2, <3>3 DEF Sound, Types
  <2>7. Units' /\ Links'
    BY <1>0, <1>7, <2>2, <2>3, <2>4, <2>5, ConnsFinite DEF Take, Popped, Sound, Units, Links
  <2> QED
    BY <1>1, <1>7, <2>2, <2>6, <2>7 DEF Take
<1>8. ASSUME NEW t \in Threads, UnlockTaken(t) PROVE Sound'
  <2>1. Reserved' = Reserved /\ Holding' = Holding
    BY <1>8 DEF UnlockTaken, Goto, Reserved, Holding, Sound, Types
  <2>2. Types' /\ Units' /\ Links'
    BY <1>8, <2>1 DEF UnlockTaken, Goto, Sound, Types, Units, Links
  <2> QED
    BY <1>1, <1>8, <2>2 DEF UnlockTaken
<1>9. ASSUME NEW t \in Threads, ReleaseNull(t) PROVE Sound'
  <2>1. Reserved' = Reserved /\ Holding' = Holding
    BY <1>9 DEF ReleaseNull, Goto, Reserved, Holding, Sound, Types
  <2>2. Types' /\ Units' /\ Links'
    BY <1>9, <2>1 DEF ReleaseNull, Goto, Sound, Types, Units, Links
  <2> QED
    BY <1>1, <1>9, <2>2 DEF ReleaseNull
<1>10. ASSUME NEW t \in Threads, LockToRelease(t) PROVE Sound'
  <2>1. Reserved' = Reserved /\ Holding' = Holding
    BY <1>10 DEF LockToRelease, Goto, Reserved, Holding, Sound, Types
  <2>2. Types' /\ Units' /\ Links'
    BY <1>10, <2>1 DEF LockToRelease, Goto, Sound, Types, Units, Links
  <2> QED
    BY <1>1, <1>10, <2>2 DEF LockToRelease
<1>11. ASSUME NEW t \in Threads, Release(t) PROVE Sound'
  <2>1. t \in Holding /\ con[t] \in Conns
    BY <1>11 DEF Release, Holding, Sound, Types
  <2>2. Reserved' = Reserved /\ Holding' = Holding \ {t}
    BY <1>11 DEF Release, Goto, Reserved, Holding, Sound, Types
  <2>3. Cardinality(Holding') = Cardinality(Holding) - 1
    BY <1>0, <2>1, <2>2, SetShrinks
  <2>4. list' \in Seq(Conns) /\ Len(list') = Len(list) + 1
    BY <1>11, <2>1 DEF Release, PutBack, Sound, Types
  <2>5. Types'
    BY <1>11, <2>2, <2>4 DEF Release, Goto, Sound, Types
  <2>6. Units' /\ Links'
    BY <1>0, <1>11, <2>2, <2>3, <2>4, ConnsFinite DEF Release, Sound, Units, Links
  <2> QED
    BY <1>1, <1>11, <2>5, <2>6 DEF Release
<1>12. ASSUME NEW t \in Threads, UnlockReleased(t) PROVE Sound'
  <2>1. Reserved' = Reserved /\ Holding' = Holding
    BY <1>12 DEF UnlockReleased, Goto, Reserved, Holding, Sound, Types
  <2>2. Types' /\ Units' /\ Links'
    BY <1>12, <2>1 DEF UnlockReleased, Goto, Sound, Types, Units, Links
  <2> QED
    BY <1>1, <1>12, <2>2 DEF UnlockReleased
<1>13. ASSUME NEW t \in Threads, Post(t) PROVE Sound'
  <2>1. t \in Reserved /\ Reserved' = Reserved \ {t} /\ Holding' = Holding
    BY <1>13 DEF Post, Goto, Reserved, Holding, Sound, Types
  <2>2. Cardinality(Reserved') = Cardinality(Reserved) - 1
    BY <1>0, <2>1, SetShrinks
  <2>3. Types' /\ Units' /\ Links'
    BY <1>0, <1>13, <2>1, <2>2, ConnsFinite DEF Post, Posted, Goto, Sound, Types, Units, Links
  <2> QED
    BY <1>1, <1>13, <2>3 DEF Post
<1>14. ASSUME DestroyPool PROVE Sound'
  <2>1. Len(list) \in Nat /\ Len(list) # 0 /\ 1 \in 1..Len(list)
    BY <1>14 DEF DestroyPool, Sound, Types
  <2>2. list[1] \in closed'
    BY <1>14, <2>1 DEF DestroyPool, Listed
  <2> QED
    BY <2>2 DEF Quiet
<1>15. CASE UNCHANGED poolVars
  BY <1>15 DEF poolVars, Sound, Types, Units, Links, Reserved, Holding, Calm, NoNull,
     NeverBlocks, Ample
<1> QED
  BY <1>2, <1>3, <1>4, <1>5, <1>6, <1>7, <1>8, <1>9, <1>10, <1>11, <1>12, <1>13, <1>14,
     <1>15
  DEF PoolNext, Get, Put

\* What holds whatever happens.
LEMMA TypesKept == ASSUME Types, [PoolNext]_poolVars PROVE Types'
<1> USE DEF shared, counters, events, Types, Goto
<1>1. ASSUME NEW t \in Threads, CheckEmpty(t) \/ SemBlock(t) \/ SemInterrupted(t) PROVE Types'
  BY <1>1 DEF CheckEmpty, SemBlock, SemInterrupted, Holding
<1>2. ASSUME NEW t \in Threads, SemTake(t) PROVE Types'
  BY <1>2 DEF SemTake, UnitTaken, Holding
<1>3. ASSUME NEW t \in Threads, LockToTake(t) PROVE Types'
  BY <1>3 DEF LockToTake, Holding
<1>4. ASSUME NEW t \in Threads, Take(t) PROVE Types'
  <2>1. CASE list = <<>>
    BY <1>4, <2>1 DEF Take, Holding
  <2>2. CASE list # <<>>
    <3>1. Head(list) \in Conns /\ Tail(list) \in Seq(Conns)
      BY <2>2
    <3>2. con' = [con EXCEPT ![t] = Head(list)] /\ pc' = [pc EXCEPT ![t] = "taken"]
      BY <1>4, <2>2 DEF Take
    <3>3. \A u \in Holding' : con'[u] \in Conns
      BY <3>1, <3>2 DEF Holding
    <3> QED
      BY <1>4, <2>2, <3>1, <3>2, <3>3 DEF Take, Popped
  <2> QED
    BY <2>1, <2>2
<1>5. ASSUME NEW t \in Threads, UnlockTaken(t) PROVE Types'
  BY <1>5 DEF UnlockTaken, Holding
<1>6. ASSUME NEW t \in Threads, ReleaseNull(t) \/ LockToRelease(t) PROVE Types'
  BY <1>6 DEF ReleaseNull, LockToRelease, Holding
<1>7. ASSUME NEW t \in Threads, Release(t) PROVE Types'
  <2>1. con[t] \in Conns
    BY <1>7 DEF Release, Holding
  <2>2. con' = [con EXCEPT ![t] = None] /\ pc' = [pc EXCEPT ![t] = "released"]
    BY <1>7 DEF Release
  <2>3. \A u \in Holding' : con'[u] \in Conns
    BY <2>2 DEF Holding
  <2> QED
    BY <1>7, <2>1, <2>2, <2>3 DEF Release, PutBack
<1>8. ASSUME NEW t \in Threads, UnlockReleased(t) \/ Post(t) PROVE Types'
  BY <1>8 DEF UnlockReleased, Post, Posted, Holding
<1>9. ASSUME DestroyPool PROVE Types'
  BY <1>9 DEF DestroyPool, ClearList, Holding
<1>10. CASE UNCHANGED poolVars
  BY <1>10 DEF poolVars, Holding
<1> QED
  BY <1>1, <1>2, <1>3, <1>4, <1>5, <1>6, <1>7, <1>8, <1>9, <1>10 DEF PoolNext, Get, Put

\* Once signals or the end of the pool have come, they have come.
LEMMA QuietBefore == ASSUME Types, [PoolNext]_poolVars, Quiet' PROVE Quiet
<1> USE DEF events, Quiet, Ample
<1>1. ASSUME NEW t \in Threads, Get(t) \/ Put(t) \/ SemInterrupted(t) PROVE Quiet
  BY <1>1 DEF Get, Put, SemInterrupted, CheckEmpty, SemBlock, SemTake, LockToTake, Take,
     UnlockTaken, ReleaseNull, LockToRelease, Release, UnlockReleased, Post
<1>2. ASSUME DestroyPool PROVE Quiet
  BY <1>2 DEF DestroyPool
<1>3. CASE UNCHANGED poolVars
  BY <1>3 DEF poolVars
<1> QED
  BY <1>1, <1>2, <1>3 DEF PoolNext

LEMMA NextInv == Inv /\ [PoolNext]_poolVars => Inv'
  BY TypesKept, QuietBefore, SoundKept DEF Inv

\* With a connection for every thread, as in the default configuration (8 and
\* 8), get_conn never returns nullptr and never sleeps before the pool is
\* destroyed, whatever signals come: the unlocked look at the list is harmless.
THEOREM AmplePoolIsCalm ==
    ASSUME Ample
    PROVE  PoolSpec => [](closed = {} => NoNull /\ NeverBlocks)
<1>1. Inv => (closed = {} => NoNull /\ NeverBlocks)
  BY DEF Inv, Quiet, Sound, Calm
<1>2. PoolInit => Inv
  BY InitInv DEF Inv, Sound
<1> QED
  BY <1>1, <1>2, NextInv, PTL DEF PoolSpec

\* Until the pool is destroyed or a signal interrupts sem_wait, get_conn never
\* pops an empty list, however few the connections: the semaphore is posted
\* only after the connection is back in the list.
THEOREM PopIsSafe == PoolSpec => []PopNonEmpty
<1>1. Inv => PopNonEmpty
  BY DEF Inv, Quiet, Sound, PopNonEmpty
<1>2. PoolInit => Inv
  BY InitInv DEF Inv, Sound
<1> QED
  BY <1>1, <1>2, NextInv, PTL DEF PoolSpec

----------------------------------------------------------------------------
(* Who has a connection. *)

\* No connection that was closed is in the list or with a thread.
Open ==
    /\ \A i \in 1..Len(list) : list[i] \notin closed
    /\ NotClosedInUse

\* Where a thread has a connection, and what Types does not say.
Rest ==
    /\ \A t \in Threads : con[t] # None => t \in Holding
    /\ lock \in Threads \cup {None} /\ free \in Int /\ cur \in Int
    /\ closed \subseteq Conns /\ fault \subseteq Threads /\ signalled \in BOOLEAN

Owned == Types /\ Rest /\ ExclusiveConn /\ Open

LEMMA InitOwned == PoolInit => Owned
<1> SUFFICES ASSUME PoolInit PROVE Owned
  OBVIOUS
<1>1. list \in Seq(Conns) /\ Len(list) = Cardinality(Conns) /\ DOMAIN list = 1..Len(list)
  BY ConnsFinite DEF PoolInit, Orders
<1>2. \A i, j \in 1..Len(list) : list[i] = list[j] => i = j
  BY <1>1 DEF PoolInit, Orders
<1>3. \A t \in Threads : con[t] = None /\ pc[t] = "idle"
  BY DEF PoolInit
<1>4. Types
  BY <1>1, <1>3, ConnsFinite DEF PoolInit, Types, Holding
<1>5. Rest
  <2>1. signalled \in BOOLEAN
    BY Zenon DEF PoolInit
  <2>2. /\ lock \in Threads \cup {None} /\ free \in Int /\ cur \in Int
        /\ closed \subseteq Conns /\ fault \subseteq Threads
    BY ConnsFinite DEF PoolInit
  <2> QED
    BY <1>3, <2>1, <2>2 DEF Rest
<1> QED
  BY <1>2, <1>3, <1>4, <1>5 DEF PoolInit, Owned, ExclusiveConn, Open, NotClosedInUse

\* A list that neither grows nor shrinks, with the same holders.
LEMMA OwnedStays ==
    ASSUME Owned, Types', Rest', list' = list, con' = con, closed' = closed
    PROVE  Owned'
  BY DEF Owned, ExclusiveConn, Open, NotClosedInUse, Listed

LEMMA NextOwned == Owned /\ [PoolNext]_poolVars => Owned'
<1> SUFFICES ASSUME Owned, [PoolNext]_poolVars PROVE Owned'
  OBVIOUS
<1> USE DEF shared, counters, events
<1>1. Types /\ Rest /\ Types'
  BY TypesKept DEF Owned
<1>2. ASSUME NEW t \in Threads,
             \/ CheckEmpty(t) \/ SemBlock(t) \/ SemInterrupted(t) \/ SemTake(t) \/ LockToTake(t)
             \/ UnlockTaken(t) \/ ReleaseNull(t) \/ LockToRelease(t)
             \/ UnlockReleased(t) \/ Post(t)
      PROVE  Owned'
  <2>1. list' = list /\ con' = con /\ closed' = closed
    BY <1>2 DEF CheckEmpty, SemBlock, SemInterrupted, SemTake, LockToTake, UnlockTaken,
       ReleaseNull, LockToRelease, UnlockReleased, Post
  <2>2. /\ lock' \in Threads \cup {None} /\ free' = free /\ cur' = cur
        /\ fault' = fault /\ signalled' \in BOOLEAN
    BY <1>1, <1>2 DEF Rest, CheckEmpty, SemBlock, SemInterrupted, SemTake, LockToTake,
       UnlockTaken, ReleaseNull, LockToRelease, UnlockReleased, Post
  <2>3. ASSUME NEW u \in Threads, u \in Holding PROVE u \in Holding' \/ t = u
    BY <1>1, <1>2, <2>3 DEF Types, Holding, Goto, CheckEmpty, SemBlock, SemInterrupted, SemTake,
       LockToTake, UnlockTaken, ReleaseNull, LockToRelease, UnlockReleased, Post
  <2>4. t \in Holding => t \in Holding'
    BY <1>1, <1>2 DEF Types, Holding, Goto, CheckEmpty, SemBlock, SemInterrupted, SemTake,
       LockToTake, UnlockTaken, ReleaseNull, LockToRelease, UnlockReleased, Post
  <2>5. Rest'
    BY <1>1, <2>1, <2>2, <2>3, <2>4 DEF Rest
  <2> QED
    BY <1>1, <2>1, <2>5, OwnedStays
<1>3. ASSUME NEW t \in Threads, Take(t) PROVE Owned'
  <2>1. CASE list = <<>>
    <3>1. list' = list /\ con' = con /\ closed' = closed /\ pc' = [pc EXCEPT ![t] = "fault"]
      BY <1>3, <2>1 DEF Take, Goto
    <3>2. Rest'
      BY <1>1, <1>3, <2>1, <3>1 DEF Take, Rest, Types, Holding
    <3> QED
      BY <1>1, <3>1, <3>2, OwnedStays
  <2>2. CASE list # <<>>
    <3>1. /\ con' = [con EXCEPT ![t] = Head(list)] /\ list' = Tail(list)
          /\ pc' = [pc EXCEPT ![t] = "taken"] /\ closed' = closed
      BY <1>3, <2>2 DEF Take, Popped, Goto
    <3>2. /\ Len(list) \in Nat /\ Len(list) > 0 /\ Len(list') = Len(list) - 1
          /\ \A i \in 1..Len(list') : list'[i] = list[i + 1]
          /\ Head(list) = list[1]
      BY <1>1, <2>2, <3>1 DEF Types
    <3>3. Rest'
      BY <1>1, <1>3, <2>2, <3>1 DEF Take, Rest, Types, Holding
    <3>4. \A i, j \in 1..Len(list') : list'[i] = list'[j] => i = j
      BY <3>2 DEF Owned, ExclusiveConn
    <3>5. \A i \in 1..Len(list') : list'[i] # list[1] /\ list'[i] \in Listed
      BY <3>2 DEF Owned, ExclusiveConn, Listed
    <3>6. list[1] \in Listed /\ list[1] \notin closed
      BY <3>2 DEF Owned, Open, Listed
    <3>7. \A u \in Threads : con'[u] = IF u = t THEN list[1] ELSE con[u]
      BY <1>1, <3>1, <3>2 DEF Types
    <3>8. ExclusiveConn'
      <4>1. \A u \in Threads : con'[u] # None => con'[u] \notin Listed'
        BY <3>5, <3>7 DEF Owned, ExclusiveConn, Listed
      <4>2. \A u, v \in Threads : con'[u] # None /\ con'[u] = con'[v] => u = v
        BY <3>6, <3>7 DEF Owned, ExclusiveConn
      <4> QED
        BY <3>4, <4>1, <4>2 DEF ExclusiveConn
    <3>9. Open'
      BY <3>1, <3>2, <3>6, <3>7 DEF Owned, Open, NotClosedInUse
    <3> QED
      BY <1>1, <3>3, <3>8, <3>9 DEF Owned
  <2> QED
    BY <2>1, <2>2
<1>4. ASSUME NEW t \in Threads, Release(t) PROVE Owned'
  <2>1. con[t] \in Conns /\ con[t] # None
    BY <1>1, <1>4 DEF Release, Types, Holding
  <2>2. /\ con' = [con EXCEPT ![t] = None] /\ list' = Append(list, con[t])
        /\ pc' = [pc EXCEPT ![t] = "released"] /\ closed' = closed
    BY <1>4 DEF Release, PutBack, Goto
  <2>3. /\ Len(list) \in Nat /\ Len(list') = Len(list) + 1
        /\ \A i \in 1..Len(list) : list'[i] = list[i]
        /\ list'[Len(list) + 1] = con[t]
    BY <1>1, <2>1, <2>2 DEF Types
  <2>4. Rest'
    BY <1>1, <1>4, <2>2 DEF Release, Rest, Types, Holding
  <2>5. \A u \in Threads : con'[u] = IF u = t THEN None ELSE con[u]
    BY <1>1, <2>2 DEF Types
  <2>6. \A i \in 1..Len(list) : list[i] # con[t]
    BY <2>1 DEF Owned, ExclusiveConn, Listed
  <2>7. ExclusiveConn'
    <3>1. \A i, j \in 1..Len(list') : list'[i] = list'[j] => i = j
      BY <2>3, <2>6 DEF Owned, ExclusiveConn
    <3>2. \A u \in Threads : con'[u] # None => con'[u] \notin Listed'
      BY <2>1, <2>3, <2>5 DEF Owned, ExclusiveConn, Listed
    <3>3. \A u, v \in Threads : con'[u] # None /\ con'[u] = con'[v] => u = v
      BY <2>5 DEF Owned, ExclusiveConn
    <3> QED
      BY <3>1, <3>2, <3>3 DEF ExclusiveConn
  <2>8. Open'
    BY <1>1, <2>2, <2>3, <2>5 DEF Owned, Open, NotClosedInUse, Rest
  <2> QED
    BY <1>1, <2>4, <2>7, <2>8 DEF Owned
<1>5. ASSUME DestroyPool PROVE Owned'
  <2>1. list' = <<>> /\ con' = con /\ pc' = pc /\ closed' = closed \cup Listed
    BY <1>5 DEF DestroyPool, ClearList
  <2>2. Listed \subseteq Conns
    BY <1>1 DEF Types, Listed
  <2>3. Rest'
    BY <1>1, <1>5, <2>1, <2>2 DEF DestroyPool, Rest, Holding
  <2>4. ExclusiveConn'
    BY <2>1 DEF Owned, ExclusiveConn, Listed
  <2>5. \A t \in Threads : con[t] \notin Listed
    BY <2>2 DEF Owned, ExclusiveConn
  <2>6. Open'
    BY <2>1, <2>5 DEF Owned, Open, NotClosedInUse
  <2> QED
    BY <1>1, <2>3, <2>4, <2>6 DEF Owned
<1>6. CASE UNCHANGED poolVars
  <2>1. Rest'
    BY <1>1, <1>6 DEF poolVars, Rest, Holding
  <2> QED
    BY <1>1, <1>6, <2>1, OwnedStays DEF poolVars
<1> QED
  BY <1>2, <1>3, <1>4, <1>5, <1>6 DEF PoolNext, Get, Put

\* Every variable of the pool keeps its type.
THEOREM PoolTypeCorrect == PoolSpec => []PoolTypeOK
<1>1. Owned => PoolTypeOK
  BY DEF Owned, Types, Rest, PoolTypeOK
<1> QED
  BY <1>1, InitOwned, NextOwned, PTL DEF PoolSpec

\* Whatever signals and the end of the pool do, a connection is in the list
\* once or with one thread, and never both.
THEOREM OneHolder == PoolSpec => []ExclusiveConn
<1>1. Owned => ExclusiveConn
  BY DEF Owned
<1> QED
  BY <1>1, InitOwned, NextOwned, PTL DEF PoolSpec

\* A thread never works with a connection that destroy_pool has closed.
THEOREM OpenInUse == PoolSpec => []NotClosedInUse
<1>1. Owned => NotClosedInUse
  BY DEF Owned, Open
<1> QED
  BY <1>1, InitOwned, NextOwned, PTL DEF PoolSpec

----------------------------------------------------------------------------
(* Where the connections are. *)

Takers == {t \in Threads : con[t] # None}

\* Until the pool is destroyed every connection is in the list or with a
\* thread, and the two counters say how many are where.
Stock ==
    /\ \A c \in Conns : c \in Listed \/ \E t \in Threads : con[t] = c
    /\ free = Len(list)
    /\ cur = Cardinality(Takers)

StockInv == Owned /\ (closed = {} => Stock)

\* The pool starts with all connections in the list: a list without
\* repetitions that is as long as there are connections leaves none out.
LEMMA InitStock == PoolInit => StockInv
<1> SUFFICES ASSUME PoolInit PROVE StockInv
  OBVIOUS
<1> DEFINE n == Cardinality(Conns)
<1>1. n \in Nat /\ IsFiniteSet(1..n) /\ Cardinality(1..n) = n
  BY ConnsFinite, FS_Interval
<1>2. list \in [1..n -> Conns] /\ \A i, j \in 1..n : list[i] = list[j] => i = j
  BY DEF PoolInit, Orders
<1>3. Len(list) = n
  BY <1>1, <1>2
<1>4. ASSUME NEW c \in Conns PROVE c \in Listed
  <2> SUFFICES ASSUME c \notin Listed PROVE FALSE
    OBVIOUS
  <2>1. list \in [1..n -> Conns \ {c}]
    BY <1>2, <1>3 DEF Listed
  <2>2. IsFiniteSet(Conns \ {c}) /\ Cardinality(Conns \ {c}) = n - 1
    BY FS_RemoveElement
  <2>3. \E i, j \in 1..n : i # j /\ list[i] = list[j]
    BY <1>1, <2>1, <2>2, FS_PigeonHole
  <2> QED
    BY <1>2, <2>3
<1>5. Takers = {} /\ Cardinality({}) = 0
  BY FS_EmptySet DEF PoolInit, Takers
<1>6. free = n /\ cur = 0
  BY DEF PoolInit
<1>7. Stock
  BY <1>3, <1>4, <1>5, <1>6 DEF Stock
<1> QED
  BY <1>7, InitOwned DEF StockInv

LEMMA StockStays ==
    ASSUME Stock, UNCHANGED <<list, con, counters>>
    PROVE  Stock'
  BY DEF Stock, Listed, Takers, counters

\* A connection moves from the front of the list to the thread.
LEMMA TakeStock ==
    ASSUME StockInv, Stock, NEW t \in Threads, Take(t)
    PROVE  Stock'
<1>1. Types /\ Rest
  BY DEF StockInv, Owned
<1>2. CASE list = <<>>
  BY <1>2, StockStays DEF Take
<1>3. CASE list # <<>>
  <2>1. /\ con' = [con EXCEPT ![t] = Head(list)] /\ list' = Tail(list)
        /\ free' = free - 1 /\ cur' = cur + 1
    BY <1>3 DEF Take, Popped
  <2>2. /\ Len(list) \in Nat /\ Len(list) > 0 /\ Len(list') = Len(list) - 1
        /\ \A i \in 1..Len(list') : list'[i] = list[i + 1]
        /\ Head(list) = list[1] /\ list[1] \in Conns
    BY <1>1, <1>3, <2>1 DEF Types
  <2>3. con[t] = None
    BY <1>1 DEF Rest, Take, Holding
  <2>4. con'[t] = list[1] /\ \A u \in Threads \ {t} : con'[u] = con[u]
    BY <1>1, <2>1, <2>2 DEF Types
  <2>5. ASSUME NEW c \in Conns PROVE c \in Listed' \/ \E u \in Threads : con'[u] = c
    <3>1. CASE c = list[1]
      BY <2>4, <3>1
    <3>2. CASE c # list[1] /\ c \in Listed
      <4>1. PICK i \in 1..Len(list) : list[i] = c
        BY <3>2 DEF Listed
      <4>2. i - 1 \in 1..Len(list') /\ list'[i - 1] = c
        BY <2>2, <3>2, <4>1
      <4> QED
        BY <4>2 DEF Listed
    <3>3. CASE c \notin Listed
      <4>1. PICK u \in Threads : con[u] = c
        BY <3>3 DEF Stock
      <4>2. u # t
        BY <2>3, <4>1, NoneAssumption
      <4> QED
        BY <2>4, <4>1, <4>2
    <3> QED
      BY <3>1, <3>2, <3>3
  <2>6. cur' = Cardinality(Takers')
    <3>1. Takers' = Takers \cup {t} /\ t \notin Takers /\ Takers \subseteq Threads
      BY <2>2, <2>3, <2>4, NoneAssumption DEF Takers
    <3>2. Cardinality(Takers') = Cardinality(Takers) + 1
      BY <3>1, SetGrows
    <3> QED
      BY <2>1, <3>2 DEF Stock
  <2>7. free' = Len(list')
    BY <2>1, <2>2 DEF Stock
  <2> QED
    BY <2>5, <2>6, <2>7 DEF Stock
<1> QED
  BY <1>2, <1>3

\* And from the thread to the back of the list.
LEMMA ReleaseStock ==
    ASSUME StockInv, Stock, NEW t \in Threads, Release(t)
    PROVE  Stock'
<1>1. Types
  BY DEF StockInv, Owned
<1>2. con[t] \in Conns
  BY <1>1 DEF Release, Types, Holding
<1>3. /\ con' = [con EXCEPT ![t] = None] /\ list' = Append(list, con[t])
      /\ free' = free + 1 /\ cur' = cur - 1
  BY DEF Release, PutBack
<1>4. /\ Len(list) \in Nat /\ Len(list') = Len(list) + 1
      /\ \A i \in 1..Len(list) : list'[i] = list[i]
      /\ list'[Len(list) + 1] = con[t]
  BY <1>1, <1>2, <1>3 DEF Types
<1>5. con'[t] = None /\ \A u \in Threads \ {t} : con'[u] = con[u]
  BY <1>1, <1>3 DEF Types
<1>6. ASSUME NEW c \in Conns PROVE c \in Listed' \/ \E u \in Threads : con'[u] = c
  <2>1. CASE c \in Listed
    <3>1. PICK i \in 1..Len(list) : list[i] = c
      BY <2>1 DEF Listed
    <3>2. i \in 1..Len(list') /\ list'[i] = c
      BY <1>4, <3>1
    <3> QED
      BY <3>2 DEF Listed
  <2>2. CASE c = con[t]
    <3>1. Len(list) + 1 \in 1..Len(list') /\ list'[Len(list) + 1] = c
      BY <1>4, <2>2
    <3> QED
      BY <3>1 DEF Listed
  <2>3. CASE c \notin Listed /\ c # con[t]
    <3>1. PICK u \in Threads : con[u] = c
      BY <2>3 DEF Stock
    <3> QED
      BY <1>5, <2>3, <3>1
  <2> QED
    BY <2>1, <2>2, <2>3
<1>7. cur' = Cardinality(Takers')
  <2>1. Takers' = Takers \ {t} /\ t \in Takers /\ Takers \subseteq Threads
    BY <1>2, <1>5, NoneAssumption DEF Takers
  <2>2. Cardinality(Takers') = Cardinality(Takers) - 1
    BY <2>1, SetShrinks
  <2> QED
    BY <1>3, <2>2 DEF Stock
<1>8. free' = Len(list')
  BY <1>3, <1>4 DEF Stock
<1> QED
  BY <1>6, <1>7, <1>8 DEF Stock

LEMMA NextStock == StockInv /\ [PoolNext]_poolVars => StockInv'
<1> SUFFICES ASSUME StockInv, [PoolNext]_poolVars PROVE StockInv'
  OBVIOUS
<1> USE DEF shared, counters, events
<1>1. Owned'
  BY NextOwned DEF StockInv
<1>2. CASE DestroyPool
  <2>1. Types /\ list # <<>> /\ closed' = closed \cup Listed
    BY <1>2 DEF StockInv, Owned, DestroyPool
  <2>2. 1 \in 1..Len(list)
    BY <2>1 DEF Types
  <2>3. closed' # {}
    BY <2>1, <2>2 DEF Listed
  <2> QED
    BY <1>1, <2>3 DEF StockInv
<1>3. ASSUME NEW t \in Threads, Take(t) PROVE StockInv'
  <2>1. closed' = closed
    BY <1>3 DEF Take
  <2> QED
    BY <1>1, <1>3, <2>1, TakeStock DEF StockInv
<1>4. ASSUME NEW t \in Threads, Release(t) PROVE StockInv'
  <2>1. closed' = closed
    BY <1>4 DEF Release
  <2> QED
    BY <1>1, <1>4, <2>1, ReleaseStock DEF StockInv
<1>5. ASSUME UNCHANGED <<list, con, counters, closed>> PROVE StockInv'
  BY <1>1, <1>5, StockStays DEF StockInv
<1>6. ASSUME NEW t \in Threads,
             \/ CheckEmpty(t) \/ SemBlock(t) \/ SemInterrupted(t) \/ SemTake(t) \/ LockToTake(t)
             \/ UnlockTaken(t) \/ ReleaseNull(t) \/ LockToRelease(t)
             \/ UnlockReleased(t) \/ Post(t)
      PROVE  StockInv'
  BY <1>5, <1>6 DEF CheckEmpty, SemBlock, SemInterrupted, SemTake, LockToTake, UnlockTaken,
     ReleaseNull, LockToRelease, UnlockReleased, Post
<1>7. CASE UNCHANGED poolVars
  BY <1>5, <1>7 DEF poolVars
<1> QED
  BY <1>2, <1>3, <1>4, <1>6, <1>7 DEF PoolNext, Get, Put

\* Whatever signals come, no connection is lost before the pool is destroyed,
\* and m_free_conn and m_cur_conn are right whenever m_conn_lock is free.
THEOREM NothingLost == PoolSpec => []ConnsConserved
<1>1. StockInv => ConnsConserved
  <2> SUFFICES ASSUME StockInv, closed = {} PROVE ConnsConserved
    BY DEF ConnsConserved
  <2>1. Types /\ Stock
    BY DEF StockInv, Owned
  <2>2. Listed \subseteq Conns /\ \A t \in Threads : con[t] # None => con[t] \in Conns
    BY <2>1 DEF Types, Listed
  <2>3. \A c \in Conns : c \in Listed \/ \E t \in Threads : con[t] # None /\ con[t] = c
    BY <2>1, NoneAssumption DEF Stock
  <2>4. Conns = Listed \cup {con[t] : t \in {u \in Threads : con[u] # None}}
    BY <2>2, <2>3
  <2> QED
    BY <2>1, <2>4 DEF ConnsConserved, Stock, Takers
<1> QED
  BY <1>1, InitStock, NextStock, PTL DEF PoolSpec

============================================================================
