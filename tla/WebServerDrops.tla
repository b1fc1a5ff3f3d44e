---------------------------- MODULE WebServerDrops ----------------------------
(***************************************************************************)
(* WebServer with a record of what workers have done to connections behind *)
(* the main thread's back.  close_conn closes the descriptor and counts    *)
(* the user out, but leaves the timer_node in the list.  The history       *)
(* variables say where and how often that has happened; no step of the     *)
(* server depends on them.                                                 *)
(***************************************************************************)
EXTENDS WebServer

VARIABLES
    dropped,    \* history: descriptors that a worker has ever closed
    drops,      \* history: how often a worker has counted a user out
    raced       \* history: have two threads ever updated m_user_count at once

history == <<dropped, drops, raced>>
hvars == <<vars, history>>

\* Nobody is between reading m_user_count and storing what he made of it.
CountSettled == mreg = None /\ \A w \in Workers : ~At(w, "store")

\* More than one thread is.
Overlap ==
    \E w \in Workers : /\ At(w, "store")
                       /\ mreg # None \/ \E u \in Workers \ {w} : At(u, "store")

HInit == Init /\ dropped = {} /\ drops = 0 /\ raced = FALSE

WorkH(w) ==
    /\ Work(w)
    /\ dropped' = IF At(w, "drop") THEN dropped \cup ({Slot(w).sockfd} \ {None}) ELSE dropped
    /\ drops' = IF At(w, "clear") THEN drops + 1 ELSE drops

HNext ==
    /\ \/ (Environment \/ Main) /\ UNCHANGED <<dropped, drops>>
       \/ \E w \in Workers : WorkH(w)
    /\ raced' = (raced \/ Overlap')

HSpec == HInit /\ [][HNext]_hvars

----------------------------------------------------------------------------
(* Correctness. *)

Listed == {c \in Clients : ttl[c] >= 0}

\* Whatever is dropped, slow or reused: an open descriptor's client_timer is
\* its own client's node, which is in the list and points back to it.  And a
\* node that has outlived its connection is found only on a descriptor that a
\* worker has closed at some time.
OwnTimer ==
    /\ \A f \in Fds : Open(f) =>
          timer[f] = owner[f] /\ owner[f] \in Listed /\ udata[owner[f]] = f
    /\ \A c \in Listed : udata[c] \notin dropped => owner[udata[c]] = c

\* Where no worker has closed anything, tick closes a connection only because
\* the timer of that very connection has expired.
TickOnlyOwn ==
    [][\A f \in Fds \ dropped :
          pc = "tick" /\ UNCHANGED worker /\ Open(f) /\ ~Open(f)' => ttl[owner[f]] = 0]_hvars

\* How wrong m_user_count can get: unless two threads have updated it at once,
\* it counts the timers in the list, less one for every connection a worker
\* has ever closed.  When the timer of such a one expires it is counted out
\* again.
CountLedger ==
    ~raced /\ CountSettled => userCount + drops = Cardinality(Listed)

============================================================================
