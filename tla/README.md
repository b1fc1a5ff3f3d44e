# ToyWebServer in TLA+

ToyWebServer is a small HTTP server: one main thread runs an epoll event loop,
a fixed set of worker threads parses requests, and the two share the
connection slots, a request queue, the client timers and a pool of database
connections.  Almost nothing in it is computed in one place.  A descriptor
number ties together a kernel socket, an `http_conn` slot, a `client_data`, a
`timer_node` and perhaps a queued request, and each of these is changed by
different code, in different threads, at different times.  The specifications
here are about that: which of these pieces agree, when, and under which load.

## The system

| Component | State it keeps | Operations | Talks to |
|---|---|---|---|
| event loop, `webserver/webserver.cpp` | `timeout_flag`, `stop_server`, the reported events | `eventLoop`, `deal_client`, `deal_signal`, `deal_read`, `deal_write`, `init_timer`, `adjust_timer`, `deal_timer` | slots, timers, thread pool, kernel |
| connection slots, `http/http_conn.*` | `m_sockfd`, the read and write buffers, `improv`, `timer_flag`, `m_io_state`; `m_user_count` for all | `init`, `read`, `process`, `write`, `close_conn` | kernel (recv, writev, epoll_ctl, close), users, log |
| thread pool, `threadpool/threadpool.hpp` | `m_work_queue`, `m_queue_lock`, `m_queue_sem` | `append`, `append_p`, `run` | slots, connection pool |
| timers, `timer/timer.*` | a doubly linked list of `timer_node` in order of expiry | `add_timer`, `adjust_timer`, `del_timer`, `tick`, `cb_func` | kernel (close), `m_user_count` |
| signals, `timer/timer.*` | the signal pipe, the pending `alarm()` | `sig_handler`, `addsig`, `timer_handler` | event loop |
| connection pool, `connpool/conn_pool.*` | `m_conn_list`, `m_conn_lock`, `m_reserve_conn`, two counters | `get_conn`, `release_conn`, `destroy_pool`, `connectionRAII` | workers, MySQL |
| HTTP parser, in `http_conn.cpp` | `m_check_state`, `m_checked_idx`, `m_start_line`, `m_read_idx` | `parse_line`, `parse_request_line`, `parse_headers`, `parse_content`, `process_read` | the slot's read buffer |
| HTTP response, in `http_conn.cpp` | `m_iovec`, `m_bytes_to_send`, `m_bytes_have_send`, the mapped file | `process_write`, `add_response`, `write`, `unmap` | the slot's write buffer, kernel |
| users, in `http_conn.cpp` | `m_users_map`, the user table | `init_mysql_result`, `do_request` | connection pool |
| log, `log/*` | the open file, line count, format buffer, `block_queue` | `init`, `write_log`, `flush`, `async_write_log` | everybody |
| locks, `lock/locker.hpp` | a semaphore, a mutex, a condition variable | `wait`, `post`, `lock`, `unlock`, ... | both pools, log |
| configuration and main | options | `parse_arg`, `main` | all |
| webbench | vendored load generator | | |

What is hard about it:

* **Reuse of descriptors.** `accept` returns the lowest free number.  Whoever
  still holds a slot, a timer or a queued pointer of the old connection now
  holds the new one's.
* **Who may touch a slot.** There is no lock; `EPOLLONESHOT` and the moment at
  which somebody re-arms the descriptor are the whole protocol.
* **The reactor's handshake.** The main thread spins on `improv`, which a
  worker sets, and reads `timer_flag`, which the worker sets next.
* **`m_user_count`** is a plain `int` changed by the main thread and by workers.
* **Limits.** The request queue may be full, and no caller of `append` looks at
  its result; the connection limit may be reached while clients wait; the
  database pool may be empty.
* **Signals.** SIGALRM and SIGTERM are installed without `SA_RESTART`, and
  nobody looks at what `sem_wait` returned.
* **The alarm** is set again only by the handler of the previous one.
* **Partial reads and writes.** A request may be cut anywhere and a response
  sent in any pieces; the parser's and the writer's places in the buffers
  survive from one call to the next and have to be gone with the request.
* **Two stores of users.** A registration changes the table and the map in two
  steps, which may fail apart, under a lock that each connection has for itself.
* **The log's three critical sections.** A line is counted, formatted and
  written under the same mutex, but not under one lock of it, and the queue is
  asked whether it is full before it is pushed to.

What makes each component correct, in one line each: a connection is in one
thread's hands at a time; a response goes to the client who asked; every open
connection has one timer and every timer one connection; the count is the
number of connections; `tick` closes idle connections only; the main thread
never follows a bad timer pointer and never spins for ever; a connection whose
client is gone is closed in the end and a client in the backlog is served or
turned away; the thread pool is a bounded FIFO queue that loses no wake-up; a
database connection has one holder, is never lost and is not closed under its
user; the timer list stays a sorted list and expires what is due; a request
means to the server what it meant to the client, however it was cut; a response
arrives byte by byte; a mapped file is unmapped with its response; a name is
registered once and whoever was told so can log in; a line of the log is
written once, in order, in the right file.  Not all of this holds always:
the runs and theorems below say what holds under which load, and which runs
show the opposite.

## Modules

| Module | What it models |
|---|---|
| `WebServer` | event loop, slots, timers as a set, signals and workers together, with clients and time as environment |
| `MCWebServer` | symmetry for TLC |
| `WebServerDrops`, `MCWebServerDrops` | `WebServer` with a record of the connections that workers have closed |
| `TaskQueue` | abstract: what the thread pool promises |
| `ThreadPool` | `append`, `append_p` and `run` with mutex and semaphore; implements `TaskQueue` |
| `TimerSet` | abstract: what the timer list promises |
| `TimerList`, `MCTimerList` | the linked list, pointer by pointer; implements `TimerSet` |
| `ConnPool` | the database connection pool with mutex, semaphore and the unlocked test |
| `Users`, `MCUsers` | registration and login; extends `ConnPool`, whose threads take a connection before they do either |
| `HttpConn`, `MCHttpConn` | one slot: the parser, the response and the mapped file, with the clients that use the slot one after the other |
| `Log` | `write_log`, `flush`, the change of file, `block_queue` and the thread that empties it; implements `TaskQueue` |
| `WebServerProofs`, `SlotProofs`, `ThreadPoolProofs`, `ConnPoolProofs`, `UsersProofs`, `HttpConnProofs`, `LogProofs`, `TimerListProofs` | theorems and their proofs |

`WebServer` composes what the other modules refine.  It uses the request queue
as `TaskQueue` offers it (property `UsesTaskQueue`), which `ThreadPool` shows
the real queue to be; and it uses the timers as a set with remaining times,
which is what `TimerList` implements (`ImplementsTimerSet`).  What it takes as
one step of a worker or of the main thread, parsing a request or writing some
of a response, is what `HttpConn` looks into; that nobody else has the slot
meanwhile is `ExclusiveSlot`.  `TaskQueue` has a second implementation in `Log`:
the circular queue between those who log and the writing thread.

### How `WebServer` corresponds to the code

| Variable | In the code |
|---|---|
| `owner[f]`, `net[c]`, `edge` | kernel: the peer of descriptor `f`; what client `c` has sent or shut down; an unreported edge of the listening socket |
| `armed[f]` | epoll interest: `in`, `out`, `off` (one-shot spent) or `none` (not registered) |
| `http[f]` | `m_http_conns[f]`: `m_sockfd`; whose bytes are in the read and in the write buffer; `m_io_state`, `improv`, `timer_flag` |
| `timer[f]` | `m_client_datas[f].client_timer` |
| `ttl[c]`, `udata[c]` | the `timer_node` of client `c`: slots of 5 s left (-1: not in the list), and the `client_data` it points to |
| `userCount`, `mreg` | `m_user_count`, and the value the main thread has computed and not stored |
| `queue` | `m_work_queue` |
| `worker[w]` | where a worker is in `run`, `process` or `close_conn`, with its locals |
| `pc`, `events`, `spin` | where the main thread is in `eventLoop`, the events of the batch still to be handled, the slot it busy-waits for |
| `timeout`, `stop` | `timeout_flag`, `stop_server` |
| `alarm`, `pipe` | a pending `alarm()`, signal numbers in the pipe |

There is one action per handler: `DealClient` and the three ways `accept` goes
on, `DealHangup`, `DealSignal`, `ProactorRead`, `ProactorWrite`,
`ReactorEvent`, `SpinDone`, `EndBatch`, `TickOne`, `TickEnd`.  Main-thread
handlers are atomic except where a worker can see the middle: the store of
`m_user_count` (`StoreCount`), the spin, and each turn of `tick`.  A worker's
path is split at every step another thread can observe: `Take`, `IoRead` or
`IoWrite`, `SetTimerFlag`, `Parse`, `FillReply`, the three steps of
`close_conn` (close, clear `m_sockfd`, store the count), and `Rearm`.

Abstractions, and why they are safe for these properties:

* A client connects once, so a client also names its connection and its
  `timer_node`.  A request is a client: the properties ask whose bytes a buffer
  holds, never what they say.  What `process` may conclude is the constant
  `Outcomes`: not enough yet (`again`), a response (`reply`), or a response
  that cannot be built, after which the connection is closed (`drop`;
  `process_write` returns false for a missing file, its `default` branch, and
  for an empty one).
* Time is counted in `TIMESLOT`s, as the timers are: `Elapse` is five seconds.
  It does not happen inside `tick`, which reads the clock once.
* The constant `Prompt` says that nothing is in flight (reported, queued, with
  a worker) for as long as a timer runs, 15 s in the code.  It is an assumption
  on the load, made only where a run's description says so.
* `improv` and `timer_flag` are plain `int`s that two threads use without a
  lock.  The build sets no optimisation level, so the compiler reads `improv`
  from memory on every turn of the spin, and a store becomes visible; this is
  what the model assumes.  An optimising build might keep it in a register.
* Events of one batch are handled in any order; epoll promises none.
* `init` registers a new descriptor with the slot's old trigger mode
  (http_conn.cpp:82).  With `EPOLLONESHOT` the first report is the same in
  either mode, so the model has one.
* Only the arrival of bytes where there were none is a step of a client.
* The initial state is that of the first `epoll_wait`: socket, pipe, handlers,
  alarm and workers are in place.

`WebServerDrops` adds three history variables to `WebServer`, on which no step
of the server depends: the descriptors that a worker has ever closed
(`dropped`), how often `close_conn` has counted a user out (`drops`), and
whether two threads have ever been between reading and storing `m_user_count`
at once (`raced`).  With them one can say what a worker's `close_conn`, which
leaves the timer of the connection in the list, does to the agreement of
descriptors, timers and count, and what it leaves alone, instead of assuming
that it does not happen.

`ThreadPool` and `ConnPool` have one action per semaphore, mutex or list
operation.  `TimerList` has one per operation of the list; the pointer surgery
is in `Added`, `Adjusted`, `Deleted` and `HeadRemoved`, which give the list
after `add_timer`, `adjust_timer`, `del_timer` and one turn of `tick`.  In the
code `tick` leaves `tail` behind when it empties the list; so does the module,
and `WellLinked` says why that does no harm.

### How `HttpConn` corresponds to the code

| Variable | In the code |
|---|---|
| `in` | `m_read_buf` up to `m_read_idx`, `m_checked_idx`, `m_start_line`, `m_check_state`, `m_cgi`, `m_keep_alive`, `m_content_length` |
| `status`, `ret` | `line_status` of `process_read` and what it returns |
| `content` | `m_content` |
| `address`, `fileSize` | `m_file_address` by the size of its mapping (-1 for `MAP_FAILED`), `m_file_stat.st_size` |
| `head`, `have`, `left`, `iov` | `m_write_idx`, `m_bytes_have_send`, `m_bytes_to_send`, `m_iovec` |
| `msg`, `sent`, `taken`, `got` | client and kernel: the request, how much of it was sent and read, what arrived of the response |
| `leaked`, `due`, `done`, `cut` | history: a mapping nobody will unmap, the length of the response, its end, a connection dropped in the middle of a file |

The buffer is a sequence of elements.  `CR` and `LF` are elements, as they are
what `parse_line` looks for, and so is each piece of a body; the text of a line
is one element, told apart by what the parser makes of it: `get`, `post`, a
header that keeps the connection alive or gives a length, another header, or
`junk`.  `Read` takes what is there, in one `recv` or, edge-triggered, until
none is left; each turn of `process_read`'s loop is one action
(`ParseRequestLine`, `ParseHeader`, `ParseContent`), and so is its end without
a request (`ParseMore`).  `Writev` is one call with any result, and with it the
arithmetic on the vectors and the return of `write` when it was the last.  The
vectors are turned into the bytes they stand for, so a wrong base or length
shows in what the client gets.

`open` and `mmap` may fail for any file, and nobody looks: `address` is then
-1, the second vector points nowhere, and `writev` fails with EFAULT at once or
when the head is out (`Unmapped`, `Sendable`, `WriteFaults`).  When a body is
there, `parse_content` writes a zero behind it (`Terminated`).  Behind a body
that just fills the buffer that is one byte too far, on the low byte of the
next member, `m_read_idx`.  It is clear already, as `READ_BUFFER_SIZE` (2048)
is a multiple of 256 (`ByteSize`; `ByteAssumption` states this), so
`RequestMeant`, which says that `m_read_idx` is still what was read, holds;
with another size of the buffer it would not.  In the run `ByteSize` is the
buffer's 13, and one message just fills it.

### How `Users` corresponds to the code

`users` is `m_users_map`, `table` the rows of the table `user`; `st` is where a
thread is between the search in the map, the INSERT and the insertion; `job`
and `told` are the request and the page chosen.  The pool's actions are those of
`ConnPool`: a thread begins when it has a connection, or has been given none.
`Insert` may fail, and may fail although the row got in (the connection broke
before the answer).  `Restart` is the death of the process at any point: the
pool is made anew, `init_mysql_result` reads the table, and what was in memory
is gone.  `m_http_lock` belongs to the slot, which one thread has anyway, so it
excludes nobody and is not in the model.

* Threads may register the same name at once, as the map is searched before
  the lock is taken and the lock is the slot's own.  `raced` is the set of names
  that a thread has found free while another was between its search and its
  insertion; `UniqueNames` and `AckedCanLogin` say that nothing else can spoil
  a name.
* An operation on the `std::map` is one step.  The code does not lock it, and
  two that overlap are undefined; what is shown holds when they do not.
* `mysql_query` on no connection (a pool smaller than the thread pool refuses
  some) is undefined as well; such a thread stops there.

### How `Log` corresponds to the code

`async` is `m_log_is_async`; `today`, `count`, `fp` are `m_log_today`,
`m_log_line_count` and the file behind `m_log_fp`; `out` is what was written,
each line with the file it went to, and `flushed` how much of that has left
stdio's buffer; `array`, `front`, `back`, `size` are `block_queue`'s; `pc` and
`line` are the callers, `writer` and `hand` the writing thread with its
`single_log`.  Each critical section is one action: `Count` (with the change of
file), `Route` (`full`), `Push`, `Put`, `Flush`; the one that only formats the
line changes nothing that is shared afterwards and is left out.  stdio may also
flush by itself when its buffer is full, which only makes lines safe earlier.
`localtime` returns a pointer to one static `struct tm` for all threads; the
model takes the copy that follows as done before another thread calls it.

An operator whose comment begins with "Defective" is the operator after it with
a plausible mistake (a forgotten decrement, an off-by-one, a missing re-arm).
No specification uses it; with it in place of the right one TLC finds the
property that is listed with it under `mutants` violated.  That is how each
property was tested.

## What TLC checks

| Run | Instance | Shows |
|---|---|---|
| `WebServerAnyLoad` | proactor, LT/LT, 2 clients, 2 descriptors, 2 workers, queue of 1, drops, slow requests, SIGTERM, with the record of `WebServerDrops` | `TypeOK`; the timer pointer the main thread dereferences is good (`TimerLive`); exactly one link of the alarm chain is live (`AlarmChain`); an open descriptor has its own client's timer, and a leftover timer is found only where a worker has closed (`OwnTimer`); elsewhere `tick` closes a connection only for its own timer (`TickOnlyOwn`); the count is that of the timers less the drops (`CountLedger`) |
| `WebServerProactor` | proactor, ET/ET, 3 clients on 2 descriptors, 2 workers, queue of 2, prompt, no drops | one holder per connection (`ExclusiveSlot`), responses to whom they belong (`OwnReply`), the queue is used as `TaskQueue` offers it |
| `WebServerProactorLive` | proactor, LT/LT, 2 clients on 1 descriptor, 1 worker, 1 connection at a time, queue of 1, drops, slow requests, SIGTERM | dead connections are closed (`HungUpClosed`); a waiting client is accepted when the descriptor becomes free after `accept` has failed, or is turned away (`BacklogServed`) |
| `WebServerReactor` | reactor, LT/LT, 2 clients, 2 descriptors, 1 worker, queue of 1, drops, slow requests | the handshake on `improv` (`SpinServed`), and that the busy-wait ends (`SpinEnds`) |
| `ThreadPool` | 2 requests, 3 workers, queue of 2, interrupted waits | `TypeOK`, `NoLostWakeup`, refinement of `TaskQueue` with its fairness |
| `ConnPool` | 4 threads, 2 connections, interrupted waits, `destroy_pool` | one holder per connection, none closed in use; without signals and before the end of the pool no pop of an empty list, no connection lost, whoever waits is served |
| `Users` | 3 threads, 2 connections, a name they all may register at once, 2 passwords, failing INSERTs, restarts | `UniqueNames`, `AckedCanLogin`, `MapCoversTable` |
| `HttpConn` | LT and ET, six messages, a file of 2 and an empty one, head of 3, buffer of 13 | a request reaches `do_request` as it was meant (`RequestMeant`), is not waited for when it is complete, and leaves nothing behind when it is answered (`CompleteIsTaken`), is answered or cut off (`RequestAnswered`); `ResponseExact`, `MapOwned` |
| `Log` | synchronous and asynchronous, 2 callers with 2 lines each, queue of 2, a file per 2 lines, 2 days | `EveryLineOnce`, `OrderKept`, `SyncDurable`, `RightFile`, refinement of `TaskQueue` with its fairness |
| `TimerList` | 4 nodes, expiry 3 slots ahead, clock 0..6 in steps of 1 and 2 | `WellLinked`, `Sorted`, refinement of `TimerSet` |

The bounds.  Two clients on one descriptor are enough for every reuse problem
(an old and a new user of a number); three clients on two descriptors let a
reuse happen beside a connection that stays.  Two workers are enough for one to
be late while the other is prompt.  A queue of one is full as soon as something
is queued; a queue of two has an order.  `Timeout` is 3 as in the code in the
safety runs, where the number of slots matters (`Prompt`), and 1
in the liveness runs, where it only has to pass.  In `WebServerProactorLive` a
single descriptor for two clients lets `accept` fail with a client waiting; a
limit of one lets `deal_client` turn a client away, when a worker has closed a
connection and not yet counted it out; and a slow worker that re-arms the
descriptor of the next client lets `append` refuse a request.  Four nodes give
`TimerList` a head, a tail and two inner neighbours, and three slots of expiry
with steps of one and two give equal and different times.  Symmetry is used for the safety runs only.
`ConnPool` may deadlock and is not checked for it: a pool that has been
destroyed leaves its users waiting or refused, and a thread that popped an
empty list is stopped there.  `Log` comes to rest when every caller has logged
its lines.

Four threads on two connections let two wait while two return theirs.  In
`Users` one thread more than connections makes a thread be refused or wait, and
two that register at once leave a third to come later; no step looks at two
names, so one is enough, and two passwords tell a right one from a wrong one.  The messages of `HttpConn` are a GET and a
POST, each with and without keep-alive, a line that is no request, a line with
a lone LF, a request that just fills the buffer and one that overflows it; a
head of 3 and a file of 2 can be cut inside each and at the border.  In `Log`
two callers fill a queue of two while one of them is between `full` and `push`;
a file per two lines makes the count turn over in the run, and the second day
comes at any moment.

Two more runs would repeat what is proved below: `ConnPool` with as many
connections as threads (`NoNull`, `NeverBlocks`).

### What the code does against its own words

Two runs expect a violation; each checks a property that a comment states.

* `WebServerDropTick`, `TickOnlyIdle`: a worker that drops a request closes the
  descriptor (`close_conn`) and leaves its timer in the list.  The next client
  on that number gets a second timer; when the first one expires, `tick` closes
  the new, active connection.  The leftovers also break `ExclusiveSlot` and the
  slot itself, as `close_conn` clears `m_sockfd` after it has closed the
  descriptor: a client accepted between the two loses its `m_sockfd`.
* `HttpBodyInPieces`, `CompleteIsTaken`: after the headers and a part of the
  body have arrived, `process_read`'s loop calls `parse_line` on that part, and
  `m_checked_idx` moves to its end.  `parse_content` adds the whole length to
  that index, so when the rest arrives it still finds too little, and the
  server waits for more of a request it has completely.  The client gets no
  answer until its timer closes it.

### Within which limits the passing runs hold

The passing runs assume what is written in their constants and in the
properties themselves.  Outside of that the code does this:

* `Prompt` (`WebServerProactor`): when a request outlives its timer, `tick`
  closes the connection of a request that is queued or being parsed, the number
  is reused, and the response to the first client is put into the slot of the
  second; with `Prompt = FALSE` `OwnReply` is violated.  `WebServerProactor`
  also excludes `drop`, for the reason above.  `TimerLive`, `AlarmChain` and
  the liveness properties need neither assumption.
* The proactor (`WebServerProactor`): in the reactor with two workers
  `ExclusiveSlot` and `OwnReply` are violated even when nothing is dropped and
  everything prompt.  The last call of `write` re-arms the descriptor
  (http_conn.cpp:654); between `improv = 1`, which lets the main thread go on,
  and `timer_flag = 1` (threadpool.hpp:177-178) the next event of the
  connection is taken by another worker, and the late flag then makes the main
  thread close the connection under that worker's hands.  That `write` re-arms
  before `init` clears the slot does no harm, as the main thread is still
  spinning then.
* `BacklogServed` assumes that descriptors keep becoming free.  The limit
  `MAX_FD` is 65536, above the usual limit of descriptors of a process, so it
  is `accept` that fails when there are too many clients, and then a client
  that keeps its connection busy keeps all others waiting, for ever if it
  likes.  The run also has a level-triggered listening socket.  Edge-triggered,
  the accept loop gives up when the connection limit is reached, and the
  clients left in the accept queue raise no further edge, although a comment
  says that the outer loop keeps `accept` working (webserver.cpp:250): with
  three clients, two descriptors and a limit of one TLC finds `BacklogServed`
  violated.
* `SpinServed` is about `improv` only.  The comment on the busy-wait says that
  it sets both flags to 0 (webserver.cpp:328), but a worker whose `read` or
  `write` has failed sets `improv` first and `timer_flag` next.  The main thread
  can see the one without the other and leave the busy-wait; it finds the old
  `timer_flag` at the next event of that descriptor, and closes the connection
  while the worker is at its request.
* `OwnTimer`, `TickOnlyOwn` and `CountLedger` hold with drops and any delay,
  but say less than one would like: on a descriptor that a worker has closed
  once, `tick` may take a later connection for an old timer; and once two
  threads have updated `m_user_count` at the same moment nothing is said about
  it any more.  The number of users, which http_conn.h:146 says it is, it is
  only as long as no timer that `close_conn` left behind has expired: `cb_func`
  counts such a connection out a second time, whether it is open or not, and
  the connection limit gives way.
* `UniqueNames` and `AckedCanLogin` except the names that were `raced`.
  `m_users_map` is searched before `m_http_lock` is taken, and every slot has a
  lock of its own; two workers that register one name both find it free, both
  insert it, and the table has it twice.
* `BodyWhole` (`HttpConn`): a head may be cut anywhere, but its body arrives at
  once.  When it comes in pieces `CompleteIsTaken` fails, as above;
  `RequestMeant` holds all the same.
* `HeadInTwo` (`HttpConn`): when the head takes three `writev`s, the length of
  the first vector is reduced by the total sent and not by the last amount
  (http_conn.cpp:646; the TODO above it suspects so) and wraps around.
* `MapOwned` excludes connections dropped in mid-response (`cut`): nobody
  unmaps their file, and the next request on the slot overwrites the pointer.
* `RequestMeant` and `RequestAnswered` speak of well-formed requests, in which
  a POST gives the length of its body.  A malformed line (`LINE_BAD`) ends
  `process_read` like an unfinished one, so the server waits for more where it
  could say no.  A POST without a body leaves `m_content` as it was; its login
  would be parsed from the last client's.  Nor does a client ask again before
  it has its answer: `init` empties the read buffer after a response, and with
  it what was read of a second request.
* A request that just fills the buffer is answered level-triggered; edge-
  triggered, the last `recv` has no room, returns 0, and the connection is
  closed.  `RequestAnswered` allows either.
* `RightFile` excludes a midnight in the middle of a call (`late`): a caller
  that took the time before it and the lock after it changes back to
  yesterday's file.  In the asynchronous log a line may be in the file of a
  later day than its own, and a file may have some lines more than its share,
  as `RightFile` says.  `OrderKept` and `EveryLineOnce` say likewise which
  lines may overtake and which are lost: a line that found the queue full goes
  before those in it, and a line whose place was taken between `full` and
  `push` is dropped.
* With more threads than connections `get_conn` returns `nullptr` rather than
  wait whenever it finds the list empty, against its comment
  (conn_pool.cpp:55, 62), so `NoNull` fails there; with interrupted waits it
  pops an empty list, since it ignores what `sem_wait` returned; `destroy_pool`
  does not close the connections that are out.
* `Sorted` needs a clock that does not go back: `adjust_timer` moves a node
  only towards the tail, so after `time()` was set back an early node may stand
  behind a late one, and `tick`, which stops at the first node not due,
  overlooks it.

### Fairness

`WebServer`: weak fairness of the main thread and of each worker (they are
threads of a preemptive scheduler, and the spinning main thread does not keep a
worker from running) and of `Elapse` (time goes on).  Nothing is assumed of the
clients: they may stay silent for ever.  `ThreadPool`: weak fairness of threads
that are inside an operation (nobody has to start one), and strong fairness of
taking a mutex or a semaphore that becomes available again and again, which is
what glibc's futex queues give and what the code relies on.  `ConnPool`: strong
fairness, for each thread, of the operation it is inside; this includes that a
query returns.  `HttpConn`: weak fairness of `Serve`, what the main thread and
a worker do with bytes that are there and with a socket that takes some: a
client need not send, but takes what is sent to it.  `Log`: weak fairness of
each call that has begun and of the writing thread, for the refinement of
`TaskQueue`'s fairness; a broadcast or the queue's own test wakes the writer,
spurious wake-ups are possible and not counted on.  `Users` has no liveness
property and assumes no fairness.

## What is proved

TLAPS proves these for every number of clients, descriptors, workers, threads,
connections and callers and for every bound, from the named assumptions on the
constants in the modules (`None` is no client, descriptor, integer, password or
line; the queues hold at least one entry; a timer runs at least one slot; a
head and a file of the log have a length; a well-formed request gives the
length of its body; the workers, threads, connections, callers, lines and timer
nodes are finitely many, and `TimerList`'s clock is bounded).

* `WebServerProofs`
  * `TypeCorrect`: `Spec => []TypeOK`.  By itself `TypeOK` is not inductive: a
    worker uses its `task` as a descriptor.  `Typed` adds that a worker that is
    not idle has one.
  * `TimersAreLive`: `Spec => []TimerLive`, in both actor models, for all
    trigger modes, with drops and slow requests.  The inductive invariant
    `TimerInv` adds `OneEventPerFd` (otherwise the second event of a batch
    could find the node the first one freed), `LoopShape` (nothing is reported
    or spun on outside its phase; while spinning no event of that descriptor is
    pending) and `NoEarlyNode` (a client not yet accepted has no node, so
    `BindTimer` does not take over one that is in use).  The point of the
    argument is that workers only take obligations away: they close
    descriptors, and never touch a timer.
  * `AlarmNeverStops`: `Spec => []AlarmChain`.  The invariant adds that the
    loop is in `tick` only when the flag is set.
  * `QueueRefinement`: `Spec => UsesTaskQueue`, in both actor models, with
    drops and under any load.  A worker that is idle or in `run` between two
    requests counts as having none, which the invariant has to say of `task`.
* `SlotProofs`
  * `OwnTimers`, `TickTakesItsOwn`, `CountIsLedger`: `OwnTimer`, `TickOnlyOwn`
    and `CountLedger`, of `HSpec`, in both actor models, for every set of
    `Outcomes` and any delay.  The main thread does only four things to
    connections and timers (`MainMoves`: keep them, open one, close the one of
    a listed timer, store the count), and a worker only closes descriptors and
    counts.  The invariant `Bonds(D)` says, for a set `D` of descriptors that
    includes `dropped`, that an open descriptor, its client and its node point
    to each other and that outside `D` a listed node has its connection still;
    `Ledger` adds, to what the property says of the moments at which the count
    is settled, what each thread has read of it.
  * `OneThreadPerSlot`, `RepliesGoHome`: `ExclusiveSlot` and `OwnReply`, under
    assumptions that their run makes too (`Calm`: the proactor, `Prompt`, and
    `"drop"` not among the `Outcomes`).  Without them they fail, see above; with
    them they hold for any number of clients, descriptors and workers.  They
    have one inductive invariant, `SlotInv`: a descriptor is in at most one of
    four hands (armed in the kernel, in the batch of events, in the queue, with
    one worker), and in every hand but the kernel's the time its timer had left
    is still there; what the buffers hold belongs to the client behind the
    descriptor.
  * `HandshakeWorks`: in the reactor, `SpinServed`, for any number of workers,
    with drops and slow requests.  The main thread spins on one descriptor at
    a time, so nothing else is in the queue and there is room for its request.
    Of `timer_flag` it says nothing, see above.
* `ThreadPoolProofs`
  * `TypeCorrect` and `MutualExclusion` (`LockHeld`).
  * `WakeupsKept`: `Spec => []NoLostWakeup`.  A worker that finds the queue
    empty after it was woken gives up its claim, which is sound because it
    looks under the lock.
  * `Refinement`: `Spec => TQ!TQSpec`, each step under `LockHeld`.
* `ConnPoolProofs`
  * `PoolTypeCorrect`: `PoolSpec => []PoolTypeOK`.
  * `OneHolder` and `OpenInUse`: `ExclusiveConn` and `NotClosedInUse`, with any
    signals and the pool destroyed at any moment.  The invariant adds that
    only a thread that has popped and not yet returned has a connection, and
    that nothing in the list is closed: a connection that is out when the pool
    is destroyed is not closed by it, and comes back to an empty list.
  * `PopIsSafe`: as long as no wait was interrupted and the pool not destroyed,
    `get_conn` never pops an empty list, however few connections there are.
  * `AmplePoolIsCalm`: with as many connections as threads, `get_conn` neither
    refuses nor sleeps before the pool is destroyed, whatever signals arrive.
    Both follow from one invariant that counts where the units of the semaphore
    are.
  * `NothingLost`: `ConnsConserved`, with interrupted waits.  The invariant
    says that a thread which holds the lock may be one step ahead of the
    counters, and by how much.
* `UsersProofs`, for any number of threads, which may register one name at once
  * `NamesStayUnique`, `RegisteredCanLogin`, `MapKeepsUp`: `UniqueNames`,
    `AckedCanLogin` and `MapCoversTable`, with failing INSERTs and with crashes
    at any moment.  The invariant says what each thread may rely on between two
    steps as long as its name is not `raced`: one that is about to insert finds
    its name neither in the map nor in the table; between the INSERT and the
    map the only row of that name is its own; whatever was acknowledged is in
    both.  That the map has every other row holds for raced names too.
  * `UsersTypeCorrect`: `TypeOK`.  The pool's part comes from `ConnPoolProofs`:
    registration and login take only steps of the pool.
* `HttpConnProofs`, for requests and files of every kind and size
  * `MappingIsOwned`: `Spec => []MapOwned`; with the types of the two sizes it
    is inductive.
  * `RequestIsMeant`: `Spec => []RequestMeant`, with `ByteAssumption`, for
    requests of any number of headers and any body (`MessagesAssumption`: a
    header gives its length), however they are cut, a body in pieces included.  The invariant says
    where the parser is in the message (`Position`): at the beginning of a line
    (`AtLine`), with what the lines before it said in `m_cgi`, `m_keep_alive`
    and `m_content_length`; in the body (`InBody`), with the whole head behind
    it; or, in a request with a lone LF, at its first line for ever (`Stuck`).
    From such a place `parse_line` finds the end of the line it is in and no
    other, although it may go on where it stopped, between a CR and its LF
    (`LineEnds`).  A body that is complete ends where the bytes read end, so
    its terminator falls behind them (`TerminatedAtEnd`).
  * `WholeIsEnough`: with `BodyWhole`, `Spec => []CompleteIsTaken`.  The
    invariant `WholeInv` adds that the parser gives up (`LINE_OPEN`) only when
    bytes are missing.
  * `ResponseArrives`: with `HeadInTwo`, `Spec => []ResponseExact`.  The
    invariant says where the vectors point when `have` bytes are sent, and that
    without a mapping only the head can be.
  * `TypesKept`: with `HeadInTwo`, `Spec => []TypeOK`: what `recv` puts into the
    buffer fits, and no index runs ahead of it.  It is not about the write
    behind the buffer described above.
* `LogProofs`, for any number of callers, any queue and any length of the files
  * `LogTypeCorrect`: the invariant adds that a call has a line and the writing
    thread one in hand, and `RingShape`: `m_front` and `m_back` are the size
    apart, modulo the length of the array.
  * `SyncCallsAreDurable`: `Spec => []SyncDurable`; a change of file between
    a line and its `flush` flushes it as well.
  * `LogRefinement`: `Spec => TQ!TQSpec`, from `RingShape` and arithmetic
    modulo the length.
  * `LinesInOrder`: `OrderKept`.  The invariant orders what the property only
    sees in the file: the queue is in the order of each caller's lines, the
    line in the writing thread's hand is before those in the queue, those in
    the file before both, and a line a caller is just at is the newest of its
    own.
  * `NoLineLostOrDoubled`: `EveryLineOnce`.  Every line counted so far is in
    exactly one place: with its caller, in the queue, in hand, in the file or
    among those that `push` refused.
  * `LinesInTheirFile`: `RightFile`.  As long as no midnight fell into a call,
    the open file is today's, the files written to are dated by their lines,
    and a file has the lines that were counted for it but for those still on
    their way.
* `TimerListProofs`, for any number of nodes.  The pointers are described by a
  sequence of nodes without repetition: `Shape(list, s)` says that `head`,
  `tail`, `next` and `prev` lead through `s` and that all other nodes have null
  pointers.  One lemma for each operation says what it does to the sequence
  (`AddedShape`, `AdjustedShape`, `DeletedShape`, `HeadRemovedShape`); they rest
  on `Inserted` (a node goes in behind a place), `Bypassed` (the pointers lead
  past one) and `PlaceFits` (the walk of the private `add_timer` stops at the
  first place that fits).
  * `OneList`: `Spec => []WellLinked`, with any clock, one that is set back
    included.
  * `InExpiryOrder`: with `ClockSteps \subseteq Nat`, `Spec => []Sorted`.  The
    invariant adds that no timer is set further ahead than the full timeout;
    so a node that is adjusted never belongs nearer to the head, which is what
    `adjust_timer` relies on.  The assumption is that `time()` does not go
    back; the code makes it silently (see above).
  * `ListIsSet`: with the same assumption, `Spec => ImplementsTimerSet`.  The
    order is what the end of `tick` needs: if the head is not due, nobody is.

Recursion in the operators (the walk of `add_timer`, what a node reaches) is
unfolded against an explicit function that satisfies the same equation, and
induction over it, or over the places of a buffer, is the choice of a least
counterexample (lemma `Least`, which the library's well-foundedness of the
subset relation gives).  The bytes of a message are written as one function of
the index rather than as a fold, so that no induction over its lines is needed.

Only model-checked: liveness (`HungUpClosed`, `BacklogServed`, `SpinEnds`,
`WaiterServed`, `RequestAnswered`; fairness and `ENABLED` are outside what the
prover can do) and the fairness part of the refinements of `TaskQueue`.

## Not modelled, and the plan

Shutdown, in part: SIGTERM ends the loop, `~WebServer` frees slots and pool
while the detached workers go on, and the static objects (connection pool, log)
are destroyed after it.  `WebServer` has the signal and the end of the loop, and
`ConnPool` the destruction of the pool under its users; the slots being freed
under the workers is in no module.

Left out for good: option parsing and `main` (straight-line code whose values
are the constants here), the web pages, webbench (vendored), `clear`, `front`,
`back`, the sizes and the timed `pop` of `block_queue` and `signal` and
`timewait` of `cond` (no caller), and the copying of a semaphore at
conn_pool.cpp:51 (a matter of the C library; with glibc the copy works).
`do_request`'s string handling and choice of a page, and the wording of
responses and log lines, are data the properties do not tell apart.
