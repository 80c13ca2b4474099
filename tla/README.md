# TinyHttpServer: TLA+ models, checks and proofs

TinyHttpServer is a C++ web server in the style of muduo: event loops, one per
thread, that own channels and run functors handed over from other threads; a
TCP layer of connections above them; an HTTP server with an idle wheel on top;
and, beside them, timers in a heap, a byte buffer, an asynchronous logger, a
thread pool and a pool of MySQL handles. It serves a small site whose pages run
jQuery scripts of their own. This directory models the server's core and those
scripts in TLA+, checks the models with TLC on small instances, and proves the
safety that is checked with TLAPS for every instance. Source paths are relative to
`src/src/`, those beginning with `resources/` to `src/`.

## 1. The system

| Part | State | Operations | Talks to |
|---|---|---|---|
| `event/eventloop` EventLoop | `pending_func_`, `calling_`, `quit_`, eventfd, active channels | `loop`, `quit`, `run_in_loop`, `queue_in_loop`, `wakeup_`, `dopending_func` | any thread (queue, quit), Epoller (poll), channels (dispatch) |
| `event/channel`, `event/epoller` | enabled events, NEW/ADD/DEL mark, map of fds | `enable_*`, `disable_*`, `remove`, `handle_event` | loop thread only |
| `server/eventloopthread` | `loop_` (atomic pointer), the thread | `start_loop`, `thread_func_`, destructor | the owner's thread and the loop's thread |
| `server/eventloopthreadpool`, `server/tcpserver`, `event/acceptor` | `loops_`, `next_`, `connection_`, `next_id` | `start`, `get_loop`, `new_connection`, `remove_connection(_in_loop)`, destructor | base loop and I/O loops, by functors that carry `shared_ptr`s |
| `server/tcpconnection` | `status_`, `reading_`, output buffer, channel | `send`, `shutdown`, `force_close`, `start_read`, `stop_read`, handlers | its loop, other threads, the kernel, the server |
| `httpserver`, `server/entry.h` | `connection_list_`: three buckets of entries | `connection_cb`, `message_cb`, `ontime` (every second), `~Entry` | all loop threads |
| `base/buffer` | a vector and two indexes | append, prepend, retrieve, `read_fd`, `write_fd`, `swap` | its owner |
| `base/log` | current, spare and full buffers, `running_`, file | `append`, `loading`, `init`, `stop`, destructor, log thread | every thread |
| `threadpool.h` | task queue, `stop` | `enqueue`, workers, destructor | clients and workers |
| `sql/*` | queue of handles, semaphore, lock | `GetConn`, `FreeConn`, `ClosePool`, `SqlConnRAII` | request threads |
| `http/*` | bytes not yet parsed, request state machine, response | `read`, `parse`, `MakeResponse`, `UserVerify` | the connection, the MySQL pool |
| `base/timerqueue`, `base/four_heap` | heap of timers with a map from ids to positions, timerfd, ids cancelled in callbacks | `add_timer`, `extend_timer`, `cancel`, `handle_read_`, `reset_` | the loop, the callbacks, other threads by functors |
| `resources/js/*` | handlers bound, ready callbacks, overlay, scroll position, class of the navbar | running the scripts, DOM ready, load, click, scroll | the browser, the user; each script is one request to the server |

What is hard here, and what has to be right:

* **EventLoop**: a functor or a `quit` that arrives while the loop is between its
  test and `epoll_wait`. No wake-up may be lost, functors run once and in order.
* **EventLoopThread**: the loop lives on the stack of its thread; the pointer to
  it must be published and withdrawn around its life, and the destructor must be
  able to stop the thread.
* **TcpConnection**: partial writes, events of one poll in a fixed order,
  shutdown while bytes wait, calls from other threads. Bytes stay in order,
  writing is armed exactly while bytes wait, FIN follows the data, the
  connection goes up once and down once, and its destructor's assertions hold.
* **TcpServer and the wheel**: the last reference to a connection must go only
  after its loop has taken the channel out; entries must shut the idle
  connections and no others.
* **Buffer**: index arithmetic through growth, compaction, prepending, swapping.
* **Log**, **ThreadPool**, **SqlConnPool**: condition variables and semaphores;
  nothing lost, nobody asleep on work, nobody popping an empty queue.
* **TimerQueue**: callbacks that add, cancel and extend timers while the queue is
  in the middle of an expiry. Map and heap must agree, the root must be the
  earliest timer and the timerfd must be armed for it.
* **HttpContext**: a read brings any part of a request or several. A page must be
  answered with itself whatever an earlier form left behind, and a form must
  not be verified twice.
* **Page scripts**: any script may fail to arrive, and the ones behind it throw;
  several handlers are bound to one link; clicks and merged scroll events come at
  any moment of the loading.

`PROJECT.json` lists every part (`components`) and every place where this code
is hard to test (`hazards`), with the properties that watch it.

## 2. Modules

| Module | Models | State and actions |
|---|---|---|
| `FunctorQueue` | what a loop promises | functors waiting and done; push at the end, run the first |
| `EventLoop` | `event/eventloop.cc` | one step per test, poll, handler, swap, functor of `loop()`; `QueueInLoop`, `Quit` and the later `Wakeup` of any thread |
| `EventLoopThread` | `server/eventloopthread.cc` | extends `EventLoop`; `thread_func_` and the owner (`start_loop`, use, destructor) step by step |
| `Channel` | `event/channel.*`, `event/epoller.cc` | operators on a record: events, registration mark, assertions, the callbacks a set of revents causes |
| `TcpConnection` | `server/tcpconnection.*` | one connection; a step is one callback, one functor, one call; kernel and peer as environment |
| `TcpServer` | `server/tcpserver.cc`, thread pool, acceptor, idle wheel | map, round robin, functors on each loop's queue and batch, buckets |
| `ByteQueue`, `Buffer` | `base/buffer.*` | contents as a sequence; the vector and indexes that implement it |
| `Log` | `base/log.*` | buffers of lines; producers, `init`, `stop`, destructor, log thread |
| `ThreadPool` | `threadpool.h` | workers, clients, destructor over mutex and condition variable |
| `SqlConnPool`, `UserVerify` | `sql/*`, `HttpRequest::UserVerify` | handles, permits, users; the requests above them |
| `FourHeap` | `base/four_heap.cc` | operators on a record of vector and map, with the code's arithmetic for positions |
| `TimerQueue` | `base/timerqueue.cc` | one step per operation, expiry, callback and `reset_`; time passes by `Tick` |
| `HttpContext` | `http/httpcontext.cc`, `http/httprequest.cc`, `http/httpresponse.cc` | `Send` of the client; `Read` is one read of the socket with the parse and the answer it causes |
| `Page` | `resources/js/custom.js`, `smoothscroll.js`, `magnific-popup-options.js`, `jquery.js` | one step per script, browser event, click and change of position |
| `EventLoopProofs` (with `EventLoopThread`), `BufferProofs`, `TcpConnectionProofs`, `TcpServerProofs`, `LogProofs`, `PoolProofs` (thread pool and handle pool), `TimerQueueProofs`, `WebProofs` (page scripts and HTTP context) | | the inductive invariants, the lemmas and the theorems |
| `MC*` | | the instance TLC explores, one per `.cfg` group |

Operators whose comment begins with *Fault* (`Quit_NoWakeup`,
`Erased_Kept`, ...) are deliberate errors. Each stands for a plausible bug of
the definition that follows it; putting it in that definition's place makes the
property named for it in `PROJECT.json` (`mutants`) fail. No specification uses
them.

### Choices of granularity

* A critical section is one step; what the code does after unlocking (a
  notification, an eventfd write) is another. Unlocked tests followed by a
  locked action (`GetConn`, `send` and `force_close` from another thread) are two
  steps.
* Condition variables may wake spuriously where the code has no predicate loop.
* `queue_in_loop` called on the loop thread before `loop()` is entered, and a
  second `loop()` on the same object, are not modelled: nothing in the
  repository does either.
* In `TcpConnection` the loop may take functors and ready events in any order,
  more than `EventLoop` allows; `TcpServer` keeps the real batches, because there
  the life of the local vector of functors matters.
* `TcpConnection` keeps the object's state after its removal so that what the
  destructor asserts can be stated about it.
* In `TcpServer`, `message_cb` is two steps (lock the entry, insert it), since
  the timer may drop the bucket in between. The buckets themselves are taken as
  atomic although the code shares them between threads without a lock: what a
  data race inside the containers does cannot be enumerated. A shutdown that
  runs on a freed object is modelled by what its read of `status_` can find: a
  dead object or the connection that now has the memory. The history variable
  `stale` records it.
* A failed `accept` changes nothing in `TcpServer`: `SocketServer::accept` calls
  `setnonblocking(-1)` before it saves `errno`, so the branch of
  `Acceptor::handle_read_` for `EMFILE` is not reached.
* In `Log` the file is one sequence of lines, and a line is one unit of a buffer
  of fixed size. Lines may be logged before `init`; `stop` may be called at any
  time, before `init`, twice, and by `~Log`. A second `join` throws, and `~Log`
  without a file closes a null pointer: both are faults, which like a failed assertion
  end the behaviour. `stop` before `init` waits in `join` for a thread that spins.
  An `init` after `stop` sets `running_` with no thread left to write, so
  `FullBuffersWritten` is claimed while there is one. `init` may
  find the log thread in the middle of a write, which then meets the closed file or
  the new one.
* `FourHeap` follows the code for vectors of at most five nodes, where `pos << 2 +
  1` is 8 `pos` and lies beyond the vector for all but the root. `TimerQueue` keeps
  expiries relative to now, in units of which a second has `Second`. A timer is
  added with an interval in these units; `TimerNode` keeps it as an int
  (`timernode.h:25`, `:108`), so what it repeats with is cut to whole seconds
  (`Period`) and may be 0: such a timer is due again as soon as it has run.
  `TimerAssumption` limits it to four timers; `HttpServer` has two. `get_k` that
  never ends and a reset of a timer that is no longer in the heap are states
  (`hung`, `corrupt`) from which nothing is claimed. `add_timer` from another thread
  is an expiry computed some time before its functor runs, which may be past by
  then.
* In `HttpContext` a request is a sequence of pieces a read may separate, each with
  its place in the request. The loop of `parse` is a function of the number of
  rounds (`Round`), of which there are at most one more than pieces. The regular
  expressions are modelled by what they accept of such pieces: a body left in the
  buffer becomes part of the next request's method. A call of `UserVerify` is
  recorded and answered either way; `UserVerify` itself is a module of its own.
* In `Page` a script arrives and runs, or does not arrive; what it needs of the
  earlier ones decides how far it gets. Without jQuery `smoothscroll.js` first shows a
  dialog, which holds up the page until the user closes it, for ever if need be.
  jQuery is modelled by what the scripts use of it: an exception ends the round of
  ready callbacks or the dispatch of a click. All links of the pages are paths, and
  `$("/picture")` throws: no section link and no `.image-popup` element is there, so
  `localScroll` and the popup bind nothing and no animation of the position starts.
  `animate` in the click handler is not reached.
* `TypeOK` of a module (`PoolTypeOK`, `HttpTypeOK` where one proof module serves two
  models) documents the types of its variables. It is proved in
  every module with a `Proofs` module; a run checks it where it is a claim about
  the code (`Buffer`: the indexes stay inside the vector).

## 3. Runs

| Run | Instance | States | Shows |
|---|---|---|---|
| `EventLoop` | 2 callers, 3 functors, eventfd ceiling 2 | 33 390 | no lost wake-up, refinement of `FunctorQueue`, functors run, quit stops the loop |
| `EventLoopThread` | 1 owner, 2 functors | 6 719 | `loop_` non-null means a live loop; `start_loop` returns; a loop that is running is stopped by the destructor |
| `TcpConnection` | 3 calls of send/shutdown or 2 mixed calls, 2 bytes a message, base or I/O loop | 697 800 | byte order, arming, FIN after data, one up and one down, clean destruction, a gone peer is noticed |
| `TcpServer` | 2 connections, 0 to 2 I/O threads, 3 buckets | 52 084 | clean destruction, exact idle shutdown, closed connections are freed |
| `Buffer` | 2 buffers, reads of up to 2 bytes | 160 023 | indexes, refinement of `ByteQueue`, growth only when full |
| `Log` | 6 lines of any threads, 2 lines to a buffer, 2 `init`s, 1 `loading` | 124 106 | lines conserved, spare buffers suffice, the thread starts on a running logger unless a `stop` is under way, full buffers get written |
| `ThreadPool` | 2 workers, 2 clients, 3 tasks | 4 157 | tasks conserved, drained at the end, no lost notification |
| `SqlConnPool` | 3 users, 2 handles | 459 | permits match the queue, no pop of an empty queue, one user per handle |
| `UserVerifyHandleNotShared` | concurrent logins and registrations | violation | the temporary `SqlConnRAII` lets two requests use one handle |
| `TimerQueue` | 3 timers, of ½ s, 1 s and 1½ s, in half seconds; functors up to 1 s, the loop up to ½ s late | 421 934 | map and heap agree, the root is earliest, the timerfd covers it |
| `HttpContext` | 3 requests of 5 kinds on one connection, every cut and merge | 26 750 | whole requests are answered with their page, no form is verified twice |
| `Page` | 7 scripts, each there or missing; links in and out of the menu; positions 0, 50 and 51 | 7 976 | links are followed, the overlay goes, the navbar ends up fitting the position |

The bounds are the smallest at which the interesting cases happen. Two callers
and a nested call give every order of push, swap and wake-up; a ceiling of 2
reaches the full eventfd. Messages of two bytes give partial writes, and a mark
inside one message is crossed exactly and passed. Two connections on two loops, or on one,
let the base loop, an I/O loop and the wheel hold references at once, and
the three buckets are the code's own number. Three tasks on two workers leave
one task queued while both work; three users on two handles leave one waiting.
Three timers are a root with children that a removal from the middle reorders, and
their intervals repeat with 0, with themselves and cut; a functor two units late adds
the shortest when it is past. (The proofs cover four timers.)
Three requests let a form be followed by a page and by another form. The
positions of the page are the top, the navbar's threshold and one pixel beyond it.
All counters that could grow without limit (calls, messages, connections) are
bounded in the guards by constants named `Max...`.

Deadlock is checked except where the system may really stop: a loop that has
quit, a connection that is gone, a pool that has been destroyed or closed, a
logger that has been stopped, a timer queue that hangs, a client that has sent
all it will, a page that has been left.

### Fairness

Weak fairness is assumed of the steps of a thread that is running: the loop thread,
workers, the log thread, and a caller between a push and its wake-up. The operating
system's scheduler gives that, and nothing is assumed of clients, of peers or of the
poll timeout, which the liveness properties must not need. Strong fairness is
assumed in `TcpServer` of the close event and of the batch swap of a loop: `epoll`
is level triggered, so a condition that keeps being reported is handled in some
round, and `loop()` runs `dopending_func` after every poll. Notifications of a
condition variable are delivered to some waiter. In `Page` the browser is fair to
loading, fading and events, and the user need not do anything, not even close the
dialog. `TimerQueue` has no fairness: that a timer that is due is the next to run
follows from its invariants (the root is earliest, the timerfd covers it), and that
the loop comes round is `EventLoop`'s.

### Findings

`PROJECT.json` records one violation, with the line it contradicts: `UserVerify`
uses a MYSQL handle that its temporary `SqlConnRAII` has already returned
(`sqlconnRAII.h:5`).

Modelling also met the following. The models contain these cases; where a property
excludes one its comment says so, and the hazards name the lines.

* `shutdown` while bytes wait never sends FIN: after draining,
  `shutdown_in_loop_` finds DISCONNECTING and does nothing, contrary to the comment
  at `tcpconnection.cc:213`;
* `Epoller::update_channel` asserts the opposite of its comment, so `stop_read` then
  `start_read` aborts;
* `force_close` tests and sets `status_` on the calling thread, so that a connection
  that has closed meanwhile is destroyed as DISCONNECTING; nor does it ever close one,
  since `force_close_in_loop_` tests `CONNECTED && CONNECTING`;
* destroying a server with open connections meets `assert(status_ == DISCONNECTED)`;
* `init` of the logger can drop a full buffer and leave too few to recycle, so
  that `log.cc:114` asserts;
* `stop` right after `init` fails the assertion at `log.cc:74`;
* `loop()` begins with `quit_ = false`, so a `~EventLoopThread` between the
  publication of `loop_` and the entry of `loop()` waits in `join` for ever;
* an expiring entry can queue `shutdown` with a raw `this` behind the
  `destroy_connect` of the same connection;
* `stop()` of the logger can be missed by the log thread between its test and its wait;
* two registrations of one name can both succeed;
* `get_k` never ends when two or more timers are in the heap and all are due;
* a repeating timer of less than a second repeats with an interval of 0;
* a repeating timer that cancels itself in its callback is reset although it is
  no longer in the heap; one that extends itself is pulled in again by `reset_`,
  which only sifts down ("暂时只支持延长", `timerqueue.cc:147`);
* with five timers `shif_down_` does not see position 4; the timerfd is never
  read and stays readable once the last timer is gone;
* answers are made per read, not per request: a request cut inside its request
  line is answered 404 and then 200, one cut later is answered twice, one cut in
  a header leaves a line in the buffer that makes every later answer 404; the
  request line of a second request in the same read is taken for a body; the
  second form of a connection is not verified; 400 is never sent, because the
  empty path of a bad request is a directory;
* links to other pages work only because `$(href)` throws before
  `preventDefault` (`custom.js:30`); a missing magnific-popup script costs
  custom.js its ready callback.

For that reason the properties of `TcpConnection` about assertions and destruction are
claimed for *basic use* (`BasicUse`: send and shutdown, on a server that stays),
which is how `HttpServer` uses a connection; the run explores all operations,
and the properties about the byte stream hold for all of them.

## 4. Proofs

TLAPS checks the proofs for every value of the constants that satisfies the
named assumptions.

**`EventLoopProofs`** (any sets of threads and functors, any positive ceiling).
`TypeCorrect` is the type invariant. `NoLostWakeup` and `NoLostQuit` speak of
the state *blocked in the poller* only and are not inductive: a functor queued
while a handler runs makes no write to the eventfd when the loop thread queues it
itself outside `dopending_func`, and that is right only because the loop has
yet to reach the swap. `WakeupInv` adds this: outside the handlers and the
swap every queued functor is announced (the eventfd is readable or some thread is
on its way to write it), `calling_` is true exactly inside
`dopending_func`, and the batch is empty outside it. `WakeupCorrect` proves
it, one step per action; the two properties follow. `Refinement` shows that
`functors \o pending_func_` and the history of executed functors implement
`FunctorQueue`: the swap and everything about wake-ups map to stuttering.

The module also proves about the composition with the thread and its owner:
`ThreadImplementsLoop` shows that `EventLoopThread` adds no step to the loop, so
that the theorems about the loop carry over (`ThreadWakeupCorrect`).
`PointerAlive` (a non-null `loop_` is a live loop) needs to know where the thread
is while the pointer is published. `OwnerLoadsAgree` says when the two loads of
`start_loop` and of the destructor agree: always, unless a callback quits its
own loop.

**`BufferProofs`** (any buffers, any number of bytes). `TypeCorrect` is the order
of the indexes inside the vector. `Refinement` shows that the bytes between the
indexes behave as `ByteQueue`: lemmas say what `append`, `prepend`, `retrieve`
and `makespace` do to the contents, the theorem goes through the actions.
`GrowthCorrect` proves the action property that the vector grows only when the
new contents would not fit.

**`PoolProofs`, the handle pool** (any finite set of users, any number of handles).
`PermitsMatchQueue` counts permits, users between `sem_wait` and the mutex, and
queued handles; it needs `ExclusiveHandles` (a handle given back is not queued
already) and that a closed pool has no user inside it. Lemmas on the
cardinality of "the users in a state" carry each step of a user. `PopFindsHandle`
follows from the counts. `NoHandleLeaks`, which no run states, is proved with
them: a handle is queued or held, and after `ClosePool` all are closed.

**`PoolProofs`, the thread pool** (any workers, clients and tasks). `TasksConserved` is
inductive with "a task that was refused is not offered again".
`DestroyedMeansAllRun` rests on `DestructorInv`: a worker leaves only when `stop`
is set and the queue is empty, and after `stop` nothing is queued. It is proved
for a pool with a worker (`Workers # {}`): a pool of no threads returns from its
destructor with the tasks still queued. `NoTaskStranded` is the safety half of
`AcceptedRuns`: no task waits while all workers sleep and nobody will notify.

**`TcpConnectionProofs`** (any message length, mark and bounds). Two layers.
`StreamInv` holds for all operations: writing is armed only for bytes that
are there, bytes that are there are armed until the connection ends, before
`build_connect` has run nothing else has, and a connection is CONNECTED only
before its first end. From it follow `StreamIntegrity`, `ArmedIffBuffered` and
`FinAfterData`. `BasicInv` adds, for basic use, how status, channel and the
functors still queued go together: at most one queued functor takes the
connection down and the channel goes once from new to added, deleted and new
again. From it follow `AssertionsHold`, `UpThenDownOnce` and `DestroyedClean`.

**`TcpServerProofs`** (any number of connections and I/O threads). The
properties speak of freed and of shut connections only; the invariant follows a
connection through its life. `Line(l)` is what loop `l` still has to run, the
rest of its batch and then its queue. `LifeInv` puts every connection in one of
six stages (not accepted, being built, up, closing, leaving, gone), each with
its status, its channel, its place in the map and *the one functor* that holds
it, if any: `build_connect`, then `remove_connection_in_loop`, then
`destroy_connect`. That there is one and no other is what keeps a step on one
loop from disturbing a connection another loop is working on. `HeldInv` and
`WheelInv` do the same for the wheel: an entry that `message_cb` has locked
belongs to a connection that is up on that loop, and the newest bucket with an
entry is the one its idle time says. `ShutdownInv` and `ShutInv` say that a
shutdown is sent, and a connection shut, only by an entry that has died.
`NothingFreedEarly` and `WheelShutsIdle` follow; the latter, like the property,
is claimed until a shutdown has run on a freed object (`stale`).

**`LogProofs`** (any buffer size of two lines or more, any bound on the lines).
`LinesConserved` says what file, batch, full buffers and current buffer hold
together; it needs that buffers given back are empty and how many spares there
are at each point of the log thread. `EnoughBuffers` needs the last of these, and
`StartsRunning` that only `stop` clears `running_` and then waits for the thread
(`Started`).
The contents of a list of buffers is `FlattenSeq`, a recursive function: that its
recursion has one solution is proved by taking the least length for which it
would fail (`NatMin`), and what it gives for a list with one more buffer, or for
erased buffers, follows.

**`WebProofs`, the scripts** (any set of positions with the top among them). A
round of callbacks is a recursive function over the list of handlers, with an
exception ending it; lemmas with the same least-counterexample argument say what
a round leaves. `PageInv` records that custom.js, the last script, has not arrived
while others are to come (`ScriptsToCome`), that with jQuery it has bound the handlers
of load and scroll whatever else failed (`WindowBound`), and that a complete page has
told its overlay to go (`PreloaderTold`, the safety half of `PreloaderGoes`).
`LinksFollowed` needs that no handler of any list prevents the default action
(`DispatchEffect`). `NavbarFollows` is a liveness property and rests on `WindowBound`
(`HandlersAreBound`).

**`WebProofs`, HTTP** (any requests, files and number of requests). The two
properties speak of answers and calls of `UserVerify`; the invariant `HttpInv`
speaks of bytes. `BytesInv`: buffer and wire together are the rest of the stream
the client sent, each piece followed by the one that comes after it. So whatever
a read brings, the parser sees a part of that stream from where it stopped.
`VerifiedInv`: the forms verified are numbered upwards, and the request line of
each is no longer in the stream. It is kept because a call is made only if the
buffer *begins* with the request line of a form (`ParseQuiet`: otherwise a body
left in front has become part of the method and `method_` is not POST), the call
is then for that form, and by then its ten pieces up to the blank line have been
retrieved (`ParseInForm`). `WholeInv`: while reads bring whole requests the buffer
holds nothing, or the two pieces of the last form's body; `ParseWhole` goes through
the four rounds that parse such a buffer. What a loop of any number of rounds
does is shown by the least round that would break it (`UpTo`). `VerifiedOnce` and
`WholeAnswered` follow, and so does that there are no more calls than requests
(`HttpTypeCorrect`).

**`TimerQueueProofs`** (any set of up to four timers, any intervals, delays and
lateness). The lemmas say what `push`, `remove`, `reset` and `extend` of `FourHeap`
do to vector and map: with at most four nodes a sift exchanges a node with the root
or leaves it where it is, in spite of the code's arithmetic. `QueueInv` says that
map and vector are inverse (`Sound`), that the root is a minimum until a repeating
timer has cancelled or extended itself (`selfish`), and that the timerfd is armed or
readable for no later than any timer while no handler runs (`Covered`). For the
reset after a callback, which only sifts down, it needs one thing more (`Running`):
a repeating timer whose callback runs is still at the root and due, because timers
added by a callback expire later (functors, which may add one that is past, never
run inside a callback) and sifts compare strictly. `PeriodBound` says that cutting
an interval never lengthens it. A round of expiry takes one timer or hangs (`hung`),
so `reset_` folds over one timer at most (`Phases`). `IndexCorrect`, `RootCorrect`
and `TimerfdCorrect` follow.

The assumptions on constants are in the modules that declare them and TLC
evaluates them in the runs. Those that came with the proofs are `MaxMixed <=
MaxCalls`, two bounds of `TcpConnection` one of which contains the other; `SIZE > 1`:
a buffer of the logger has room for a line when it is empty (4000 in `log.h:20`);
that the set of timers is finite; and that the files `/welcome.html` and
`/error.html`, which `ParsePost_` names, are there (`resources/` has both).

Each inductive invariant was checked by TLC as an invariant of the instance of
section 3 before it was proved.

Only model-checked:

* all liveness properties, since liveness under fairness is beyond the prover;
* `UserVerify`, whose run shows a violation.

## 5. Not modelled

* `TimerQueue::get_` (ids are taken as distinct; `seq_limit_` is never initialised
  and `get_` takes no lock), `~TimerQueue`, more than four timers; `del_` and `pop`
  are called by nobody. `TcpServer` takes the one-second tick as an action of its own.
* URL decoding, MIME types, header text, keep-alive, `mmap` and its failures.
* The picture popup and smooth scrolling, for which no page has an element or a
  link; of the vendored bootstrap, magnific-popup and wow scripts all but whether
  they are there and run (the menu that bootstrap opens and closes touches no
  other state).
* `SocketServer` and `InetAddress` (wrappers), the descriptor limit, `main.cpp`
  (it only calls `daemon`), HTML and styles, log formatting.
* Lifetimes of buffers that other threads pass to `send` by pointer.
* `EventLoop::event_handling` is never set, so the assertion of
  `remvoe_channel` it guards is never evaluated; it is not part of the models.

## 6. Plan

1. Done: event loop with its abstract queue and proofs; loop thread; channel and
   connection; server and wheel; buffer with refinement and proofs; logger;
   thread pool; handle pool and `UserVerify`; timer heap and queue; HTTP parser
   and response; page scripts.
2. Done, proofs: every safety invariant and action property the passing runs
   check, of the event loop and its thread, the connection, the server and its
   wheel, the buffer, the logger, the two pools, the timers, the HTTP context and
   the page scripts; the refinements of `FunctorQueue` and `ByteQueue`.
3. Later: the registration race and the lost permit of a failed connect in
   `UserVerify` and `SqlConnPool`; the descriptor limit and `~TcpServer` in
   `TcpServer`.
