# A TLA+ model of WebServer-dev

WebServer-dev is a small static-file web server: one thread runs an epoll loop
(a simulated Proactor), a pool of workers parses requests and builds responses,
a heap of timers closes inactive connections, and a log thread writes lines.
This directory holds TLA+ modules translated from its source, the TLC
configurations that check them, and proofs for TLAPS.

## Inventory

The program that `CMakeLists.txt:7-23` builds consists of these parts.

| Part | Source | State | Operations | Talks to |
|---|---|---|---|---|
| Event loop | `main.cpp` | `timeout`, `stop_server`, `events[]`, the self-pipe, `alarm()` | accept, read event, write event, hang-up, signal, tick | epoll, all parts below |
| HTTP connection: life cycle | `http/httpConn.*` | `m_sockfd`, `m_user_count`, buffers, `m_keepAlive`, epoll interest, `timer` | `init`, `close_conn`, `read`, `write`, `process`, `addfd`/`modfd`/`removefd` | event loop and workers, both on the same object |
| HTTP connection: request parser | `http/httpConn.cpp:185-400` | `m_check_state`, `m_checked_idx`, `m_start_line`, `m_content_length` | `parse_line`, `parse_request_line`, `_headers`, `_content`, `do_request` | worker |
| HTTP connection: response | `http/httpConn.cpp:115-155,473-570` | `m_write_idx`, `m_iv`, `m_file_address` | `process_write`, `add_response`, `write`, `unmap` | worker writes, event loop sends |
| Thread pool | `pool/threadpool.h`, `pool/locker.h` | the list, mutex, semaphore, `m_stop` | `append`, `run`, constructor, destructor | event loop appends, workers run |
| Timer heap | `timer/srp_timer.*` | `heap_`, `size_`, `ref_`, each node's `expire` | `add_timer`, `adjust_timer`, `del_timer`, `tick` | event loop; calls back `close_conn` |
| Asynchronous log | `log/log.*`, `log/blockqueue.h` | deque, `isClose_`, file, `lineCount_`, `toDay_` | `write`, `init`, `~Log`, writer thread, `push_back`, `pop`, `Close` | any thread; `Buffer` |
| Buffer | `buffer/buffer.*` | `readPos_`, `writePos_`, the vector | `Append`, `Retrieve*`, `MakeSpace_`, `ReadFd`, `WriteFd` | log |

Not part of the program: `httpConn.cpp` and `include/` (older copies that are
not built), `webbench-1.5/` (a third-party load generator), `resources/`.

What is hard in it:

* **Concurrency.** A connection object is used by the event loop and by a worker
  without a lock; only EPOLLONESHOT keeps them apart. The tick ignores it.
* **Reuse.** Closing a descriptor lets `accept()` return it again, and the slot
  `users[fd]` with it, while a task or a timer of the old connection is around.
* **Failure of one step.** `append()` may refuse, `accept()` may fail, a write may be short.
* **Time.** Deadlines are set at accept and at every read, in two different ways,
  and looked at only when a SIGALRM came through the self-pipe.
* **Ordering.** `append()` unlocks before it posts; events of one batch are handled
  while the world they describe changes.

What makes each part correct: the pool serves every accepted request once, in
order, and loses no wake-up; the heap's map and array agree, its root is its
minimum, and a tick fires what has expired and nothing else; a connection is in one pair
of hands at a time, owns its buffers, has one timer while it is open and none
when it is closed, and is counted once; the log loses no line, keeps their order as long
as its queue has room, turns to another file when it must, and can be shut down; the parser's
result does not depend on how the input is cut into pieces; a response is sent completely and
once, and its file unmapped; a buffer is a queue of bytes that does not grow without need.
Some of these hold with exceptions, which the properties name and "What the runs found" lists.

## Modules

| Module | What it is | Uses |
|---|---|---|
| `RequestQueue` | abstract: what the pool promises | |
| `ThreadPool` | the pool, down to lock, semaphore and list | implements `RequestQueue` |
| `ThreadPoolProofs` | theorems about `ThreadPool` | |
| `TimerSet` | abstract: what the timers promise | |
| `TimerHeap` | the heap, down to one iteration of a sift | implements `TimerSet` |
| `TimerHeapProofs` | theorems about `TimerHeap` | |
| `Reactor` | event loop, connections, epoll, workers | composes `RequestQueue` and `TimerSet` |
| `ReactorProofs` | theorems about `Reactor` | |
| `HttpRequest` | reference: which answer a request deserves, of its bytes as a whole | |
| `HttpConn` | one connection object: receiving, parsing, responding, sending | checked against `HttpRequest` |
| `HttpConnProofs` | theorems about `HttpConn` and `HttpRequest` | |
| `HttpOrderProofs` | the theorem on the order of answers | extends `HttpConnProofs` |
| `ByteQueue` | abstract: what the buffer promises | |
| `Buffer` | the vector and its two positions | implements `ByteQueue` |
| `BufferProofs` | theorems about `Buffer` | |
| `LineLog` | abstract: what the log promises | |
| `AsyncLog` | the log over its queue, down to critical sections | implements `LineLog` |
| `AsyncLogProofs` | theorems about `AsyncLog` | |
| `MC*` | constants and symmetry for TLC | |

Definitions keep the names of the source. Those that begin a comment with
*Slip* are wrong variants of the definition after them; the specifications
do not use them. They serve to see that a property would notice the mistake.

**ThreadPool.** A step is the code between two points where another thread can
be seen. `AppendLock`/`AppendRefused`/`AppendPush`/`AppendPost` are `append()`
(the post comes after the unlock); `LoopTest` to `Process` are one round of
`run()`. `WaitInterrupted` is `sem_wait()` failing with EINTR: the handlers are
installed without SA_RESTART, `Sem::wait()` returns false and `run()` goes on.
A request is the number of the call of `append()`.

**TimerHeap.** `heap_`, `ref_`, `size_` are the fields; `op`, `pc`, `u`, `idx`
and `victim` are the call in progress and its locals. `Detach` is `del_timer()` up to
its sifts, called from main or from the tick. `expire` is the field of the nodes, set
by main to `now + 3*TIMESLOT` (accept) and `now + 2*TIMESLOT` (read). `broken` is
set when the process dereferences a nullptr or writes past the array; nothing
happens after that. `shortened` remembers that a deadline was moved earlier.

**Reactor.** A slot is an index of `users`, which is the descriptor. `conn[s]` is the
connection in it (none iff `m_sockfd` is -1). `EpollWait` picks the events and disarms
their slots; `Accept`, `ReadSignals`, `Hangup`, `ReadOk`, `ReadFails`, `WriteOk`,
`WriteCloses` are the branches of the loop, each with every call it makes;
`EndLoop`, `TickFire`, `TickEnd` are the tick. `Take`, `Parse`, `Respond`, `Rearm` are a worker in `process()`.
Clients are not actors: what they can do is the choice of events and of the
results of `recv()` and `writev()`. Of the buffers only the owners of their bytes
are kept, and the parser's verdict is a choice. Each handler is one step of main;
a worker's `process()` is three, between which main may close and reuse its slot. `stale` marks
a slot that was taken over while a task of its former connection was
around, `parked` one whose request was refused, `orphans` the connections
closed without `del_timer()`. `signalled` and `terms` are the bytes in the self-pipe, which has
room for `PipeRoom`; `AlarmRings` and `Terminate` are the handler, `alarmLost` remembers an alarm
that found no room. `stop_server` is set by `ReadSignals` and read by nothing, as in the code.
When a signal interrupts `epoll_wait()` the loop goes round once with no event, which changes
nothing and is left out. Also left out because it cannot happen: the `m_user_count >= MAX_FD`
branch (descriptors run out first), `process_write()` returning false, after which the worker
would close the connection itself (a response begun in an empty buffer fits; it could only fail on a
slot that was taken over, where two responses are in one buffer), and that `recv()` takes at most 1024
of the signals, more than are ever waiting. `accept()` may fail at any time, and `users[-1]` or an
index past the array is used then (`broken`).

**HttpRequest and HttpConn.** Input is a sequence of symbols: CR, LF and blank, which are bytes,
and words (`GET`, a path, a whole header line), each of which takes one place of the read buffer.
`HttpRequest!Verdict` looks at all of it at once; two words that touch are one word that is none of these. `HttpConn` gets any part of it at a time
(`Read`; `ReadFull` when `recv()` is left without room and its 0 is taken for a closed peer).
Then every iteration of the loop of `process_read()` is a step: `NoLine`, `ParseRequestLine` or
`BadRequestLine`, `ParseHeader`, `AwaitContent` or `EndOfHeader`, `Content` or `ContentIncomplete`,
with the line that `Scan`, the condition of the loop, has found. `do_request` and `Respond` are
the rest of `process()`. `WriteBegin` to `WriteError` are `write()`, a step per `writev()`, with
a socket that has room for `SendBuffer` bytes until the client reads them (`Drain`). `m_iv` is
kept as the lengths of its entries; every line of a header and a form have length 1.
`m_file_address` is 0, an address or MAP_FAILED, and `mapped` what the object has mapped: `mmap()`
of an empty file fails, and `munmap()` of another length than was mapped does not release the
mapping. The variables under *history* say which of the known weaknesses have played a part on
this connection, so that a property can be stated sharply for all the rest. Threads are the
matter of `Reactor`: here the operations of one object follow each other. Terminators that the
parser writes into the buffer are left out, and so is the Host header, the case of letters, tabs, a
negative length, that a path longer than `FILENAME_LEN` is cut, and a failing `open()` or `mmap()` of a file
that is not empty, which the code does not test. The constructor leaves `m_sockfd`, `m_file_address` and
`m_file_stat` uninitialised; `users` (`main.cpp:98`) is one allocation of megabytes, which comes from the system as
zeros, so the model begins with nothing mapped and no length. A client stops when its connection is closed and sends nothing after its script.

**Buffer.** `buffer_`, `readPos_`, `writePos_` are the fields; `MakeSpace_`, `EnsureWriteable`
and `Appended` are what the methods make of the object, as values, and the actions are the
public methods, with their assertions as guards. `Vsnprintf` is what `Log::write()` does with
`BeginWrite()` and `HasWritten()` (`log.cpp:144-150`): a text that just fits loses its last
byte to the terminator, a longer one puts `writePos_` behind the end (`broken`), after which
nothing is promised. `peak` remembers the most bytes there had to be room for.

**AsyncLog.** `write(l)` is one use of a macro by logger `l`: `WriteBegin` reads the clock,
`WriteTest` to `OpenFile` turn to another file, `TakeUp` and `Push` queue the line (or
`PutDirectly` puts it out), `Flush` is the macro's `flush()`. `toDay_` and `lineCount_` are set
by two steps, `NameDay` and `ResetCount`, because no mutex is held there. `mtx_` is kept only where it is
held across two steps, between `full()` and `push_back()`; elsewhere a step needs it free.
A method of `BlockDeque` is one step, but `pop()` is cut at its wait: `woken` says that the
waiting thread was notified, and a notification nobody waits for is lost. `Drain`, `Close`,
`CloseNotify`, `JoinAndClose` are `~Log()`. A line is in three places one after the other: in the queue or
in hand; in the stream of the file that is open when `fputs()` puts it there (`written`, with that
file in `filed`); and in the file once the stream was flushed (`synced` lines are, by
`fflush()` or `fclose()`). `home` remembers which file was open when the line was made and
counted. The class allows any number of loggers, and the
run has two; in this version of the program only main logs, one line at the start
(`main.cpp:115`). Left out: `init()` (the state begins where it returns), the text of the
lines, a failing `fopen()` of the next file (`assert()`, `log.cpp:131`), an `fflush()` of the macro that
comes between the `fclose()` and `fopen()` of another call (undefined), and producers waiting in
`push_back()`, which `PushNeverWaits` shows there are none of. Days pass within one month.

## Runs

| Run | Shows | Bounds |
|---|---|---|
| `pool` | `TypeOK`, `NoLostWakeup`, `NoDoubleService`, `ServedUnlessStopped`, `ImplementsQueue` | 2 workers, list limit 1, 4 appends: a full list, a refusal, each worker interrupted, the destructor at any time |
| `heap` | `TypeOK`, `IndexConsistent`, `OrderedUnlessShortened`, `NoneOverdueUnlessShortened`, `ImplementsTimerSet` | 6 nodes, 5 slots, clock to 4: sifts over two levels, an overflow, deadlines passed and shortened |
| `heap_delete` | violation of `DelTimerReturns` | 2 nodes |
| `heap_overdue` | violation of `NoneOverdue` | 2 nodes, clock to 3 |
| `reactor` | `TypeOK`, `CountExact`, `EventsLive`, `OneOwner`, `OwnBytes`, `TimersMatch`, `OneWorkerUnlessStale`, `OnlyTickClosesBusy` | 2 slots, 2 workers, 3 connections, heap for 2, clock to 3: every deadline passes, a slot is reused under a worker, all slots taken, full list, full heap |
| `reactor_live` | `OneAlarm`, `TimedOut`, `ComesBack` | 1 slot, 1 worker, 2 connections, clock to 3, 2 SIGTERMs and a self-pipe for 2 bytes: timers fire, are moved and left behind, an alarm is lost |
| `reactor_workers` | violation of `OneWorkerPerConnection` | 2 slots, 2 workers, 2 connections, clock to 4 |
| `reactor_early` | violation of `NotClosedEarly` | as `reactor_workers` |
| `log` | `TypeOK`, `PushNeverWaits`, `OrderKept`, `FileFits`, `LinesWritten`, `ImplementsLineLog` | 2 loggers, queue for 2, 2 lines to a file, 3 calls, one midnight: a full queue, a full file left with lines still queued, a new day, overlapping calls, exit at any time nobody logs; the bounds of `OrderKept` and `FileFits` are Capacity + 1 = 3, and two lines are what three calls can reach of them |
| `log_join` | violation of `ThreadReclaimed` | 1 logger, 1 line |
| `http` | `TypeOK`, `VerdictRight`, `KeepAliveHonoured`, `AnswersInOrder`, `SentWhole`, `MappedWhileSending`, `RequestServed` | 2 connections on one object, 9 conversations of up to two requests, a read buffer of 25 places, a file that does not fit into the socket with its header: every way to cut the input, a full buffer, an empty file, bodies, bad lines |
| `buffer` | `TypeOK`, `SizeBounded`, `ImplementsByteQueue` | 3 bytes at first, up to 4 held, strings of up to 3: wraps, growth, both pieces of `readv()`, prints that fit, just fit and do not fit |

The time slot is one unit of the clock in all runs; accept gives three, a read two, the
alarm one. Slots, workers and timer nodes are interchangeable, which the
symmetry sets use. `CHECK_DEADLOCK FALSE` is said where the modelled system really stops: the pool after its
destructor, the log when the program has exited, `HttpConn` when there are no more connections, a buffer after a print that did not fit, the heap and the reactor after a fatal access, and the reactor
also where the bounds of clock and connections are used up.

What the runs found:

* `heap_delete`: deleting the timer in the last slot, with others set, makes
  `swifup_()` read the slot that was just set to nullptr. The closing of the most recent
  of two connections is enough.
* `heap_overdue`: the first read can move a deadline earlier
  (`2*TIMESLOT` after `3*TIMESLOT`); the heap is not re-ordered for that and
  a tick leaves an expired timer behind. With `~shortened` the property holds.
* `reactor_workers`: the tick closes a connection a worker is busy with; its
  slot is reused and two workers are in one `HttpConn`. `OneWorkerUnlessStale`
  shows that this is the only way in, and `OneOwner`, `OwnBytes` and `OnlyTickClosesBusy` that without such
  a takeover the hand-over is exact.
* `reactor_early`: `write()` returning false leaves the timer behind, which later
  closes another connection. `TimersMatch` shows that no other path leaves one. Early is measured there
  by the deadline main has set. Without any timer left behind, a connection that was read from
  is closed 10 seconds later (`main.cpp:283`, two TIMESLOTs of 5), although `src/README.md:29` promises 15; no property
  is needed to see that.
* `log_join`: `Close()` can come while the writing thread is between two calls of `pop()`;
  it then waits on the closed queue, nobody notifies it, and `join()` never returns. One
  line logged before the exit is enough, as when `bind()` fails.
* `log`: when `~Log()` comes to its end no line is lost, but a line that finds the queue full overtakes up
  to a queue and one line more (`OrderKept`). Lines do not always get into the file they were counted for,
  with one logger neither: turning to the next file only notifies the writing thread (`log.cpp:126-131`), and what is
  still queued goes to the new file, which may so hold lines of the day before and
  `MAX_LINES + Capacity + 1` lines, more than the "一个日志文件的最大的行数" (most lines of a log file) of `log.h:50`; `lineCount_`
  is then not the number of lines in the file, as `log.h:52` has it. `FileFits` says what
  remains true: what is made for a file, when it is left, and how many others it gets, for calls that do not
  overlap. Two calls that do may turn to the wrong file, because `toDay_` and
  `lineCount_` are used without the mutex.
* `log`, `log_join`: a line is in its file only after a flush. The writing thread does not flush, so a line it puts
  after the macro's `flush()` stays in the stream until somebody logs again (`LinesWritten`) or `~Log()` gets to
  its end (`ImplementsLineLog`). When `join()` does not return, `log.cpp:29-33` is not reached
  and such lines never get to the file.
* `http`: requests are parsed right however they are cut, with four exceptions that have a
  variable each. A body that comes in a later read than its header is looked for only once
  more bytes than it has are there, because `parse_line()` has moved `m_checked_idx` over it
  (`lateBody`). A `writev()` that takes less than all ends the response as soon as half of the header
  has gone, or starts again from its first byte (`tight`). A request sent before the
  answer to the one before is thrown away by `init()` (`discarded`). A connection closed
  with a response pending leaves its mapping behind, and the next response on the slot overwrites the address
  (`abandoned`). Also: input that fills the buffer exactly closes the connection, and a bad line is
  never refused, the server waits instead.
* `buffer`: moving and growing are invisible and growth is bounded, but the text of a log line
  must be shorter than the room in the buffer, which `log.cpp:150` does not look at.
* `append()` admits one request more than `m_max_requests`, which `threadpool.h:43` calls the most that
  may wait ("请求队列中最大允许的等待处理的线程数量"; so does `threadpool.h:18`), and a refused
  connection is in nobody's hands until its timer fires (`parked` in `OneOwner`).

## Fairness

`pool`, `log`, `log_join`, `reactor_live` and `http` check liveness. In the pool, a worker that can run runs (weak fairness of its
steps and of `WaitSem`), `process()` returns, and a worker waiting for a mutex
that keeps being released gets it (strong fairness of `TakeLock`: the mutex is free again and again, and pthreads gives no
stronger promise). `append()` once begun is finished. Nothing is assumed of signals, of new
calls, or of the destructor, so the promise ends when `m_stop` is set.

In the log, a call of `write()` once begun goes on, the writing thread runs, and whoever
needs `mtx_` again and again while it is free gets it (strong fairness of the steps that take
it). `~Log()` goes on once it has begun. Nothing makes a call begin, the program exit, or a
wait end without a notification: pthreads promises no spurious wake-ups.

In the reactor, time goes on, the alarm rings when it is due, `epoll_wait()` returns when the self-pipe is
readable, main gets to the end of a batch of events and of a tick, and no worker is starved: all weak, because
each stays enabled until it is taken. Nothing is assumed of clients. `OneAlarm` (a safety
property) says that the chain of alarms neither breaks nor forks; `TimedOut` then says that an expired
timer is fired or moved, unless the alarm was lost, another timer that is not due may hide it (the heap
promises no more, see `heap_overdue`), or the bounds of the clock are reached; `ComesBack` that a connection in hand is
given back to epoll or closed, unless the pool refused it.

In `http`, the client sends its requests and reads the answers, and the operations go on; a hang-up,
an error of `writev()` or another connection is never made to happen.

## Proofs

`ThreadPoolProofs` proves, for any finite set of workers, any limit and any number of calls
(assumptions `WorkersAssumption` and `BoundsAssumption`, nothing else):
type correctness, `NoDoubleService`, `NoLostWakeup`, and that
`ThreadPool` implements `RequestQueue`.

None of these is inductive by itself. `IInv` adds that main and workers
stay in their own functions (`PcInv`), that a thread in a critical section holds the
mutex (`LockInv`), so that the front a worker read is still the front when it
pops (`FrontInv`), and that calls are queued in increasing order and everything
queued, held or served is older than the call in progress (`OrderInv`), from which
two entries of the list differ. `NoLostWakeup` is inductive relative to `IInv`: a pop takes a
worker out of `Awake` exactly when it takes a request out of the list, and a worker
that leaves without one has seen the list empty.

`TimerHeapProofs` proves, for any finite set of timers, any size of the array, any time
slot and any bound on the clock (`TimersAssumption`, `SizesAssumption`): type correctness,
`IndexConsistent`, `OrderedUnlessShortened`, `NoneOverdueUnlessShortened`, and that
`TimerHeap` implements `TimerSet`: every safety property the run `heap` checks.

`IInv` adds to the first two which locals are in use in which loop (`CallInv`) and that
the timer `del_timer()` has taken out keeps an entry for the slot that was given up
(`VictimInv`); without it the erasure at the end could remove the entry of a timer that is set. The order
is proved from `OrderInv`: during `swifup_()` only slot `u` may be below its parent and,
while it is still the slot `del_timer()` filled, above its children; during `swifdown_()` only
`u` may be above its children; and the children of `u` are never before its parent. That a
tick is complete needs the root to be the minimum, an induction over the slots; it is done by the least
counterexample (`LeastNumber`, from the library's `WFMin`). Refinement needs that
swaps keep the set of timers and that its cardinality is `size_`.

`ReactorProofs` proves every safety property of the runs `reactor` and `reactor_live`, for any finite sets of
slots and workers, any limit of the pool, any size of the self-pipe and any bounds (`SlotsAssumption`, `WorkersAssumption`,
`NumbersAssumption`). `RoomAssumption` says that the heap has room for a timer per slot, as in the code:
`MAX_HEAP_SIZE` is 65536 with slot 0 unused, and `MAX_FD` is 65535.

The checked invariants rest on each other, so `IInv` is their conjunction with what holds between two steps of the
code: no events are in hand outside the loop, and a tick runs after it (`LoopInv`); `epoll_wait()` returns one
event for a descriptor (`BatchInv`); a worker has a slot while it is in `process()` and a request only between its
two halves (`ProcessInv`); connections are numbered as they were accepted and a timer has a slot (`NumbersInv`).
`OneOwner` counts four kinds of claim; each step is shown to give one up for each it takes, by lemmas on the events,
places in the list and workers that name a slot (`EventsFor`, `PlacesOf`, `HoldersOf`). It says nothing of closed
slots; `TaskInv` does, that a slot which is not stale has one task at most even if its connection is closed, and
`OneWorkerUnlessStale` follows from it. That the heap does not overflow before a timer is left behind compares the
cardinalities of timers and open slots (`TimersFit`).

`BufferProofs` proves `TypeOK`, `SizeBounded` and that `Buffer` implements `ByteQueue`, for any bytes, strings and
first size (`BufferAssumption`). A buffer is taken as a value: lemmas say which content and which size `MakeSpace_`,
`EnsureWriteable` and `Appended` make of it, and the proofs about the steps put them together. `SizeBounded` needs
`PeakInv`: what is held now has been counted in `peak`.

`AsyncLogProofs` proves the safety properties of the run `log` and that `AsyncLog` implements `LineLog`, for any finite
set of loggers, any capacity and any number of lines to a file (`LoggersAssumption`, `LogBoundsAssumption`). Every
call takes up one line (`CountInv`); who is about to push holds the mutex and has found room (`MutexInv`), which gives
`PushNeverWaits`; `~Log()` closes an empty queue (`ExitInv`); the queue is in order and what the writer holds is older
(`QueueInv`); a line that was taken up is in hand or written, and written once (`OutInv`). `OrderKept` looks forward
from a line to the later ones in the files; it becomes inductive by looking back: the lines missing before a line are
known when it is written, and are no more than the queue and the writer hold (`LateInv`). `FileFits` is proved from
three invariants about calls that do not overlap. `FileInv` says, of the one call under way, that the name it has found or
made is one for which the count is right. `HomeInv` says that the lines counted for the open file are the last
ones that were made, and that files only follow one another, so no file is opened again and what was made for it is
complete when it is left. `StrayInv` adds the lines in hand to those that were put into the open file although they were
made for another: a line that is queued, popped or put changes places in this set but does not join it, and when a new
file is opened its strays are the lines in hand, no more than the queue and the writing thread hold.

`HttpConnProofs` proves `TypeOK`, `VerdictRight`, `MappedWhileSending`, `KeepAliveHonoured` and `SentWhole`, and
`HttpOrderProofs` proves `AnswersInOrder`, for any files, paths, scripts and sizes and any number of connections. The
assumptions beyond those on types: a header and a form fit into the write buffer (`ResponseFits`; the code has 1024
bytes for them), a path is not one of CR, LF, blank and `http://` (`PathsAssumption`), and a request of a script is one
request and no more (`OneRequest`): this only says where a stream is cut into requests.

`VerdictRight` compares a parser that has seen a part of its input, line by line, with a definition that looks at all
of it. `LineInv` says what the parser has learnt of the lines it has read: in a header, that a request line and headers
are there and the empty line is not (`Begun`), and that `m_url`, `m_keepAlive` and `m_content_length` are what
`HttpRequest` reads up to there; in a body, the same of the whole header (`Headed`). Both speak of a beginning of the
input, and lemmas say that more input leaves them as they are. `BodyInv` says that a body which is not there was missed
at the end of the header, unless it came late. An input whose next line has not come, or is bad, has no verdict
(`Stuck`). `ResponseInv` has the response with its lengths; nothing of it was sent as long as each `writev()` took all.
`MapInv` counts the mappings left behind, at most one a connection, so that there is a free address. In
`HttpOrderProofs`, `StreamInv` is an account of the stream: the requests that are left are, one after the other,
the buffer and what is still to come. So the buffer is a beginning of the next request, and all of it if it has an answer that
keeps the connection open. This needs `FlattenSeq` of scripts of any length: that its recursive function exists and is
unique is proved by least counterexamples (`ChainExists`, `ChainUnique`).

So every safety property that a passing run checks, invariant, action property or refinement, is a theorem.
Only model-checked are the liveness properties, `ServedUnlessStopped`, `LinesWritten`, `TimedOut`, `ComesBack` and
`RequestServed`: fairness and ENABLED are out of TLAPS's reach. The findings are about single behaviours, and
TLC shows them. What a RECURSIVE operator computes cannot be proved either; the modules use none.

## Plan

1. Done: `RequestQueue`, `ThreadPool`, `TimerSet` and `TimerHeap`, with proofs; `Reactor`.
2. Done: `LineLog` and `AsyncLog`.
3. Done: `HttpRequest` and `HttpConn`, parser and response in one module because they share the object.
4. Done: `ByteQueue` and `Buffer`.
5. Done: the self-pipe, SIGTERM and the liveness of the reactor.
6. Done: theorems for the safety of `Reactor`, `Buffer`, `AsyncLog` and `HttpConn`.
7. Next: shorter proofs where lemmas repeat, and invariants that the proofs use and no run states.

## Not modelled

Start-up and its error exits, which end the program before anything runs (only what they leave behind is
kept, in the initial states); the code after the loop of `main()`, reached only when `epoll_wait()` fails; the
destructors' release of memory; `INTERNAL_ERROR`, which nothing returns; the wording of responses and log
lines; `Log::GetLevel()`, `SetLevel()` and the unused methods of `BlockDeque`; class `Cond`. The
composition of `HttpConn` with threads is that of `Reactor`, over abstract buffers: two workers inside one
object (`reactor_workers`) race on every field, and what comes of the bytes then is undefined. The parts that
are not built are listed at the end of the inventory.
