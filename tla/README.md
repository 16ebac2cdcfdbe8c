# Verification of graylog-logger

TLA+ models of graylog-logger, checked with TLC and proved with TLAPS. `PROJECT.json`
maps every definition that models code to its lines and lists the runs, the hazards
and the theorems.

## 1. The system

| Component | State | Operations | Interacts with |
|---|---|---|---|
| `GraylogConnection::Impl` | `ConnectionState`, `Socket`, `MessageBuffer`, `LogMessages`, the addresses of the current attempt, the operations pending in the io_service | asio handlers on one thread: `resolverHandler`, `connectHandler`, `receiveHandler`, `trySendMessage`, `sentMessageHandler`, the timer's lambda; `sendMessage`, `flush` and the destructor on application threads | application threads, through `LogMessages` and promises; resolver, kernel, server |
| `GraylogInterface`, `GraylogConnection` | none of their own | forward to `Impl`; `logMsgToJSON` | the logger's worker calls `addMessage` |
| `LoggingBase` | `Handlers`, `BaseMsg`, `MinSeverity`, `Executor` | `log`, `fmt_log`, `addField`, `addLogHandler`, `removeAllHandlers`, `setMinSeverity`, `flush`, `getHandlers`, constructor, destructor | sends work to its `ThreadedExecutor`; the worker calls the handlers |
| `Logger` | the singleton, a `LoggingBase` | `addLogHandler` (asynchronous, replaces consoles), constructor | as `LoggingBase` |
| `ThreadedExecutor` | queue, `RunThread`, thread | `SendWork`, loop, destructor | used by the logger and by each Console/FileInterface |
| `Semaphore` | mutex, condition variable, `Count` | `notify`, `wait` | lives on the stack of `addLogHandler`/`removeAllHandlers`, notified by the worker |
| `ConsoleInterface`, `FileInterface` | formatter, stream, `Executor` | `addMessage`, `flush`, `setMessageStringCreatorFunction`, destructor | own thread; fed by worker, application and `std::async` threads |
| `LogMessage` | fields | `addField` | `BaseMsg` and each message |
| `Log::` functions | none | forward to `Logger::Inst()` | |
| moodycamel queues | one FIFO per producer | `enqueue`, `try_enqueue`, `try_dequeue` | external |
| `console_logger` | the options read, `getopt_long`'s static variables | `getopt_long`, the cases of `main()`, its calls of the library | the `Log::` functions |
| `LogTestServer` and the tests of the connection | sockets, one receive buffer, counters; the test's script | accept, read, close; `CloseAllConnections`, getters, destructor | the connection, over TCP |

What is hard here:

* **One connection, many outstanding operations.** A handler decides which operations are
  started next; a failure may be noticed by the receive, by the write or by both, in
  either order, and closing a socket completes other operations with an error.
* **Queues without order between producers.** Everything travels through moodycamel
  queues, which keep each producer's order and nothing else. Whether two items are
  ordered depends on which *thread* queued them: the worker, the application, or the
  thread `std::async` made.
* **Lifetimes.** Handlers are shared; whoever drops the last pointer runs the destructor,
  which sends a stop item and joins a thread. Semaphores live on the caller's stack.
* **Promises that are broken rather than set** release their waiters too
  (`setMinSeverity`, and the flush marker that a full queue refuses).

* **Static state between calls.** `getopt_long` keeps its place, and the block of words
  it passed over, in static variables, and moves arguments about in `argv` meanwhile.
* **A server with one buffer**, which accepts, reads and closes on one thread and is
  closed down from another, against a client that reconnects.

What makes each part correct: see the properties in section 4. The hazards behind them
are listed in `PROJECT.json`, each at its line.

## 2. Modules

| Module | Models | Notes |
|---|---|---|
| `WorkQueue` | moodycamel queue (external) | a function from producer to sequence; a dequeue takes the head of any non-empty one |
| `GraylogConnection` | `GraylogConnection.cpp/.hpp` | one action per handler, client call and environment step |
| `MessagePipe` | abstract connection | two histories: what was put in the buffer, what the kernel took |
| `GraylogConnectionProofs` | | proofs about `GraylogConnection`: the operations outstanding; the characters and the addresses; the implementation of `MessagePipe` and the flushes |
| `ThreadedExecutor`, `LogHandler` | executor, Console-, File- and GraylogInterface as handlers | values and operators, since there are many of each |
| `LoggingBase` | `LoggingBase.hpp/.cpp` | state machine; extends the two above |
| `Logger` | `Logger.cpp`, `Log.cpp` | extends `LoggingBase` with its own `addLogHandler` and constructor |
| `LoggingBaseProofs` | | proofs about `LoggingBase`: types, the queue and the end of the logger |
| `LoggingHandlerProofs` | | extends it: who reaches a handler, what it is given and what it writes |
| `LoggerProofs` | | extends that and `Logger`: the same for `Logger`, and its consoles |
| `Semaphore` | `Semaphore.hpp` and its use | one step per mutex or condition-variable operation |
| `Completion` | abstract blocking call | idle, waiting, released |
| `SemaphoreProofs` | | proofs about `Semaphore` |
| `LogMessage` | `LogMessage::addField`, `log()`'s copy, `logMsgToJSON` | |
| `LogMessageProofs` | | proofs about `LogMessage` |
| `Getopt` | `getopt.h`: `getopt_long` | state machine of the scanner; the caller asks again after each answer |
| `ConsoleLogger` | `ConsoleLogger.cpp` | extends `Getopt` with `main()` |
| `ConsoleLoggerProofs` | | proofs about `ConsoleLogger` |
| `LogTestServer` | `LogTestServer.cpp/.hpp` | one action per handler, call and kernel step |
| `GraylogInterfaceTest` | `GraylogInterfaceTest.cpp` | composes `GraylogConnection` and `LogTestServer` with the tests' scripts |
| `GraylogInterfaceTestProofs` | | proofs about that composition |
| `MC*` | | instances for TLC |

A definition under a comment `Defect:` is a wrong variant of the definition below it. No
specification uses it; it shows that a property would notice such a mistake
(`PROJECT.json`, "mutants").

### GraylogConnection

`io.pending[op]` counts operations started and not completed, `io.ready` is the queue of
handlers whose operations have completed. A handler is one atomic action because one
thread runs them all. The handler takes `Head(io.ready)`, so `Rest` is the io_service it
works on, and operators such as `Start`, `Post`, `Close`, `Wait` return a new one: the
order of calls in the code is the order in which they are nested.

`TrySendMessage` is the whole of `trySendMessage()`, with its five outcomes. A timed
dequeue finds an item if there is one and gives up if there is none; the 10 ms it may
block the io thread are not a step. `flush()` is three actions: the marker is queued or
refused, then the future is ready or the time is up.

Abstractions. A message is a pair (thread, number), framed to `FrameLen` characters of
which the last stands for `'\0'`; a write leaves for the kernel character by character,
so any prefix may have been sent when it fails. Delays (10 s, 100 ms, the flush's
time-out) are "some time". `try_enqueue` refuses at a plain `Capacity`; the real limit
depends on block sizes (the test TestQueueSizeLimit allows a deviation of 20). An async
write is one operation: the partial writes it is composed of do not get a place of
their own in the ready queue, so that what is left of an aborted write runs before the
100 ms timer. The resolver never succeeds with an empty list. A message that is empty
would be taken for a flush marker; `logMsgToJSON()` never makes one, and the model does not send one.

### LoggingBase and Logger

The worker runs simple items in one step. A message visits the handlers one by one, and
`Handlers.clear()` drops the pointers in place, one by one, destroying a handler whose
last pointer it was and waiting for its thread (`DropPointer`, `Joined`); `Handlers`
shows all of them until the last is dropped (`AllDropped`). A flush starts one thread
per handler; each is a producer of its own, named after the flush call. `held` are the
handlers the application owns, `Carried` those that queued work points to. `getHandlers()`
reads the vector on the caller's thread, without a lock: a handler that is being destroyed
when it is copied is not owned by the copy, and goes to `dangling`. That happens during a
removal and while a replaced console is destroyed (`Overwritten`).
`~LoggingBase` is three actions: remove all handlers and wait, send the stop item, join
and destroy what is left.

A `GraylogInterface` among the handlers (`Graylog`) has a queue of `Capacity` items: it
refuses messages when it is full, and a flush marker it refuses breaks its promise. Its
thread stands for the connection, of which nothing is used but what `MessagePipe` says:
each producer's items are taken in order, some time or never. Destroying it stops the
io_service directly and drops the queue. A `FileInterface` logs a message from its
constructor: a call of its thread before the handler is added, like any other.

Abstractions. A handler is added once. Severity levels are integers; message texts, the
severity `fmt_log()` gives a message whose format is wrong, timestamps and thread ids are
left out; the defaults (`BaseMsg`) are represented by the
last call that set a field and by whether host and process are known. `getHandlers()`
is one step. A copy made while `push_back()` reallocates the vector is undefined and left
out, and so is what the application does with a dangling pointer. A handler's thread takes an
item and runs it in one step. Handlers left at the logger's destruction are destroyed at
once rather than one after the other. Streams do not fail.

### Semaphore

The mutex is destroyed by the caller as soon as `wait()` has unlocked it; that the
worker may still be *inside* the unlock it did earlier is what POSIX and the C++ standard
require a mutex to allow, and is one step here.

### LogMessage

Keys and values are model values; three value types are one set. `Json` is the fold of
the assignments in `logMsgToJSON()`, for the names with a leading `_`.

### Getopt and ConsoleLogger

`argv`, `optind`, `optarg`, `place` and the two block limits are the code's. An argument
is a sequence of tokens: characters where the code looks at them one by one, several at
once where they are always read together. `permute_args()` is modelled exchange by
exchange; `Exchanges[k]` is the argument list after k of them. `role` and `reported` are
histories: what each argument turned out to be, and the answers. `POSIXLY_CORRECT` is
either set or not.

`long_options[]` in `ConsoleLogger.cpp` has no entry that ends it (line 46). A name that
is found in full ends the search; any other is compared with what lies behind the table,
which is undefined. The model goes on as if the table ended there, or stops
(`ReadsPastTable`). A number is a token with a value, `port` keeps 16 bits of it, a value
no `int` holds ends the program (only `std::invalid_argument` is caught).

Met on the way, and in the model as the code has it: `-l 8` is refused although the usage
text has levels "between 0 and 8"; a field of whose two halves one is empty resets the
key only, which is enough; the field `arguments` has the arguments in the order that
`getopt_long` left them in. Other platforms than Windows take `getopt_long` from their C
library; the model is of the one in this repository.

### LogTestServer and GraylogInterfaceTest

The server is a second io_service with its own `ready` queue. The composition joins the
two ends: a connection attempt of the client that succeeds enters the server's backlog, a
character the kernel accepts arrives at the server's socket unless that is closed, and
closing a socket is seen at the other end. Sockets are numbered over all connections of a
test case. A read is given any part of what has arrived, up to a buffer. Constructing
the next connection starts it as `Init` does, except that messages go on being numbered
and the histories `stream` and `sent` are kept: what the last connection had not sent has
gone with it, so that `stream` begins as `sent`.

A test is a script of calls, sleeps and expectations; the scripts are those of the tests
by name, run one after another in the test case that shares a server, with `TearDown`
between them and `~LogTestServer()` at the end. Tests that only differ in the message's
text (one character, a large one, the JSON form) are left out; of `TestQueueSizeLimit` the
deviation of 20 is, since the model's capacity is exact. A sleep lasts until nothing is
under way (`Settled`): it is what the tests' authors chose their sleeps for, and
`TestsEnd` shows that this state is reached. A flush times out in that state only. The
count of messages in `DISABLED_MultipleCloseConnectionTest` is not expected: characters
the kernel took may be lost when the server closes. Its script runs all the same, for
what it does to the connection: the rest of a message goes on the next connection, where
the server takes it for the end of another message.

Closing the acceptor and reading the server's counters happen on the test's thread
without a lock; both are atomic here.

## 3. Runs

| Run | Instance | Why these bounds |
|---|---|---|
| `MCGraylogConnection` | 2 threads of 2 messages, 1 flush, capacity 2, limit 1, 2 characters per message, an IPv4 and an IPv6 address, 2 faults; the threads, which do the same, are symmetric | the queue overflows, the buffer is above and below its limit, writes are partial, two failures hit every pair of handlers, both addresses fail |
| `MCGraylogConnectionLive` | 1 thread, 1 fault, fairness | liveness with a failure at any point |
| `MCGraylogFlush` | as the first | a finding, section 5 |
| `MCLoggingCalls` | 2 threads of 2 calls, a handler and a GraylogInterface of capacity 1, every call but `release`, one level, above the default, fairness | each pair of calls in one thread against each pair in another; a message is filtered until the minimum is raised; the GraylogInterface refuses messages and markers |
| `MCLogger` | 2 threads of 2 calls, 2 consoles, 1 GraylogInterface of capacity 1; log, add, remove, getHandlers, flush, release, destroy | each pair of calls in one thread against each pair in the other; the constructor's console is replaced, removed, flushed, copied and destroyed with work queued; a copy is made before, during and after the worker destroys the handlers |
| `MCLoggerFlush`, `MCLoggerLookup`, `MCLoggerFormat` | 1 or 2 handlers | findings, section 5 |
| `MCSemaphore` | 2 threads of 2 calls, fairness | a semaphore is destroyed and another made while the worker is busy |
| `MCLogMessage` | 3 keys, 1 of them the message's own, 2 values, 2 extra fields | a key is a default, an extra field, both or neither, in any order |
| `MCConsoleLogger` | all command lines of up to 2 of 28 arguments, of 3 of 16, of 4 of 5 and of 5 of 3 | every form of an option next to every other; up to two blocks of words before up to three blocks of options, of equal and different lengths |
| `GraylogInterfaceTest` | the five test cases; 5 messages, capacity 3, limit 1, 2 characters, buffer of 2 | several reconnections, each at any point of a message |

Runs that may end have `CHECK_DEADLOCK FALSE`: an application makes finitely many calls,
and a destroyed connection does nothing.

## 4. What the checks show

`GraylogConnection`: one chain of connection operations and one send loop whatever fails
(`OneConnectionChain`, `OneSendLoop`); the status is true (`StatusMatchesOperation`); no
character is lost, repeated or reordered *towards the kernel* (`ByteStreamExact`, and
`PipeSpec`: the connection implements `MessagePipe` with the histories as mapping);
nobody touches the buffer during a write (`BufferUntouchedInWrite`); a flush marker means what was queued before it was taken
(`FlushBarrier`, `FlushLeavesLittle`); every address is tried, IPv4 first
(`EndpointsInOrder`, `WaitsOnlyWhenExhausted`); queued messages are sent, the connection
is re-established (`EventuallySent`, `EventuallyConnected`).

`LoggingBase`, `Logger`: each thread's messages reach each handler in order
(`HandledInOrder`), from its adding on (`AddedGetsTheRest`), with the thread's fields
(`FieldsInOrder`); a handler destroyed by the worker has written everything
(`DrainedByWorker`, which a GraylogInterface does not promise), nothing that
is owned, queued, flushed or still to be visited is being destroyed (`OwnedIsAlive`; only
a `getHandlers()` that overlaps a removal or a replacement may return a handler that is); blocking calls
return with their effect done (`EffectBeforeReturn`, `CallsReturn`,
`FlushAsksEveryHandler`); destroying the logger loses nothing of the destroyer's own
(`DestroyerLosesNothing`; other threads' work may be lost: it has no order with the stop
item); one console at a time (`OneConsole`, `NoStaleConsole`; the default console may
replace another thread's, since nothing orders the constructor's work before it).

`Semaphore`: no dangling semaphore (`NeverDangling`), no lost wake-up and no early return
(`CallsComplete`, a refinement with liveness). `LogMessage`: `BaseIsLatest`,
`FieldsKeepTheirPlace`, `JsonPrecedence`.

`Getopt`, `ConsoleLogger`: when the options end, they and their values come first and the
words after them, each in the given order (`Parted`); each option is reported once, in
order, with the value that is its own (`ReportedAsGiven`); a field comes from one `-e` as
a whole (`ExtraFromOneOption`), handlers are what the last `-f` and `-a` say
(`HandlersAsAsked`), the message has text and a severity every handler knows, and all
handlers are there before it (`MessageGoesOut`); every command line is read to its end
(`Ends`).

`GraylogInterfaceTest`: what the tests expect holds however the threads interleave
(`ExpectationsHold`); the server keeps to one accept or read (`OneServerOperation`); what
arrives there does so in order and once, over reconnections and partial writes
(`ReceivedInOrder`); every test, flush and destructor ends (`TestsEnd`).

A message of the thread that constructed the logger has host and process
(`FieldsInOrder`); one of another thread may lack them, although `Log.hpp:37` says that
they are added: nothing orders the constructor's work before it.

**Fairness.** The io thread, the worker, the handlers' threads and threads that are
released keep running: they are threads of a fair scheduler and nothing blocks them
except what is modelled (a GraylogInterface among the handlers may stop for good). Resolver, timer and kernel answer, which is an assumption the
code itself makes
(`GraylogConnection.hpp:27`), and failures are finitely many. In `Semaphore` a mutex is
given to a thread that keeps asking for it (strong fairness of the two lock steps). No
application call is fair. In `ConsoleLogger` the one thread runs; in `GraylogInterfaceTest`
the test's thread, the two io threads and the kernel do, and nothing fails but what the
scripts close.

## 5. Findings

* `FlushTrueMeansReached`: `GraylogConnection::flush()` says true when the queue is full.
* `FlushMeansWritten`: `Log::Flush()` may say true with an earlier message still queued.
* `AddedIsVisible`: `Log::GetHandlers()` may miss a handler just added.
* `CreatorApplied`: a message logged after a formatter was set may be written without it.

Each quotes the line it contradicts in `PROJECT.json`. Three of the four have one cause:
work of two threads, or a look past the queue, is not ordered with what is queued.

## 6. Proofs

For every value of the constants, from the ASSUMEs of the modules alone:

* `GraylogConnectionProofs`, the operations: `TypeCorrect`, `OneChain`, `OneLoop`,
  `StatusCorrect`. The properties are not inductive: that a write error leaves one operation outstanding
  depends on the receive it aborts, so the invariant must say *which* operations are
  outstanding together and in which order they wait. `Phases` lists it: the connection is
  Resolving, Connecting, Connected, Closing (the send loop closed the socket, the aborted
  receive has not run) or Retrying (the receive closed it, what is left of the send loop
  runs before the timer). Each handler, applied to a phase, gives a phase
  (one lemma per group of actions); counting operations in a phase gives the properties.
* The same module, the data: `StreamIsExact`, `BufferIsBounded` (which no run checks),
  `WriteIsUndisturbed`, `EndpointOrder`, `WaitsLast`. `DataOK` (the exact stream, the bound, and the progress of
  a write within the buffer) is inductive given the phases: only from them is it known
  that `connectHandler` and a posted `trySendMessage()`, which start a write from the
  beginning of the buffer, never run while another write is outstanding. The lemmas say
  which asio operators leave an outstanding write as it was. `EndpointsOK` adds to the
  order of the addresses tried that, while connecting, they are a prefix of the answer.
* The same module, the pipe: `ImplementsPipe`, `FlushIsBarrier`, `FlushIsAlmostSent`.
  A handler does one of three things to the queue, the promises and the stream (`Takes`).
  `QueueOrdered` and `StreamCounted` make the message taken newer than every message of
  its thread in the stream, which is the guard of `MessagePipe!Take`. `AheadOrdered` says
  where the messages a flush waits for are while its marker is queued; a marker must be
  queued at most once, or a second copy of it would outlive its promise. `InvHolds`: the
  conjunction `Inv` holds in every state.
* `LoggingBaseProofs`: `LoggingTypes`, `CallsKeepOrder`, `DestroyerLeavesNothing`. All
  proofs about the logger are about `Step`, which allows what `LoggingBase` and what
  `Logger` do (`Next` and `LoggerNext` are proved to imply it); its actions fall into a
  few classes (`Cases`: an item is sent, or taken, the worker visits a handler, ...), so
  that an invariant has one proof for each class. `QueueOK` has the numbers of the calls:
  those in a thread's queue ascend, the one the worker runs is before them. `EndOK` says
  who waits for what while the logger is destroyed: nothing of the destroying thread is
  queued between its removal of the handlers and the stop item, which is its last.
* `LoggingHandlerProofs`: `OwnedHandlersAlive`, `HandlersWriteInOrder`,
  `WorkerDrainsHandlers`, `AddedHandlersGetTheRest`, `MessagesGetFields`,
  `FlushReachesHandlers`, `CallsWaitForEffect`. None of the properties is inductive, and
  the conjunction `HandlersOK` is:
  - `LifeOK`: what the worker still visits is part of `Handlers` or, during a
    replacement, of what has left it (`VisitsHandlers`); a handler whose destruction has
    begun is in neither, save that `Handlers` shows it while it is cleared
    (`Unreachable`), and that a copy made then may have it (`CopiesKnown`).
  - `OnceOK`, `GivenOK`: a handler is in one place, so that a message is given to it
    once; all it was given is older than what its sender still has in the queue.
  - `InboxesOK`, `SinksOK`: what a handler wrote and, after it, the messages in its queue
    are together what it was given, in that order (all of it, unless it is a
    GraylogInterface). The stop item is the last the worker sends it, hence
    `DrainedByWorker`.
  - `AddedOK`: what the handlers that were visited already have, those that were not will
    get: the property is false for the message that is just being handed over.
  - `FieldsOK`: for each message still queued, the field it will find: that of its
    sender's last `addField()` in the queue before it, or else what `BaseMsg` has.
  - `FlushedOK`, and, apart from `HandlersOK`, `BlockedOK`: what is queued or run of a
    call that blocks is of its thread's last call, which has no answer yet. It is about
    `LoggingBase` alone: `Logger`'s `addLogHandler()` does not wait.
* `LoggerProofs`: `OneConsoleOnly`, `DefaultConsoleReplaced`, `LoggerHandlers`. A step of
  `RunReplace` is one of `Step` only while `Handlers` has one console at most, which
  therefore is part of the invariant, and so is that nobody sends `LoggingBase`'s
  addition. `ShownNow`: a console that has the current message is still in `Handlers`, so
  no other console gets it. `ReplacesDefault`: a console of the constructing thread is
  still queued, behind every message that thread logged before it, or the default one is
  neither in `Handlers` nor in the queue.
* `SemaphoreProofs`: `TypeCorrect`, `Safe`, and `Implements`, the safety part of
  `CallsComplete`. The invariant relates the mutex's holder to the places of waiter and
  worker, and `Count` to how far the notification has come.
* `LogMessageProofs`: `Latest`, `KeepTheirPlace`, `CallOverDefaultOverOwn`. The list of
  fields agrees with a table of their latest values (`Lists`), which `AddField` keeps
  (`AddedListed`). The two loops, of `log()` over the fields of the call and of
  `logMsgToJSON()` over those of the message, are folds; what a fold computes is shown by
  induction over numbers (below), once for both: `FoldDefined`, `FoldSteps`. `log()`'s list
  is then that of the defaults with the call's fields assigned over them (`Extended`), and
  the object is that list assigned over the message's own fields (`JsonIs`).
* `GraylogInterfaceTestProofs`: `ServerHasOneOperation`, of the connection, the server and
  the tests' scripts together. The invariant `OneOperation` says that the server is in one
  of five phases: accepting, about to run the accept's handler, reading, about to run the
  read's handler, or over; in each it says what else is not outstanding and which socket,
  if any, is still in `existingSockets`. The property is not inductive: a read's handler
  lowers `connections` by one and, when it fails, accepts again, which is right only if it
  is the one handler queued; `CloseFunction()` turns an outstanding read into a queued
  one, and must find at most one. An accept ends with an error only once the acceptor is
  closed, so that nobody has to wait for the next connection then. The client's
  steps are shown to leave all of it alone.
* The same module, what arrives: `ArrivesInOrder` (of `ReceivedInOrder`) and
  `TestedConnections` (`Inv` holds of every connection a test constructs). `TestInv` adds
  to `OneOperation`:
  - `ConnectionOK`, the parts of `Inv`. A step of a test is one of the connection's, or
    the server's that changes no more than `peer`, or constructs the next connection, of
    which the invariant holds again (`StepOfConnection`, `ConnectionBegins`).
  - `Increasing(stream)`: from `StreamCounted` and `QueueOrdered`, since one thread logs.
    A character the kernel accepts is therefore newer than all that were sent before it
    (`SentFirst`).
  - `Link`: the socket at which it arrives, the last, is one the client has not closed. It
    is not enough to ask this of `SEND_LOOP`: the server may have accepted and even closed
    the connection while `connectHandler()` is still to run (`Linked`).
  - `SocketsOK`: every socket is used by the server's one operation (`Used`), waits in the
    backlog, is closed by one end with nothing left to read (`Gone`), or is still to
    come; the one that is used came before those in the backlog, which are in the order
    they connected. So nothing is left at the sockets of earlier connections when a
    later one is read, which is why reconnecting does not reorder.
  - `InFlight`: what the server was given, what a completed read holds for `HandleRead()`
    and what is at the sockets, in their order, are each in order and each before the
    next (`Flight`), and all of it was sent.
* `ConsoleLoggerProofs`, `getopt_long()`: `BlocksExchanged`, `WordsStandLast`,
  `OptionsAsGiven`, for every table of options and every command line. `gcd()` and
  `permute_args()` loop, so that what they compute needs induction over numbers: the
  library's theorem that finite sets are well-founded under inclusion needs no operator
  as a parameter, and gives `Least` (a set of numbers has a least one) and
  `SetInduction`. With them `gcd` is found to be defined and to divide; the cycles of an
  exchange are then as many as the greatest common divisor, they are of one length, and
  none meets another (`AtInjective`), so that each argument of the blocks is moved exactly
  once, and from an argument not yet overwritten. `Moved` says which have been moved after
  `k` assignments. On it rests `Passed`, the invariant of the scanner: what has been read
  stands as options, the words between `nonopt_start` and `nonopt_end`, options (`Placed`,
  `Pointers`), what has not been read stands where it was given. `Parted` alone is about
  the last call only. `ReportsHold` adds to `ReportedAsGiven` that what is left in `place`
  is the rest of the argument at `optind` behind as many letters as were reported of it,
  and that the arguments of earlier reports are marked as options.
* The same module, `main()`: `HandlersOfTheLastNames`, `MessageHasText`,
  `FieldFromOneOption`. The invariant compares `fileName` and `address1` with the
  reports of `getopt_long()` (`NameRead`: they agree, unless the answer has not been read
  yet), likewise the extra field (`FieldRead`), keeps the level in 0..7, and says that
  calls are made at the end only (`Told`). That the value of `-e` is text to be split
  follows from `ReportsHold` (`ValueIsText`). What a sequence of calls contains is
  computed part by part (`Together`).

With these, every safety property that a passing run checks is proved, but one
(`ExpectationsHold`). About the table of options it is assumed that no letter in it is the
-1 that ends the options, and about a command line that it is a sequence of texts. The
assumptions about the logger are that its threads, their calls and its worker are
distinct, that the handlers are finitely many and the calls of each thread bounded (any
bound), and that the default console is one of the handlers; about the tests, that their
thread is the only one that logs (`TestThreadAssumption`), as in
`GraylogInterfaceTest.cpp`. Each proof of an invariant was preceded by a TLC run of it.

Model-checked only, and why:

* All liveness (`EventuallyConnected`, `EventuallySent`, `CallsReturn`, `CallsComplete`,
  `Ends`, `TestsEnd`), which is beyond TLAPS.
* `ExpectationsHold`: what a test expects depends on the whole script before it, and
  with some values of the constants (a capacity of 0, fewer messages than a script sends)
  the scripts are not the tests'.

## 7. Not modelled

Formatted text (`fmt`, `messageToString()`, the JSON text), failing streams, exceptions
that end the process, timestamps and thread ids, the tests of other parts than the
connection and those of its JSON text, the benchmarks, build files, and the parts of
`getopt.h` nobody calls. In `performance_test` there is no behaviour of its own; the other
tests drive single calls whose effect the properties of section 4 state for all
interleavings, or compare text.

## 8. Plan

1. Done: the modules above, the composition of the connection with its server and of a
   GraylogInterface with the logger, the command-line tool.
2. Done: proofs of the safety properties of `GraylogConnection`, `Semaphore`,
   `LogMessage`, `LoggingBase`, `Logger`, `ConsoleLogger` and `getopt_long()`, of the
   server's one operation and of the order in which what is logged arrives there.
