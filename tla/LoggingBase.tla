------------------------------ MODULE LoggingBase ------------------------------
(* LoggingBase: application threads send work to the logger's executor, whose   *)
(* thread (the worker) hands every message to the log handlers.                 *)
(*                                                                             *)
(* The handlers are Console-, File- and GraylogInterfaces.  The                  *)
(* worker, the handlers' threads, the threads std::async makes for a flush and   *)
(* the application threads interleave; they meet only in the executors' queues,  *)
(* in promises and semaphores, and in getHandlers(), which reads Handlers.       *)
EXTENDS LogHandler, Integers

CONSTANTS
  Thread,   \* application threads
  Main,     \* the one that constructs the logger
  MaxCall,  \* of each thread: the calls it makes
  Handler,  \* the handlers the application creates
  Graylog,  \* those of them that are GraylogInterfaces
  Capacity, \* the messages a GraylogInterface can queue
  Offered,  \* the calls it makes use of
  Level,    \* the severities it uses
  WorkerThread, Nobody

ASSUME LoggerAssumption ==
  Main \in Thread /\ MaxCall \in [Thread -> Nat] /\ Level \subseteq Int /\ IsFiniteSet(Handler)
  /\ Graylog \subseteq Handler /\ Capacity \in Nat \ {0}

\* Call 0 is the construction of the logger.
Call   == UNION {{t} \X (0..MaxCall[t]) : t \in Thread}
NoCall == <<Main, -1>>
Notice == 5

\* Who writes to a handler's queue: the worker, an application thread, or the
\* thread std::async made for a flush call.
Producer == {WorkerThread} \cup Thread \cup Call
ASSUME ProducerAssumption ==
  WorkerThread \notin Thread \cup Call /\ Nobody \notin Producer

\* own: history, the sender's last addField() call before it sent the message.
LogMessage == [call : Call, identified : BOOLEAN, field : Call \cup {NoCall},
               own : Nat]

VARIABLES
  executor,     \* Executor
  worker,       \* the item the worker runs, and the handlers it has still to visit
  flushing,     \* of a flush: the verdict of each handler's std::async thread
  handlers,     \* Handlers
  minSeverity,  \* MinSeverity
  baseMsg,      \* BaseMsg: are host and process known, last call that set a field
  sink,         \* the handler objects
  held,         \* handlers the application has a pointer to
  dangling,     \* those it has a copy of that was made too late to keep them alive
  adder,        \* of each handler: the call that gave it to addLogHandler()
  calls,        \* calls made by each thread
  waits,        \* of each thread: no, or the call it is inside
  destroying,   \* of each thread: the handlers whose last pointer it dropped
  answer,       \* of each call: none, done, or flush()'s TRUE or FALSE
  phase,        \* the logger: alive, removing, stopping, dead
  given,        \* history: the messages handed to each handler
  stopper,      \* history: the producer that destroyed each handler
  dropped,      \* history: the handlers that have left Handlers
  lastField,    \* history: the last addField() call of each thread
  creatorSet    \* history: the call that gave each handler a formatter

callVars    == <<calls, waits, answer>>
historyVars == <<given, stopper, dropped, lastField, creatorSet>>
pointerVars == <<held, dangling>>
loggerVars  == <<worker, flushing, handlers, minSeverity, baseMsg>>
vars == <<executor, loggerVars, sink, pointerVars, adder, callVars, destroying, phase,
          historyVars>>

NoWorkItem == [kind |-> "idle", call |-> NoCall, todo |-> << >>]
Item(kind, call, arg) == [kind |-> kind, call |-> call, arg |-> arg]
Set(seq) == {seq[i] : i \in DOMAIN seq}

\* Work that still holds the pointer to a handler it is to add.
Carried == {h \in Handler :
  \E t \in Thread : \E i \in DOMAIN executor.work[t] :
    executor.work[t][i].kind \in {"add", "replace"} /\ executor.work[t][i].arg = h}
-----------------------------------------------------------------------------
(* What the application calls.  A call that blocks leaves waits[t] at its kind   *)
(* until its promise or semaphore is released.                                   *)

Calls(t, kind) ==
  /\ kind \in Offered
  /\ phase = "alive" \/ kind = "release"
  /\ waits[t] = "no"
  /\ calls[t] < MaxCall[t]
  /\ calls' = [calls EXCEPT ![t] = @ + 1]

This(t) == <<t, calls[t] + 1>>

Sends(t, kind, arg) ==
  executor' = SendWork(executor, t, Item(kind, This(t), arg))

\* Defect: nobody waits for the promise or the semaphore.
NeverBlocks(t, kind) == UNCHANGED waits

Blocks(t, kind) == waits' = [waits EXCEPT ![t] = kind]

\* log() and fmt_log(), which differ in the text and the severity that the worker
\* makes of a format, and in the fields of the call's own (module LogMessage).
Log(t, level) ==
  /\ Calls(t, "log")
  /\ IF level > minSeverity THEN UNCHANGED executor ELSE Sends(t, "log", lastField[t])
  /\ UNCHANGED <<loggerVars, sink, pointerVars, adder, waits, answer, destroying, phase,
                 historyVars>>

AddField(t) ==
  /\ Calls(t, "addField")
  /\ Sends(t, "addField", 0)
  /\ lastField' = [lastField EXCEPT ![t] = calls[t] + 1]
  /\ UNCHANGED <<loggerVars, sink, pointerVars, adder, waits, answer, destroying, phase,
                 given, stopper, dropped, creatorSet>>

\* addLogHandler(): each handler is added once.
Adds(t, h, kind) ==
  /\ Calls(t, "addLogHandler")
  /\ h \in held
  /\ adder[h] = NoCall
  /\ adder' = [adder EXCEPT ![h] = This(t)]
  /\ Sends(t, kind, h)
  /\ UNCHANGED <<loggerVars, sink, pointerVars, answer, destroying, phase, historyVars>>

AddLogHandler(t, h) == Adds(t, h, "add") /\ Blocks(t, "addLogHandler")

BlockingCall(t, kind, arg) ==
  /\ Calls(t, kind)
  /\ Sends(t, kind, arg)
  /\ Blocks(t, kind)
  /\ UNCHANGED <<loggerVars, sink, pointerVars, adder, answer, destroying, phase,
                 historyVars>>

RemoveAllHandlers(t)     == BlockingCall(t, "removeAllHandlers", 0)
SetMinSeverity(t, level) == BlockingCall(t, "setMinSeverity", level)
Flush(t)                 == BlockingCall(t, "flush", 0)

Return(t) ==
  /\ waits[t] # "no" /\ phase = "alive"
  /\ answer[<<t, calls[t]>>] # "none"
  /\ Blocks(t, "no")
  /\ UNCHANGED <<executor, loggerVars, sink, pointerVars, adder, calls, answer,
                 destroying, phase, historyVars>>

\* A console that is being replaced: the slot may keep its reference count (and not
\* its pointer) until it is destroyed, which the standard library decides.
Overwritten == IF worker.kind = "join" THEN {Head(worker.todo)} ELSE {}

\* getHandlers() copies Handlers, and the pointers in it, on the caller's thread and
\* without a lock.  To copy a pointer to a handler that is being destroyed does not
\* keep it alive; what the application makes of such a copy is undefined and left out.
GetHandlers(t) ==
  /\ Calls(t, "getHandlers")
  /\ \E copied \in {Set(handlers), Set(handlers) \cup Overwritten} :
       /\ held' = held \cup {h \in copied : stopper[h] = Nobody}
       /\ dangling' = dangling \cup {h \in copied : stopper[h] # Nobody}
  /\ UNCHANGED <<executor, loggerVars, sink, adder, waits, answer, destroying, phase,
                 historyVars>>

SetCreator(t, h) ==
  /\ Calls(t, "setCreator")
  /\ h \in held
  /\ creatorSet[h] = NoCall
  /\ creatorSet' = [creatorSet EXCEPT ![h] = This(t)]
  /\ sink' = [sink EXCEPT ![h] = SetMessageStringCreatorFunction(@, t, This(t))]
  /\ UNCHANGED <<executor, loggerVars, pointerVars, adder, waits, answer, destroying,
                 phase, given, stopper, dropped, lastField>>
-----------------------------------------------------------------------------
(* The last pointer to a handler may be dropped by anyone, who then destroys it. *)

\* The handlers that Handlers keeps alive: while the worker drops pointers, those it
\* has still to drop and those that are left.
KeptAlive ==
  IF worker.kind \in {"drop", "join"} THEN Set(worker.todo) \cup Set(worker.left)
  ELSE Set(handlers)

LoggerHolds(h) == h \in KeptAlive \cup Carried

\* The application drops its pointers to h.
Release(t, h) ==
  /\ Calls(t, "release")
  /\ h \in held
  /\ held' = held \ {h}
  /\ IF LoggerHolds(h)
     THEN UNCHANGED <<sink, stopper, destroying, waits>>
     ELSE /\ sink' = [sink EXCEPT ![h] = StartDestruction(@, t, This(t))]
          /\ stopper' = [stopper EXCEPT ![h] = t]
          /\ destroying' = [destroying EXCEPT ![t] = {h}]
          /\ Blocks(t, "release")
  /\ UNCHANGED <<executor, loggerVars, dangling, adder, answer, phase, given, dropped,
                 lastField, creatorSet>>

Destroyed(t) ==
  /\ destroying[t] # {}
  /\ \A h \in destroying[t] : Gone(sink[h])
  /\ destroying' = [destroying EXCEPT ![t] = {}]
  /\ Blocks(t, "no")
  /\ UNCHANGED <<executor, loggerVars, sink, pointerVars, adder, calls, answer, phase,
                 historyVars>>
-----------------------------------------------------------------------------
(* The worker.  Simple items run in one step; a message visits the handlers one  *)
(* by one, and so does a handler's destruction, which waits for its thread.       *)

Works(kind, t) ==
  /\ worker.kind = "idle"
  /\ t \in Available(executor)
  /\ NextWork(executor, t).kind = kind
  /\ executor' = TakeWork(executor, t)

WorkOf(t) == NextWork(executor, t)

Visits(kind, call, todo) ==
  worker' = [kind |-> kind, call |-> call, todo |-> todo]

\* The worker drops its pointers to the handlers in `todo`, after which Handlers is
\* `left`.
Drops(kind, call, todo, left) ==
  worker' = [kind |-> kind, call |-> call, todo |-> todo, left |-> left]

\* Defect: the promise is kept alive and never set, the semaphore never notified.
NeverAnswers(call, value) == UNCHANGED answer

Answers(call, value) == answer' = [answer EXCEPT ![call] = value]

outsideVars == <<pointerVars, adder, calls, waits, destroying, phase>>

\* The constructor's work.
RunIdentify(t) ==
  /\ Works("identify", t)
  /\ baseMsg' = [baseMsg EXCEPT !.identified = TRUE]
  /\ UNCHANGED <<worker, flushing, handlers, minSeverity, sink, answer, historyVars,
                 outsideVars>>

RunAddField(t) ==
  /\ Works("addField", t)
  /\ baseMsg' = [baseMsg EXCEPT !.field = WorkOf(t).call]
  /\ UNCHANGED <<worker, flushing, handlers, minSeverity, sink, answer, historyVars,
                 outsideVars>>

\* Defect: off by one.
RunSetNextSeverity(t) ==
  /\ Works("setMinSeverity", t)
  /\ minSeverity' = WorkOf(t).arg + 1
  /\ Answers(WorkOf(t).call, "done")
  /\ UNCHANGED <<worker, flushing, handlers, baseMsg, sink, historyVars, outsideVars>>

\* The promise of setMinSeverity() is never set: destroying the work breaks it,
\* which makes its future ready.
RunSetMinSeverity(t) ==
  /\ Works("setMinSeverity", t)
  /\ minSeverity' = WorkOf(t).arg
  /\ Answers(WorkOf(t).call, "done")
  /\ UNCHANGED <<worker, flushing, handlers, baseMsg, sink, historyVars, outsideVars>>

RunAdd(t) ==
  /\ Works("add", t)
  /\ handlers' = Append(handlers, WorkOf(t).arg)
  /\ Answers(WorkOf(t).call, "done")
  /\ UNCHANGED <<worker, flushing, minSeverity, baseMsg, sink, historyVars,
                 outsideVars>>

\* Handlers.clear() destroys the pointers in place, in the vector's order; only then
\* does the vector end.
RunRemoveAll(t) ==
  /\ Works("removeAllHandlers", t)
  /\ Drops("drop", WorkOf(t).call, handlers, << >>)
  /\ UNCHANGED <<flushing, handlers, minSeverity, baseMsg, sink, answer, historyVars,
                 outsideVars>>

\* Defect: the pointers that the application holds do not count.
OthersInLogger(h) == h \in Carried \cup Set(Tail(worker.todo)) \cup Set(worker.left)

\* The worker drops its pointer to a handler that others point to, or it destroys
\* the handler and waits for its thread.
Others(h) == h \in held \cup Carried \cup Set(Tail(worker.todo)) \cup Set(worker.left)

DropPointer ==
  /\ worker.kind = "drop" /\ worker.todo # << >>
  /\ LET h == Head(worker.todo) IN
     IF Others(h)
     THEN /\ Drops("drop", worker.call, Tail(worker.todo), worker.left)
          /\ UNCHANGED <<sink, stopper>>
     ELSE /\ sink' = [sink EXCEPT ![h] = StartDestruction(@, WorkerThread, worker.call)]
          /\ stopper' = [stopper EXCEPT ![h] = WorkerThread]
          /\ Drops("join", worker.call, worker.todo, worker.left)
  /\ UNCHANGED <<executor, flushing, handlers, minSeverity, baseMsg, answer, given,
                 dropped, lastField, creatorSet, outsideVars>>

Joined ==
  /\ worker.kind = "join"
  /\ Gone(sink[Head(worker.todo)])
  /\ Drops("drop", worker.call, Tail(worker.todo), worker.left)
  /\ UNCHANGED <<executor, flushing, handlers, minSeverity, baseMsg, sink, answer,
                 historyVars, outsideVars>>

AllDropped ==
  /\ worker.kind = "drop" /\ worker.todo = << >>
  /\ handlers' = worker.left
  /\ dropped' = dropped \cup (Set(handlers) \ Set(worker.left))
  /\ worker' = NoWorkItem
  /\ Answers(worker.call, "done")
  /\ UNCHANGED <<executor, flushing, minSeverity, baseMsg, sink, given, stopper,
                 lastField, creatorSet, outsideVars>>

\* Defect: only the first handler gets the message.
RunLogFirst(t) ==
  /\ Works("log", t)
  /\ worker' = [kind |-> "log", call |-> WorkOf(t).call,
                todo |-> SelectSeq(handlers, LAMBDA h : h = Head(handlers)),
                own |-> WorkOf(t).arg]
  /\ UNCHANGED <<flushing, handlers, minSeverity, baseMsg, sink, answer, historyVars,
                 outsideVars>>

RunLog(t) ==
  /\ Works("log", t)
  /\ worker' = [kind |-> "log", call |-> WorkOf(t).call, todo |-> handlers,
                own |-> WorkOf(t).arg]
  /\ UNCHANGED <<flushing, handlers, minSeverity, baseMsg, sink, answer, historyVars,
                 outsideVars>>

\* Only the worker changes BaseMsg and Handlers: both are as RunLog found them.
HandOver ==
  /\ worker.kind = "log" /\ worker.todo # << >>
  /\ LET h   == Head(worker.todo)
         msg == [call |-> worker.call, identified |-> baseMsg.identified,
                 field |-> baseMsg.field, own |-> worker.own]
     IN /\ sink' = [sink EXCEPT ![h] = AddMessage(@, WorkerThread, msg)]
        /\ given' = [given EXCEPT ![h] = Append(@, msg)]
  /\ worker' = [worker EXCEPT !.todo = Tail(@)]
  /\ UNCHANGED <<executor, flushing, handlers, minSeverity, baseMsg, answer, stopper,
                 dropped, lastField, creatorSet, outsideVars>>

LogDone ==
  /\ worker.kind = "log" /\ worker.todo = << >>
  /\ worker' = NoWorkItem
  /\ UNCHANGED <<executor, flushing, handlers, minSeverity, baseMsg, sink, answer,
                 historyVars, outsideVars>>

\* flush(): one std::async thread for each handler, all of which are awaited.
RunFlush(t) ==
  /\ Works("flush", t)
  /\ Visits("flush", WorkOf(t).call, handlers)
  /\ flushing' = [h \in Set(handlers) |-> "started"]
  /\ UNCHANGED <<handlers, minSeverity, baseMsg, sink, answer, historyVars, outsideVars>>

FlushHandler(h) ==
  /\ worker.kind = "flush" /\ h \in DOMAIN flushing
  /\ flushing[h] = "started"
  /\ sink' = [sink EXCEPT ![h] = StartFlush(@, worker.call, worker.call)]
  /\ flushing' = [flushing EXCEPT ![h] = "waiting"]
  /\ UNCHANGED <<executor, worker, handlers, minSeverity, baseMsg, answer, historyVars,
                 outsideVars>>

\* The promise is fulfilled, or the time is up.
Judged(h, verdict) ==
  /\ worker.kind = "flush" /\ h \in DOMAIN flushing
  /\ flushing[h] = "waiting"
  /\ (worker.call \in sink[h].reached) = (verdict = "TRUE")
  /\ flushing' = [flushing EXCEPT ![h] = verdict]
  /\ UNCHANGED <<executor, worker, handlers, minSeverity, baseMsg, sink, answer,
                 historyVars, outsideVars>>

\* Defect: ReturnValue is never reset.
AlwaysTrue == "TRUE"

Verdict == IF \A h \in DOMAIN flushing : flushing[h] = "TRUE" THEN "TRUE" ELSE "FALSE"

FlushDone ==
  /\ worker.kind = "flush"
  /\ \A h \in DOMAIN flushing : flushing[h] \in {"TRUE", "FALSE"}
  /\ Answers(worker.call, Verdict)
  /\ worker' = NoWorkItem
  /\ flushing' = << >>
  /\ UNCHANGED <<executor, handlers, minSeverity, baseMsg, sink, historyVars, outsideVars>>

RunStop(t) ==
  /\ worker.kind = "idle" /\ t \in Available(executor)
  /\ WorkOf(t).kind = "stop"
  /\ executor' = Stop(TakeWork(executor, t))
  /\ UNCHANGED <<loggerVars, sink, answer, historyVars, outsideVars>>

Worker ==
  \/ \E t \in Thread :
       \/ RunIdentify(t) \/ RunAddField(t) \/ RunSetMinSeverity(t) \/ RunAdd(t)
       \/ RunRemoveAll(t) \/ RunLog(t) \/ RunFlush(t) \/ RunStop(t)
  \/ DropPointer \/ Joined \/ AllDropped \/ HandOver \/ LogDone \/ FlushDone

Async == \E h \in Handler :
  FlushHandler(h) \/ \E verdict \in {"TRUE", "FALSE"} : Judged(h, verdict)

\* A handler's thread.
HandlerThread(h) ==
  /\ \E p \in Available(sink[h].exec) : sink' = [sink EXCEPT ![h] = RunWork(@, p)]
  /\ UNCHANGED <<executor, loggerVars, callVars, pointerVars, adder, destroying, phase,
                 historyVars>>
-----------------------------------------------------------------------------
(* ~LoggingBase() by thread t: removeAllHandlers(), then ~ThreadedExecutor().     *)
(* Nobody else is inside a call then.                                            *)

DestroyLogger(t) ==
  /\ \A other \in Thread : waits[other] = "no"
  /\ Calls(t, "destroy")
  /\ phase' = "removing"
  /\ Sends(t, "removeAllHandlers", 0)
  /\ Blocks(t, "destroy")
  /\ UNCHANGED <<loggerVars, sink, pointerVars, adder, answer, destroying, historyVars>>

\* Defect: neither the semaphore nor the executor's queue is waited for.
StopExecutorAtOnce(t) ==
  /\ phase = "removing" /\ waits[t] = "destroy"
  /\ phase' = "stopping"
  /\ executor' = Stop(executor)
  /\ UNCHANGED <<loggerVars, sink, pointerVars, adder, callVars, destroying, historyVars>>

StopExecutor(t) ==
  /\ phase = "removing" /\ waits[t] = "destroy"
  /\ answer[<<t, calls[t]>>] = "done"
  /\ phase' = "stopping"
  /\ executor' = SendWork(executor, t, Item("stop", <<t, calls[t]>>, 0))
  /\ UNCHANGED <<loggerVars, sink, pointerVars, adder, callVars, destroying, historyVars>>

\* What is left in the queue is destroyed with it, and Handlers is: work that was
\* still queued may have held a handler or added one since the removal.
JoinExecutor(t) ==
  /\ phase = "stopping" /\ waits[t] = "destroy"
  /\ ~executor.running
  /\ LET orphans == (Carried \cup Set(handlers)) \ held IN
     /\ phase' = "dead"
     /\ executor' = DropWork(executor)
     /\ handlers' = << >>
     /\ sink' = [h \in Handler |-> IF h \in orphans
                   THEN StartDestruction(sink[h], t, <<t, calls[t]>>) ELSE sink[h]]
     /\ stopper' = [h \in Handler |-> IF h \in orphans THEN t ELSE stopper[h]]
     /\ destroying' = [destroying EXCEPT ![t] = orphans]
     /\ Blocks(t, IF orphans = {} THEN "no" ELSE "destroy")
  /\ UNCHANGED <<worker, flushing, minSeverity, baseMsg, pointerVars, adder, calls,
                 answer, given, dropped, lastField, creatorSet>>

Application(t) ==
  \/ \E level \in Level : Log(t, level) \/ SetMinSeverity(t, level)
  \/ AddField(t) \/ RemoveAllHandlers(t) \/ Flush(t) \/ GetHandlers(t) \/ Return(t)
  \/ \E h \in Handler : SetCreator(t, h) \/ Release(t, h)
  \/ Destroyed(t) \/ DestroyLogger(t) \/ StopExecutor(t) \/ JoinExecutor(t)
-----------------------------------------------------------------------------
\* A logger whose constructor has sent the work `sent` and whose application has
\* pointers to the handlers `owned`.
Constructed(sent, owned) ==
  /\ executor = [NewExecutor(Thread) EXCEPT !.work[Main] = sent]
  /\ worker = NoWorkItem
  /\ flushing = << >>
  /\ handlers = << >>
  /\ minSeverity = Notice
  /\ baseMsg = [identified |-> FALSE, field |-> NoCall]
  /\ sink = [h \in Handler |-> NewHandler(Producer, IF h \in Graylog THEN Capacity ELSE 0)]
  /\ held = owned
  /\ dangling = {}
  /\ adder = [h \in Handler |-> IF h \in owned THEN NoCall ELSE <<Main, 0>>]
  /\ calls = [t \in Thread |-> 0]
  /\ waits = [t \in Thread |-> "no"]
  /\ destroying = [t \in Thread |-> {}]
  /\ answer = [c \in Call |-> "none"]
  /\ phase = "alive"
  /\ given = [h \in Handler |-> << >>]
  /\ stopper = [h \in Handler |-> Nobody]
  /\ dropped = {}
  /\ lastField = [t \in Thread |-> 0]
  /\ creatorSet = [h \in Handler |-> NoCall]

\* LoggingBase(): Main sends the work that finds out host and process.
Identify == Item("identify", <<Main, 0>>, 0)
Init == Constructed(<<Identify>>, Handler)

Next ==
  \/ \E t \in Thread : Application(t) \/ \E h \in Handler : AddLogHandler(t, h)
  \/ Worker \/ Async
  \/ \E h \in Handler : HandlerThread(h)

Spec == Init /\ [][Next]_vars

\* Threads are scheduled and a time-out passes; nobody has to make another call, and
\* a GraylogInterface may never reach its server.
OtherFairness ==
  /\ \A h \in Handler \ Graylog : WF_vars(HandlerThread(h))
  /\ \A h \in Handler :
       /\ WF_vars(FlushHandler(h))
       /\ WF_vars(Judged(h, "TRUE") \/ Judged(h, "FALSE"))
  /\ \A t \in Thread :
       WF_vars(Return(t) \/ Destroyed(t) \/ StopExecutor(t) \/ JoinExecutor(t))

FairSpec == Spec /\ WF_vars(Worker) /\ OtherFairness
-----------------------------------------------------------------------------
(* Properties *)

TypeOK ==
  /\ DOMAIN executor.work = Thread /\ executor.running \in BOOLEAN
  /\ \A t \in Thread : \A i \in DOMAIN executor.work[t] :
       executor.work[t][i].call \in Call
  /\ worker.kind \in {"idle", "log", "drop", "join", "flush"}
  /\ worker.call \in Call \cup {NoCall} /\ Set(worker.todo) \subseteq Handler
  /\ worker.kind \in {"drop", "join"} => Set(worker.left) \subseteq Handler
  /\ DOMAIN flushing \subseteq Handler
  /\ Set(handlers) \subseteq Handler
  /\ minSeverity \in Level \cup {Notice}
  /\ baseMsg \in [identified : BOOLEAN, field : Call \cup {NoCall}]
  /\ \A h \in Handler : /\ sink[h].creator \in {"default", "custom"}
                         /\ sink[h].reached \subseteq Call
                         /\ Set(given[h]) \subseteq LogMessage
  /\ held \subseteq Handler /\ dangling \subseteq Handler /\ dropped \subseteq Handler
  /\ adder \in [Handler -> Call \cup {NoCall}]
  /\ \A t \in Thread : calls[t] \in 0..MaxCall[t]
  /\ answer \in [Call -> {"none", "done", "TRUE", "FALSE"}]
  /\ phase \in {"alive", "removing", "stopping", "dead"}
  /\ stopper \in [Handler -> Producer \cup {Nobody}]

\* A handler writes what the worker handed to it, in that order and once; only a
\* GraylogInterface leaves some out.  Each thread's messages are in the order of its
\* calls.
HandledInOrder == \A h \in Handler :
  LET Place(i) == CHOOSE k \in DOMAIN given[h] : given[h][k] = sink[h].out[i].msg IN
  /\ \A i \in DOMAIN sink[h].out : sink[h].out[i].msg \in Set(given[h])
  /\ \A i, j \in DOMAIN sink[h].out : i < j => Place(i) < Place(j)
  /\ h \notin Graylog => \A i \in DOMAIN sink[h].out : Place(i) = i
  /\ \A i, j \in DOMAIN given[h] : i < j /\ given[h][i].call[1] = given[h][j].call[1]
       => given[h][i].call[2] < given[h][j].call[2]

\* A handler gets none of the messages its thread logged before it added the
\* handler, and all that any handler gets of those it logged since.
AddedGetsTheRest == \A h \in Handler : adder[h] # NoCall =>
  /\ \A msg \in Set(given[h]) :
       msg.call[1] = adder[h][1] => msg.call[2] > adder[h][2]
  /\ h \in Set(handlers) => \A k \in Handler : \A msg \in Set(given[k]) :
       msg.call[1] = adder[h][1] /\ msg.call[2] > adder[h][2] /\ msg.call # worker.call
         => msg \in Set(given[h])

\* A handler that the worker destroys has written everything it was handed, unless it
\* is a GraylogInterface, which drops what it has not sent.
DrainedByWorker == \A h \in Handler \ Graylog :
  Gone(sink[h]) /\ stopper[h] = WorkerThread => Len(sink[h].out) = Len(given[h])

\* A pointer keeps its handler alive: what the application owns, queued work carries,
\* a flush uses or the worker has still to visit is not being destroyed.  Handlers
\* shows handlers that are only while the worker clears it, and a copy of Handlers has
\* such a one only if it was made then or while a console was replaced: an
\* application that does neither can look at its handlers at any time.
OwnedIsAlive ==
  LET clearing == worker.kind \in {"drop", "join"} /\ worker.left = << >>
      visits   == Set(IF worker.kind = "join" THEN Tail(worker.todo) ELSE worker.todo)
  IN /\ \A h \in Handler : stopper[h] # Nobody =>
          /\ h \notin held \cup Carried \cup DOMAIN flushing \cup visits
          /\ h \in Set(handlers) => clearing
     /\ dangling \subseteq dropped \cup (IF clearing THEN Set(handlers) ELSE {})

\* A message carries the latest field of its own thread, or one that another
\* thread set since, never an older one of its own.  Host and process are known to
\* the messages of the thread that constructed the logger; nothing orders the
\* constructor's work before another thread's messages (LoggingBase.cpp:98).
FieldsInOrder == \A h \in Handler : \A i \in DOMAIN given[h] :
  LET msg == given[h][i] IN
  /\ IF msg.field = NoCall THEN msg.own = 0
     ELSE msg.field[1] = msg.call[1] => msg.field[2] = msg.own
  /\ msg.call[1] = Main => msg.identified

\* The effect of a call that blocks is there when it returns.
Blocking == {"add", "removeAllHandlers", "setMinSeverity", "flush"}
EffectBeforeReturn == \A t \in Thread : waits[t] = "no" =>
  /\ \A i \in DOMAIN executor.work[t] : executor.work[t][i].kind \notin Blocking
  /\ worker.call[1] = t => worker.kind \notin {"drop", "join", "flush"}

\* flush() is TRUE only if every handler has reached it (or refused it, see
\* FlushTrueMeansReached of GraylogConnection).
FlushAsksEveryHandler ==
  [][\A c \in Call : answer'[c] = "TRUE" /\ answer[c] = "none"
       => \A h \in Set(handlers) : c \in sink[h].reached]_vars

\* The thread that destroys the logger loses none of its own messages.
DestroyerLosesNothing ==
  phase = "stopping" /\ ~executor.running =>
    \A t \in Thread : waits[t] = "destroy" => executor.work[t] = << >>

\* Every call returns.
CallsReturn == \A t \in Thread : waits[t] # "no" ~> waits[t] = "no"

\* A handler's formatter applies to what its thread logs afterwards.
CreatorApplied == \A h \in Handler \ Graylog : \A i \in DOMAIN sink[h].out :
  LET c == sink[h].out[i].msg.call IN
  c[1] = creatorSet[h][1] /\ creatorSet[h][2] \in 1..(c[2] - 1)
    => sink[h].out[i].creator = "custom"

\* Messages logged before a flush() that said TRUE are written (Log.hpp:154).
FlushMeansWritten == \A h \in Handler : \A c \in Call : answer[c] = "TRUE" =>
  \A i \in DOMAIN given[h] :
    given[h][i].call[1] = c[1] /\ given[h][i].call[2] < c[2] => i <= sink[h].flushed
=============================================================================
