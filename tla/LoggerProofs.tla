----------------------------- MODULE LoggerProofs -----------------------------
(* Theorems about Logger.  Its steps are steps of LoggingHandlerProofs as long   *)
(* as Handlers has one console; what is proved there of the handlers holds here. *)
EXTENDS Logger, LoggingHandlerProofs, FiniteSetTheorems

USE DEF pointerVars

-----------------------------------------------------------------------------
(* Replacing the console                                                        *)

IsConsole(list, i) == i \in DOMAIN list /\ list[i] \in Console

OneListed(list) == \A i, j \in DOMAIN list :
  list[i] \in Console /\ list[j] \in Console => i = j

\* What Consoles() finds: nothing, or the one console.
LEMMA NoConsole ==
  ASSUME NEW list, \A i : ~IsConsole(list, i)
  PROVE  Consoles(list) = << >>
<1> DEFINE places == {i \in DOMAIN list : list[i] \in Console}
           Ordered(s) == \A i, j \in DOMAIN s : i < j => s[i] < s[j]
           place == CHOOSE s \in [1..Cardinality(places) -> places] : Ordered(s)
<1>1. places = {} /\ Cardinality(places) = 0
  BY FS_EmptySet DEF IsConsole
<1>2. 1..Cardinality(places) = {}
  BY <1>1
<1>3. \E s \in [1..Cardinality(places) -> places] : Ordered(s)
  <2>1. [i \in {} |-> i] \in [1..Cardinality(places) -> places] /\ Ordered([i \in {} |-> i])
    BY <1>2
  <2> QED BY <2>1
<1>4. place \in [1..Cardinality(places) -> places]
  BY <1>3
<1>5. DOMAIN place = {}
  BY <1>2, <1>4
<1>6. Consoles(list) = [i \in DOMAIN place |-> list[place[i]]]
  BY DEF Consoles
<1> HIDE DEF place, places
<1>7. [i \in {} |-> list[place[i]]] = << >>
  OBVIOUS
<1> QED BY <1>5, <1>6, <1>7

LEMMA TheConsole ==
  ASSUME NEW list, NEW i, IsConsole(list, i), \A j : IsConsole(list, j) => j = i
  PROVE  Consoles(list) = <<list[i]>>
<1> DEFINE places == {j \in DOMAIN list : list[j] \in Console}
           Ordered(s) == \A j, k \in DOMAIN s : j < k => s[j] < s[k]
           place == CHOOSE s \in [1..Cardinality(places) -> places] : Ordered(s)
<1>1. places = {i}
  BY DEF IsConsole
<1>2. Cardinality(places) = 1
  BY <1>1, FS_Singleton
<1>3. 1..Cardinality(places) = {1}
  BY <1>2
<1>4. \E s \in [1..Cardinality(places) -> places] : Ordered(s)
  <2>1. [j \in {1} |-> i] \in [1..Cardinality(places) -> places]
    BY <1>1, <1>3
  <2>2. Ordered([j \in {1} |-> i])
    OBVIOUS
  <2> QED BY <2>1, <2>2
<1>5. place \in [1..Cardinality(places) -> places]
  BY <1>4
<1>6. DOMAIN place = {1} /\ place[1] = i
  BY <1>1, <1>3, <1>5
<1>7. Consoles(list) = [j \in DOMAIN place |-> list[place[j]]]
  BY DEF Consoles
<1> HIDE DEF place, places
<1>8. [j \in {1} |-> list[place[j]]] = <<list[i]>>
  BY <1>6
<1> QED BY <1>6, <1>7, <1>8

\* With at most one console RunReplace adds its handler or puts it in the place of
\* another; a console leaves no other in Handlers.
LEMMA Replaces ==
  ASSUME TypeInv, OneListed(handlers), NEW t \in Thread, RunReplace(t)
  PROVE  ReplaceStep(t)
<1> DEFINE h == WorkOf(t).arg
<1>1. /\ Works("replace", t)
      /\ handlers' = Replaced(handlers, h)
      /\ Drops("drop", WorkOf(t).call, IF h \in Console THEN Consoles(handlers) ELSE << >>,
               handlers')
      /\ dropped' = IF h \in Console THEN dropped \cup Set(Consoles(handlers)) ELSE dropped
      /\ UNCHANGED <<flushing, minSeverity, baseMsg, sink, answer, given, stopper,
                     lastField, creatorSet, outsideVars>>
  BY DEF RunReplace
<1> HIDE DEF h
<1>2. CASE h \notin Console
  <2>1. handlers' = Append(handlers, h)
    BY <1>1, <1>2 DEF Replaced
  <2> QED BY <1>1, <1>2, <2>1 DEF ReplaceStep, h
<1>3. CASE h \in Console /\ \A i : ~IsConsole(handlers, i)
  <2>1. Set(handlers) \cap Console = {}
    BY <1>3 DEF IsConsole, Set
  <2>2. handlers' = Append(handlers, h)
    BY <1>1, <2>1 DEF Replaced
  <2>3. Consoles(handlers) = << >> /\ Set(<< >>) = {}
    BY <1>3, NoConsole, NoItems
  <2>4. dropped' = dropped
    BY <1>1, <2>3
  <2>5. Drops("drop", WorkOf(t).call, << >>, handlers')
    BY <1>1, <1>3, <2>3
  <2> QED BY <1>1, <2>2, <2>4, <2>5 DEF ReplaceStep, h
<1>4. ASSUME NEW i, h \in Console, IsConsole(handlers, i) PROVE ReplaceStep(t)
  <2>1. \A j : IsConsole(handlers, j) => j = i
    BY <1>4 DEF IsConsole, OneListed
  <2>2. i \in DOMAIN handlers /\ Set(handlers) \cap Console # {}
    BY <1>4 DEF IsConsole, Set
  <2>3. handlers' = [j \in DOMAIN handlers |-> IF handlers[j] \in Console THEN h ELSE handlers[j]]
    BY <1>1, <1>4, <2>2 DEF Replaced
  <2>4. \A j \in DOMAIN handlers : handlers[j] \in Console <=> j = i
    BY <1>4, <2>1 DEF IsConsole
  <2>5. handlers' = [handlers EXCEPT ![i] = h]
    <3>1. handlers = [j \in DOMAIN handlers |-> handlers[j]]
      BY DEF TypeInv
    <3> QED BY <2>3, <2>4, <3>1
  <2>6. Consoles(handlers) = <<handlers[i]>> /\ Set(<<handlers[i]>>) = {handlers[i]}
    BY <1>4, <2>1, TheConsole DEF Set
  <2>7. dropped' = dropped \cup {handlers[i]}
    BY <1>1, <1>4, <2>6
  <2>8. Drops("drop", WorkOf(t).call, <<handlers[i]>>, handlers')
    BY <1>1, <1>4, <2>6
  <2> QED BY <1>1, <2>2, <2>5, <2>7, <2>8 DEF ReplaceStep, h
<1> QED BY <1>2, <1>3, <1>4

LEMMA ConsoleReplaced ==
  ASSUME TypeInv, OneListed(handlers), NEW t \in Thread, RunReplace(t)
  PROVE  /\ OneListed(handlers')
         /\ WorkOf(t).arg \in Console =>
              \A k \in Set(handlers') : k \in Console => k = WorkOf(t).arg
<1> DEFINE h == WorkOf(t).arg
<1>1. handlers' = Replaced(handlers, h) /\ handlers \in Seq(Handler)
  BY DEF RunReplace, TypeInv
<1>2. h \in Handler
  BY Replaces, TakenType DEF ReplaceStep, WorkItem
<1> HIDE DEF h
<1>3. CASE h \in Console /\ Set(handlers) \cap Console # {}
  <2>1. handlers' = [j \in DOMAIN handlers |-> IF handlers[j] \in Console THEN h ELSE handlers[j]]
    BY <1>1, <1>3 DEF Replaced
  <2> QED BY <2>1 DEF OneListed, Set, h
<1>4. CASE ~(h \in Console /\ Set(handlers) \cap Console # {})
  <2>1. handlers' = Append(handlers, h)
    BY <1>1, <1>4 DEF Replaced
  <2>2. /\ DOMAIN handlers' = 1..(Len(handlers) + 1) /\ DOMAIN handlers = 1..Len(handlers)
        /\ Len(handlers) \in Nat /\ handlers'[Len(handlers) + 1] = h
        /\ \A i \in 1..Len(handlers) : handlers'[i] = handlers[i]
    BY <1>1, <1>2, <2>1, LongerItems
  <2>3. \A i \in DOMAIN handlers' : i \in DOMAIN handlers \/ i = Len(handlers) + 1
    BY <2>2
  <2>4. h \in Console => \A i \in DOMAIN handlers : handlers[i] \notin Console
    BY <1>4 DEF Set
  <2>5. OneListed(handlers')
    BY <2>2, <2>3, <2>4 DEF OneListed
  <2>6. h \in Console => \A k \in Set(handlers') : k \in Console => k = h
    BY <2>2, <2>3, <2>4 DEF Set
  <2> QED BY <2>5, <2>6 DEF h
<1> QED BY <1>3, <1>4

-----------------------------------------------------------------------------
(* Steps of Logger                                                              *)

\* Logger sends no work of LoggingBase's addLogHandler().
NoAdd == \A t \in Thread : \A i \in DOMAIN Work(t) : Work(t)[i].kind # "add"

LEMMA LoggerSteps == TypeInv /\ OneListed(handlers) /\ LoggerNext => Step
BY Replaces DEF LoggerNext, Step, AddLogHandlerAsync, AddHandler

LEMMA LoggerStarts ==
  LoggerInit => Starts(<<Identify, Item("replace", <<Main, 0>>, Default)>>, Handler \ {Default})
BY ConsoleAssumption DEF LoggerInit, Starts

\* The item that is sent, if it is no addition of LoggingBase's.
LEMMA OtherItemSent ==
  ASSUME TypeInv, NoAdd, NEW t \in Thread, NEW kind, NEW c, NEW arg,
         executor' = SendWork(executor, t, Item(kind, c, arg)), kind # "add"
  PROVE  NoAdd'
<1> DEFINE item == Item(kind, c, arg)
<1>1. item.kind # "add"
  BY DEF Item
<1> HIDE DEF item
<1>2. /\ \A u \in Thread \ {t} : Work(u)' = Work(u)
      /\ Work(t)' = Append(Work(t), item)
  BY DEF SendWork, Enqueue, TypeInv, Work, item
<1>3. Work(t) \in Seq(WorkItem) /\ DOMAIN Work(t) = 1..Len(Work(t)) /\ Len(Work(t)) \in Nat
  BY WorkItems
<1>4. /\ DOMAIN Append(Work(t), item) = 1..(Len(Work(t)) + 1)
      /\ \A i \in 1..Len(Work(t)) : Append(Work(t), item)[i] = Work(t)[i]
      /\ Append(Work(t), item)[Len(Work(t)) + 1] = item
  <2>1. Work(t) \in Seq(WorkItem \cup {item})
    BY <1>3
  <2> QED BY <2>1, LongerItems
<1> QED BY <1>1, <1>2, <1>3, <1>4 DEF NoAdd

LEMMA NoAddStep ==
  ASSUME TypeInv, EndOK, OneListed(handlers), NoAdd, LoggerNext
  PROVE  NoAdd'
<1>1. ASSUME executor' = executor PROVE NoAdd'
  BY <1>1 DEF NoAdd, Work
<1>2. ASSUME NEW t \in Thread, NEW level \in Level, Log(t, level) \/ SetMinSeverity(t, level)
      PROVE  NoAdd'
  BY <1>1, <1>2, OtherItemSent DEF Log, SetMinSeverity, BlockingCall, Sends
<1>3. ASSUME NEW t \in Thread, AddField(t) \/ RemoveAllHandlers(t) \/ Flush(t) \/ DestroyLogger(t)
      PROVE  NoAdd'
  BY <1>3, OtherItemSent DEF AddField, RemoveAllHandlers, Flush, DestroyLogger, BlockingCall, Sends
<1>4. ASSUME NEW t \in Thread, NEW h \in Handler, AddLogHandlerAsync(t, h) PROVE NoAdd'
  BY <1>4, OtherItemSent DEF AddLogHandlerAsync, Adds, Sends
<1>5. ASSUME NEW t \in Thread, StopExecutor(t) PROVE NoAdd'
  BY <1>5, OtherItemSent DEF StopExecutor
<1>6. ASSUME NEW t \in Thread, JoinExecutor(t) PROVE NoAdd'
  BY <1>6, WorkDropped DEF NoAdd
<1>7. ASSUME NEW t \in Thread, TakeStep(t) PROVE NoAdd'
  BY <1>7, WorkLeft DEF NoAdd
<1>8. ASSUME NEW t \in Thread,
             \/ GetHandlers(t) \/ Return(t) \/ Destroyed(t)
             \/ \E h \in Handler : SetCreator(t, h) \/ Release(t, h)
      PROVE  NoAdd'
  BY <1>1, <1>8 DEF GetHandlers, Return, Destroyed, SetCreator, Release
<1>9. CASE DropPointer \/ Joined \/ AllDropped \/ HandOver \/ LogDone \/ FlushDone
  BY <1>1, <1>9 DEF DropPointer, Joined, AllDropped, HandOver, LogDone, FlushDone
<1>10. CASE Async \/ \E h \in Handler : HandlerThread(h)
  BY <1>1, <1>10, AsideSteps DEF AsideStep
<1>11. ASSUME NEW t \in Thread, Application(t) PROVE NoAdd'
  BY <1>2, <1>3, <1>5, <1>6, <1>8, <1>11 DEF Application
<1>12. CASE Worker
  BY <1>7, <1>9, <1>12, TakeSteps DEF Worker
<1>13. ASSUME NEW t \in Thread, RunReplace(t) PROVE NoAdd'
  BY <1>7, <1>13, TakeSteps, Replaces
<1> QED BY <1>4, <1>10, <1>11, <1>12, <1>13 DEF LoggerNext

\* How a step changes Handlers.
LEMMA ListChange ==
  ASSUME TypeInv, LifeOK, NoAdd, LoggerNext
  PROVE  \/ handlers' = handlers \/ handlers' = << >>
         \/ \E t \in Thread : RunReplace(t)
<1>1. ASSUME NEW t \in Thread, RunAdd(t) PROVE FALSE
  <2>1. t \in Available(executor) /\ WorkOf(t).kind = "add"
    BY <1>1 DEF RunAdd, Works, WorkOf
  <2>2. WorkOf(t) = Work(t)[1] /\ 1 \in DOMAIN Work(t)
    BY <2>1, WorkTaken
  <2> QED BY <2>1, <2>2 DEF NoAdd
<1>2. ASSUME NEW t \in Thread,
             \/ RunIdentify(t) \/ RunAddField(t) \/ RunSetMinSeverity(t)
             \/ RunRemoveAll(t) \/ RunLog(t) \/ RunFlush(t) \/ RunStop(t)
      PROVE  handlers' = handlers \/ handlers' = << >>
  BY <1>2 DEF RunIdentify, RunAddField, RunSetMinSeverity, RunRemoveAll, RunLog, RunFlush,
              RunStop, loggerVars
<1>3. CASE DropPointer \/ Joined \/ AllDropped \/ HandOver \/ LogDone \/ FlushDone
  BY <1>3, HandlersLeft DEF DropPointer, Joined, HandOver, LogDone, FlushDone
<1>4. CASE Async \/ \E h \in Handler : HandlerThread(h)
  BY <1>4, AsideSteps DEF AsideStep
<1>5. ASSUME NEW t \in Thread, Application(t) PROVE handlers' = handlers \/ handlers' = << >>
  BY <1>5 DEF Application, Log, SetMinSeverity, AddField, RemoveAllHandlers, Flush, GetHandlers,
              Return, SetCreator, Release, Destroyed, DestroyLogger, StopExecutor, JoinExecutor,
              BlockingCall, loggerVars
<1>6. ASSUME NEW t \in Thread, NEW h \in Handler, AddLogHandlerAsync(t, h)
      PROVE  handlers' = handlers
  BY <1>6 DEF AddLogHandlerAsync, Adds, loggerVars
<1> QED BY <1>1, <1>2, <1>3, <1>4, <1>5, <1>6 DEF LoggerNext, Worker

-----------------------------------------------------------------------------
(* One console                                                                  *)

\* While the worker hands a message over, a console that has got it is in Handlers.
ShownNow == \A k \in Console : \A msg \in Set(given[k]) : IsCurrent(msg) => k \in Set(handlers)

ConsolesOK == OneConsole /\ ShownNow

LEMMA OneListedMeans == OneConsole => OneListed(handlers)
BY DEF OneConsole, OneListed

LEMMA GivenChange ==
  ASSUME TypeInv, Step, ~HandOver
  PROVE  given' = given
<1>1. ASSUME NEW t \in Thread, QuietCall(t) \/ Return(t) \/ Destroyed(t) \/ StopExecutor(t)
                               \/ JoinExecutor(t) \/ TakeStep(t)
      PROVE  given' = given
  BY <1>1 DEF QuietCall, Return, Destroyed, StopExecutor, JoinExecutor, TakeStep, historyVars
<1>2. ASSUME NEW t \in Thread, NEW item \in WorkItem, SendStep(t, item) PROVE given' = given
  BY <1>2 DEF SendStep
<1>3. CASE DropPointer \/ Joined \/ AllDropped \/ LogDone \/ FlushDone
  BY <1>3 DEF DropPointer, Joined, AllDropped, LogDone, FlushDone, historyVars
<1>4. CASE Async \/ \E h \in Handler : HandlerThread(h)
  BY <1>4, AsideSteps DEF AsideStep
<1> QED BY <1>1, <1>2, <1>3, <1>4, Cases, QuietSteps DEF SilentCall

\* What the worker hands over next.
LEMMA NowChange ==
  ASSUME TypeInv, EndOK, Step, worker'.kind = "log"
  PROVE  \/ worker.kind = "log" /\ worker'.call = worker.call /\ handlers' = handlers
         \/ \E t \in Thread : /\ TakeStep(t) /\ WorkOf(t).kind = "log"
                              /\ worker'.call = WorkOf(t).call
<1>1. ASSUME NEW t \in Thread, QuietCall(t) \/ Return(t) \/ Destroyed(t) \/ StopExecutor(t)
      PROVE  worker' = worker /\ handlers' = handlers
  BY <1>1 DEF QuietCall, Return, Destroyed, StopExecutor, loggerVars
<1>2. ASSUME NEW t \in Thread, NEW item \in WorkItem, SendStep(t, item)
      PROVE  worker' = worker /\ handlers' = handlers
  BY <1>2 DEF SendStep
<1>3. ASSUME NEW t \in Thread, JoinExecutor(t) PROVE FALSE
  BY <1>3 DEF JoinExecutor, EndOK, WorkerStopped
<1>4. ASSUME NEW t \in Thread, TakeStep(t)
      PROVE  WorkOf(t).kind = "log" /\ worker'.call = WorkOf(t).call
  BY <1>4, HandlersTaken
<1>5. CASE DropPointer \/ Joined \/ AllDropped \/ LogDone \/ FlushDone
  BY <1>5 DEF DropPointer, Joined, AllDropped, LogDone, FlushDone, Drops, NoWorkItem
<1>6. CASE HandOver
  <2>1. worker.kind = "log" /\ worker' = [worker EXCEPT !.todo = Tail(@)] /\ handlers' = handlers
    BY <1>6 DEF HandOver
  <2> QED BY <2>1, WorkerTypes
<1>7. CASE Async \/ \E h \in Handler : HandlerThread(h)
  BY <1>7, AsideSteps DEF AsideStep
<1> QED BY <1>1, <1>2, <1>3, <1>4, <1>5, <1>6, <1>7, Cases, QuietSteps DEF SilentCall

LEMMA ConsolesStep ==
  ASSUME HandlersOK, NoAdd, ConsolesOK, LoggerNext
  PROVE  ConsolesOK'
<1>1. OneListed(handlers) /\ Step /\ TypeInv /\ EndOK /\ LifeOK /\ GivenOK
  BY LoggerSteps, OneListedMeans DEF HandlersOK, ConsolesOK
<1>2. OneListed(handlers')
  <2>1. CASE handlers' = handlers
    BY <1>1, <2>1
  <2>2. CASE handlers' = << >>
    BY <2>2, NoItems DEF OneListed
  <2> QED BY <1>1, <2>1, <2>2, ListChange, ConsoleReplaced
<1>3. CASE HandOver
  <2>1. PICK h0 \in Handler, msg0 \in LogMessage :
          /\ worker.kind = "log" /\ msg0.call = worker.call /\ handlers' = handlers
          /\ worker'.kind = "log" /\ worker'.call = worker.call
          /\ h0 \in Set(handlers) /\ Set(given'[h0]) = Set(given[h0]) \cup {msg0}
          /\ \A k \in Handler \ {h0} : given'[k] = given[k]
    <3> DEFINE h == Head(worker.todo)
               msg == [call |-> worker.call, identified |-> baseMsg.identified,
                       field |-> baseMsg.field, own |-> worker.own]
    <3>1. /\ h \in Handler /\ msg \in LogMessage /\ worker.kind = "log"
          /\ worker.todo \in Seq(Handler) /\ worker.todo # << >>
          /\ worker'.kind = "log" /\ worker'.call = worker.call
          /\ given'[h] = Append(given[h], msg)
          /\ \A k \in Handler \ {h} : given'[k] = given[k]
          /\ handlers' = handlers
      BY <1>1, <1>3, HandOverResult
    <3>2. h \in Set(handlers)
      <4>1. h \in Set(worker.todo)
        BY <3>1, Items DEF Set
      <4> QED BY <1>1, <3>1, <4>1 DEF LifeOK, VisitsHandlers
    <3>3. msg.call = worker.call
      OBVIOUS
    <3> HIDE DEF h, msg
    <3>4. Set(given'[h]) = Set(given[h]) \cup {msg}
      <4>1. given[h] \in Seq(LogMessage)
        BY <1>1, <3>1, GivenItems
      <4> QED BY <3>1, <4>1, LongerItems DEF Set
    <3> QED BY <3>1, <3>2, <3>3, <3>4
  <2>2. ShownNow'
    BY <2>1, ConsoleAssumption DEF ConsolesOK, ShownNow, IsCurrent
  <2>3. \A k \in Console : k # h0 /\ h0 \in Console => \A msg \in Set(given[k]) : msg.call # worker.call
    BY <2>1, <1>1 DEF ConsolesOK, ShownNow, IsCurrent, OneListed, Set
  <2>4. ASSUME NEW h \in Console, NEW k \in Console, h # k
        PROVE  {msg.call : msg \in Set(given'[h])} \cap {msg.call : msg \in Set(given'[k])} = {}
    <3>1. {msg.call : msg \in Set(given[h])} \cap {msg.call : msg \in Set(given[k])} = {}
      BY <2>4 DEF ConsolesOK, OneConsole
    <3>2. CASE h = h0
      BY <2>1, <2>3, <2>4, <3>1, <3>2, ConsoleAssumption
    <3>3. CASE k = h0
      BY <2>1, <2>3, <2>4, <3>1, <3>3, ConsoleAssumption
    <3>4. CASE h # h0 /\ k # h0
      BY <2>1, <3>1, <3>4, ConsoleAssumption
    <3> QED BY <3>2, <3>3, <3>4
  <2> QED BY <1>2, <2>2, <2>4 DEF ConsolesOK, OneConsole, OneListed
<1>4. CASE ~HandOver
  <2>1. given' = given
    BY <1>1, <1>4, GivenChange
  <2>2. ASSUME NEW k \in Console, NEW msg \in Set(given[k]), worker'.kind = "log",
               msg.call = worker'.call
        PROVE  k \in Set(handlers')
    <3>1. CASE worker.kind = "log" /\ worker'.call = worker.call /\ handlers' = handlers
      BY <2>2, <3>1 DEF ConsolesOK, ShownNow, IsCurrent
    <3>2. ASSUME NEW t \in Thread, TakeStep(t), WorkOf(t).kind = "log", worker'.call = WorkOf(t).call
          PROVE  FALSE
      <4>1. k \in Handler
        BY ConsoleAssumption
      <4>2. IsEarlier(msg.call, k) /\ msg.call[2] \in Nat
        BY <1>1, <4>1, GivenItems DEF GivenOK, GivenBefore, Set
      <4>3. /\ 1 \in DOMAIN Work(t) /\ WorkOf(t) = Work(t)[1] /\ Work(t)[1].call[1] = t
        BY <1>1, <3>2, WorkLeft DEF HandlersOK, QueueOK, CallsQueued
      <4>4. msg.call[2] < Work(t)[1].call[2] /\ msg.call = Work(t)[1].call
        BY <2>2, <3>2, <4>2, <4>3 DEF IsEarlier
      <4> QED BY <4>2, <4>4
    <3> QED BY <1>1, <2>2, <3>1, <3>2, NowChange
  <2>3. ShownNow'
    BY <2>1, <2>2 DEF ShownNow, IsCurrent
  <2> QED BY <1>2, <2>1, <2>3 DEF ConsolesOK, OneConsole, OneListed
<1> QED BY <1>3, <1>4

-----------------------------------------------------------------------------
(* The console of the constructor                                               *)

\* A console that the constructing thread adds is still in its queue, or the default
\* one is out of reach of the messages to come.
DefaultFirst == adder[Default] = <<Main, 0>>

ToReplace(h) == \E i \in DOMAIN Work(Main) :
  Work(Main)[i].kind = "replace" /\ Work(Main)[i].arg = h

DefaultGone == Default \notin Set(handlers) \cup Carried

MainAdds(h) == adder[h] # NoCall /\ adder[h][1] = Main

ReplacesDefault == \A h \in Console \ {Default} : MainAdds(h) => ToReplace(h) \/ DefaultGone

DefaultOK == DefaultFirst /\ ReplacesDefault /\ NoStaleConsole

LEMMA DefaultHandler == Default \in Handler /\ Default \in Console /\ Main \in Thread
                        /\ <<Main, 0>> \in Call /\ <<Main, 0>> # NoCall
<1>1. Main \in Thread /\ <<Main, 0>> \in Call
  BY CallMade, LoggerAssumption
<1> QED BY <1>1, ConsoleAssumption, NoCallIsNone

\* A step after which the queue of Main holds what it held, and no more is within reach.
LEMMA DefaultKept ==
  ASSUME DefaultOK, UNCHANGED <<adder, given>>,
         \A i \in DOMAIN Work(Main) : Work(Main)[i].kind = "replace" =>
           \E j \in DOMAIN Work(Main)' : Work(Main)'[j] = Work(Main)[i],
         Set(handlers') \cup Carried' \subseteq Set(handlers) \cup Carried
  PROVE  DefaultOK'
<1>1. \A h : ToReplace(h) => ToReplace(h)'
  BY DEF ToReplace
<1>2. DefaultGone => DefaultGone'
  BY DEF DefaultGone
<1> QED BY <1>1, <1>2 DEF DefaultOK, DefaultFirst, ReplacesDefault, MainAdds, NoStaleConsole

LEMMA DefaultSent ==
  ASSUME HandlersOK, DefaultOK, NEW t \in Thread, NEW item \in WorkItem, SendStep(t, item),
         item.kind # "add"
  PROVE  DefaultOK'
<1>1. TypeInv /\ OnceOK /\ GivenOK
  BY DEF HandlersOK
<1>2. /\ \A u \in Thread \ {t} : Work(u)' = Work(u)
      /\ DOMAIN Work(t)' = 1..(Len(Work(t)) + 1) /\ DOMAIN Work(t) = 1..Len(Work(t))
      /\ Len(Work(t)) \in Nat
      /\ \A i \in 1..Len(Work(t)) : Work(t)'[i] = Work(t)[i]
      /\ Work(t)'[Len(Work(t)) + 1] = item
  BY <1>1, WorkSent, WorkItems DEF SendStep
<1>3. UNCHANGED <<given, handlers>>
  BY DEF SendStep
<1>4. \A h : ToReplace(h) => ToReplace(h)'
  <2>1. \A i \in DOMAIN Work(Main) : i \in DOMAIN Work(Main)' /\ Work(Main)'[i] = Work(Main)[i]
    <3>1. CASE Main = t
      BY <3>1, <1>2
    <3>2. CASE Main # t
      BY <3>2, <1>2, DefaultHandler
    <3> QED BY <3>1, <3>2
  <2> QED BY <2>1 DEF ToReplace
<1>5. \A h \in Carried' : h \in Carried \/ (item.kind \in Adding /\ h = item.arg)
  BY <1>1, CarriedSent
<1>6. adder[Default] # NoCall
  BY DefaultHandler DEF DefaultOK, DefaultFirst
<1>7. item.kind \in Adding => item.arg # Default /\ item.arg \in Handler
  BY <1>6 DEF SendStep, WorkItem, Adding
<1>8. DefaultGone => DefaultGone'
  <2>1. Default \in Carried' => Default \in Carried
    BY <1>5, <1>7
  <2> QED BY <1>3, <2>1 DEF DefaultGone
<1>9. DefaultFirst'
  BY <1>1, <1>7, DefaultHandler DEF SendStep, DefaultOK, DefaultFirst, TypeInv
<1>10. ASSUME NEW h \in Console \ {Default}, adder'[h] # adder[h]
       PROVE  /\ item.kind = "replace" /\ item.arg = h /\ adder'[h] = <<t, calls[t] + 1>>
              /\ adder[h] = NoCall
  <2>1. h \in Handler
    BY ConsoleAssumption
  <2> QED BY <1>1, <1>10, <2>1 DEF SendStep, This, Adding, TypeInv
<1>11. ReplacesDefault'
  <2> SUFFICES ASSUME NEW h \in Console \ {Default}, MainAdds(h)'
               PROVE  ToReplace(h)' \/ DefaultGone'
    BY DEF ReplacesDefault
  <2>1. CASE adder'[h] = adder[h]
    <3>1. MainAdds(h)
      BY <2>1 DEF MainAdds
    <3> QED BY <3>1, <1>4, <1>8 DEF DefaultOK, ReplacesDefault
  <2>2. CASE adder'[h] # adder[h]
    <3>1. t = Main /\ item.kind = "replace" /\ item.arg = h
      BY <2>2, <1>10 DEF MainAdds
    <3>2. Len(Work(t)) + 1 \in DOMAIN Work(t)'
      BY <1>2
    <3> QED BY <3>1, <3>2, <1>2 DEF ToReplace
  <2> QED BY <2>1, <2>2
<1>12. NoStaleConsole'
  <2> SUFFICES ASSUME NEW h \in Console \ {Default}, NEW msg \in Set(given[Default]),
                      adder'[h][1] = Main, msg.call[1] = Main
               PROVE  adder'[h] = NoCall \/ msg.call[2] < adder'[h][2]
    BY <1>3 DEF NoStaleConsole
  <2>1. CASE adder'[h] = adder[h]
    BY <2>1 DEF DefaultOK, NoStaleConsole
  <2>2. CASE adder'[h] # adder[h]
    <3>1. adder'[h][2] = calls[Main] + 1 /\ calls[Main] \in Nat
      BY <2>2, <1>1, <1>10, DefaultHandler DEF TypeInv
    <3>2. msg.call[2] <= calls[Main] /\ msg.call[2] \in Nat
      BY <1>1, DefaultHandler, GivenItems DEF GivenOK, GivenBefore, IsEarlier, Set
    <3> QED BY <3>1, <3>2
  <2> QED BY <2>1, <2>2
<1> QED BY <1>9, <1>11, <1>12 DEF DefaultOK

LEMMA DefaultTaken ==
  ASSUME HandlersOK, ConsolesOK, DefaultOK, NEW t \in Thread, TakeStep(t),
         WorkOf(t).kind = "replace" => RunReplace(t)
  PROVE  DefaultOK'
<1>1. TypeInv /\ QueueOK /\ OnceOK /\ OneListed(handlers)
  BY OneListedMeans DEF HandlersOK, ConsolesOK
<1>2. UNCHANGED <<adder, given>>
  BY DEF TakeStep
<1>3. /\ \A u \in Thread \ {t} : Work(u)' = Work(u)
      /\ DOMAIN Work(t)' = 1..(Len(Work(t)) - 1) /\ DOMAIN Work(t) = 1..Len(Work(t))
      /\ Len(Work(t)) \in Nat /\ 1 \in DOMAIN Work(t) /\ WorkOf(t) = Work(t)[1]
      /\ \A i \in 1..(Len(Work(t)) - 1) : Work(t)'[i] = Work(t)[i + 1]
      /\ WorkOf(t).call \in Call
  BY <1>1, WorkLeft
<1>4. DefaultGone => DefaultGone'
  BY <1>1, HandlersTaken, CarriedTaken DEF DefaultGone
<1>5. ASSUME NEW h \in Console \ {Default}, ToReplace(h)
      PROVE  ToReplace(h)' \/ (t = Main /\ WorkOf(t).kind = "replace" /\ WorkOf(t).arg = h)
  <2>1. PICK i \in DOMAIN Work(Main) : Work(Main)[i].kind = "replace" /\ Work(Main)[i].arg = h
    BY <1>5 DEF ToReplace
  <2>2. CASE t # Main
    BY <2>1, <2>2, <1>3, DefaultHandler DEF ToReplace
  <2>3. CASE t = Main /\ i = 1
    BY <2>1, <2>3, <1>3
  <2>4. CASE t = Main /\ i # 1
    <3>1. i - 1 \in DOMAIN Work(t)' /\ Work(t)'[i - 1] = Work(t)[i]
      BY <2>4, <1>3
    <3> QED BY <3>1, <2>1, <2>4 DEF ToReplace
  <2> QED BY <2>2, <2>3, <2>4
<1>6. ASSUME NEW h \in Console \ {Default}, t = Main, WorkOf(t).kind = "replace",
             WorkOf(t).arg = h
      PROVE  DefaultGone'
  <2>1. Default \notin Set(handlers')
    BY <1>1, <1>6, ConsoleReplaced, DefaultHandler
  <2>2. ASSUME NEW u \in Thread, NEW i \in DOMAIN Work(u)', Work(u)'[i].kind \in Adding,
               Work(u)'[i].arg = Default
        PROVE  FALSE
    <3>1. PICK j \in DOMAIN Work(u) :
            Work(u)'[i] = Work(u)[j] /\ (u = t => j = i + 1) /\ (u # t => j = i)
      BY <1>1, WorkLeft
    <3>2. Work(u)[j].call = <<Main, 0>> /\ Work(u)[j].call[1] = u
      BY <1>1, <2>2, <3>1 DEF OnceOK, AddingOnce, DefaultOK, DefaultFirst, QueueOK, CallsQueued
    <3>3. u = t /\ 1 < j /\ Work(t)[1].kind = "replace"
      BY <1>3, <1>6, <2>2, <3>1, <3>2
    <3>4. Work(t)[1].call[2] < Work(t)[j].call[2]
      BY <1>1, <1>3, <3>1, <3>3 DEF QueueOK, CallsInOrder
    <3>5. Work(t)[1].call[2] \in Nat
      BY <1>3, CallParts
    <3> QED BY <3>2, <3>3, <3>4, <3>5
  <2>3. Default \notin Carried'
    BY <2>2 DEF Carried, Work, Adding
  <2> QED BY <2>1, <2>3 DEF DefaultGone
<1>7. ReplacesDefault'
  <2> SUFFICES ASSUME NEW h \in Console \ {Default}, MainAdds(h)
               PROVE  ToReplace(h)' \/ DefaultGone'
    BY <1>2 DEF ReplacesDefault, MainAdds
  <2> QED BY <1>4, <1>5, <1>6 DEF DefaultOK, ReplacesDefault
<1> QED BY <1>2, <1>7 DEF DefaultOK, DefaultFirst, NoStaleConsole

LEMMA DefaultHanded ==
  ASSUME HandlersOK, DefaultOK, HandOver
  PROVE  DefaultOK'
<1>1. TypeInv /\ QueueOK /\ OnceOK /\ LifeOK
  BY DEF HandlersOK
<1> DEFINE h0 == Head(worker.todo)
           msg0 == [call |-> worker.call, identified |-> baseMsg.identified,
                    field |-> baseMsg.field, own |-> worker.own]
<1>2. /\ h0 \in Handler /\ msg0 \in LogMessage /\ worker.kind = "log" /\ msg0.call = worker.call
      /\ worker.todo \in Seq(Handler) /\ worker.todo # << >>
      /\ given'[h0] = Append(given[h0], msg0)
      /\ \A k \in Handler \ {h0} : given'[k] = given[k]
      /\ UNCHANGED <<executor, handlers, adder>>
  BY <1>1, HandOverResult
<1>3. h0 \in Set(handlers)
  <2>1. h0 \in Set(worker.todo)
    BY <1>2, Items DEF Set
  <2> QED BY <1>1, <1>2, <2>1 DEF LifeOK, VisitsHandlers
<1> HIDE DEF h0, msg0
<1>4. Set(given'[h0]) = Set(given[h0]) \cup {msg0}
  <2>1. given[h0] \in Seq(LogMessage)
    BY <1>1, <1>2, GivenItems
  <2>2. /\ DOMAIN given'[h0] = 1..(Len(given[h0]) + 1) /\ Len(given[h0]) \in Nat
        /\ DOMAIN given[h0] = 1..Len(given[h0]) /\ given'[h0][Len(given[h0]) + 1] = msg0
        /\ \A i \in 1..Len(given[h0]) : given'[h0][i] = given[h0][i]
    BY <1>2, <2>1, LongerItems
  <2> QED BY <2>2 DEF Set
<1>5. \A msg \in Set(given'[Default]) :
        msg \in Set(given[Default]) \/ (msg.call = worker.call /\ ~DefaultGone)
  BY <1>2, <1>3, <1>4, DefaultHandler DEF DefaultGone
<1>6. DefaultFirst' /\ ReplacesDefault'
  <2>1. Carried' = Carried /\ \A h : ToReplace(h)' <=> ToReplace(h)
    BY <1>2 DEF Carried, ToReplace, Work
  <2> QED BY <1>2, <2>1 DEF DefaultOK, DefaultFirst, ReplacesDefault, MainAdds, DefaultGone
<1>7. ASSUME NEW h \in Console \ {Default}, NEW msg \in Set(given'[Default]),
             adder[h][1] = Main, msg.call[1] = Main, adder[h] # NoCall
      PROVE  msg.call[2] < adder[h][2]
  <2>1. CASE msg \in Set(given[Default])
    BY <2>1, <1>7 DEF DefaultOK, NoStaleConsole
  <2>2. CASE msg.call = worker.call /\ ~DefaultGone
    <3>1. PICK i \in DOMAIN Work(Main) : Work(Main)[i].kind = "replace" /\ Work(Main)[i].arg = h
      BY <2>2, <1>7 DEF DefaultOK, ReplacesDefault, MainAdds, ToReplace
    <3>2. adder[h] = Work(Main)[i].call
      BY <1>1, <3>1, DefaultHandler DEF OnceOK, AddingOnce, Adding
    <3>3. worker.call[2] < Work(Main)[i].call[2]
      BY <1>1, <1>2, <1>7, <2>2, DefaultHandler DEF QueueOK, WorkerFirst, Runs
    <3> QED BY <2>2, <3>2, <3>3
  <2> QED BY <1>5, <2>1, <2>2
<1> QED BY <1>2, <1>6, <1>7 DEF DefaultOK, NoStaleConsole

\* Logger's steps, in the classes of LoggingBaseProofs.
LEMMA LoggerTakes ==
  ASSUME TypeInv, OneListed(handlers), LoggerNext
  PROVE  \/ \E t \in Thread :
              \/ Application(t) \/ \E h \in Handler : AddHandler(t, h)
              \/ TakeStep(t) /\ (WorkOf(t).kind = "replace" => RunReplace(t))
         \/ DropPointer \/ Joined \/ AllDropped \/ HandOver \/ LogDone \/ FlushDone
         \/ AsideStep
<1>1. ASSUME NEW t \in Thread, RunReplace(t) PROVE TakeStep(t)
  BY <1>1, Replaces, TakeSteps
<1>2. ASSUME NEW t \in Thread,
             \/ RunIdentify(t) \/ RunAddField(t) \/ RunSetMinSeverity(t) \/ RunAdd(t)
             \/ RunRemoveAll(t) \/ RunLog(t) \/ RunFlush(t) \/ RunStop(t)
      PROVE  TakeStep(t) /\ WorkOf(t).kind # "replace"
  <2>1. TakeStep(t)
    BY <1>2, TakeSteps
  <2>2. \A kind : Works(kind, t) => WorkOf(t).kind = kind
    BY DEF Works, WorkOf
  <2> QED BY <1>2, <2>1, <2>2 DEF RunIdentify, RunAddField, RunSetMinSeverity, RunAdd,
                                RunRemoveAll, RunLog, RunFlush, RunStop
<1>3. CASE Async \/ \E h \in Handler : HandlerThread(h)
  BY <1>3, AsideSteps
<1> QED BY <1>1, <1>2, <1>3 DEF LoggerNext, Worker, AddLogHandlerAsync, AddHandler

LEMMA DefaultStep ==
  ASSUME HandlersOK, NoAdd, NoAdd', ConsolesOK, DefaultOK, LoggerNext
  PROVE  DefaultOK'
<1>1. TypeInv /\ EndOK /\ LifeOK /\ OneListed(handlers)
  BY OneListedMeans DEF HandlersOK, ConsolesOK
<1>2. ASSUME UNCHANGED <<executor, adder, given>>, Set(handlers') \subseteq Set(handlers)
      PROVE  DefaultOK'
  <2>1. Carried' = Carried /\ Work(Main)' = Work(Main)
    BY <1>2, CarriedKept DEF Work
  <2> QED BY <1>2, <2>1, DefaultKept
<1>3. ASSUME NEW t \in Thread, NEW item \in WorkItem, SendStep(t, item) PROVE DefaultOK'
  <2>1. Work(t)'[Len(Work(t)) + 1] = item /\ Len(Work(t)) + 1 \in DOMAIN Work(t)'
    BY <1>1, <1>3, WorkSent, WorkItems DEF SendStep
  <2>2. item.kind # "add"
    BY <2>1 DEF NoAdd
  <2> QED BY <1>3, <2>2, DefaultSent
<1>4. ASSUME NEW t \in Thread, QuietCall(t) \/ Return(t) \/ Destroyed(t) PROVE DefaultOK'
  BY <1>2, <1>4 DEF QuietCall, Return, Destroyed, loggerVars, historyVars
<1>5. ASSUME NEW t \in Thread, StopExecutor(t) PROVE DefaultOK'
  <2>1. /\ \A u \in Thread \ {t} : Work(u)' = Work(u)
        /\ Work(t) = << >> /\ Carried' = Carried
    BY <1>1, <1>5, StopSent
  <2>2. UNCHANGED <<handlers, adder, given>>
    BY <1>5 DEF StopExecutor, loggerVars, historyVars
  <2>3. \A i \in DOMAIN Work(Main) : i \in DOMAIN Work(Main)' /\ Work(Main)'[i] = Work(Main)[i]
    BY <2>1, NoItems, DefaultHandler
  <2> QED BY <2>1, <2>2, <2>3, DefaultKept
<1>6. ASSUME NEW t \in Thread, JoinExecutor(t) PROVE DefaultOK'
  <2>1. /\ handlers' = << >> /\ UNCHANGED <<adder, given>> /\ Carried' = {} /\ Set(<< >>) = {}
    BY <1>1, <1>6, WorkDropped, NoItems DEF JoinExecutor
  <2>2. DefaultGone'
    BY <2>1 DEF DefaultGone
  <2> QED BY <2>1, <2>2 DEF DefaultOK, DefaultFirst, ReplacesDefault, NoStaleConsole
<1>7. CASE DropPointer \/ Joined \/ AllDropped \/ LogDone \/ FlushDone
  <2>1. UNCHANGED <<executor, adder, given>>
    BY <1>7 DEF DropPointer, Joined, AllDropped, LogDone, FlushDone, historyVars, outsideVars
  <2>2. handlers' = handlers \/ AllDropped
    BY <1>7 DEF DropPointer, Joined, LogDone, FlushDone
  <2> QED BY <1>1, <1>2, <2>1, <2>2, HandlersLeft
<1>8. CASE HandOver
  BY <1>8, DefaultHanded
<1>9. CASE AsideStep
  BY <1>2, <1>9 DEF AsideStep
<1>10. ASSUME NEW t \in Thread, Application(t) \/ \E h \in Handler : AddHandler(t, h)
       PROVE  \/ \E item \in WorkItem : SendStep(t, item)
              \/ QuietCall(t) \/ Return(t) \/ Destroyed(t) \/ StopExecutor(t) \/ JoinExecutor(t)
  <2>1. CASE \/ \E level \in Level : Log(t, level) \/ SetMinSeverity(t, level)
             \/ AddField(t) \/ RemoveAllHandlers(t) \/ Flush(t) \/ DestroyLogger(t)
             \/ \E h \in Handler : AddHandler(t, h)
    BY <1>1, <2>1, SendSteps DEF SilentCall
  <2>2. CASE GetHandlers(t) \/ \E h \in Handler : SetCreator(t, h) \/ Release(t, h)
    BY <1>1, <2>2, QuietSteps
  <2> QED BY <1>10, <2>1, <2>2 DEF Application
<1> QED BY <1>1, <1>3, <1>4, <1>5, <1>6, <1>7, <1>8, <1>9, <1>10, LoggerTakes, DefaultTaken

-----------------------------------------------------------------------------
(* The inductive invariant, and theorems                                        *)

LoggerOK == HandlersOK /\ NoAdd /\ ConsolesOK /\ DefaultOK

LEMMA LoggerStart == LoggerInit => LoggerOK
<1> SUFFICES ASSUME LoggerInit PROVE LoggerOK
  OBVIOUS
<1> DEFINE sent == <<Identify, Item("replace", <<Main, 0>>, Default)>>
<1>1. Starts(sent, Handler \ {Default})
  BY LoggerStarts
<1>2. HandlersOK
  BY <1>1, HandlersStart
<1>3. /\ handlers = << >> /\ given = [h \in Handler |-> << >>]
      /\ adder = [h \in Handler |-> IF h \in Handler \ {Default} THEN NoCall ELSE <<Main, 0>>]
  BY <1>1 DEF Starts, Constructed
<1>4. Set(<< >>) = {} /\ DOMAIN << >> = {}
  BY NoItems
<1>5. ConsolesOK
  BY <1>3, <1>4, ConsoleAssumption DEF ConsolesOK, OneConsole, ShownNow
<1>6. DefaultOK
  BY <1>3, <1>4, DefaultHandler, ConsoleAssumption
     DEF DefaultOK, DefaultFirst, ReplacesDefault, MainAdds, NoStaleConsole
<1>7. NoAdd
  <2>1. Work(Main) = sent /\ \A t \in Thread \ {Main} : Work(t) = << >>
    BY <1>1, StartWork
  <2>2. \A i \in DOMAIN sent : sent[i].kind # "add"
    BY DEF Identify, Item
  <2> HIDE DEF sent
  <2> QED BY <2>1, <2>2, <1>4 DEF NoAdd
<1> QED BY <1>2, <1>5, <1>6, <1>7 DEF LoggerOK

LEMMA LoggerStep == LoggerOK /\ [LoggerNext]_vars => LoggerOK'
<1>1. ASSUME LoggerOK, LoggerNext PROVE LoggerOK'
  <2>1. TypeInv /\ EndOK /\ OneListed(handlers)
    BY <1>1, OneListedMeans DEF LoggerOK, HandlersOK, ConsolesOK
  <2>2. HandlersOK'
    BY <1>1, <2>1, LoggerSteps, HandlersStep DEF LoggerOK
  <2>3. NoAdd'
    BY <1>1, <2>1, NoAddStep DEF LoggerOK
  <2> QED BY <1>1, <2>2, <2>3, ConsolesStep, DefaultStep DEF LoggerOK
<1>2. ASSUME LoggerOK, UNCHANGED vars PROVE LoggerOK'
  <2>1. HandlersOK' /\ DefaultOK /\ NoAdd /\ ConsolesOK
    BY <1>2, HandlersStutter DEF LoggerOK
  <2>2. UNCHANGED <<executor, worker, handlers, adder, given>>
    BY <1>2 DEF vars, loggerVars, historyVars
  <2>3. NoAdd' /\ Work(Main)' = Work(Main) /\ Carried' = Carried
    BY <2>1, <2>2, CarriedKept DEF NoAdd, Work
  <2>4. DefaultOK'
    BY <2>1, <2>2, <2>3, DefaultKept
  <2>5. ConsolesOK'
    BY <2>1, <2>2 DEF ConsolesOK, OneConsole, ShownNow, IsCurrent
  <2> QED BY <2>1, <2>3, <2>4, <2>5 DEF LoggerOK
<1> QED BY <1>1, <1>2

LEMMA LoggerInvariant == LoggerSpec => []LoggerOK
BY LoggerStart, LoggerStep, PTL DEF LoggerSpec

\* A message is shown on one console only, and Handlers has no more than one,
\* whatever handlers are added by whatever thread.
THEOREM OneConsoleOnly == LoggerSpec => []OneConsole
<1>1. LoggerOK => OneConsole
  BY DEF LoggerOK, ConsolesOK
<1> QED BY <1>1, LoggerInvariant, PTL

\* The default console is given none of the messages that the constructing thread
\* logs after it has replaced that console.
THEOREM DefaultConsoleReplaced == LoggerSpec => []NoStaleConsole
<1>1. LoggerOK => NoStaleConsole
  BY DEF LoggerOK, DefaultOK
<1> QED BY <1>1, LoggerInvariant, PTL

\* What holds of LoggingBase's handlers holds of Logger's, whose addLogHandler() does
\* not wait and may replace a console: messages in order, from the addition on, all
\* of them written by a handler the worker destroys, and none left in the queue of
\* the destroying thread; what is owned is alive.
THEOREM LoggerHandlers ==
  LoggerSpec => [](/\ TypeOK /\ HandledInOrder /\ AddedGetsTheRest /\ DrainedByWorker
                   /\ OwnedIsAlive /\ DestroyerLosesNothing /\ FieldsInOrder)
<1>1. LoggerOK => /\ TypeOK /\ HandledInOrder /\ AddedGetsTheRest /\ DrainedByWorker
                  /\ OwnedIsAlive /\ DestroyerLosesNothing /\ FieldsInOrder
  BY TypeMeans, HandledMeans, AddedMeans, DrainedMeans, OwnedMeans, DestroyerMeans,
     FieldsMeans DEF LoggerOK, HandlersOK
<1> QED BY <1>1, LoggerInvariant, PTL
=============================================================================
