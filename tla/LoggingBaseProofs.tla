--------------------------- MODULE LoggingBaseProofs ---------------------------
(* Theorems about LoggingBase, for every value of its constants.                *)
EXTENDS LoggingBase, TLAPS, SequenceTheorems

USE DEF pointerVars

-----------------------------------------------------------------------------
(* Types *)

WorkItem ==
  [kind : {"identify", "addField", "removeAllHandlers", "flush", "stop"},
   call : Call, arg : {0}]
  \cup [kind : {"log"}, call : Call, arg : Nat]
  \cup [kind : {"add", "replace"}, call : Call, arg : Handler]
  \cup [kind : {"setMinSeverity"}, call : Call, arg : Level]

WorkerState ==
  {NoWorkItem}
  \cup [kind : {"flush"}, call : Call, todo : Seq(Handler)]
  \cup [kind : {"drop"}, call : Call, todo : Seq(Handler), left : Seq(Handler)]
  \cup [kind : {"join"}, call : Call, todo : Seq(Handler) \ {<< >>}, left : Seq(Handler)]
  \cup [kind : {"log"}, call : Call, todo : Seq(Handler), own : Nat]

SinkItem == [kind : {"message"}, msg : LogMessage]
            \cup [kind : {"creator", "flush", "stop"}, call : Call]

Wait == {"no", "addLogHandler", "removeAllHandlers", "setMinSeverity", "flush",
         "release", "destroy"}

Formatter == {"default", "custom"}

HandlerState ==
  [exec : [work : [Producer -> Seq(SinkItem)], running : BOOLEAN], capacity : Nat,
   creator : Formatter, out : Seq([msg : LogMessage, creator : Formatter]),
   flushed : Nat, reached : SUBSET Call]

TypeInv ==
  /\ executor \in [work : [Thread -> Seq(WorkItem)], running : BOOLEAN]
  /\ worker \in WorkerState
  /\ DOMAIN flushing \subseteq Handler
  /\ handlers \in Seq(Handler)
  /\ minSeverity \in Level \cup {Notice}
  /\ baseMsg \in [identified : BOOLEAN, field : Call \cup {NoCall}]
  /\ sink \in [Handler -> HandlerState]
  /\ held \subseteq Handler /\ dangling \subseteq Handler /\ dropped \subseteq Handler
  /\ adder \in [Handler -> Call \cup {NoCall}]
  /\ calls \in [Thread -> Nat] /\ \A t \in Thread : calls[t] <= MaxCall[t]
  /\ waits \in [Thread -> Wait]
  /\ destroying \in [Thread -> SUBSET Handler]
  /\ answer \in [Call -> {"none", "done", "TRUE", "FALSE"}]
  /\ phase \in {"alive", "removing", "stopping", "dead"}
  /\ given \in [Handler -> Seq(LogMessage)]
  /\ stopper \in [Handler -> Producer \cup {Nobody}]
  /\ lastField \in [Thread -> Nat]
  /\ creatorSet \in [Handler -> Call \cup {NoCall}]


Work(t) == executor.work[t]

\* The kinds of work that add a handler.  LoggingBase's and Logger's addLogHandler()
\* differ in that and in whether they wait.
Adding == {"add", "replace"}
AddHandler(t, h) == AddLogHandler(t, h) \/ (Adds(t, h, "replace") /\ UNCHANGED waits)

\* Logger's RunReplace: the new handler is added, or takes the place of another.
ReplaceStep(t) ==
  /\ Works("replace", t)
  /\ \/ /\ handlers' = Append(handlers, WorkOf(t).arg)
        /\ Drops("drop", WorkOf(t).call, << >>, handlers')
        /\ dropped' = dropped
     \/ \E i \in DOMAIN handlers :
          /\ handlers' = [handlers EXCEPT ![i] = WorkOf(t).arg]
          /\ Drops("drop", WorkOf(t).call, <<handlers[i]>>, handlers')
          /\ dropped' = dropped \cup {handlers[i]}
  /\ UNCHANGED <<flushing, minSeverity, baseMsg, sink, answer, given, stopper,
                 lastField, creatorSet, outsideVars>>

\* A step of either.
Step == \/ \E t \in Thread : \/ Application(t) \/ ReplaceStep(t)
                            \/ \E h \in Handler : AddHandler(t, h)
        \/ Worker \/ Async
        \/ \E h \in Handler : HandlerThread(h)

-----------------------------------------------------------------------------
(* Calls, and sequences                                                         *)

LEMMA CallParts == \A c \in Call : /\ c[1] \in Thread /\ c[2] \in 0..MaxCall[c[1]]
                                   /\ c = <<c[1], c[2]>> /\ c[2] \in Nat
BY LoggerAssumption DEF Call

LEMMA CallMade == ASSUME NEW t \in Thread, NEW n \in 0..MaxCall[t]
                  PROVE  <<t, n>> \in Call
BY DEF Call

LEMMA NoCallIsNone == NoCall \notin Call /\ NoCall[1] = Main /\ NoCall[2] = -1
BY CallParts DEF NoCall

LEMMA Items == ASSUME NEW S, NEW s \in Seq(S)
               PROVE  /\ Len(s) \in Nat /\ DOMAIN s = 1..Len(s)
                      /\ Set(s) \subseteq S /\ \A i \in DOMAIN s : s[i] \in S
                      /\ s # << >> => Len(s) > 0 /\ 1 \in DOMAIN s /\ Head(s) = s[1]
<1>1. Len(s) \in Nat /\ DOMAIN s = 1..Len(s) /\ s \in [1..Len(s) -> S]
  BY LenProperties
<1>2. s # << >> => Len(s) > 0
  BY EmptySeq
<1> QED BY <1>1, <1>2 DEF Set

LEMMA TailItems == ASSUME NEW S, NEW s \in Seq(S), s # << >>
                   PROVE  /\ Tail(s) \in Seq(S) /\ Len(Tail(s)) = Len(s) - 1
                          /\ DOMAIN Tail(s) = 1..(Len(s) - 1)
                          /\ \A i \in 1..(Len(s) - 1) : i + 1 \in DOMAIN s /\ Tail(s)[i] = s[i + 1]
                          /\ Head(s) = s[1] /\ Head(s) \in S
<1>1. /\ Head(s) \in S /\ Tail(s) \in Seq(S) /\ Len(Tail(s)) = Len(s) - 1
      /\ \A i \in 1..Len(Tail(s)) : Tail(s)[i] = s[i + 1]
  BY HeadTailProperties
<1>2. DOMAIN Tail(s) = 1..Len(Tail(s)) /\ Len(s) \in Nat /\ DOMAIN s = 1..Len(s)
  BY <1>1, LenProperties
<1>3. Head(s) = s[1]
  BY Items
<1> QED BY <1>1, <1>2, <1>3

LEMMA LongerItems == ASSUME NEW S, NEW s \in Seq(S), NEW e \in S
                     PROVE  /\ Append(s, e) \in Seq(S)
                            /\ Len(s) \in Nat /\ DOMAIN s = 1..Len(s)
                            /\ Len(Append(s, e)) = Len(s) + 1
                            /\ DOMAIN Append(s, e) = 1..(Len(s) + 1)
                            /\ \A i \in 1..Len(s) : Append(s, e)[i] = s[i]
                            /\ Append(s, e)[Len(s) + 1] = e
<1>1. /\ Append(s, e) \in Seq(S) /\ Len(Append(s, e)) = Len(s) + 1
      /\ \A i \in 1..Len(s) : Append(s, e)[i] = s[i]
      /\ Append(s, e)[Len(s) + 1] = e
  BY AppendProperties
<1> QED BY <1>1, LenProperties

LEMMA NoItems == /\ DOMAIN << >> = {} /\ Set(<< >>) = {} /\ \A S : << >> \in Seq(S)
                 /\ Len(<< >>) = 0
<1>1. \A S : << >> \in Seq(S) /\ Len(<< >>) = 0
  BY EmptySeq
<1>2. DOMAIN << >> = 1..0
  BY <1>1, LenProperties
<1> QED BY <1>1, <1>2 DEF Set

-----------------------------------------------------------------------------
(* What the operators of LogHandler make of a handler                           *)

LEMMA SendResult ==
  ASSUME NEW s \in HandlerState, NEW p \in Producer, NEW work \in SinkItem
  PROVE  /\ Send(s, p, work) \in HandlerState
         /\ \A q \in Producer \ {p} : Send(s, p, work).exec.work[q] = s.exec.work[q]
         /\ Send(s, p, work).exec.work[p] = Append(s.exec.work[p], work)
         /\ Send(s, p, work).exec.running = s.exec.running
         /\ Send(s, p, work).out = s.out /\ Send(s, p, work).capacity = s.capacity
         /\ Send(s, p, work).reached = s.reached
<1> DEFINE queues == [s.exec.work EXCEPT ![p] = Append(@, work)]
<1>1. s.exec.work \in [Producer -> Seq(SinkItem)] /\ s.exec.running \in BOOLEAN
  BY DEF HandlerState
<1>2. Append(s.exec.work[p], work) \in Seq(SinkItem)
  BY <1>1, LongerItems
<1>3. queues \in [Producer -> Seq(SinkItem)]
  BY <1>1, <1>2
<1>4. /\ \A q \in Producer \ {p} : queues[q] = s.exec.work[q]
      /\ queues[p] = Append(s.exec.work[p], work)
  BY <1>1
<1>5. Send(s, p, work) = [s EXCEPT !.exec = [s.exec EXCEPT !.work = queues]]
  BY DEF Send, SendWork, Enqueue
<1> HIDE DEF queues
<1>6. [s.exec EXCEPT !.work = queues] \in [work : [Producer -> Seq(SinkItem)], running : BOOLEAN]
  BY <1>3 DEF HandlerState
<1>7. [s.exec EXCEPT !.work = queues].work = queues /\ [s.exec EXCEPT !.work = queues].running = s.exec.running
  BY DEF HandlerState
<1> QED BY <1>4, <1>5, <1>6, <1>7 DEF HandlerState

LEMMA StopResult ==
  ASSUME NEW s \in HandlerState
  PROVE  LET n == [s EXCEPT !.exec = Stop(DropWork(@))] IN
         /\ n \in HandlerState
         /\ \A q \in Producer : n.exec.work[q] = << >>
         /\ ~n.exec.running
         /\ n.out = s.out /\ n.capacity = s.capacity /\ n.reached = s.reached
<1> DEFINE queues == NoWork(DOMAIN s.exec.work)
           exec   == Stop(DropWork(s.exec))
<1>1. queues \in [Producer -> Seq(SinkItem)] /\ \A q \in Producer : queues[q] = << >>
  BY NoItems DEF NoWork, HandlerState
<1>2. /\ exec \in [work : [Producer -> Seq(SinkItem)], running : BOOLEAN]
      /\ exec.work = queues /\ exec.running = FALSE
  BY <1>1 DEF Stop, DropWork, HandlerState
<1> HIDE DEF queues, exec
<1>3. [s EXCEPT !.exec = exec] \in HandlerState
  BY <1>2 DEF HandlerState
<1> QED BY <1>1, <1>2, <1>3 DEF exec, HandlerState


\* Adding a message, a formatter, a flush: an item at the end of a queue, if at all.
LEMMA AddMessageResult ==
  ASSUME NEW s \in HandlerState, NEW p \in Producer, NEW msg \in LogMessage
  PROVE  /\ AddMessage(s, p, msg) \in HandlerState
         /\ AddMessage(s, p, msg) = Send(s, p, [kind |-> "message", msg |-> msg])
            \/ (IsGraylog(s) /\ AddMessage(s, p, msg) = s)
BY SendResult DEF AddMessage, SinkItem, Refuses

LEMMA CreatorResult ==
  ASSUME NEW s \in HandlerState, NEW p \in Producer, NEW c \in Call
  PROVE  LET n == SetMessageStringCreatorFunction(s, p, c) IN
         /\ n \in HandlerState
         /\ n = s \/ n = Send(s, p, HandlerWork("creator", c))
BY SendResult DEF SetMessageStringCreatorFunction, HandlerWork, SinkItem

LEMMA StartFlushResult ==
  ASSUME NEW s \in HandlerState, NEW p \in Producer, NEW c \in Call
  PROVE  LET n == StartFlush(s, p, c) IN
         /\ n \in HandlerState
         /\ n = Send(s, p, HandlerWork("flush", c))
            \/ /\ n.exec = s.exec /\ n.out = s.out /\ n.capacity = s.capacity
               /\ s.reached \subseteq n.reached
<1>1. HandlerWork("flush", c) \in SinkItem
  BY DEF HandlerWork, SinkItem
<1> QED BY <1>1, SendResult DEF StartFlush, HandlerState

LEMMA DestructionResult ==
  ASSUME NEW s \in HandlerState, NEW p \in Producer, NEW c \in Call
  PROVE  LET n == StartDestruction(s, p, c) IN
         /\ n \in HandlerState
         /\ n.out = s.out /\ n.capacity = s.capacity /\ n.reached = s.reached
         /\ IF IsGraylog(s)
            THEN ~n.exec.running /\ \A q \in Producer : n.exec.work[q] = << >>
            ELSE n = Send(s, p, HandlerWork("stop", c))
<1>1. HandlerWork("stop", c) \in SinkItem
  BY DEF HandlerWork, SinkItem
<1> QED BY <1>1, SendResult, StopResult DEF StartDestruction

\* Running the oldest item of producer p.
LEMMA RunResult ==
  ASSUME NEW s \in HandlerState, NEW p \in Available(s.exec)
  PROVE  LET item == s.exec.work[p][1]
             n    == RunWork(s, p)
         IN
         /\ p \in Producer /\ s.exec.running
         /\ s.exec.work[p] \in Seq(SinkItem) /\ s.exec.work[p] # << >> /\ item \in SinkItem
         /\ n \in HandlerState
         /\ \A q \in Producer \ {p} : n.exec.work[q] = s.exec.work[q]
         /\ n.exec.work[p] = Tail(s.exec.work[p])
         /\ n.exec.running = (item.kind # "stop")
         /\ n.capacity = s.capacity /\ s.reached \subseteq n.reached
         /\ n.out = IF item.kind = "message"
                    THEN Append(s.out, [msg |-> item.msg, creator |-> s.creator])
                    ELSE s.out
<1> DEFINE item == s.exec.work[p][1]
           exec == TakeWork(s.exec, p)
           rest == [s EXCEPT !.exec = exec]
<1>1. /\ s.exec.work \in [Producer -> Seq(SinkItem)] /\ s.exec.running \in BOOLEAN
      /\ p \in Producer /\ s.exec.running /\ s.exec.work[p] # << >>
  BY DEF HandlerState, Available, Waiting
<1>2. /\ Tail(s.exec.work[p]) \in Seq(SinkItem) /\ NextWork(s.exec, p) = item
      /\ item \in SinkItem
  BY <1>1, TailItems DEF NextWork, Oldest
<1>3. [s.exec.work EXCEPT ![p] = Tail(@)] \in [Producer -> Seq(SinkItem)]
  BY <1>1, <1>2
<1>4. /\ exec \in [work : [Producer -> Seq(SinkItem)], running : BOOLEAN]
      /\ \A q \in Producer \ {p} : exec.work[q] = s.exec.work[q]
      /\ exec.work[p] = Tail(s.exec.work[p])
      /\ exec.running
  BY <1>1, <1>3 DEF TakeWork, Dequeue, HandlerState
<1> HIDE DEF exec
<1>5. /\ rest \in HandlerState /\ rest.exec = exec /\ rest.out = s.out
      /\ rest.capacity = s.capacity /\ rest.reached = s.reached /\ rest.creator = s.creator
      /\ rest.flushed = s.flushed
  BY <1>4 DEF HandlerState
<1>6. RunWork(s, p) = Done(rest, item)
  BY <1>2 DEF RunWork, exec
<1> HIDE DEF rest, item
<1>7. CASE item.kind = "message"
  <2>1. item.msg \in LogMessage
    BY <1>2, <1>7 DEF SinkItem
  <2>2. [msg |-> item.msg, creator |-> rest.creator] \in [msg : LogMessage, creator : Formatter]
    BY <2>1, <1>5 DEF HandlerState
  <2>3. rest.out \in Seq([msg : LogMessage, creator : Formatter])
    BY <1>5 DEF HandlerState
  <2>4. Append(rest.out, [msg |-> item.msg, creator |-> rest.creator])
          \in Seq([msg : LogMessage, creator : Formatter])
    BY <2>2, <2>3, LongerItems
  <2>5. RunWork(s, p) = [rest EXCEPT !.out =
            Append(rest.out, [msg |-> item.msg, creator |-> rest.creator])]
    BY <1>6, <1>7 DEF Done
  <2>6. RunWork(s, p) \in HandlerState
    BY <2>4, <2>5, <1>5 DEF HandlerState
  <2>7. /\ RunWork(s, p).exec = rest.exec /\ RunWork(s, p).capacity = rest.capacity
        /\ RunWork(s, p).reached = rest.reached
        /\ RunWork(s, p).out = Append(rest.out, [msg |-> item.msg, creator |-> rest.creator])
    BY <2>5, <1>5 DEF HandlerState
  <2> QED BY <2>6, <2>7, <1>1, <1>2, <1>4, <1>5, <1>7 DEF item
<1>8. CASE item.kind = "creator"
  <2>1. RunWork(s, p) = [rest EXCEPT !.creator = "custom"]
    BY <1>6, <1>8 DEF Done
  <2>2. /\ RunWork(s, p) \in HandlerState /\ RunWork(s, p).exec = rest.exec
        /\ RunWork(s, p).out = rest.out /\ RunWork(s, p).capacity = rest.capacity
        /\ RunWork(s, p).reached = rest.reached
    BY <2>1, <1>5 DEF HandlerState, Formatter
  <2> QED BY <2>2, <1>1, <1>2, <1>4, <1>5, <1>8 DEF item
<1>9. CASE item.kind = "flush"
  <2>1. item.call \in Call
    BY <1>2, <1>9 DEF SinkItem
  <2>2. Len(rest.out) \in Nat
    BY <1>5, Items DEF HandlerState
  <2>3. RunWork(s, p) = [rest EXCEPT !.flushed = Len(rest.out), !.reached = @ \cup {item.call}]
    BY <1>6, <1>9 DEF Done
  <2>4. rest.reached \cup {item.call} \in SUBSET Call
    BY <2>1, <1>5 DEF HandlerState
  <2>5. /\ RunWork(s, p) \in HandlerState /\ RunWork(s, p).exec = rest.exec
        /\ RunWork(s, p).out = rest.out /\ RunWork(s, p).capacity = rest.capacity
        /\ rest.reached \subseteq RunWork(s, p).reached
    BY <2>2, <2>3, <2>4, <1>5 DEF HandlerState
  <2> QED BY <2>5, <1>1, <1>2, <1>4, <1>5, <1>9 DEF item
<1>10. CASE item.kind = "stop"
  <2>1. RunWork(s, p) = [rest EXCEPT !.exec = Stop(exec)]
    BY <1>5, <1>6, <1>10 DEF Done
  <2>2. /\ Stop(exec) \in [work : [Producer -> Seq(SinkItem)], running : BOOLEAN]
        /\ Stop(exec).work = exec.work /\ Stop(exec).running = FALSE
    BY <1>4 DEF Stop
  <2>3. /\ RunWork(s, p) \in HandlerState /\ RunWork(s, p).exec = Stop(exec)
        /\ RunWork(s, p).out = rest.out /\ RunWork(s, p).capacity = rest.capacity
        /\ RunWork(s, p).reached = rest.reached
    BY <2>1, <2>2, <1>5 DEF HandlerState
  <2> QED BY <2>2, <2>3, <1>1, <1>2, <1>4, <1>5, <1>10 DEF item
<1>11. item.kind \in {"message", "creator", "flush", "stop"}
  BY <1>2 DEF SinkItem
<1> QED BY <1>7, <1>8, <1>9, <1>10, <1>11 DEF item

-----------------------------------------------------------------------------
(* The executor's queue                                                         *)

LEMMA WorkItems ==
  ASSUME TypeInv, NEW t \in Thread
  PROVE  /\ Work(t) \in Seq(WorkItem) /\ Len(Work(t)) \in Nat
         /\ DOMAIN Work(t) = 1..Len(Work(t))
         /\ \A i \in DOMAIN Work(t) : Work(t)[i] \in WorkItem /\ Work(t)[i].call \in Call
<1>1. Work(t) \in Seq(WorkItem)
  BY DEF TypeInv, Work
<1> QED BY <1>1, Items DEF WorkItem

LEMMA WorkSent ==
  ASSUME TypeInv, NEW t \in Thread, NEW item \in WorkItem,
         executor' = SendWork(executor, t, item)
  PROVE  /\ executor' \in [work : [Thread -> Seq(WorkItem)], running : BOOLEAN]
         /\ executor'.running = executor.running
         /\ \A u \in Thread \ {t} : Work(u)' = Work(u)
         /\ Work(t)' = Append(Work(t), item)
         /\ DOMAIN Work(t)' = 1..(Len(Work(t)) + 1)
         /\ \A i \in 1..Len(Work(t)) : Work(t)'[i] = Work(t)[i]
         /\ Work(t)'[Len(Work(t)) + 1] = item
<1>1. /\ executor.work \in [Thread -> Seq(WorkItem)] /\ executor.running \in BOOLEAN
      /\ executor = [work |-> executor.work, running |-> executor.running]
  BY DEF TypeInv
<1>2. executor' = [work |-> [executor.work EXCEPT ![t] = Append(@, item)],
                   running |-> executor.running]
  BY <1>1 DEF SendWork, Enqueue
<1>3. Append(executor.work[t], item) \in Seq(WorkItem)
  BY <1>1, LongerItems
<1>4. Work(t)' = Append(Work(t), item) /\ \A u \in Thread \ {t} : Work(u)' = Work(u)
  BY <1>1, <1>2 DEF Work
<1> QED BY <1>1, <1>2, <1>3, <1>4, LongerItems DEF Work

LEMMA WorkTaken ==
  ASSUME TypeInv, NEW t \in Available(executor)
  PROVE  /\ t \in Thread /\ executor.running /\ Work(t) # << >> /\ 1 \in DOMAIN Work(t)
         /\ WorkOf(t) = Work(t)[1] /\ WorkOf(t) \in WorkItem /\ WorkOf(t).call \in Call
         /\ TakeWork(executor, t).work \in [Thread -> Seq(WorkItem)]
         /\ TakeWork(executor, t).running
         /\ TakeWork(executor, t) = [work |-> TakeWork(executor, t).work,
                                     running |-> executor.running]
         /\ \A u \in Thread \ {t} : TakeWork(executor, t).work[u] = Work(u)
         /\ LET left == TakeWork(executor, t).work[t] IN
            /\ left = Tail(Work(t)) /\ Len(left) = Len(Work(t)) - 1
            /\ DOMAIN left = 1..(Len(Work(t)) - 1)
            /\ \A i \in DOMAIN left : i + 1 \in DOMAIN Work(t) /\ left[i] = Work(t)[i + 1]
<1>1. /\ executor.work \in [Thread -> Seq(WorkItem)]
      /\ executor = [work |-> executor.work, running |-> executor.running]
  BY DEF TypeInv
<1>2. t \in Thread /\ executor.running = TRUE /\ Work(t) # << >> /\ Work(t) \in Seq(WorkItem)
  BY <1>1 DEF Available, Waiting, Work, TypeInv
<1>3. /\ Tail(Work(t)) \in Seq(WorkItem) /\ Len(Tail(Work(t))) = Len(Work(t)) - 1
      /\ DOMAIN Tail(Work(t)) = 1..(Len(Work(t)) - 1)
      /\ \A i \in 1..(Len(Work(t)) - 1) :
           i + 1 \in DOMAIN Work(t) /\ Tail(Work(t))[i] = Work(t)[i + 1]
      /\ Head(Work(t)) = Work(t)[1]
  BY <1>2, TailItems
<1>4. 1 \in DOMAIN Work(t) /\ Work(t)[1] \in WorkItem /\ Work(t)[1].call \in Call
  BY <1>2, Items, WorkItems
<1>5. WorkOf(t) = Work(t)[1]
  BY <1>3 DEF WorkOf, NextWork, Oldest, Work
<1>6. TakeWork(executor, t) = [work |-> [executor.work EXCEPT ![t] = Tail(@)],
                               running |-> executor.running]
  <2>1. TakeWork(executor, t) = [executor EXCEPT !.work = Dequeue(executor.work, t)]
    BY DEF TakeWork
  <2> DEFINE q == Dequeue(executor.work, t)
  <2> HIDE DEF q
  <2>2. [executor EXCEPT !.work = q] = [work |-> q, running |-> executor.running]
    BY <1>1
  <2> QED BY <2>1, <2>2 DEF q, Dequeue
<1>7. [executor.work EXCEPT ![t] = Tail(@)] \in [Thread -> Seq(WorkItem)]
  BY <1>1, <1>3 DEF Work
<1>8. /\ TakeWork(executor, t).work[t] = Tail(Work(t))
      /\ \A u \in Thread \ {t} : TakeWork(executor, t).work[u] = Work(u)
  BY <1>1, <1>2, <1>6 DEF Work
<1>9. /\ TakeWork(executor, t).work \in [Thread -> Seq(WorkItem)]
      /\ TakeWork(executor, t).running = executor.running
      /\ TakeWork(executor, t) = [work |-> TakeWork(executor, t).work,
                                  running |-> executor.running]
  BY <1>6, <1>7
<1> HIDE <1>6, <1>7
<1> QED BY <1>2, <1>3, <1>4, <1>5, <1>8, <1>9

-----------------------------------------------------------------------------
(* Type correctness                                                            *)

LEMMA ThisCall == ASSUME TypeInv, NEW t \in Thread, NEW kind, Calls(t, kind)
                  PROVE  /\ This(t) \in Call /\ This(t)[1] = t /\ This(t)[2] = calls[t] + 1
                         /\ This(t) = <<t, calls[t] + 1>>
                         /\ calls' \in [Thread -> Nat]
                         /\ \A u \in Thread : calls'[u] <= MaxCall[u]
                         /\ calls'[t] = calls[t] + 1
                         /\ \A u \in Thread \ {t} : calls'[u] = calls[u]
<1>1. calls[t] \in Nat /\ MaxCall[t] \in Nat /\ calls[t] < MaxCall[t]
  BY LoggerAssumption DEF Calls, TypeInv
<1>2. calls[t] + 1 \in 0..MaxCall[t]
  BY <1>1
<1>3. <<t, calls[t] + 1>> \in Call
  BY <1>2, CallMade
<1>4. /\ calls' \in [Thread -> Nat] /\ \A u \in Thread : calls'[u] <= MaxCall[u]
      /\ calls'[t] = calls[t] + 1 /\ \A u \in Thread \ {t} : calls'[u] = calls[u]
  BY <1>1 DEF Calls, TypeInv
<1> QED BY <1>3, <1>4 DEF This

LEMMA LastCall == ASSUME TypeInv, NEW t \in Thread
                  PROVE  <<t, calls[t]>> \in Call
<1>1. calls[t] \in 0..MaxCall[t]
  BY LoggerAssumption DEF TypeInv
<1> QED BY <1>1, CallMade

LEMMA SentType ==
  ASSUME TypeInv, NEW t \in Thread, NEW kind, NEW arg, NEW c, Calls(t, c),
         Item(kind, This(t), arg) \in WorkItem, Sends(t, kind, arg)
  PROVE  executor' \in [work : [Thread -> Seq(WorkItem)], running : BOOLEAN]
BY WorkSent DEF Sends

LEMMA WorkerTypes ==
  ASSUME TypeInv
  PROVE  /\ worker.kind \in {"idle", "log", "drop", "join", "flush"}
         /\ worker.call \in Call \cup {NoCall} /\ worker.todo \in Seq(Handler)
         /\ worker.kind # "idle" => worker.call \in Call
         /\ worker.kind = "idle" => worker = NoWorkItem
         /\ worker.kind = "join" => worker.todo # << >>
         /\ worker.kind \in {"drop", "join"} => worker.left \in Seq(Handler)
         /\ worker.kind = "log" => worker \in [kind : {"log"}, call : Call,
                                               todo : Seq(Handler), own : Nat]
<1>1. CASE worker = NoWorkItem
  BY <1>1, NoItems DEF NoWorkItem
<1>2. CASE worker \in [kind : {"flush"}, call : Call, todo : Seq(Handler)]
  BY <1>2
<1>3. CASE worker \in [kind : {"drop"}, call : Call, todo : Seq(Handler), left : Seq(Handler)]
  BY <1>3
<1>4. CASE worker \in [kind : {"join"}, call : Call, todo : Seq(Handler) \ {<< >>},
                       left : Seq(Handler)]
  BY <1>4
<1>5. CASE worker \in [kind : {"log"}, call : Call, todo : Seq(Handler), own : Nat]
  BY <1>5
<1> QED BY <1>1, <1>2, <1>3, <1>4, <1>5 DEF TypeInv, WorkerState

LEMMA CallTypes ==
  ASSUME TypeInv, NEW t \in Thread,
         \/ \E level \in Level : Log(t, level) \/ SetMinSeverity(t, level)
         \/ AddField(t) \/ RemoveAllHandlers(t) \/ Flush(t) \/ GetHandlers(t)
         \/ \E h \in Handler : SetCreator(t, h) \/ Release(t, h) \/ AddHandler(t, h)
         \/ DestroyLogger(t)
  PROVE  TypeInv'
<1>1. CASE \E level \in Level : Log(t, level)
  <2>1. Calls(t, "log") /\ lastField[t] \in Nat
    BY <1>1 DEF Log, TypeInv
  <2>2. Item("log", This(t), lastField[t]) \in WorkItem
    BY <2>1, ThisCall DEF Item, WorkItem
  <2>3. executor' \in [work : [Thread -> Seq(WorkItem)], running : BOOLEAN]
    BY <1>1, <2>1, <2>2, SentType DEF Log, TypeInv
  <2> QED BY <1>1, <2>1, <2>3, ThisCall DEF Log, TypeInv, loggerVars, historyVars
<1>2. ASSUME NEW kind \in {"removeAllHandlers", "flush"}, BlockingCall(t, kind, 0)
      PROVE  TypeInv'
  <2>1. Calls(t, kind)
    BY <1>2 DEF BlockingCall
  <2>2. Item(kind, This(t), 0) \in WorkItem
    BY <2>1, ThisCall DEF Item, WorkItem
  <2>3. executor' \in [work : [Thread -> Seq(WorkItem)], running : BOOLEAN]
    BY <1>2, <2>1, <2>2, SentType DEF BlockingCall
  <2> QED BY <1>2, <2>1, <2>3, ThisCall DEF BlockingCall, Blocks, Wait, TypeInv, loggerVars, historyVars
<1>3. CASE \E level \in Level : SetMinSeverity(t, level)
  <2> PICK level \in Level : SetMinSeverity(t, level)
    BY <1>3
  <2>1. Calls(t, "setMinSeverity")
    BY DEF BlockingCall, SetMinSeverity
  <2>2. Item("setMinSeverity", This(t), level) \in WorkItem
    BY <2>1, ThisCall DEF Item, WorkItem
  <2>3. executor' \in [work : [Thread -> Seq(WorkItem)], running : BOOLEAN]
    BY <2>1, <2>2, SentType DEF BlockingCall, SetMinSeverity
  <2> QED BY <2>1, <2>3, ThisCall
          DEF SetMinSeverity, BlockingCall, Blocks, Wait, TypeInv, loggerVars, historyVars
<1>4. CASE AddField(t)
  <2>1. Calls(t, "addField")
    BY <1>4 DEF AddField
  <2>2. Item("addField", This(t), 0) \in WorkItem
    BY <2>1, ThisCall DEF Item, WorkItem
  <2>3. executor' \in [work : [Thread -> Seq(WorkItem)], running : BOOLEAN]
    BY <1>4, <2>1, <2>2, SentType DEF AddField
  <2>4. calls[t] + 1 \in Nat
    BY DEF TypeInv
  <2> QED BY <1>4, <2>1, <2>3, <2>4, ThisCall DEF AddField, TypeInv, loggerVars
<1>5. CASE GetHandlers(t)
  <2>1. Calls(t, "getHandlers") /\ Set(handlers) \subseteq Handler
    BY <1>5, Items DEF GetHandlers, TypeInv
  <2>2. Overwritten \subseteq Handler
    BY WorkerTypes, TailItems DEF Overwritten
  <2>3. held' \subseteq Handler /\ dangling' \subseteq Handler
    <3> PICK copied \in {Set(handlers), Set(handlers) \cup Overwritten} :
          /\ held' = held \cup {h \in copied : stopper[h] = Nobody}
          /\ dangling' = dangling \cup {h \in copied : stopper[h] # Nobody}
      BY <1>5 DEF GetHandlers
    <3> QED BY <2>1, <2>2 DEF TypeInv
  <2> QED BY <1>5, <2>1, <2>3, ThisCall DEF GetHandlers, TypeInv, loggerVars, historyVars
<1>6. ASSUME NEW h \in Handler, SetCreator(t, h) PROVE TypeInv'
  <2>1. Calls(t, "setCreator") /\ t \in Producer /\ sink[h] \in HandlerState
    BY <1>6 DEF SetCreator, Producer, TypeInv
  <2>2. SetMessageStringCreatorFunction(sink[h], t, This(t)) \in HandlerState /\ This(t) \in Call
    BY <2>1, CreatorResult, ThisCall
  <2>3. sink' \in [Handler -> HandlerState] /\ creatorSet' \in [Handler -> Call \cup {NoCall}]
    BY <1>6, <2>2 DEF SetCreator, TypeInv
  <2> QED BY <1>6, <2>1, <2>3, ThisCall DEF SetCreator, TypeInv, loggerVars
<1>7. ASSUME NEW h \in Handler, Release(t, h) PROVE TypeInv'
  <2>1. Calls(t, "release") /\ t \in Producer /\ sink[h] \in HandlerState
    BY <1>7 DEF Release, Producer, TypeInv
  <2>2. StartDestruction(sink[h], t, This(t)) \in HandlerState
    BY <2>1, DestructionResult, ThisCall
  <2>3. /\ sink' \in [Handler -> HandlerState]
        /\ stopper' \in [Handler -> Producer \cup {Nobody}]
        /\ destroying' \in [Thread -> SUBSET Handler] /\ waits' \in [Thread -> Wait]
        /\ held' \subseteq Handler
    <3>1. CASE LoggerHolds(h)
      BY <1>7, <3>1 DEF Release, TypeInv
    <3>2. CASE ~LoggerHolds(h)
      <4>1. /\ sink' = [sink EXCEPT ![h] = StartDestruction(@, t, This(t))]
            /\ stopper' = [stopper EXCEPT ![h] = t]
            /\ destroying' = [destroying EXCEPT ![t] = {h}]
            /\ waits' = [waits EXCEPT ![t] = "release"] /\ held' = held \ {h}
        BY <1>7, <3>2 DEF Release, Blocks
      <4> QED BY <4>1, <2>1, <2>2 DEF TypeInv, Wait
    <3> QED BY <3>1, <3>2
  <2> QED BY <1>7, <2>1, <2>3, ThisCall DEF Release, TypeInv, loggerVars
<1>8. ASSUME NEW h \in Handler, AddHandler(t, h) PROVE TypeInv'
  <2> PICK kind \in Adding : /\ Adds(t, h, kind)
                             /\ Blocks(t, "addLogHandler") \/ UNCHANGED waits
    BY <1>8 DEF AddHandler, AddLogHandler, Adding
  <2>1. Calls(t, "addLogHandler")
    BY DEF Adds
  <2>2. Item(kind, This(t), h) \in WorkItem /\ This(t) \in Call
    BY <2>1, ThisCall DEF Item, WorkItem, Adding
  <2>3. /\ executor' \in [work : [Thread -> Seq(WorkItem)], running : BOOLEAN]
        /\ adder' \in [Handler -> Call \cup {NoCall}]
        /\ waits' \in [Thread -> Wait]
    BY <2>1, <2>2, SentType DEF Adds, Blocks, Wait, TypeInv
  <2> QED BY <2>1, <2>3, ThisCall DEF Adds, TypeInv, loggerVars, historyVars
<1>9. CASE DestroyLogger(t)
  <2>1. Calls(t, "destroy")
    BY <1>9 DEF DestroyLogger
  <2>2. Item("removeAllHandlers", This(t), 0) \in WorkItem
    BY <2>1, ThisCall DEF Item, WorkItem
  <2>3. executor' \in [work : [Thread -> Seq(WorkItem)], running : BOOLEAN]
    BY <1>9, <2>1, <2>2, SentType DEF DestroyLogger
  <2> QED BY <1>9, <2>1, <2>3, ThisCall DEF DestroyLogger, Blocks, Wait, TypeInv, loggerVars, historyVars
<1> QED
  BY <1>1, <1>2, <1>3, <1>4, <1>5, <1>6, <1>7, <1>8, <1>9 DEF RemoveAllHandlers, Flush

\* Taking the next item of thread t leaves an executor.
LEMMA TakenType ==
  ASSUME TypeInv, NEW t \in Thread, NEW kind, Works(kind, t)
  PROVE  /\ executor' \in [work : [Thread -> Seq(WorkItem)], running : BOOLEAN]
         /\ t \in Available(executor)
         /\ WorkOf(t) \in WorkItem /\ WorkOf(t).kind = kind /\ WorkOf(t).call \in Call
         /\ worker.kind = "idle"
<1>1. t \in Available(executor) /\ executor' = TakeWork(executor, t)
      /\ worker.kind = "idle" /\ WorkOf(t).kind = kind
  BY DEF Works, WorkOf
<1>2. executor.running \in BOOLEAN
  BY DEF TypeInv
<1>3. executor' = [work |-> TakeWork(executor, t).work, running |-> executor.running]
      /\ TakeWork(executor, t).work \in [Thread -> Seq(WorkItem)]
      /\ WorkOf(t) \in WorkItem /\ WorkOf(t).call \in Call
  BY <1>1, WorkTaken
<1> QED BY <1>1, <1>2, <1>3

LEMMA RunTypes ==
  ASSUME TypeInv, NEW t \in Thread,
         \/ RunIdentify(t) \/ RunAddField(t) \/ RunSetMinSeverity(t) \/ RunAdd(t)
         \/ RunRemoveAll(t) \/ RunLog(t) \/ RunFlush(t) \/ RunStop(t)
  PROVE  TypeInv'
<1> USE DEF outsideVars, historyVars
<1>1. CASE RunIdentify(t)
  <2>1. executor' \in [work : [Thread -> Seq(WorkItem)], running : BOOLEAN]
    BY <1>1, TakenType DEF RunIdentify
  <2> QED BY <1>1, <2>1 DEF RunIdentify, TypeInv
<1>2. CASE RunAddField(t)
  <2>1. executor' \in [work : [Thread -> Seq(WorkItem)], running : BOOLEAN]
        /\ WorkOf(t).call \in Call
    BY <1>2, TakenType DEF RunAddField
  <2> QED BY <1>2, <2>1 DEF RunAddField, TypeInv
<1>3. CASE RunSetMinSeverity(t)
  <2>1. executor' \in [work : [Thread -> Seq(WorkItem)], running : BOOLEAN]
        /\ WorkOf(t) \in WorkItem /\ WorkOf(t).kind = "setMinSeverity"
    BY <1>3, TakenType DEF RunSetMinSeverity
  <2>2. WorkOf(t).arg \in Level
    BY <2>1 DEF WorkItem
  <2> QED BY <1>3, <2>1, <2>2 DEF RunSetMinSeverity, Answers, TypeInv
<1>4. CASE RunAdd(t)
  <2>1. executor' \in [work : [Thread -> Seq(WorkItem)], running : BOOLEAN]
        /\ WorkOf(t) \in WorkItem /\ WorkOf(t).kind = "add"
    BY <1>4, TakenType DEF RunAdd
  <2>2. WorkOf(t).arg \in Handler /\ handlers \in Seq(Handler)
    BY <2>1 DEF WorkItem, TypeInv
  <2>3. handlers' \in Seq(Handler)
    BY <1>4, <2>2, LongerItems DEF RunAdd
  <2> QED BY <1>4, <2>1, <2>3 DEF RunAdd, Answers, TypeInv
<1>5. CASE RunRemoveAll(t)
  <2>1. executor' \in [work : [Thread -> Seq(WorkItem)], running : BOOLEAN]
        /\ WorkOf(t).call \in Call
    BY <1>5, TakenType DEF RunRemoveAll
  <2>2. handlers \in Seq(Handler) /\ << >> \in Seq(Handler)
    BY NoItems DEF TypeInv
  <2>3. worker' \in WorkerState
    BY <1>5, <2>1, <2>2 DEF RunRemoveAll, Drops, WorkerState
  <2> QED BY <1>5, <2>1, <2>3 DEF RunRemoveAll, TypeInv
<1>6. CASE RunLog(t)
  <2>1. executor' \in [work : [Thread -> Seq(WorkItem)], running : BOOLEAN]
        /\ WorkOf(t) \in WorkItem /\ WorkOf(t).kind = "log" /\ WorkOf(t).call \in Call
    BY <1>6, TakenType DEF RunLog
  <2>2. WorkOf(t).arg \in Nat /\ handlers \in Seq(Handler)
    BY <2>1 DEF WorkItem, TypeInv
  <2>3. worker' \in WorkerState
    BY <1>6, <2>1, <2>2 DEF RunLog, WorkerState
  <2> QED BY <1>6, <2>1, <2>3 DEF RunLog, TypeInv
<1>7. CASE RunFlush(t)
  <2>1. executor' \in [work : [Thread -> Seq(WorkItem)], running : BOOLEAN]
        /\ WorkOf(t).call \in Call
    BY <1>7, TakenType DEF RunFlush
  <2>2. handlers \in Seq(Handler) /\ DOMAIN flushing' \subseteq Handler
    BY <1>7, Items DEF RunFlush, TypeInv
  <2>3. worker' \in WorkerState
    BY <1>7, <2>1, <2>2 DEF RunFlush, Visits, WorkerState
  <2> QED BY <1>7, <2>1, <2>2, <2>3 DEF RunFlush, TypeInv
<1>8. CASE RunStop(t)
  <2>1. /\ TakeWork(executor, t).work \in [Thread -> Seq(WorkItem)]
        /\ TakeWork(executor, t) = [work |-> TakeWork(executor, t).work,
                                    running |-> executor.running]
    BY <1>8, WorkTaken DEF RunStop
  <2>2. executor' = [TakeWork(executor, t) EXCEPT !.running = FALSE]
    BY <1>8 DEF RunStop, Stop
  <2>3. executor' \in [work : [Thread -> Seq(WorkItem)], running : BOOLEAN]
    BY <2>1, <2>2
  <2> QED BY <1>8, <2>3 DEF RunStop, TypeInv, loggerVars
<1> QED BY <1>1, <1>2, <1>3, <1>4, <1>5, <1>6, <1>7, <1>8

LEMMA MessageType ==
  ASSUME TypeInv, worker.kind = "log"
  PROVE  [call |-> worker.call, identified |-> baseMsg.identified,
          field |-> baseMsg.field, own |-> worker.own] \in LogMessage
<1>1. worker.call \in Call /\ worker.own \in Nat
  BY WorkerTypes
<1> QED BY <1>1 DEF TypeInv, LogMessage

LEMMA VisitTypes ==
  ASSUME TypeInv, DropPointer \/ Joined \/ AllDropped \/ HandOver \/ LogDone \/ FlushDone
  PROVE  TypeInv'
<1> USE DEF outsideVars, historyVars
<1>1. CASE DropPointer
  <2>1. /\ worker.kind = "drop" /\ worker.todo # << >> /\ worker.todo \in Seq(Handler)
        /\ worker.call \in Call /\ worker.left \in Seq(Handler) /\ WorkerThread \in Producer
    BY <1>1, WorkerTypes DEF DropPointer, Producer
  <2>2. Head(worker.todo) \in Handler /\ Tail(worker.todo) \in Seq(Handler)
    BY <2>1, TailItems
  <2>3. worker' \in WorkerState
    BY <1>1, <2>1, <2>2 DEF DropPointer, Drops, WorkerState
  <2> DEFINE h == Head(worker.todo)
  <2>4. StartDestruction(sink[h], WorkerThread, worker.call) \in HandlerState /\ h \in Handler
    BY <2>1, <2>2, DestructionResult DEF TypeInv
  <2> HIDE DEF h
  <2>5. sink' \in [Handler -> HandlerState] /\ stopper' \in [Handler -> Producer \cup {Nobody}]
    <3>1. \/ UNCHANGED <<sink, stopper>>
          \/ /\ sink' = [sink EXCEPT ![h] = StartDestruction(@, WorkerThread, worker.call)]
             /\ stopper' = [stopper EXCEPT ![h] = WorkerThread]
      BY <1>1 DEF DropPointer, h
    <3>2. WorkerThread \in Producer \cup {Nobody}
      BY <2>1
    <3>3. /\ [sink EXCEPT ![h] = StartDestruction(@, WorkerThread, worker.call)]
                \in [Handler -> HandlerState]
          /\ [stopper EXCEPT ![h] = WorkerThread] \in [Handler -> Producer \cup {Nobody}]
      BY <3>2, <2>4 DEF TypeInv
    <3>4. sink \in [Handler -> HandlerState] /\ stopper \in [Handler -> Producer \cup {Nobody}]
      BY DEF TypeInv
    <3> QED BY <3>1, <3>3, <3>4
  <2> QED BY <1>1, <2>3, <2>5 DEF DropPointer, TypeInv
<1>2. CASE Joined
  <2>1. /\ worker.kind = "join" /\ worker.todo \in Seq(Handler) /\ worker.call \in Call
        /\ worker.todo # << >> /\ worker.left \in Seq(Handler)
    BY <1>2, WorkerTypes DEF Joined
  <2>2. Tail(worker.todo) \in Seq(Handler)
    BY <2>1, TailItems
  <2>3. worker' \in WorkerState
    BY <1>2, <2>1, <2>2 DEF Joined, Drops, WorkerState
  <2> QED BY <1>2, <2>3 DEF Joined, TypeInv
<1>3. CASE AllDropped
  <2>1. handlers' \in Seq(Handler) /\ dropped' \subseteq Handler
    BY <1>3, WorkerTypes, Items DEF AllDropped, TypeInv
  <2> QED BY <1>3, <2>1, WorkerTypes DEF AllDropped, Answers, TypeInv, WorkerState
<1>4. CASE HandOver
  <2> DEFINE msg == [call |-> worker.call, identified |-> baseMsg.identified,
                     field |-> baseMsg.field, own |-> worker.own]
             h   == Head(worker.todo)
  <2>1. /\ worker.kind = "log" /\ worker.todo # << >>
        /\ worker \in [kind : {"log"}, call : Call, todo : Seq(Handler), own : Nat]
        /\ WorkerThread \in Producer
    BY <1>4, WorkerTypes DEF HandOver, Producer
  <2>2. h \in Handler /\ Tail(worker.todo) \in Seq(Handler)
    BY <2>1, TailItems
  <2>3. msg \in LogMessage
    BY <2>1, MessageType
  <2>5. /\ sink' = [sink EXCEPT ![h] = AddMessage(@, WorkerThread, msg)]
        /\ given' = [given EXCEPT ![h] = Append(@, msg)]
        /\ worker' = [worker EXCEPT !.todo = Tail(@)]
    BY <1>4 DEF HandOver
  <2> HIDE DEF h, msg
  <2>4. /\ AddMessage(sink[h], WorkerThread, msg) \in HandlerState
        /\ Append(given[h], msg) \in Seq(LogMessage)
    <3>1. sink[h] \in HandlerState /\ given[h] \in Seq(LogMessage)
      BY <2>2 DEF TypeInv
    <3> QED BY <3>1, <2>1, <2>3, AddMessageResult, LongerItems
  <2>6. sink' \in [Handler -> HandlerState] /\ given' \in [Handler -> Seq(LogMessage)]
        /\ worker' \in WorkerState
    BY <2>1, <2>2, <2>4, <2>5 DEF TypeInv, WorkerState
  <2> QED BY <1>4, <2>6 DEF HandOver, TypeInv
<1>5. CASE LogDone
  BY <1>5 DEF LogDone, TypeInv, WorkerState
<1>6. CASE FlushDone
  BY <1>6, NoItems, WorkerTypes DEF FlushDone, Answers, Verdict, TypeInv, WorkerState
<1> QED BY <1>1, <1>2, <1>3, <1>4, <1>5, <1>6

LEMMA OtherTypes ==
  ASSUME TypeInv,
         \/ \E t \in Thread : Return(t) \/ Destroyed(t) \/ StopExecutor(t) \/ JoinExecutor(t)
         \/ Async \/ \E h \in Handler : HandlerThread(h)
  PROVE  TypeInv'
<1> USE DEF outsideVars, historyVars
<1>1. ASSUME NEW t \in Thread, Return(t) PROVE TypeInv'
  BY <1>1 DEF Return, Blocks, Wait, TypeInv, loggerVars
<1>2. ASSUME NEW t \in Thread, Destroyed(t) PROVE TypeInv'
  BY <1>2 DEF Destroyed, Blocks, Wait, TypeInv, loggerVars
<1>3. ASSUME NEW t \in Thread, StopExecutor(t) PROVE TypeInv'
  <2>1. Item("stop", <<t, calls[t]>>, 0) \in WorkItem
    BY LastCall DEF Item, WorkItem
  <2>2. executor' \in [work : [Thread -> Seq(WorkItem)], running : BOOLEAN]
    BY <1>3, <2>1, WorkSent DEF StopExecutor
  <2> QED BY <1>3, <2>2 DEF StopExecutor, TypeInv, loggerVars, callVars
<1>4. ASSUME NEW t \in Thread, JoinExecutor(t) PROVE TypeInv'
  <2> DEFINE orphans == (Carried \cup Set(handlers)) \ held
  <2>1. orphans \subseteq Handler
    BY Items DEF Carried, TypeInv
  <2>2. \A h \in Handler : StartDestruction(sink[h], t, <<t, calls[t]>>) \in HandlerState
    BY LastCall, DestructionResult DEF TypeInv, Producer
  <2>3. /\ phase' = "dead"
        /\ executor' = DropWork(executor)
        /\ handlers' = << >>
        /\ sink' = [h \in Handler |-> IF h \in orphans
                     THEN StartDestruction(sink[h], t, <<t, calls[t]>>) ELSE sink[h]]
        /\ stopper' = [h \in Handler |-> IF h \in orphans THEN t ELSE stopper[h]]
        /\ destroying' = [destroying EXCEPT ![t] = orphans]
        /\ waits' = [waits EXCEPT ![t] = IF orphans = {} THEN "no" ELSE "destroy"]
        /\ UNCHANGED <<worker, flushing, minSeverity, baseMsg, pointerVars, adder, calls,
                       answer, given, dropped, lastField, creatorSet>>
    BY <1>4 DEF JoinExecutor, Blocks
  <2> HIDE DEF orphans
  <2>4. sink' \in [Handler -> HandlerState]
    BY <2>2, <2>3 DEF TypeInv
  <2>5. stopper' \in [Handler -> Producer \cup {Nobody}] /\ destroying' \in [Thread -> SUBSET Handler]
        /\ waits' \in [Thread -> Wait] /\ handlers' \in Seq(Handler)
    BY <2>1, <2>3, NoItems DEF TypeInv, Producer, Wait
  <2>6. executor' \in [work : [Thread -> Seq(WorkItem)], running : BOOLEAN]
    BY <2>3, NoItems DEF DropWork, NoWork, TypeInv
  <2> QED BY <2>3, <2>4, <2>5, <2>6 DEF TypeInv
<1>5. ASSUME NEW h \in Handler, FlushHandler(h) PROVE TypeInv'
  <2>1. worker.call \in Call /\ worker.call \in Producer
    BY <1>5, WorkerTypes DEF FlushHandler, Producer
  <2>2. StartFlush(sink[h], worker.call, worker.call) \in HandlerState
    BY <2>1, StartFlushResult DEF TypeInv
  <2>3. sink' \in [Handler -> HandlerState] /\ DOMAIN flushing' = DOMAIN flushing
    BY <1>5, <2>2 DEF FlushHandler, TypeInv
  <2> QED BY <1>5, <2>3 DEF FlushHandler, TypeInv
<1>6. ASSUME NEW h \in Handler, NEW verdict, Judged(h, verdict) PROVE TypeInv'
  <2>1. DOMAIN flushing' = DOMAIN flushing
    BY <1>6 DEF Judged
  <2> QED BY <1>6, <2>1 DEF Judged, TypeInv
<1>7. ASSUME NEW h \in Handler, HandlerThread(h) PROVE TypeInv'
  <2> PICK p \in Available(sink[h].exec) : sink' = [sink EXCEPT ![h] = RunWork(@, p)]
    BY <1>7 DEF HandlerThread
  <2>0. RunWork(sink[h], p) \in HandlerState
    <3>1. sink[h] \in HandlerState
      BY DEF TypeInv
    <3> QED BY <3>1, RunResult
  <2>1. sink' \in [Handler -> HandlerState]
    BY <2>0 DEF TypeInv
  <2> QED BY <1>7, <2>1 DEF HandlerThread, TypeInv, loggerVars, callVars
<1> QED BY <1>1, <1>2, <1>3, <1>4, <1>5, <1>6, <1>7 DEF Async

LEMMA ReplaceTypes ==
  ASSUME TypeInv, NEW t \in Thread, ReplaceStep(t)
  PROVE  TypeInv'
<1>1. /\ executor' \in [work : [Thread -> Seq(WorkItem)], running : BOOLEAN]
      /\ WorkOf(t) \in WorkItem /\ WorkOf(t).call \in Call /\ WorkOf(t).kind = "replace"
  BY TakenType DEF ReplaceStep
<1>2. WorkOf(t).arg \in Handler /\ handlers \in Seq(Handler)
  BY <1>1 DEF WorkItem, TypeInv
<1>3. Append(handlers, WorkOf(t).arg) \in Seq(Handler)
  BY <1>2, LongerItems
<1>4. \A i \in DOMAIN handlers : /\ [handlers EXCEPT ![i] = WorkOf(t).arg] \in Seq(Handler)
                                /\ handlers[i] \in Handler /\ <<handlers[i]>> \in Seq(Handler)
  BY <1>2, ExceptSeq, Items
<1>5. handlers' \in Seq(Handler) /\ dropped' \subseteq Handler
  <2>1. CASE handlers' = Append(handlers, WorkOf(t).arg) /\ dropped' = dropped
    BY <2>1, <1>3 DEF TypeInv
  <2>2. ASSUME NEW i \in DOMAIN handlers, handlers' = [handlers EXCEPT ![i] = WorkOf(t).arg],
               dropped' = dropped \cup {handlers[i]}
        PROVE  handlers' \in Seq(Handler) /\ dropped' \subseteq Handler
    BY <2>2, <1>4 DEF TypeInv
  <2> QED BY <2>1, <2>2 DEF ReplaceStep
<1>6. worker' \in WorkerState
  <2>1. PICK todo \in Seq(Handler) :
          worker' = [kind |-> "drop", call |-> WorkOf(t).call, todo |-> todo,
                     left |-> handlers']
    BY <1>4, NoItems DEF ReplaceStep, Drops
  <2> QED BY <1>1, <1>5, <2>1 DEF WorkerState
<1> QED BY <1>1, <1>5, <1>6 DEF ReplaceStep, outsideVars, TypeInv

LEMMA TypeStep == TypeInv /\ Step => TypeInv'
BY CallTypes, RunTypes, ReplaceTypes, VisitTypes, OtherTypes DEF Step, Application, Worker

-----------------------------------------------------------------------------
(* What steps do, by kinds of steps: a call that sends work, one that does not,   *)
(* the worker taking an item, the worker visiting handlers, and the rest.         *)

SendStep(t, item) ==
  /\ item \in WorkItem /\ item.call = This(t) /\ item.kind \notin {"stop", "identify"}
  /\ phase = "alive" /\ waits[t] = "no"
  /\ executor' = SendWork(executor, t, item)
  /\ calls'[t] = calls[t] + 1 /\ \A u \in Thread \ {t} : calls'[u] = calls[u]
  /\ \A u \in Thread \ {t} : waits'[u] = waits[u]
  /\ \/ /\ phase' = "removing" /\ waits'[t] = "destroy" /\ item.kind = "removeAllHandlers"
        /\ \A u \in Thread : waits[u] = "no"
     \/ /\ phase' = "alive" /\ waits'[t] \notin {"destroy", "release"}
        /\ item.kind \in Blocking => waits'[t] # "no"
  /\ IF item.kind \in Adding
     THEN /\ item.arg \in held /\ adder[item.arg] = NoCall
          /\ adder' = [adder EXCEPT ![item.arg] = This(t)]
     ELSE adder' = adder
  /\ lastField' = IF item.kind = "addField" THEN [lastField EXCEPT ![t] = calls[t] + 1]
                  ELSE lastField
  /\ item.kind = "log" => item.arg = lastField[t]
  /\ UNCHANGED <<worker, flushing, handlers, baseMsg, sink, held, dangling, answer,
                 destroying, given, stopper, dropped>>

QuietCall(t) ==
  /\ waits[t] = "no"
  /\ calls'[t] = calls[t] + 1 /\ \A u \in Thread \ {t} : calls'[u] = calls[u]
  /\ \A u \in Thread \ {t} : waits'[u] = waits[u] /\ destroying'[u] = destroying[u]
  /\ \/ waits'[t] = "no" /\ destroying'[t] = destroying[t]
     \/ waits'[t] = "release"
  /\ UNCHANGED <<executor, worker, flushing, handlers, baseMsg, adder, answer, phase,
                 given, lastField>>

\* A message below the severity is not sent.
SilentCall(t) ==
  QuietCall(t) /\ UNCHANGED <<sink, held, dangling, stopper, dropped, waits, destroying>>

TakeStep(t) ==
  /\ t \in Available(executor) /\ worker.kind = "idle"
  /\ executor'.work = TakeWork(executor, t).work
  /\ IF WorkOf(t).kind = "stop" THEN ~executor'.running ELSE executor'.running
  /\ CASE WorkOf(t).kind \in {"removeAllHandlers", "replace"} ->
            worker'.kind = "drop" /\ worker'.call = WorkOf(t).call
       [] WorkOf(t).kind = "log" ->
            worker' = [kind |-> "log", call |-> WorkOf(t).call, todo |-> handlers,
                       own |-> WorkOf(t).arg]
       [] WorkOf(t).kind = "flush" ->
            worker' = [kind |-> "flush", call |-> WorkOf(t).call, todo |-> handlers]
       [] OTHER -> worker' = worker
  /\ DOMAIN flushing' = IF WorkOf(t).kind = "flush" THEN Set(handlers) ELSE DOMAIN flushing
  /\ WorkOf(t).kind = "flush" => \A h \in DOMAIN flushing' : flushing'[h] = "started"
  /\ CASE WorkOf(t).kind = "add" -> handlers' = Append(handlers, WorkOf(t).arg)
       [] WorkOf(t).kind = "removeAllHandlers" ->
            handlers' = handlers /\ worker'.todo = handlers /\ worker'.left = << >>
       [] WorkOf(t).kind = "replace" ->
            /\ worker'.left = handlers'
            /\ \/ handlers' = Append(handlers, WorkOf(t).arg) /\ worker'.todo = << >>
               \/ \E i \in DOMAIN handlers :
                    /\ handlers' = [handlers EXCEPT ![i] = WorkOf(t).arg]
                    /\ worker'.todo = <<handlers[i]>> /\ handlers[i] \in dropped'
       [] OTHER -> handlers' = handlers
  /\ dropped \subseteq dropped'
  /\ baseMsg' = CASE WorkOf(t).kind = "identify" -> [baseMsg EXCEPT !.identified = TRUE]
                  [] WorkOf(t).kind = "addField" -> [baseMsg EXCEPT !.field = WorkOf(t).call]
                  [] OTHER -> baseMsg
  /\ answer' = IF WorkOf(t).kind \in {"add", "setMinSeverity"}
               THEN [answer EXCEPT ![WorkOf(t).call] = "done"] ELSE answer
  /\ UNCHANGED <<sink, held, dangling, adder, calls, waits, destroying, phase, given,
                 stopper, lastField>>

VisitStep ==
  /\ worker.kind # "idle"
  /\ \/ worker' = NoWorkItem
     \/ worker'.call = worker.call /\ (worker'.kind = "log" <=> worker.kind = "log")
        /\ worker'.kind # "idle"
  /\ \/ answer' = answer
     \/ /\ worker' = NoWorkItem /\ worker.kind # "log"
        /\ \E value : answer' = [answer EXCEPT ![worker.call] = value]
  /\ \/ UNCHANGED <<handlers, dropped>>
     \/ /\ worker.kind = "drop" /\ worker' = NoWorkItem /\ handlers' = worker.left
        /\ dropped' = dropped \cup (Set(handlers) \ Set(worker.left))
  /\ UNCHANGED <<executor, baseMsg, held, dangling, adder, calls, waits, destroying,
                 phase, lastField>>

\* A step that the executor's queue and the calls do not see.
AsideStep ==
  UNCHANGED <<executor, worker, handlers, baseMsg, held, dangling, adder, calls, answer,
              given, stopper, dropped, waits, destroying, phase, lastField>>

LEMMA SendSteps ==
  ASSUME TypeInv, NEW t \in Thread,
         \/ \E level \in Level : Log(t, level) \/ SetMinSeverity(t, level)
         \/ AddField(t) \/ RemoveAllHandlers(t) \/ Flush(t)
         \/ \E h \in Handler : AddHandler(t, h)
         \/ DestroyLogger(t)
  PROVE  SilentCall(t) \/ \E item \in WorkItem : SendStep(t, item)
<1> USE DEF loggerVars, historyVars, Item
<1> SUFFICES ASSUME ~SilentCall(t) PROVE \E item : SendStep(t, item)
  BY DEF SendStep
<1>0. \A kind : Calls(t, kind) =>
        /\ waits[t] = "no" /\ This(t) \in Call
        /\ calls'[t] = calls[t] + 1
        /\ \A u \in Thread \ {t} : calls'[u] = calls[u]
        /\ kind # "release" => phase = "alive"
  BY ThisCall DEF Calls
<1>1. ASSUME NEW level \in Level, Log(t, level) PROVE \E item : SendStep(t, item)
  <2>1. /\ Calls(t, "log") /\ lastField[t] \in Nat
        /\ UNCHANGED <<loggerVars, sink, pointerVars, adder, waits, answer, destroying, phase,
                       historyVars>>
    BY <1>1 DEF Log, TypeInv
  <2>2. CASE level > minSeverity
    BY <1>0, <1>1, <2>1, <2>2 DEF Log, SilentCall, QuietCall
  <2>3. CASE ~(level > minSeverity)
    <3>1. Item("log", This(t), lastField[t]) \in WorkItem
      BY <1>0, <2>1 DEF WorkItem
    <3>2. executor' = SendWork(executor, t, Item("log", This(t), lastField[t]))
      BY <1>1, <2>3 DEF Log, Sends
    <3>3. SendStep(t, Item("log", This(t), lastField[t]))
      BY <1>0, <2>1, <3>1, <3>2 DEF SendStep, Adding, Blocking
    <3> QED BY <3>3
  <2> QED BY <2>2, <2>3
<1>2. ASSUME NEW kind, NEW arg, BlockingCall(t, kind, arg),
             Item(kind, This(t), arg) \in WorkItem,
             kind \in {"removeAllHandlers", "setMinSeverity", "flush"}
      PROVE  \E item : SendStep(t, item)
  <2>1. /\ Calls(t, kind) /\ executor' = SendWork(executor, t, Item(kind, This(t), arg))
        /\ waits'[t] = kind /\ \A u \in Thread \ {t} : waits'[u] = waits[u]
        /\ UNCHANGED <<loggerVars, sink, pointerVars, adder, answer, destroying, phase,
                       historyVars>>
    BY <1>2 DEF BlockingCall, Sends, Blocks, TypeInv
  <2>2. SendStep(t, Item(kind, This(t), arg))
    BY <1>0, <1>2, <2>1 DEF SendStep, Adding, Blocking
  <2> QED BY <2>2
<1>3. Calls(t, "removeAllHandlers") => Item("removeAllHandlers", This(t), 0) \in WorkItem
  BY <1>0 DEF WorkItem
<1>4. Calls(t, "flush") => Item("flush", This(t), 0) \in WorkItem
  BY <1>0 DEF WorkItem
<1>5. ASSUME NEW level \in Level, Calls(t, "setMinSeverity")
      PROVE  Item("setMinSeverity", This(t), level) \in WorkItem
  BY <1>0, <1>5 DEF WorkItem
<1>6. ASSUME AddField(t) PROVE \E item : SendStep(t, item)
  <2>1. Calls(t, "addField") /\ executor' = SendWork(executor, t, Item("addField", This(t), 0))
    BY <1>6 DEF AddField, Sends
  <2>2. Item("addField", This(t), 0) \in WorkItem
    BY <1>0, <2>1 DEF WorkItem
  <2>3. SendStep(t, Item("addField", This(t), 0))
    BY <1>0, <1>6, <2>1, <2>2 DEF SendStep, AddField, Adding, Blocking
  <2> QED BY <2>3
<1>7. ASSUME NEW h \in Handler, AddHandler(t, h) PROVE \E item : SendStep(t, item)
  <2>1. PICK kind \in Adding : /\ Adds(t, h, kind)
                               /\ \/ kind = "add" /\ Blocks(t, "addLogHandler")
                                  \/ kind = "replace" /\ UNCHANGED waits
    BY <1>7 DEF AddHandler, AddLogHandler, Adding
  <2>2. Calls(t, "addLogHandler") /\ executor' = SendWork(executor, t, Item(kind, This(t), h))
    BY <2>1 DEF Adds, Sends
  <2>3. Item(kind, This(t), h) \in WorkItem
    BY <1>0, <2>2 DEF WorkItem, Adding
  <2>4. /\ \A u \in Thread \ {t} : waits'[u] = waits[u]
        /\ waits'[t] \notin {"destroy", "release"} /\ (kind = "add" => waits'[t] # "no")
    BY <1>0, <2>1, <2>2 DEF Blocks, TypeInv
  <2>5. SendStep(t, Item(kind, This(t), h))
    BY <1>0, <2>1, <2>2, <2>3, <2>4 DEF SendStep, Adds, Adding, Blocking
  <2> QED BY <2>5
<1>8. ASSUME DestroyLogger(t) PROVE \E item : SendStep(t, item)
  <2>1. /\ Calls(t, "destroy") /\ waits'[t] = "destroy"
        /\ \A u \in Thread \ {t} : waits'[u] = waits[u]
        /\ executor' = SendWork(executor, t, Item("removeAllHandlers", This(t), 0))
    BY <1>8 DEF DestroyLogger, Sends, Blocks, TypeInv
  <2>2. Item("removeAllHandlers", This(t), 0) \in WorkItem
    BY <1>0, <2>1 DEF WorkItem
  <2>3. SendStep(t, Item("removeAllHandlers", This(t), 0))
    BY <1>0, <1>8, <2>1, <2>2 DEF SendStep, DestroyLogger, Adding
  <2> QED BY <2>3
<1> QED
  BY <1>1, <1>2, <1>3, <1>4, <1>5, <1>6, <1>7, <1>8
     DEF RemoveAllHandlers, Flush, SetMinSeverity, BlockingCall

LEMMA QuietSteps ==
  ASSUME TypeInv, NEW t \in Thread,
         GetHandlers(t) \/ \E h \in Handler : SetCreator(t, h) \/ Release(t, h)
  PROVE  QuietCall(t)
<1>0. \A kind : Calls(t, kind) =>
        /\ waits[t] = "no"
        /\ calls'[t] = calls[t] + 1
        /\ \A u \in Thread \ {t} : calls'[u] = calls[u]
  BY ThisCall DEF Calls
<1>1. CASE GetHandlers(t)
  BY <1>0, <1>1 DEF GetHandlers, QuietCall, loggerVars, historyVars
<1>2. ASSUME NEW h \in Handler, SetCreator(t, h) PROVE QuietCall(t)
  BY <1>0, <1>2 DEF SetCreator, QuietCall, loggerVars
<1>3. ASSUME NEW h \in Handler, Release(t, h) PROVE QuietCall(t)
  <2>1. /\ Calls(t, "release")
        /\ UNCHANGED <<executor, loggerVars, adder, answer, phase, given, lastField>>
    BY <1>3 DEF Release
  <2>2. CASE LoggerHolds(h)
    BY <1>0, <1>3, <2>1, <2>2 DEF Release, QuietCall, loggerVars
  <2>3. CASE ~LoggerHolds(h)
    <3>1. /\ destroying' = [destroying EXCEPT ![t] = {h}]
          /\ waits' = [waits EXCEPT ![t] = "release"]
      BY <1>3, <2>3 DEF Release, Blocks
    <3> QED BY <1>0, <2>1, <3>1 DEF QuietCall, loggerVars, TypeInv
  <2> QED BY <2>2, <2>3
<1> QED BY <1>1, <1>2, <1>3

LEMMA TakeSteps ==
  ASSUME TypeInv, NEW t \in Thread,
         \/ RunIdentify(t) \/ RunAddField(t) \/ RunSetMinSeverity(t) \/ RunAdd(t)
         \/ RunRemoveAll(t) \/ RunLog(t) \/ RunFlush(t) \/ RunStop(t) \/ ReplaceStep(t)
  PROVE  TakeStep(t)
<1> USE DEF outsideVars, historyVars
<1>0. ASSUME NEW kind, Works(kind, t)
      PROVE  /\ t \in Available(executor) /\ worker.kind = "idle" /\ WorkOf(t).kind = kind
             /\ executor' = TakeWork(executor, t)
             /\ executor'.work = TakeWork(executor, t).work /\ executor'.running
  BY <1>0, TakenType, WorkTaken DEF Works
<1>1. CASE RunIdentify(t)
  <2>1. Works("identify", t)
    BY <1>1 DEF RunIdentify
  <2> QED BY <1>0, <1>1, <2>1 DEF RunIdentify, TakeStep
<1>2. CASE RunAddField(t)
  <2>1. Works("addField", t)
    BY <1>2 DEF RunAddField
  <2> QED BY <1>0, <1>2, <2>1 DEF RunAddField, TakeStep
<1>3. CASE RunSetMinSeverity(t)
  <2>1. Works("setMinSeverity", t)
    BY <1>3 DEF RunSetMinSeverity
  <2> QED BY <1>0, <1>3, <2>1 DEF RunSetMinSeverity, Answers, TakeStep
<1>4. CASE RunAdd(t)
  <2>1. Works("add", t)
    BY <1>4 DEF RunAdd
  <2> QED BY <1>0, <1>4, <2>1 DEF RunAdd, Answers, TakeStep
<1>5. CASE RunRemoveAll(t)
  <2>1. Works("removeAllHandlers", t)
    BY <1>5 DEF RunRemoveAll
  <2> QED BY <1>0, <1>5, <2>1 DEF RunRemoveAll, Drops, TakeStep
<1>6. CASE RunLog(t)
  <2>1. Works("log", t)
    BY <1>6 DEF RunLog
  <2> QED BY <1>0, <1>6, <2>1 DEF RunLog, TakeStep
<1>7. CASE RunFlush(t)
  <2>1. Works("flush", t)
    BY <1>7 DEF RunFlush
  <2> QED BY <1>0, <1>7, <2>1 DEF RunFlush, Visits, TakeStep
<1>8. CASE RunStop(t)
  <2>1. /\ worker.kind = "idle" /\ t \in Available(executor) /\ WorkOf(t).kind = "stop"
        /\ executor' = [TakeWork(executor, t) EXCEPT !.running = FALSE]
    BY <1>8 DEF RunStop, Stop
  <2>2. executor'.work = TakeWork(executor, t).work /\ ~executor'.running
    BY <2>1, WorkTaken
  <2> QED BY <1>8, <2>1, <2>2 DEF RunStop, TakeStep, loggerVars
<1>9. CASE ReplaceStep(t)
  <2>1. Works("replace", t)
    BY <1>9 DEF ReplaceStep
  <2> QED BY <1>0, <1>9, <2>1 DEF ReplaceStep, Drops, TakeStep
<1> QED BY <1>1, <1>2, <1>3, <1>4, <1>5, <1>6, <1>7, <1>8, <1>9

LEMMA VisitSteps ==
  ASSUME TypeInv, DropPointer \/ Joined \/ AllDropped \/ HandOver \/ LogDone \/ FlushDone
  PROVE  VisitStep
<1> USE DEF outsideVars, historyVars
<1>1. CASE DropPointer
  BY <1>1 DEF DropPointer, Drops, VisitStep
<1>2. CASE Joined
  BY <1>2 DEF Joined, Drops, VisitStep
<1>3. CASE AllDropped
  BY <1>3 DEF AllDropped, Answers, VisitStep
<1>4. CASE HandOver
  <2>1. worker \in [kind : {"log"}, call : Call, todo : Seq(Handler), own : Nat]
    BY <1>4, WorkerTypes DEF HandOver
  <2> QED BY <1>4, <2>1 DEF HandOver, VisitStep
<1>5. CASE LogDone
  BY <1>5 DEF LogDone, VisitStep
<1>6. CASE FlushDone
  BY <1>6 DEF FlushDone, Answers, VisitStep
<1> QED BY <1>1, <1>2, <1>3, <1>4, <1>5, <1>6

LEMMA AsideSteps ==
  ASSUME Async \/ \E h \in Handler : HandlerThread(h)
  PROVE  AsideStep
BY DEF Async, FlushHandler, Judged, HandlerThread, AsideStep, outsideVars, historyVars,
       loggerVars, callVars

LEMMA Cases ==
  ASSUME TypeInv, Step
  PROVE  \/ \E t \in Thread :
              \/ \E item \in WorkItem : SendStep(t, item)
              \/ SilentCall(t) \/ GetHandlers(t)
              \/ \E h \in Handler : SetCreator(t, h) \/ Release(t, h)
              \/ TakeStep(t)
              \/ Return(t) \/ Destroyed(t) \/ StopExecutor(t) \/ JoinExecutor(t)
         \/ DropPointer \/ Joined \/ AllDropped \/ HandOver \/ LogDone \/ FlushDone
         \/ Async \/ \E h \in Handler : HandlerThread(h)
<1>1. ASSUME NEW t \in Thread, Application(t) \/ \E h \in Handler : AddHandler(t, h)
      PROVE  \/ \E item \in WorkItem : SendStep(t, item)
             \/ SilentCall(t) \/ GetHandlers(t)
             \/ \E h \in Handler : SetCreator(t, h) \/ Release(t, h)
             \/ Return(t) \/ Destroyed(t) \/ StopExecutor(t) \/ JoinExecutor(t)
  <2>1. CASE \/ \E level \in Level : Log(t, level) \/ SetMinSeverity(t, level)
             \/ AddField(t) \/ RemoveAllHandlers(t) \/ Flush(t) \/ DestroyLogger(t)
             \/ \E h \in Handler : AddHandler(t, h)
    BY <2>1, SendSteps
  <2> QED BY <1>1, <2>1 DEF Application
<1>2. ASSUME NEW t \in Thread,
             \/ RunIdentify(t) \/ RunAddField(t) \/ RunSetMinSeverity(t) \/ RunAdd(t)
             \/ RunRemoveAll(t) \/ RunLog(t) \/ RunFlush(t) \/ RunStop(t) \/ ReplaceStep(t)
      PROVE  TakeStep(t)
  BY <1>2, TakeSteps
<1> QED BY <1>1, <1>2 DEF Step, Worker

LEMMA Kinds ==
  ASSUME TypeInv, Step
  PROVE  \/ \E t \in Thread : \/ \E item \in WorkItem : SendStep(t, item)
                              \/ QuietCall(t) \/ TakeStep(t)
                              \/ Return(t) \/ Destroyed(t) \/ StopExecutor(t) \/ JoinExecutor(t)
         \/ VisitStep \/ AsideStep
BY Cases, QuietSteps, VisitSteps, AsideSteps DEF SilentCall

-----------------------------------------------------------------------------
(* The calls that are queued, being run, answered *)

Runs(t) == worker.kind # "idle" /\ worker.call[1] = t

CallsQueued == \A t \in Thread : \A i \in DOMAIN Work(t) :
  Work(t)[i].call[1] = t /\ Work(t)[i].call[2] <= calls[t]

CallsInOrder == \A t \in Thread : \A i, j \in DOMAIN Work(t) : i < j =>
  \/ Work(t)[i].call[2] < Work(t)[j].call[2]
  \/ /\ Work(t)[i].kind = "identify" /\ Work(t)[j].kind = "replace"
     /\ Work(t)[i].call[2] = Work(t)[j].call[2]

WorkerFirst == \A t \in Thread : Runs(t) =>
  /\ worker.call[2] <= calls[t]
  /\ \A i \in DOMAIN Work(t) : worker.call[2] < Work(t)[i].call[2]

AnswersMade == \A c \in Call : answer[c] # "none" => c[2] <= calls[c[1]]

QueueOK == CallsQueued /\ CallsInOrder /\ WorkerFirst /\ AnswersMade

-----------------------------------------------------------------------------
(* The end of the logger *)

WorkerStopped == ~executor.running => worker.kind = "idle" /\ phase \in {"stopping", "dead"}

Earlier(t) == /\ \A i \in DOMAIN Work(t) : Work(t)[i].call[2] < calls[t]
              /\ Runs(t) => worker.call[2] < calls[t]

Releasing == \A t \in Thread :
  /\ waits[t] = "release" => answer[<<t, calls[t]>>] = "none" /\ Earlier(t)
  /\ destroying[t] # {} => waits[t] = "release" \/ phase = "dead"

Removing == \A t \in Thread : waits[t] = "destroy" =>
  /\ phase # "alive"
  /\ phase = "removing" /\ answer[<<t, calls[t]>>] # "none" =>
       Work(t) = << >> /\ Earlier(t)
  /\ phase = "stopping" => \A i \in DOMAIN Work(t) : i = 1 /\ executor.running

OneDestroyer == \A t, u \in Thread :
  waits[t] = "destroy" /\ waits[u] = "destroy" /\ phase # "dead" => t = u

StopIsDestroyers == \A t \in Thread : \A i \in DOMAIN Work(t) :
  Work(t)[i].kind = "stop" => phase = "stopping" /\ waits[t] = "destroy"

EndOK == WorkerStopped /\ Releasing /\ Removing /\ OneDestroyer /\ StopIsDestroyers

LEMMA QueueStep ==
  ASSUME TypeInv, QueueOK, EndOK, Step
  PROVE  QueueOK'
<1> USE DEF QueueOK
<1>0. \A t \in Thread : /\ calls[t] \in Nat
                        /\ \A i \in DOMAIN Work(t) : Work(t)[i].call[2] \in Nat
  BY WorkItems, CallParts DEF TypeInv
<1>01. worker.kind # "idle" => worker.call[2] \in Nat
  BY WorkerTypes, CallParts
<1>02. \A c \in Call : c[1] \in Thread /\ c[2] \in Nat
  BY CallParts
<1>1. ASSUME NEW t \in Thread, NEW item \in WorkItem, SendStep(t, item) PROVE QueueOK'
  <2> DEFINE n == Len(Work(t))
  <2>1. /\ \A u \in Thread \ {t} : Work(u)' = Work(u)
        /\ DOMAIN Work(t)' = 1..(n + 1) /\ DOMAIN Work(t) = 1..n /\ n \in Nat
        /\ \A i \in 1..n : Work(t)'[i] = Work(t)[i]
        /\ Work(t)'[n + 1] = item
    BY <1>1, WorkSent, WorkItems DEF SendStep
  <2>2. /\ item.call = <<t, calls[t] + 1>> /\ item.kind # "stop"
        /\ calls'[t] = calls[t] + 1 /\ \A u \in Thread \ {t} : calls'[u] = calls[u]
        /\ worker' = worker /\ answer' = answer
    BY <1>1 DEF SendStep, This
  <2> HIDE DEF n
  <2>3. \A i \in 1..n : Work(t)'[i].call[1] = t /\ Work(t)'[i].call[2] <= calls[t]
    BY <2>1 DEF CallsQueued
  <2>4. CallsQueued'
    <3>1. ASSUME NEW u \in Thread, NEW i \in DOMAIN Work(u)'
          PROVE  Work(u)'[i].call[1] = u /\ Work(u)'[i].call[2] <= calls'[u]
      <4>1. CASE u = t /\ i \in 1..n
        BY <4>1, <1>0, <2>1, <2>2, <2>3
      <4>2. CASE u = t /\ i = n + 1
        BY <4>2, <1>0, <2>1, <2>2
      <4>3. CASE u # t
        BY <4>3, <2>1, <2>2 DEF CallsQueued
      <4> QED BY <2>1, <4>1, <4>2, <4>3
    <3> QED BY <3>1 DEF CallsQueued
  <2>5. CallsInOrder'
    <3>1. ASSUME NEW i \in 1..(n + 1), NEW j \in 1..(n + 1), i < j
          PROVE  \/ Work(t)'[i].call[2] < Work(t)'[j].call[2]
                 \/ /\ Work(t)'[i].kind = "identify" /\ Work(t)'[j].kind = "replace"
                    /\ Work(t)'[i].call[2] = Work(t)'[j].call[2]
      <4>1. CASE j \in 1..n
        BY <4>1, <3>1, <2>1 DEF CallsInOrder
      <4>2. CASE j = n + 1
        BY <4>2, <3>1, <1>0, <2>1, <2>2, <2>3
      <4> QED BY <2>1, <4>1, <4>2
    <3> QED BY <2>1, <3>1 DEF CallsInOrder
  <2>7. WorkerFirst'
    <3>1. ASSUME NEW u \in Thread, Runs(u), NEW i \in DOMAIN Work(u)'
          PROVE  worker.call[2] < Work(u)'[i].call[2]
      <4>1. CASE u = t /\ i = n + 1
        BY <4>1, <3>1, <1>0, <1>01, <2>1, <2>2 DEF WorkerFirst, Runs
      <4>2. CASE ~(u = t /\ i = n + 1)
        BY <4>2, <3>1, <2>1 DEF WorkerFirst
      <4> QED BY <4>1, <4>2
    <3>2. ASSUME NEW u \in Thread, Runs(u) PROVE worker.call[2] <= calls'[u]
      BY <3>2, <1>0, <1>01, <2>2 DEF WorkerFirst, Runs
    <3> QED BY <2>2, <3>1, <3>2 DEF WorkerFirst, Runs
  <2>6. AnswersMade'
    BY <1>0, <1>02, <2>2 DEF AnswersMade
  <2> QED BY <2>4, <2>5, <2>6, <2>7
<1>2. ASSUME NEW t \in Thread, QuietCall(t) PROVE QueueOK'
  <2>1. /\ executor' = executor /\ worker' = worker /\ answer' = answer
        /\ calls'[t] = calls[t] + 1 /\ \A u \in Thread \ {t} : calls'[u] = calls[u]
    BY <1>2 DEF QuietCall
  <2>2. CallsQueued' /\ CallsInOrder'
    BY <1>0, <2>1 DEF CallsQueued, CallsInOrder, Work
  <2>3. WorkerFirst'
    BY <1>0, <1>01, <2>1 DEF WorkerFirst, Runs, Work
  <2>4. AnswersMade'
    BY <1>0, <1>02, <2>1 DEF AnswersMade
  <2> QED BY <2>2, <2>3, <2>4
<1>3. ASSUME NEW t \in Thread, TakeStep(t) PROVE QueueOK'
  <2> DEFINE n == Len(Work(t))
  <2>1. /\ \A u \in Thread \ {t} : Work(u)' = Work(u)
        /\ DOMAIN Work(t)' = 1..(n - 1) /\ DOMAIN Work(t) = 1..n /\ n \in Nat /\ 1 \in DOMAIN Work(t)
        /\ \A i \in 1..(n - 1) : i + 1 \in 1..n /\ Work(t)'[i] = Work(t)[i + 1]
        /\ WorkOf(t) = Work(t)[1] /\ WorkOf(t).call \in Call
    <3>1. executor'.work = TakeWork(executor, t).work
      BY <1>3 DEF TakeStep
    <3>2. \A u \in Thread : Work(u)' = TakeWork(executor, t).work[u]
      BY <3>1 DEF Work
    <3> QED BY <1>3, <3>2, WorkTaken, WorkItems DEF TakeStep
  <2>2. /\ calls' = calls
        /\ worker.kind = "idle"
        /\ \/ worker' = worker
           \/ worker'.call = WorkOf(t).call /\ WorkOf(t).kind # "identify"
        /\ answer' = answer \/ answer' = [answer EXCEPT ![WorkOf(t).call] = "done"]
    BY <1>3 DEF TakeStep
  <2> HIDE DEF n
  <2>3. WorkOf(t).call[1] = t /\ WorkOf(t).call[2] <= calls[t]
    BY <2>1 DEF CallsQueued
  <2>4. CallsQueued'
    BY <2>1, <2>2 DEF CallsQueued
  <2>5. CallsInOrder'
    <3>1. ASSUME NEW u \in Thread, NEW i \in DOMAIN Work(u)', NEW j \in DOMAIN Work(u)', i < j
          PROVE  \/ Work(u)'[i].call[2] < Work(u)'[j].call[2]
                 \/ /\ Work(u)'[i].kind = "identify" /\ Work(u)'[j].kind = "replace"
                    /\ Work(u)'[i].call[2] = Work(u)'[j].call[2]
      <4>1. CASE u = t
        <5>1. /\ i + 1 \in DOMAIN Work(t) /\ j + 1 \in DOMAIN Work(t) /\ i + 1 < j + 1
              /\ Work(t)'[i] = Work(t)[i + 1] /\ Work(t)'[j] = Work(t)[j + 1]
          BY <2>1, <3>1, <4>1
        <5> QED BY <4>1, <5>1 DEF CallsInOrder
      <4>2. CASE u # t
        BY <2>1, <3>1, <4>2 DEF CallsInOrder
      <4> QED BY <4>1, <4>2
    <3> QED BY <3>1 DEF CallsInOrder
  <2>6. WorkerFirst'
    <3>1. ASSUME worker' # worker, NEW i \in DOMAIN Work(t)'
          PROVE  WorkOf(t).call[2] < Work(t)'[i].call[2]
      <4>1. 1 \in DOMAIN Work(t) /\ i + 1 \in DOMAIN Work(t) /\ 1 < i + 1
            /\ Work(t)'[i] = Work(t)[i + 1]
        BY <2>1
      <4> QED BY <4>1, <2>1, <2>2, <3>1 DEF CallsInOrder
    <3> QED BY <3>1, <2>1, <2>2, <2>3 DEF WorkerFirst, Runs
  <2>7. AnswersMade'
    BY <2>2, <2>3, <2>1 DEF AnswersMade, TypeInv
  <2> QED BY <2>4, <2>5, <2>6, <2>7
<1>4. ASSUME UNCHANGED <<executor, worker, calls, answer>> PROVE QueueOK'
  BY <1>4 DEF CallsQueued, CallsInOrder, WorkerFirst, Runs, AnswersMade, Work
<1>5. ASSUME NEW t \in Thread, StopExecutor(t) PROVE QueueOK'
  <2> DEFINE item == Item("stop", <<t, calls[t]>>, 0)
  <2>1. item \in WorkItem /\ item.call = <<t, calls[t]>>
    BY LastCall DEF Item, WorkItem
  <2>2. /\ executor' = SendWork(executor, t, item) /\ UNCHANGED <<worker, calls, answer>>
        /\ waits[t] = "destroy" /\ phase = "removing" /\ answer[<<t, calls[t]>>] # "none"
    BY <1>5 DEF StopExecutor, loggerVars, callVars
  <2> HIDE DEF item
  <2>3. Work(t) = << >> /\ Earlier(t)
    BY <2>2 DEF EndOK, Removing
  <2>4. /\ \A u \in Thread \ {t} : Work(u)' = Work(u)
        /\ DOMAIN Work(t)' = {1} /\ Work(t)'[1] = item
    <3>1. Len(Work(t)) = 0
      BY <2>3, NoItems
    <3>2. Len(Work(t)) + 1 = 1 /\ 1..(Len(Work(t)) + 1) = {1}
      BY <3>1
    <3>3. /\ \A u \in Thread \ {t} : Work(u)' = Work(u)
          /\ DOMAIN Work(t)' = 1..(Len(Work(t)) + 1) /\ Work(t)'[Len(Work(t)) + 1] = item
      BY <2>1, <2>2, WorkSent
    <3> QED BY <3>2, <3>3
  <2>5. CallsQueued'
    BY <1>0, <2>1, <2>2, <2>4 DEF CallsQueued
  <2>6. CallsInOrder'
    BY <2>4 DEF CallsInOrder
  <2>7. WorkerFirst'
    BY <2>1, <2>2, <2>3, <2>4 DEF WorkerFirst, Runs, Earlier
  <2>8. AnswersMade'
    BY <2>2 DEF AnswersMade
  <2> QED BY <2>5, <2>6, <2>7, <2>8
<1>6. ASSUME NEW t \in Thread, JoinExecutor(t) PROVE QueueOK'
  <2>1. \A u \in Thread : DOMAIN Work(u)' = {}
    BY <1>6, NoItems DEF JoinExecutor, DropWork, NoWork, Work, TypeInv
  <2>2. UNCHANGED <<worker, calls, answer>>
    BY <1>6 DEF JoinExecutor
  <2> QED BY <2>1, <2>2 DEF CallsQueued, CallsInOrder, WorkerFirst, Runs, AnswersMade
<1>7. CASE VisitStep
  <2>1. /\ UNCHANGED <<executor, calls>> /\ worker.kind # "idle"
        /\ worker' = NoWorkItem \/ worker'.call = worker.call
        /\ answer' = answer \/ \E value : answer' = [answer EXCEPT ![worker.call] = value]
    BY <1>7 DEF VisitStep
  <2>2. worker.call \in Call /\ worker.call[1] \in Thread
    BY <2>1, WorkerTypes, CallParts
  <2>3. worker.call[2] <= calls[worker.call[1]]
    BY <2>1, <2>2 DEF WorkerFirst, Runs
  <2>4. CallsQueued' /\ CallsInOrder'
    BY <2>1 DEF CallsQueued, CallsInOrder, Work
  <2>5. WorkerFirst'
    BY <2>1 DEF WorkerFirst, Runs, Work, NoWorkItem
  <2>6. AnswersMade'
    BY <2>1, <2>3 DEF AnswersMade, TypeInv
  <2> QED BY <2>4, <2>5, <2>6
<1>8. ASSUME NEW t \in Thread, Return(t) \/ Destroyed(t) PROVE QueueOK'
  <2>1. UNCHANGED <<executor, worker, calls, answer>>
    BY <1>8 DEF Return, Destroyed, loggerVars
  <2> QED BY <2>1, <1>4
<1>9. CASE AsideStep
  BY <1>4, <1>9 DEF AsideStep
<1> QED BY <1>1, <1>2, <1>3, <1>5, <1>6, <1>7, <1>8, <1>9, Kinds

LEMMA EndStep ==
  ASSUME TypeInv, TypeInv', QueueOK, EndOK, Step
  PROVE  EndOK'
<1> USE DEF EndOK
<1>0. /\ \A t \in Thread : /\ calls[t] \in Nat /\ <<t, calls[t]>> \in Call
                           /\ \A i \in DOMAIN Work(t) : Work(t)[i].call[2] \in Nat
      /\ worker.kind # "idle" => worker.call \in Call /\ worker.call[2] \in Nat
      /\ executor.running \in BOOLEAN
  BY WorkItems, WorkerTypes, LastCall, CallParts DEF TypeInv
<1>01. \A t \in Thread : calls[t] \in Nat
  BY DEF TypeInv
<1>1. ASSUME NEW t \in Thread, NEW item \in WorkItem, SendStep(t, item) PROVE EndOK'
  <2>1. /\ \A u \in Thread \ {t} : /\ Work(u)' = Work(u) /\ calls'[u] = calls[u]
                                   /\ waits'[u] = waits[u]
        /\ executor'.running = executor.running /\ calls'[t] = calls[t] + 1
        /\ UNCHANGED <<worker, answer, destroying>> /\ phase = "alive" /\ waits[t] = "no"
        /\ waits'[t] # "release" /\ (waits'[t] = "destroy" => phase' = "removing")
        /\ phase' \in {"alive", "removing"}
        /\ \A u \in Thread : waits'[u] = "destroy" => u = t
    BY <1>1, WorkSent DEF SendStep, Removing
  <2>2. \A u \in Thread : \A i \in DOMAIN Work(u)' : Work(u)'[i].kind # "stop"
    <3>1. \A u \in Thread \ {t} : \A i \in DOMAIN Work(u)' : Work(u)'[i].kind # "stop"
      BY <2>1 DEF StopIsDestroyers
    <3>2. ASSUME NEW i \in DOMAIN Work(t)' PROVE Work(t)'[i].kind # "stop"
      <4>1. /\ DOMAIN Work(t)' = 1..(Len(Work(t)) + 1) /\ Len(Work(t)) \in Nat
            /\ DOMAIN Work(t) = 1..Len(Work(t))
            /\ \A k \in 1..Len(Work(t)) : Work(t)'[k] = Work(t)[k]
            /\ Work(t)'[Len(Work(t)) + 1] = item /\ item.kind # "stop"
        BY <1>1, WorkSent, WorkItems DEF SendStep
      <4>2. CASE i \in DOMAIN Work(t)
        BY <4>1, <4>2, <2>1 DEF StopIsDestroyers
      <4>3. CASE i = Len(Work(t)) + 1
        BY <4>1, <4>3
      <4> QED BY <4>1, <4>2, <4>3
    <3> QED BY <3>1, <3>2
  <2>3. answer[<<t, calls'[t]>>] = "none"
    <3>1. calls'[t] \in 0..MaxCall[t]
      BY LoggerAssumption DEF TypeInv
    <3>2. <<t, calls'[t]>> \in Call
      BY <3>1, CallMade
    <3>3. answer[<<t, calls'[t]>>] # "none" => calls'[t] <= calls[t]
      BY <3>2 DEF QueueOK, AnswersMade
    <3>4. calls'[t] = calls[t] + 1
      BY <2>1
    <3> QED BY <3>3, <3>4, <1>01
  <2>4. Releasing'
    BY <2>1 DEF Releasing, Earlier, Runs
  <2>5. Removing'
    BY <2>1, <2>3 DEF Removing
  <2> QED BY <2>1, <2>2, <2>4, <2>5 DEF WorkerStopped, OneDestroyer, StopIsDestroyers
<1>2. ASSUME NEW t \in Thread, QuietCall(t) PROVE EndOK'
  <2>1. /\ UNCHANGED <<executor, worker, answer, phase>> /\ waits[t] = "no"
        /\ calls'[t] = calls[t] + 1
        /\ \A u \in Thread \ {t} : /\ calls'[u] = calls[u] /\ waits'[u] = waits[u]
                                   /\ destroying'[u] = destroying[u]
        /\ \/ waits'[t] = "no" /\ destroying'[t] = destroying[t]
           \/ waits'[t] = "release"
        /\ \A u \in Thread : Work(u)' = Work(u)
    BY <1>2 DEF QuietCall, Work
  <2>2. answer[<<t, calls'[t]>>] = "none"
    <3>1. calls'[t] \in 0..MaxCall[t]
      BY LoggerAssumption DEF TypeInv
    <3>2. <<t, calls'[t]>> \in Call
      BY <3>1, CallMade
    <3>3. answer[<<t, calls'[t]>>] # "none" => calls'[t] <= calls[t]
      BY <3>2 DEF QueueOK, AnswersMade
    <3>4. calls'[t] = calls[t] + 1
      BY <2>1
    <3> QED BY <3>3, <3>4, <1>01
  <2>3. Earlier(t)'
    <3>1. \A i \in DOMAIN Work(t)' : Work(t)'[i].call[2] < calls'[t]
      <4>1. calls'[t] = calls[t] + 1 /\ Work(t)' = Work(t)
        BY <2>1
      <4>2. \A i \in DOMAIN Work(t) : Work(t)[i].call[2] <= calls[t] /\ Work(t)[i].call[2] \in Nat
        BY <1>0 DEF QueueOK, CallsQueued
      <4> QED BY <1>01, <4>1, <4>2
    <3>2. Runs(t)' => worker'.call[2] < calls'[t]
      BY <1>0, <1>01, <2>1 DEF Runs, QueueOK, WorkerFirst
    <3> QED BY <3>1, <3>2 DEF Earlier
  <2>4. Releasing'
    BY <2>1, <2>2, <2>3 DEF Releasing, Earlier, Runs
  <2>5. Removing' /\ OneDestroyer'
    BY <2>1 DEF Removing, OneDestroyer, Earlier, Runs
  <2>6. StopIsDestroyers' /\ WorkerStopped'
    BY <2>1 DEF StopIsDestroyers, WorkerStopped
  <2> QED BY <2>4, <2>5, <2>6
<1>3. ASSUME NEW t \in Thread, TakeStep(t) PROVE EndOK'
  <2> DEFINE n == Len(Work(t))
             c == WorkOf(t).call
  <2>1. /\ \A u \in Thread \ {t} : Work(u)' = Work(u)
        /\ DOMAIN Work(t)' = 1..(n - 1) /\ DOMAIN Work(t) = 1..n /\ n \in Nat /\ 1 \in DOMAIN Work(t)
        /\ \A i \in 1..(n - 1) : i + 1 \in 1..n /\ Work(t)'[i] = Work(t)[i + 1]
        /\ WorkOf(t) = Work(t)[1] /\ c \in Call /\ Work(t) # << >> /\ executor.running
    <3>1. executor'.work = TakeWork(executor, t).work
      BY <1>3 DEF TakeStep
    <3>2. \A u \in Thread : Work(u)' = TakeWork(executor, t).work[u]
      BY <3>1 DEF Work
    <3> QED BY <1>3, <3>2, WorkTaken, WorkItems DEF TakeStep
  <2>2. /\ UNCHANGED <<calls, waits, destroying, phase>> /\ worker.kind = "idle"
        /\ \/ worker' = worker
           \/ worker'.call = c /\ WorkOf(t).kind # "stop" /\ answer' = answer
        /\ \/ answer' = answer
           \/ /\ answer' = [answer EXCEPT ![c] = "done"]
              /\ WorkOf(t).kind \in {"add", "setMinSeverity"} /\ worker' = worker
        /\ IF WorkOf(t).kind = "stop" THEN ~executor'.running ELSE executor'.running
    BY <1>3 DEF TakeStep
  <2> HIDE DEF n, c
  <2>3. c[1] = t /\ c[2] <= calls[t] /\ c[2] \in Nat
    BY <2>1, CallParts DEF QueueOK, CallsQueued, c
  <2>4. ASSUME NEW u \in Thread, Earlier(u) PROVE Earlier(u)'
    <3>1. \A i \in DOMAIN Work(u)' : Work(u)'[i].call[2] < calls[u]
      BY <2>1, <2>4 DEF Earlier
    <3>2. Runs(u)' => worker'.call[2] < calls[u]
      <4>1. CASE worker' = worker
        BY <4>1, <2>2 DEF Runs
      <4>2. CASE worker'.call = c /\ u = t
        BY <4>2, <2>1, <2>4 DEF Earlier, c
      <4>3. CASE worker'.call = c /\ u # t
        BY <4>3, <2>3 DEF Runs
      <4> QED BY <4>1, <4>2, <4>3, <2>2
    <3> QED BY <2>2, <3>1, <3>2 DEF Earlier
  <2>5. Releasing'
    <3>1. ASSUME NEW u \in Thread, waits[u] = "release" PROVE answer'[<<u, calls[u]>>] = "none"
      <4>1. Earlier(u) /\ answer[<<u, calls[u]>>] = "none" /\ <<u, calls[u]>> \in Call
        BY <3>1, <1>0 DEF Releasing
      <4>2. <<u, calls[u]>> # c
        BY <1>0, <4>1, <2>1, <2>3 DEF Earlier, c
      <4> QED BY <4>1, <4>2, <2>2 DEF TypeInv
    <3> QED BY <2>2, <2>4, <3>1 DEF Releasing
  <2>6. Removing'
    <3> SUFFICES ASSUME NEW u \in Thread, waits[u] = "destroy"
                 PROVE  /\ phase = "removing" /\ answer'[<<u, calls[u]>>] # "none" =>
                             Work(u)' = << >> /\ Earlier(u)'
                        /\ phase = "stopping" => \A i \in DOMAIN Work(u)' : i = 1 /\ executor'.running
      BY <2>2 DEF Removing
    <3>1. CASE phase = "removing" /\ answer[<<u, calls[u]>>] # "none"
      BY <3>1, <2>1, <2>4 DEF Removing
    <3>2. CASE /\ phase = "removing" /\ answer[<<u, calls[u]>>] = "none"
               /\ answer'[<<u, calls[u]>>] # "none"
      <4>1. /\ c = <<u, calls[u]>> /\ u = t /\ worker' = worker
            /\ WorkOf(t).kind \in {"add", "setMinSeverity"}
        BY <3>2, <1>0, <2>2, <2>3 DEF TypeInv
      <4>2. ~ 1 \in DOMAIN Work(t)'
        <5> SUFFICES ASSUME 1 \in DOMAIN Work(t)' PROVE FALSE
          OBVIOUS
        <5>1. 2 \in DOMAIN Work(t) /\ 1 < 2
          BY <2>1
        <5>2. Work(t)[1].call[2] < Work(t)[2].call[2]
          BY <2>1, <5>1, <4>1 DEF QueueOK, CallsInOrder
        <5>3. Work(t)[2].call[2] <= calls[t]
          BY <5>1 DEF QueueOK, CallsQueued
        <5> QED BY <1>0, <2>1, <4>1, <5>1, <5>2, <5>3 DEF c
      <4>3. Work(t)' = << >> /\ DOMAIN Work(t)' = {}
        <5>1. Work(t)' \in Seq(WorkItem)
          BY DEF TypeInv, Work
        <5>2. Work(t)' = << >>
          BY <4>2, <5>1, Items
        <5> QED BY <5>2, NoItems
      <4> QED BY <4>1, <4>3, <2>2 DEF Earlier, Runs
    <3>3. CASE phase = "stopping"
      <4>1. ASSUME NEW i \in DOMAIN Work(u)' PROVE i = 1 /\ executor'.running
        <5>1. u # t
          <6>1. ASSUME u = t PROVE FALSE
            <7>1. n - 1 >= 1 /\ i \in 1..(n - 1)
              BY <2>1, <4>1, <6>1
            <7>2. 2 \in DOMAIN Work(t)
              BY <2>1, <7>1
            <7> QED BY <7>2, <6>1, <3>3 DEF Removing
          <6> QED BY <6>1
        <5>2. i = 1 /\ i \in DOMAIN Work(u)
          BY <3>3, <5>1, <2>1, <4>1 DEF Removing
        <5>3. WorkOf(t).kind # "stop"
          BY <3>3, <5>1, <2>1 DEF StopIsDestroyers, OneDestroyer
        <5> QED BY <5>2, <5>3, <2>2
      <4> QED BY <3>3, <4>1
    <3> QED BY <3>1, <3>2, <3>3
  <2>7. OneDestroyer'
    BY <2>2 DEF OneDestroyer
  <2>8. StopIsDestroyers'
    BY <2>1, <2>2 DEF StopIsDestroyers
  <2>9. WorkerStopped'
    BY <2>1, <2>2 DEF WorkerStopped, StopIsDestroyers
  <2> QED BY <2>5, <2>6, <2>7, <2>8, <2>9
<1>4. ASSUME NEW t \in Thread, Return(t) PROVE EndOK'
  <2>1. /\ UNCHANGED <<executor, worker, calls, answer, destroying, phase>> /\ waits'[t] = "no"
        /\ phase = "alive" /\ answer[<<t, calls[t]>>] # "none"
        /\ \A u \in Thread \ {t} : waits'[u] = waits[u]
        /\ \A u \in Thread : Work(u)' = Work(u)
    BY <1>4 DEF Return, Blocks, loggerVars, Work, TypeInv
  <2>2. Releasing'
    BY <2>1 DEF Releasing, Earlier, Runs
  <2>3. Removing' /\ OneDestroyer'
    BY <2>1 DEF Removing, OneDestroyer, Earlier, Runs
  <2>4. StopIsDestroyers' /\ WorkerStopped'
    BY <2>1 DEF StopIsDestroyers, WorkerStopped
  <2> QED BY <2>2, <2>3, <2>4
<1>5. ASSUME NEW t \in Thread, Destroyed(t) PROVE EndOK'
  <2>1. /\ UNCHANGED <<executor, worker, calls, answer, phase>> /\ waits'[t] = "no"
        /\ destroying[t] # {} /\ destroying'[t] = {}
        /\ \A u \in Thread \ {t} : waits'[u] = waits[u] /\ destroying'[u] = destroying[u]
        /\ \A u \in Thread : Work(u)' = Work(u)
    BY <1>5 DEF Destroyed, Blocks, loggerVars, Work, TypeInv
  <2>2. Releasing'
    BY <2>1 DEF Releasing, Earlier, Runs
  <2>3. Removing' /\ OneDestroyer'
    BY <2>1 DEF Removing, OneDestroyer, Earlier, Runs
  <2>4. StopIsDestroyers' /\ WorkerStopped'
    BY <2>1 DEF StopIsDestroyers, WorkerStopped, Releasing
  <2> QED BY <2>2, <2>3, <2>4
<1>6. ASSUME NEW t \in Thread, StopExecutor(t) PROVE EndOK'
  <2> DEFINE item == Item("stop", <<t, calls[t]>>, 0)
  <2>1. item \in WorkItem
    BY LastCall DEF Item, WorkItem
  <2>2. /\ executor' = SendWork(executor, t, item) /\ UNCHANGED <<worker, calls, answer, waits, destroying>>
        /\ waits[t] = "destroy" /\ phase = "removing" /\ phase' = "stopping"
        /\ answer[<<t, calls[t]>>] # "none"
    BY <1>6 DEF StopExecutor, loggerVars, callVars
  <2>3. \A u \in Thread : waits[u] = "destroy" => u = t
    BY <2>2 DEF OneDestroyer
  <2>4. Work(t) = << >> /\ executor.running
    BY <1>0, <2>2 DEF Removing, WorkerStopped
  <2> HIDE DEF item
  <2>5. /\ \A u \in Thread \ {t} : Work(u)' = Work(u)
        /\ DOMAIN Work(t)' = {1} /\ executor'.running = executor.running
    <3>1. Len(Work(t)) + 1 = 1 /\ 1..(Len(Work(t)) + 1) = {1}
      BY <2>4, NoItems
    <3> QED BY <2>1, <2>2, <3>1, WorkSent
  <2>6. Releasing'
    BY <2>2, <2>5 DEF Releasing, Earlier, Runs
  <2>7. Removing' /\ OneDestroyer'
    BY <2>2, <2>3, <2>4, <2>5 DEF Removing, OneDestroyer
  <2>8. StopIsDestroyers' /\ WorkerStopped'
    BY <2>2, <2>4, <2>5 DEF StopIsDestroyers, WorkerStopped
  <2> QED BY <2>6, <2>7, <2>8
<1>7. ASSUME NEW t \in Thread, JoinExecutor(t) PROVE EndOK'
  <2>1. /\ phase' = "dead" /\ ~executor.running /\ UNCHANGED <<worker, calls, answer>>
        /\ executor' = DropWork(executor) /\ waits[t] = "destroy" /\ phase = "stopping"
        /\ waits'[t] # "release"
        /\ \A u \in Thread \ {t} : waits'[u] = waits[u] /\ destroying'[u] = destroying[u]
    BY <1>7 DEF JoinExecutor, Blocks, TypeInv
  <2>2. /\ \A u \in Thread : DOMAIN Work(u)' = {}
        /\ executor'.running = executor.running
    BY <2>1, NoItems DEF DropWork, NoWork, Work, TypeInv
  <2>3. Releasing'
    BY <2>1, <2>2 DEF Releasing, Earlier, Runs
  <2>4. Removing' /\ OneDestroyer'
    BY <2>1 DEF Removing, OneDestroyer
  <2>5. StopIsDestroyers' /\ WorkerStopped'
    BY <2>1, <2>2 DEF StopIsDestroyers, WorkerStopped
  <2> QED BY <2>3, <2>4, <2>5
<1>8. CASE VisitStep
  <2>1. /\ UNCHANGED <<executor, calls, waits, destroying, phase>> /\ worker.kind # "idle"
        /\ worker' = NoWorkItem \/ worker'.call = worker.call
        /\ \/ answer' = answer
           \/ /\ \E value : answer' = [answer EXCEPT ![worker.call] = value]
              /\ worker' = NoWorkItem
        /\ \A u \in Thread : Work(u)' = Work(u)
    BY <1>8 DEF VisitStep, Work
  <2>2. \A u \in Thread : Earlier(u) => Earlier(u)'
    BY <2>1 DEF Earlier, Runs, NoWorkItem
  <2>3. Releasing'
    <3>1. ASSUME NEW u \in Thread, waits[u] = "release" PROVE answer'[<<u, calls[u]>>] = "none"
      <4>1. Earlier(u) /\ answer[<<u, calls[u]>>] = "none" /\ <<u, calls[u]>> \in Call
        BY <3>1, <1>0 DEF Releasing
      <4>2. <<u, calls[u]>> # worker.call
        BY <1>0, <4>1, <2>1 DEF Earlier, Runs
      <4> QED BY <4>1, <4>2, <2>1 DEF TypeInv
    <3> QED BY <2>1, <2>2, <3>1 DEF Releasing
  <2>4. Removing'
    <3> SUFFICES ASSUME NEW u \in Thread, waits[u] = "destroy", phase = "removing",
                        answer'[<<u, calls[u]>>] # "none"
                 PROVE  Work(u) = << >> /\ Earlier(u)'
      BY <2>1 DEF Removing
    <3>1. CASE answer[<<u, calls[u]>>] # "none"
      BY <3>1, <2>2 DEF Removing
    <3>2. CASE answer[<<u, calls[u]>>] = "none"
      <4>1. worker.call = <<u, calls[u]>> /\ worker' = NoWorkItem
        BY <3>2, <1>0, <2>1 DEF TypeInv
      <4>2. ~ 1 \in DOMAIN Work(u)
        BY <4>1, <1>0, <2>1 DEF QueueOK, CallsQueued, WorkerFirst, Runs
      <4>3. Work(u) = << >> /\ DOMAIN Work(u) = {}
        BY <4>2, WorkItems, Items, NoItems
      <4> QED BY <4>1, <4>3, <2>1 DEF Earlier, Runs, NoWorkItem
    <3> QED BY <3>1, <3>2
  <2>5. OneDestroyer' /\ StopIsDestroyers'
    BY <2>1 DEF OneDestroyer, StopIsDestroyers
  <2>6. WorkerStopped'
    BY <2>1 DEF WorkerStopped
  <2> QED BY <2>3, <2>4, <2>5, <2>6
<1>9. CASE AsideStep
  BY <1>9 DEF AsideStep, WorkerStopped, Releasing, Removing, OneDestroyer, StopIsDestroyers,
              Earlier, Runs, Work
<1> QED BY <1>1, <1>2, <1>3, <1>4, <1>5, <1>6, <1>7, <1>8, <1>9, Kinds

-----------------------------------------------------------------------------
(* The start.  Logger's constructor also sends the work that adds a handler.      *)

Starts(sent, owned) ==
  /\ Constructed(sent, owned)
  /\ \/ sent = <<Identify>> /\ owned = Handler
     \/ \E h \in Handler : /\ sent = <<Identify, Item("replace", <<Main, 0>>, h)>>
                           /\ owned = Handler \ {h}

LEMMA StartWork ==
  ASSUME NEW sent, NEW owned, Starts(sent, owned)
  PROVE  /\ <<Main, 0>> \in Call
         /\ executor \in [work : [Thread -> Seq(WorkItem)], running : {TRUE}]
         /\ Work(Main) = sent /\ \A t \in Thread \ {Main} : Work(t) = << >>
         /\ DOMAIN sent = {1} \/ (DOMAIN sent = {1, 2} /\ sent[2].kind = "replace"
              /\ sent[2].call = <<Main, 0>> /\ owned = Handler \ {sent[2].arg}
              /\ sent[2].arg \in Handler)
         /\ DOMAIN sent = {1} => owned = Handler
         /\ sent[1].kind = "identify" /\ sent[1].call = <<Main, 0>>
<1>1. Main \in Thread /\ <<Main, 0>> \in Call
  BY CallMade, LoggerAssumption
<1>2. Identify \in WorkItem /\ \A h \in Handler : Item("replace", <<Main, 0>>, h) \in WorkItem
  BY <1>1 DEF Identify, Item, WorkItem
<1>3. sent \in Seq(WorkItem)
  <2>1. /\ \A x \in WorkItem : <<x>> \in Seq(WorkItem)
        /\ \A x, y \in WorkItem : <<x, y>> \in Seq(WorkItem)
    OBVIOUS
  <2> QED BY <1>2, <2>1 DEF Starts
<1>4. [t \in Thread |-> IF t = Main THEN sent ELSE << >>] \in [Thread -> Seq(WorkItem)]
  BY <1>3, NoItems
<1>5. executor = [work |-> [t \in Thread |-> IF t = Main THEN sent ELSE << >>], running |-> TRUE]
  BY <1>1 DEF Starts, Constructed, NewExecutor, NoWork
<1>6. Work(Main) = sent /\ \A t \in Thread \ {Main} : Work(t) = << >>
  BY <1>1, <1>5 DEF Work
<1>7. CASE sent = <<Identify>> /\ owned = Handler
  BY <1>1, <1>4, <1>5, <1>6, <1>7 DEF Identify, Item
<1>8. ASSUME NEW h \in Handler, sent = <<Identify, Item("replace", <<Main, 0>>, h)>>,
             owned = Handler \ {h}
      PROVE  /\ DOMAIN sent = {1, 2} /\ sent[2] = Item("replace", <<Main, 0>>, h)
             /\ sent[1] = Identify
  BY <1>8
<1> QED BY <1>1, <1>4, <1>5, <1>6, <1>7, <1>8 DEF Starts, Identify, Item

LEMMA StartTypes ==
  ASSUME NEW sent, NEW owned, Starts(sent, owned)
  PROVE  TypeInv
<1>1. owned \subseteq Handler /\ Constructed(sent, owned) /\ <<Main, 0>> \in Call
  BY StartWork DEF Starts
<1>2. \A h \in Handler :
        NewHandler(Producer, IF h \in Graylog THEN Capacity ELSE 0) \in HandlerState
  <2>1. \A n \in Nat : NewHandler(Producer, n) \in HandlerState
    BY NoItems DEF NewHandler, NewExecutor, NoWork, HandlerState, Formatter
  <2> QED BY <2>1, LoggerAssumption
<1>3. executor \in [work : [Thread -> Seq(WorkItem)], running : BOOLEAN]
  BY StartWork
<1>4. sink \in [Handler -> HandlerState] /\ given \in [Handler -> Seq(LogMessage)]
  BY <1>1, <1>2, NoItems DEF Constructed
<1>5. handlers \in Seq(Handler) /\ DOMAIN flushing = {}
  BY <1>1, NoItems DEF Constructed
<1>6. adder \in [Handler -> Call \cup {NoCall}] /\ calls \in [Thread -> Nat]
      /\ \A t \in Thread : calls[t] <= MaxCall[t]
  BY <1>1, LoggerAssumption DEF Constructed
<1> QED BY <1>1, <1>3, <1>4, <1>5, <1>6 DEF Constructed, TypeInv, WorkerState, Wait, Producer

LEMMA StartOrder ==
  ASSUME NEW sent, NEW owned, Starts(sent, owned)
  PROVE  QueueOK /\ EndOK
<1>1. /\ executor.running /\ worker.kind = "idle" /\ phase = "alive"
      /\ calls = [t \in Thread |-> 0] /\ waits = [t \in Thread |-> "no"]
      /\ answer = [c \in Call |-> "none"] /\ destroying = [t \in Thread |-> {}]
  BY StartWork DEF Starts, Constructed, NoWorkItem
<1>2. \A t \in Thread : \A i \in DOMAIN Work(t) :
        /\ Work(t)[i].kind # "stop" /\ Work(t)[i].call = <<Main, 0>> /\ t = Main
        /\ i = 1 \/ i = 2
        /\ i = 1 => Work(t)[i].kind = "identify"
        /\ i = 2 => Work(t)[i].kind = "replace"
  <2>1. \A t \in Thread \ {Main} : DOMAIN Work(t) = {}
    BY StartWork, NoItems
  <2>2. /\ Work(Main) = sent /\ sent[1].kind = "identify" /\ sent[1].call = <<Main, 0>>
        /\ DOMAIN sent = {1} \/ (DOMAIN sent = {1, 2} /\ sent[2].kind = "replace"
                                 /\ sent[2].call = <<Main, 0>>)
    BY StartWork
  <2>3. ASSUME NEW t \in Thread, NEW i \in DOMAIN Work(t)
        PROVE  t = Main /\ Work(t)[i] = sent[i] /\ i \in DOMAIN sent
    BY <2>1, <2>2
  <2> QED BY <2>2, <2>3
<1>3. QueueOK
  BY <1>1, <1>2 DEF QueueOK, CallsQueued, CallsInOrder, WorkerFirst, AnswersMade, Runs
<1>4. EndOK
  BY <1>1, <1>2 DEF EndOK, WorkerStopped, Releasing, Removing, OneDestroyer, StopIsDestroyers
<1> QED BY <1>3, <1>4

-----------------------------------------------------------------------------
(* Theorems                                                                     *)

LEMMA BaseStarts == Init => Starts(<<Identify>>, Handler)
BY DEF Init, Starts

LEMMA BaseSteps == Next => Step
BY DEF Next, Step, AddHandler

LEMMA Stutters == UNCHANGED vars =>
  /\ TypeInv => TypeInv'
  /\ QueueOK /\ EndOK => QueueOK' /\ EndOK'
<1> SUFFICES ASSUME UNCHANGED vars
             PROVE  /\ TypeInv => TypeInv'
                    /\ QueueOK /\ EndOK => QueueOK' /\ EndOK'
  OBVIOUS
<1> USE DEF vars, loggerVars, callVars, historyVars
<1>1. TypeInv => TypeInv'
  BY DEF TypeInv
<1>2. QueueOK => QueueOK'
  BY DEF QueueOK, CallsQueued, CallsInOrder, WorkerFirst, AnswersMade, Runs, Work
<1>3. EndOK => EndOK'
  BY DEF EndOK, WorkerStopped, Releasing, Removing, OneDestroyer, StopIsDestroyers,
         Earlier, Runs, Work
<1> QED BY <1>1, <1>2, <1>3

LEMMA TypeMeans == TypeInv => TypeOK
<1> SUFFICES ASSUME TypeInv PROVE TypeOK
  OBVIOUS
<1>1. \A t \in Thread : \A i \in DOMAIN executor.work[t] : executor.work[t][i].call \in Call
  BY WorkItems DEF Work
<1>2. /\ worker.kind \in {"idle", "log", "drop", "join", "flush"}
      /\ worker.call \in Call \cup {NoCall} /\ Set(worker.todo) \subseteq Handler
      /\ worker.kind \in {"drop", "join"} => Set(worker.left) \subseteq Handler
  BY WorkerTypes, Items
<1>3. Set(handlers) \subseteq Handler
  BY Items DEF TypeInv
<1>4. \A h \in Handler : /\ sink[h].creator \in {"default", "custom"}
                         /\ sink[h].reached \subseteq Call
                         /\ Set(given[h]) \subseteq LogMessage
  BY Items DEF TypeInv, HandlerState, Formatter
<1>5. \A t \in Thread : calls[t] \in 0..MaxCall[t]
  BY LoggerAssumption DEF TypeInv
<1> QED BY <1>1, <1>2, <1>3, <1>4, <1>5 DEF TypeInv, TypeOK

\* The variables have their types, of any threads, handlers and severities.
THEOREM LoggingTypes == Spec => []TypeOK
<1>1. Init => TypeInv
  BY BaseStarts, StartTypes
<1>2. TypeInv /\ [Next]_vars => TypeInv'
  BY BaseSteps, TypeStep, Stutters
<1> QED BY <1>1, <1>2, TypeMeans, PTL DEF Spec

\* What a thread has queued is later than what the worker runs for it, in the order
\* of its calls; a call is answered after it is made; a logger that ends has no
\* work left of the thread that ends it.
THEOREM CallsKeepOrder == Spec => [](TypeInv /\ QueueOK /\ EndOK)
<1>1. Init => TypeInv /\ QueueOK /\ EndOK
  BY BaseStarts, StartTypes, StartOrder
<1>2. TypeInv /\ QueueOK /\ EndOK /\ [Next]_vars => (TypeInv /\ QueueOK /\ EndOK)'
  BY BaseSteps, TypeStep, QueueStep, EndStep, Stutters
<1> QED BY <1>1, <1>2, PTL DEF Spec

LEMMA DestroyerMeans == TypeInv /\ EndOK => DestroyerLosesNothing
<1> SUFFICES ASSUME TypeInv, EndOK, phase = "stopping", ~executor.running,
                    NEW t \in Thread, waits[t] = "destroy"
             PROVE  Work(t) = << >>
  BY DEF DestroyerLosesNothing, Work
<1>1. ~ 1 \in DOMAIN Work(t)
  BY DEF EndOK, Removing
<1> QED BY <1>1, WorkItems, Items

\* When the executor has stopped, nothing is left in the queue of the thread that
\* destroys the logger: its messages were run, its handlers added.
THEOREM DestroyerLeavesNothing == Spec => []DestroyerLosesNothing
BY DestroyerMeans, CallsKeepOrder, PTL
=============================================================================
