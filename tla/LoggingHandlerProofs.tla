------------------------- MODULE LoggingHandlerProofs -------------------------
(* Theorems about LoggingBase and its handlers: who can reach a handler, what it  *)
(* is given, and what it makes of it.                                            *)
EXTENDS LoggingBaseProofs

USE DEF pointerVars

-----------------------------------------------------------------------------
(* Who can reach a handler                                                      *)

\* The worker clears Handlers, or it drops the pointer that it has replaced.
Clearing == worker.kind \in {"drop", "join"} /\ worker.left = << >>

VisitsHandlers ==
  /\ worker.kind \in {"log", "flush"} => Set(worker.todo) \subseteq Set(handlers)
  /\ DOMAIN flushing = IF worker.kind = "flush" THEN Set(handlers) ELSE {}
  /\ worker.kind \in {"drop", "join"} =>
       \/ worker.left = << >> /\ Set(worker.todo) \subseteq Set(handlers)
       \/ worker.left = handlers /\ Set(worker.todo) \subseteq dropped

Unreachable == \A h \in Handler : stopper[h] # Nobody =>
  /\ h \notin held \cup Carried
  /\ ~Clearing => h \notin Set(handlers)
  /\ worker.kind \in {"log", "drop"} => h \notin Set(worker.todo)
  /\ worker.kind = "join" => h \notin Set(Tail(worker.todo))

CopiesKnown == dangling \subseteq dropped \cup (IF Clearing THEN Set(handlers) ELSE {})

LifeOK == VisitsHandlers /\ Unreachable /\ CopiesKnown

LEMMA CarriedMeans ==
  \A h \in Handler : h \in Carried <=>
    \E t \in Thread : \E i \in DOMAIN Work(t) :
      Work(t)[i].kind \in Adding /\ Work(t)[i].arg = h
BY DEF Carried, Work, Adding

LEMMA CarriedSent ==
  ASSUME TypeInv, NEW t \in Thread, NEW item \in WorkItem, SendStep(t, item)
  PROVE  /\ Carried' \subseteq Carried \cup held
         /\ \A h \in Carried' : h \in Carried \/ (item.kind \in Adding /\ h = item.arg)
<1>1. /\ \A u \in Thread \ {t} : Work(u)' = Work(u)
      /\ DOMAIN Work(t)' = 1..(Len(Work(t)) + 1) /\ DOMAIN Work(t) = 1..Len(Work(t))
      /\ Len(Work(t)) \in Nat
      /\ \A k \in 1..Len(Work(t)) : Work(t)'[k] = Work(t)[k]
      /\ Work(t)'[Len(Work(t)) + 1] = item /\ (item.kind \in Adding => item.arg \in held)
  BY WorkSent, WorkItems DEF SendStep
<1>2. ASSUME NEW h \in Carried'
      PROVE  h \in Carried \/ (item.kind \in Adding /\ h = item.arg)
  <2>0. PICK u \in Thread : \E i \in DOMAIN Work(u)' :
          h \in Handler /\ Work(u)'[i].kind \in Adding /\ Work(u)'[i].arg = h
    BY <1>2 DEF Carried, Work, Adding
  <2>1. PICK i \in DOMAIN Work(u)' :
          h \in Handler /\ Work(u)'[i].kind \in Adding /\ Work(u)'[i].arg = h
    BY <2>0
  <2>2. CASE u = t /\ i = Len(Work(t)) + 1
    BY <2>1, <2>2, <1>1
  <2>3. CASE ~(u = t /\ i = Len(Work(t)) + 1)
    <3>1. i \in DOMAIN Work(u) /\ Work(u)'[i] = Work(u)[i]
      BY <2>3, <1>1
    <3> QED BY <2>1, <3>1, CarriedMeans
  <2> QED BY <2>2, <2>3
<1> QED BY <1>1, <1>2

LEMMA WorkLeft ==
  ASSUME TypeInv, NEW t \in Thread, TakeStep(t)
  PROVE  /\ \A u \in Thread \ {t} : Work(u)' = Work(u)
         /\ DOMAIN Work(t)' = 1..(Len(Work(t)) - 1) /\ DOMAIN Work(t) = 1..Len(Work(t))
         /\ Len(Work(t)) \in Nat /\ 1 \in DOMAIN Work(t)
         /\ \A i \in 1..(Len(Work(t)) - 1) : i + 1 \in DOMAIN Work(t) /\ Work(t)'[i] = Work(t)[i + 1]
         /\ WorkOf(t) = Work(t)[1] /\ WorkOf(t) \in WorkItem /\ WorkOf(t).call \in Call
         /\ \A u \in Thread : \A i \in DOMAIN Work(u)' : \E j \in DOMAIN Work(u) :
              Work(u)'[i] = Work(u)[j] /\ (u = t => j = i + 1) /\ (u # t => j = i)
<1>1. \A u \in Thread : Work(u)' = TakeWork(executor, t).work[u]
  BY DEF TakeStep, Work
<1>2. /\ \A u \in Thread \ {t} : Work(u)' = Work(u)
      /\ DOMAIN Work(t)' = 1..(Len(Work(t)) - 1) /\ DOMAIN Work(t) = 1..Len(Work(t))
      /\ Len(Work(t)) \in Nat /\ 1 \in DOMAIN Work(t)
      /\ \A i \in 1..(Len(Work(t)) - 1) : i + 1 \in DOMAIN Work(t) /\ Work(t)'[i] = Work(t)[i + 1]
      /\ WorkOf(t) = Work(t)[1] /\ WorkOf(t) \in WorkItem /\ WorkOf(t).call \in Call
  BY <1>1, WorkTaken, WorkItems DEF TakeStep
<1> QED BY <1>2

LEMMA CarriedTaken ==
  ASSUME TypeInv, NEW t \in Thread, TakeStep(t)
  PROVE  /\ Carried' \subseteq Carried
         /\ WorkOf(t).kind \in Adding => WorkOf(t).arg \in Carried /\ WorkOf(t).arg \in Handler
<1>1. ASSUME NEW h \in Carried' PROVE h \in Carried
  <2>0. PICK u \in Thread : \E i \in DOMAIN Work(u)' :
          h \in Handler /\ Work(u)'[i].kind \in Adding /\ Work(u)'[i].arg = h
    BY <1>1 DEF Carried, Work, Adding
  <2>1. PICK i \in DOMAIN Work(u)' :
          h \in Handler /\ Work(u)'[i].kind \in Adding /\ Work(u)'[i].arg = h
    BY <2>0
  <2>2. \E j \in DOMAIN Work(u) : Work(u)'[i] = Work(u)[j]
    BY WorkLeft
  <2> QED BY <2>1, <2>2, CarriedMeans
<1>2. WorkOf(t) \in WorkItem /\ WorkOf(t) = Work(t)[1] /\ 1 \in DOMAIN Work(t)
  BY WorkLeft
<1>3. WorkOf(t).kind \in Adding => WorkOf(t).arg \in Handler
  BY <1>2 DEF WorkItem, Adding
<1> QED BY <1>1, <1>2, <1>3, CarriedMeans

LEMMA CarriedKept == executor' = executor => Carried' = Carried
BY DEF Carried

\* The item that stops the executor's thread.
LEMMA StopSent ==
  ASSUME TypeInv, EndOK, NEW t \in Thread, StopExecutor(t)
  PROVE  /\ \A u \in Thread \ {t} : Work(u)' = Work(u)
         /\ Work(t) = << >> /\ DOMAIN Work(t)' = {1}
         /\ Work(t)'[1].kind = "stop" /\ Work(t)'[1].call = <<t, calls[t]>>
         /\ Carried' = Carried
<1> DEFINE item == Item("stop", <<t, calls[t]>>, 0)
<1>1. item \in WorkItem /\ item.kind = "stop" /\ item.call = <<t, calls[t]>>
  BY LastCall DEF Item, WorkItem
<1>2. /\ executor' = SendWork(executor, t, item)
      /\ waits[t] = "destroy" /\ phase = "removing" /\ answer[<<t, calls[t]>>] # "none"
  BY DEF StopExecutor
<1> HIDE DEF item
<1>3. Work(t) = << >>
  BY <1>2 DEF EndOK, Removing
<1>31. Len(Work(t)) + 1 = 1 /\ 1..(Len(Work(t)) + 1) = {1}
  BY <1>3, NoItems
<1>4. /\ \A u \in Thread \ {t} : Work(u)' = Work(u)
      /\ DOMAIN Work(t)' = {1} /\ Work(t)'[1] = item
  <2>1. /\ \A u \in Thread \ {t} : Work(u)' = Work(u)
        /\ DOMAIN Work(t)' = 1..(Len(Work(t)) + 1) /\ Work(t)'[Len(Work(t)) + 1] = item
    BY <1>1, <1>2, WorkSent
  <2> QED BY <2>1, <1>31
<1>5. DOMAIN Work(t) = {}
  BY <1>3, NoItems
<1>6. \A h \in Handler : h \in Carried' <=> h \in Carried
  <2>1. \A u \in Thread \ {t} : executor'.work[u] = executor.work[u]
    BY <1>4 DEF Work
  <2>2. executor.work[t] = << >> /\ DOMAIN executor.work[t] = {} /\ DOMAIN executor'.work[t] = {1}
        /\ executor'.work[t][1].kind = "stop"
    BY <1>1, <1>3, <1>4, <1>5 DEF Work
  <2> QED BY <2>1, <2>2 DEF Carried
<1>7. Carried \subseteq Handler /\ Carried' \subseteq Handler
  BY DEF Carried
<1> QED BY <1>1, <1>3, <1>4, <1>6, <1>7

LEMMA WorkDropped ==
  ASSUME TypeInv, NEW t \in Thread, JoinExecutor(t)
  PROVE  /\ \A u \in Thread : Work(u)' = << >> /\ DOMAIN Work(u)' = {}
         /\ Carried' = {} /\ executor'.running = executor.running /\ ~executor.running
<1>1. \A u \in Thread : executor'.work[u] = << >>
  BY DEF JoinExecutor, DropWork, NoWork, TypeInv
<1>2. \A u \in Thread : Work(u)' = << >> /\ DOMAIN executor'.work[u] = {}
  BY <1>1, NoItems DEF Work
<1>3. Carried' = {}
  BY <1>2 DEF Carried
<1>4. executor'.running = executor.running /\ ~executor.running
  BY DEF JoinExecutor, DropWork, TypeInv
<1> QED BY <1>2, <1>3, <1>4 DEF Work

\* The handlers after the worker has taken an item.
LEMMA HandlersTaken ==
  ASSUME TypeInv, NEW t \in Thread, TakeStep(t)
  PROVE  /\ \A h \in Set(handlers') : h \in Set(handlers)
              \/ (WorkOf(t).kind \in Adding /\ h = WorkOf(t).arg)
         /\ worker'.kind \in {"log", "drop", "flush"} => Set(worker'.todo) \subseteq Set(handlers)
         /\ worker'.kind = "drop" =>
              \/ worker'.left = << >> /\ Set(worker'.todo) \subseteq Set(handlers')
              \/ worker'.left = handlers' /\ Set(worker'.todo) \subseteq dropped'
         /\ worker'.kind # "join" /\ (worker'.kind = "idle" => worker' = worker)
         /\ worker'.kind = "log" => /\ WorkOf(t).kind = "log" /\ worker'.todo = handlers
                                    /\ worker'.call = WorkOf(t).call /\ worker'.own = WorkOf(t).arg
         /\ worker'.kind = "flush" <=> WorkOf(t).kind = "flush"
         /\ worker'.kind \in {"log", "flush"} => handlers' = handlers
<1>0. handlers \in Seq(Handler) /\ worker.kind = "idle" /\ DOMAIN handlers = 1..Len(handlers)
  BY Items DEF TypeInv, TakeStep
<1>1. CASE WorkOf(t).kind = "add"
  <2>1. handlers' = Append(handlers, WorkOf(t).arg) /\ worker' = worker
    BY <1>1 DEF TakeStep
  <2>2. WorkOf(t).arg \in Handler
    BY <1>1, CarriedTaken DEF Adding
  <2>3. \A h \in Set(handlers') : h \in Set(handlers) \/ h = WorkOf(t).arg
    BY <1>0, <2>1, <2>2, LongerItems DEF Set
  <2> QED BY <1>0, <1>1, <2>1, <2>3 DEF Adding
<1>2. CASE WorkOf(t).kind = "replace"
  <2>1. WorkOf(t).arg \in Handler
    BY <1>2, CarriedTaken DEF Adding
  <2>2. worker'.kind = "drop" /\ worker'.left = handlers'
    BY <1>2 DEF TakeStep
  <2>3. CASE handlers' = Append(handlers, WorkOf(t).arg) /\ worker'.todo = << >>
    <3>1. \A h \in Set(handlers') : h \in Set(handlers) \/ h = WorkOf(t).arg
      BY <1>0, <2>1, <2>3, LongerItems DEF Set
    <3> QED BY <1>2, <2>2, <2>3, <3>1, NoItems DEF Adding
  <2>4. ASSUME NEW i \in DOMAIN handlers, handlers' = [handlers EXCEPT ![i] = WorkOf(t).arg],
               worker'.todo = <<handlers[i]>>, handlers[i] \in dropped'
        PROVE  /\ \A h \in Set(handlers') : h \in Set(handlers) \/ h = WorkOf(t).arg
               /\ Set(worker'.todo) \subseteq Set(handlers)
               /\ Set(worker'.todo) \subseteq dropped'
    <3>1. \A h \in Set(handlers') : h \in Set(handlers) \/ h = WorkOf(t).arg
      BY <1>0, <2>4 DEF Set
    <3>2. Set(worker'.todo) = {handlers[i]}
      BY <2>4 DEF Set
    <3> QED BY <3>1, <3>2, <2>4 DEF Set
  <2>5. \/ handlers' = Append(handlers, WorkOf(t).arg) /\ worker'.todo = << >>
        \/ \E i \in DOMAIN handlers : /\ handlers' = [handlers EXCEPT ![i] = WorkOf(t).arg]
                                      /\ worker'.todo = <<handlers[i]>>
                                      /\ handlers[i] \in dropped'
    BY <1>2 DEF TakeStep
  <2> QED BY <1>2, <2>2, <2>3, <2>4, <2>5 DEF Adding
<1>3. CASE WorkOf(t).kind = "removeAllHandlers"
  <2>1. /\ handlers' = handlers /\ worker'.todo = handlers /\ worker'.kind = "drop"
        /\ worker'.left = << >>
    BY <1>3 DEF TakeStep
  <2> QED BY <1>3, <2>1, NoItems DEF Adding
<1>4. CASE WorkOf(t).kind = "log"
  BY <1>4 DEF TakeStep, Adding
<1>5. CASE WorkOf(t).kind = "flush"
  BY <1>5 DEF TakeStep, Adding
<1>6. CASE WorkOf(t).kind \notin {"add", "replace", "removeAllHandlers", "log", "flush"}
  BY <1>0, <1>6 DEF TakeStep
<1> QED BY <1>1, <1>2, <1>3, <1>4, <1>5, <1>6

LEMMA LifeStep ==
  ASSUME TypeInv, EndOK, LifeOK, Step
  PROVE  LifeOK'
<1> USE DEF LifeOK, Clearing
<1>1. ASSUME Carried' \subseteq Carried \cup held, DOMAIN flushing' = DOMAIN flushing,
             UNCHANGED <<handlers, held, dangling, dropped, stopper, worker>>
      PROVE  LifeOK'
  BY <1>1 DEF VisitsHandlers, Unreachable, CopiesKnown
<1>2. ASSUME NEW t \in Thread, NEW item \in WorkItem, SendStep(t, item) PROVE LifeOK'
  BY <1>1, <1>2, CarriedSent DEF SendStep
<1>3. ASSUME NEW t \in Thread, SilentCall(t) PROVE LifeOK'
  BY <1>1, <1>3, CarriedKept DEF SilentCall, QuietCall
<1>4. ASSUME NEW t \in Thread, GetHandlers(t) PROVE LifeOK'
  <2>1. PICK copied \in {Set(handlers), Set(handlers) \cup Overwritten} :
          /\ held' = held \cup {h \in copied : stopper[h] = Nobody}
          /\ dangling' = dangling \cup {h \in copied : stopper[h] # Nobody}
    BY <1>4 DEF GetHandlers
  <2>2. Carried' = Carried /\ UNCHANGED <<handlers, dropped, stopper, worker, flushing>>
    BY <1>4, CarriedKept DEF GetHandlers, loggerVars, historyVars
  <2>3. VisitsHandlers' /\ Unreachable'
    BY <2>1, <2>2 DEF VisitsHandlers, Unreachable
  <2>4. ASSUME NEW h \in copied, stopper[h] # Nobody
        PROVE  h \in dropped \/ (Clearing /\ h \in Set(handlers))
    <3>1. CASE h \in Set(handlers)
      <4>1. h \in Handler
        BY <3>1, Items DEF TypeInv
      <4> QED BY <2>4, <3>1, <4>1 DEF Unreachable
    <3>2. CASE h \notin Set(handlers)
      <4>1. worker.kind = "join" /\ h = Head(worker.todo)
        BY <2>4, <3>2 DEF Overwritten
      <4>2. h \in Set(worker.todo)
        BY <4>1, WorkerTypes, Items DEF Set
      <4> QED BY <3>2, <4>1, <4>2 DEF VisitsHandlers
    <3> QED BY <3>1, <3>2
  <2>5. CopiesKnown'
    BY <2>1, <2>2, <2>4 DEF CopiesKnown
  <2> QED BY <2>3, <2>5
<1>5. ASSUME NEW t \in Thread, NEW h \in Handler, SetCreator(t, h) PROVE LifeOK'
  BY <1>1, <1>5, CarriedKept DEF SetCreator, loggerVars
<1>6. ASSUME NEW t \in Thread, NEW h \in Handler, Release(t, h) PROVE LifeOK'
  <2>1. /\ held' = held \ {h} /\ Carried' = Carried
        /\ UNCHANGED <<handlers, worker, flushing, dangling, dropped>>
    BY <1>6, CarriedKept DEF Release, loggerVars
  <2>2. CASE LoggerHolds(h)
    <3>1. stopper' = stopper
      BY <1>6, <2>2 DEF Release
    <3> QED BY <2>1, <3>1 DEF VisitsHandlers, Unreachable, CopiesKnown
  <2>3. CASE ~LoggerHolds(h)
    <3>1. stopper' = [stopper EXCEPT ![h] = t]
      BY <1>6, <2>3 DEF Release
    <3>2. /\ h \notin Carried
          /\ ~Clearing => h \notin Set(handlers)
          /\ worker.kind \in {"log", "drop", "join"} => h \notin Set(worker.todo)
      BY <2>3 DEF LoggerHolds, KeptAlive, VisitsHandlers
    <3>3. worker.kind = "join" => Set(Tail(worker.todo)) \subseteq Set(worker.todo)
      BY WorkerTypes, TailItems DEF Set
    <3>4. \A k \in Handler : k # h => stopper'[k] = stopper[k]
      BY <3>1 DEF TypeInv
    <3>5. Unreachable'
      <4> SUFFICES ASSUME NEW k \in Handler, stopper'[k] # Nobody
                   PROVE  /\ k \notin held' \cup Carried
                          /\ ~Clearing => k \notin Set(handlers)
                          /\ worker.kind \in {"log", "drop"} => k \notin Set(worker.todo)
                          /\ worker.kind = "join" => k \notin Set(Tail(worker.todo))
        BY <2>1 DEF Unreachable
      <4>1. CASE k = h
        BY <4>1, <2>1, <3>2, <3>3
      <4>2. CASE k # h
        BY <4>2, <2>1, <3>4 DEF Unreachable
      <4> QED BY <4>1, <4>2
    <3> QED BY <2>1, <3>5 DEF VisitsHandlers, CopiesKnown
  <2> QED BY <2>2, <2>3
<1>7. ASSUME NEW t \in Thread, TakeStep(t) PROVE LifeOK'
  <2>1. /\ UNCHANGED <<held, dangling, stopper>> /\ Carried' \subseteq Carried
        /\ worker.kind = "idle" /\ dropped \subseteq dropped'
        /\ DOMAIN flushing' = IF WorkOf(t).kind = "flush" THEN Set(handlers) ELSE DOMAIN flushing
        /\ WorkOf(t).kind \in Adding => WorkOf(t).arg \in Carried
    BY <1>7, CarriedTaken DEF TakeStep
  <2>2. VisitsHandlers'
    BY <1>7, <2>1, HandlersTaken DEF VisitsHandlers
  <2>3. Unreachable'
    BY <1>7, <2>1, HandlersTaken DEF Unreachable
  <2>4. CopiesKnown'
    BY <2>1 DEF CopiesKnown
  <2> QED BY <2>2, <2>3, <2>4
<1>8. ASSUME NEW t \in Thread, Return(t) \/ Destroyed(t) PROVE LifeOK'
  BY <1>1, <1>8, CarriedKept DEF Return, Destroyed, loggerVars, historyVars
<1>9. ASSUME NEW t \in Thread, StopExecutor(t) PROVE LifeOK'
  BY <1>1, <1>9, StopSent DEF StopExecutor, loggerVars, historyVars
<1>10. ASSUME NEW t \in Thread, JoinExecutor(t) PROVE LifeOK'
  <2> DEFINE orphans == (Carried \cup Set(handlers)) \ held
  <2>1. /\ handlers' = << >> /\ UNCHANGED <<worker, flushing, held, dangling, dropped>>
        /\ stopper' = [h \in Handler |-> IF h \in orphans THEN t ELSE stopper[h]]
        /\ Carried' = {} /\ worker.kind = "idle"
    BY <1>10, WorkDropped DEF JoinExecutor, EndOK, WorkerStopped
  <2>2. Set(handlers') = {}
    BY <2>1, NoItems
  <2>3. VisitsHandlers' /\ CopiesKnown'
    BY <2>1, <2>2 DEF VisitsHandlers, CopiesKnown
  <2>4. Unreachable'
    BY <2>1, <2>2 DEF Unreachable
  <2> QED BY <2>3, <2>4
<1>11. CASE DropPointer
  <2> DEFINE h == Head(worker.todo)
  <2>1. /\ worker.kind = "drop" /\ worker.todo # << >>
        /\ UNCHANGED <<flushing, handlers, held, dangling, dropped>> /\ Carried' = Carried
        /\ worker'.kind \in {"drop", "join"} /\ worker'.left = worker.left
    BY <1>11, CarriedKept DEF DropPointer, Drops, outsideVars
  <2>2. h \in Handler /\ Set(Tail(worker.todo)) \subseteq Set(worker.todo)
    BY <2>1, WorkerTypes, TailItems DEF Set
  <2>3. CopiesKnown'
    BY <2>1 DEF CopiesKnown
  <2>4. CASE Others(h)
    <3>1. stopper' = stopper /\ worker'.kind = "drop" /\ worker'.todo = Tail(worker.todo)
      BY <1>11, <2>4 DEF DropPointer, Drops
    <3> QED BY <2>1, <2>2, <2>3, <3>1 DEF VisitsHandlers, Unreachable
  <2>5. CASE ~Others(h)
    <3>1. /\ stopper' = [stopper EXCEPT ![h] = WorkerThread] /\ worker'.kind = "join"
          /\ worker'.todo = worker.todo
      BY <1>11, <2>5 DEF DropPointer, Drops
    <3>2. /\ h \notin held \cup Carried \cup Set(Tail(worker.todo))
          /\ ~Clearing => h \notin Set(handlers)
      BY <2>1, <2>5 DEF Others, VisitsHandlers
    <3> HIDE DEF h
    <3>3. \A k \in Handler : k # h => stopper'[k] = stopper[k]
      BY <3>1 DEF TypeInv
    <3>4. Unreachable'
      <4> SUFFICES ASSUME NEW k \in Handler, stopper'[k] # Nobody
                   PROVE  /\ k \notin held \cup Carried \cup Set(Tail(worker.todo))
                          /\ ~Clearing => k \notin Set(handlers)
        BY <2>1, <3>1 DEF Unreachable
      <4>1. CASE k = h
        BY <4>1, <3>2
      <4>2. CASE k # h
        BY <4>2, <2>1, <2>2, <3>3 DEF Unreachable
      <4> QED BY <4>1, <4>2
    <3> QED BY <2>1, <2>3, <3>1, <3>4 DEF VisitsHandlers
  <2> QED BY <2>4, <2>5
<1>12. CASE Joined
  <2>1. /\ worker.kind = "join" /\ worker'.kind = "drop" /\ worker'.todo = Tail(worker.todo)
        /\ UNCHANGED <<flushing, handlers, held, dangling, dropped, stopper>>
        /\ Carried' = Carried /\ worker'.left = worker.left
    BY <1>12, CarriedKept DEF Joined, Drops, outsideVars, historyVars
  <2>2. Set(Tail(worker.todo)) \subseteq Set(worker.todo)
    BY <2>1, WorkerTypes, TailItems DEF Set
  <2> QED BY <2>1, <2>2 DEF VisitsHandlers, Unreachable, CopiesKnown
<1>13. CASE AllDropped
  <2>1. /\ worker.kind = "drop" /\ worker'.kind = "idle" /\ handlers' = worker.left
        /\ dropped' = dropped \cup (Set(handlers) \ Set(worker.left))
        /\ UNCHANGED <<flushing, held, dangling, stopper>> /\ Carried' = Carried
    BY <1>13, CarriedKept DEF AllDropped, NoWorkItem, outsideVars
  <2>2. Set(<< >>) = {}
    BY NoItems
  <2>3. VisitsHandlers'
    BY <2>1 DEF VisitsHandlers
  <2>4. Unreachable'
    BY <2>1, <2>2 DEF VisitsHandlers, Unreachable
  <2>5. CopiesKnown'
    BY <2>1, <2>2 DEF CopiesKnown
  <2> QED BY <2>3, <2>4, <2>5
<1>14. CASE LogDone
  <2>1. /\ worker.kind = "log" /\ worker'.kind = "idle"
        /\ UNCHANGED <<flushing, handlers, held, dangling, dropped, stopper>>
        /\ Carried' = Carried
    BY <1>14, CarriedKept DEF LogDone, NoWorkItem, outsideVars, historyVars
  <2> QED BY <2>1 DEF VisitsHandlers, Unreachable, CopiesKnown
<1>15. CASE HandOver
  <2>1. /\ worker.kind = "log" /\ worker.todo # << >>
        /\ worker' = [worker EXCEPT !.todo = Tail(worker.todo)]
        /\ UNCHANGED <<flushing, handlers, held, dangling, dropped, stopper>>
        /\ Carried' = Carried
    BY <1>15, CarriedKept DEF HandOver, outsideVars
  <2>2. worker'.kind = "log" /\ worker'.todo = Tail(worker.todo)
    BY <2>1, WorkerTypes
  <2>3. Set(Tail(worker.todo)) \subseteq Set(worker.todo)
    BY <2>1, WorkerTypes, TailItems DEF Set
  <2> QED BY <2>1, <2>2, <2>3 DEF VisitsHandlers, Unreachable, CopiesKnown
<1>16. CASE FlushDone
  <2>1. /\ worker.kind = "flush" /\ worker'.kind = "idle" /\ DOMAIN flushing' = {}
        /\ UNCHANGED <<handlers, held, dangling, dropped, stopper>> /\ Carried' = Carried
    BY <1>16, CarriedKept, NoItems DEF FlushDone, NoWorkItem, outsideVars, historyVars
  <2> QED BY <2>1 DEF VisitsHandlers, Unreachable, CopiesKnown
<1>17. CASE Async
  <2>1. DOMAIN flushing' = DOMAIN flushing
    BY <1>17 DEF Async, FlushHandler, Judged
  <2>2. UNCHANGED <<executor, handlers, held, dangling, dropped, stopper, worker>>
    BY <1>17 DEF Async, FlushHandler, Judged, outsideVars, historyVars
  <2> QED BY <1>1, <2>1, <2>2, CarriedKept
<1>18. ASSUME NEW h \in Handler, HandlerThread(h) PROVE LifeOK'
  BY <1>1, <1>18, CarriedKept DEF HandlerThread, loggerVars, historyVars
<1> QED BY <1>2, <1>3, <1>4, <1>5, <1>6, <1>7, <1>8, <1>9, <1>10, <1>11, <1>12, <1>13,
           <1>14, <1>15, <1>16, <1>17, <1>18, Cases

\* When the worker has dropped its pointers, Handlers is as it was or it is empty.
LEMMA HandlersLeft ==
  ASSUME LifeOK, AllDropped
  PROVE  /\ handlers' = handlers \/ handlers' = << >>
         /\ Set(handlers') \subseteq Set(handlers)
<1>1. worker.kind = "drop" /\ handlers' = worker.left
  BY DEF AllDropped
<1> QED BY <1>1, NoItems DEF LifeOK, VisitsHandlers

-----------------------------------------------------------------------------
(* A handler is added once                                                      *)

Distinct(seq) == \A i, j \in DOMAIN seq : seq[i] = seq[j] => i = j

AddersMade == /\ \A h \in Handler : adder[h] # NoCall => adder[h][2] <= calls[adder[h][1]]
              /\ \A h \in Set(handlers) : adder[h] # NoCall

AddingOnce == \A t \in Thread : \A i \in DOMAIN Work(t) : Work(t)[i].kind \in Adding =>
  adder[Work(t)[i].arg] = Work(t)[i].call /\ Work(t)[i].arg \notin Set(handlers)

VisitsOnce == Distinct(handlers) /\ (worker.kind = "log" => Distinct(worker.todo))

OnceOK == AddersMade /\ AddingOnce /\ VisitsOnce

LEMMA DistinctTail ==
  ASSUME NEW s \in Seq(Handler), s # << >>, Distinct(s)
  PROVE  Distinct(Tail(s)) /\ Head(s) \notin Set(Tail(s)) /\ Set(Tail(s)) \subseteq Set(s)
         /\ Head(s) \in Set(s)
<1>1. /\ DOMAIN Tail(s) = 1..(Len(s) - 1) /\ Len(s) \in Nat /\ DOMAIN s = 1..Len(s)
      /\ \A i \in 1..(Len(s) - 1) : i + 1 \in DOMAIN s /\ Tail(s)[i] = s[i + 1]
      /\ Head(s) = s[1] /\ 1 \in DOMAIN s
  BY TailItems, Items
<1>2. Distinct(Tail(s))
  BY <1>1 DEF Distinct
<1>3. ASSUME NEW i \in DOMAIN Tail(s) PROVE Tail(s)[i] # Head(s)
  BY <1>1 DEF Distinct
<1> QED BY <1>1, <1>2, <1>3 DEF Set

LEMMA AppendDistinct ==
  ASSUME NEW s \in Seq(Handler), NEW h \in Handler, h \notin Set(s), Distinct(s)
  PROVE  Distinct(Append(s, h)) /\ Set(Append(s, h)) = Set(s) \cup {h}
<1>1. /\ Len(s) \in Nat /\ DOMAIN s = 1..Len(s) /\ DOMAIN Append(s, h) = 1..(Len(s) + 1)
      /\ \A i \in 1..Len(s) : Append(s, h)[i] = s[i]
      /\ Append(s, h)[Len(s) + 1] = h
  BY LongerItems
<1>2. Distinct(Append(s, h))
  BY <1>1 DEF Distinct, Set
<1>3. Set(Append(s, h)) = Set(s) \cup {h}
  BY <1>1 DEF Set
<1> QED BY <1>2, <1>3

LEMMA ExceptDistinct ==
  ASSUME NEW s \in Seq(Handler), NEW h \in Handler, h \notin Set(s), Distinct(s), NEW i \in DOMAIN s
  PROVE  /\ Distinct([s EXCEPT ![i] = h])
         /\ Set([s EXCEPT ![i] = h]) = (Set(s) \ {s[i]}) \cup {h}
BY DEF Distinct, Set

LEMMA OnceStep ==
  ASSUME TypeInv, QueueOK, EndOK, LifeOK, OnceOK, Step
  PROVE  OnceOK'
<1> USE DEF OnceOK
<1>0. /\ \A t \in Thread : calls[t] \in Nat
      /\ \A h \in Handler : adder[h] # NoCall => adder[h] \in Call /\ adder[h][1] \in Thread
                                                 /\ adder[h][2] \in Nat
      /\ Set(handlers) \subseteq Handler /\ handlers \in Seq(Handler)
  BY CallParts, Items DEF TypeInv
<1>1. ASSUME UNCHANGED <<executor, adder>>, handlers' = handlers \/ handlers' = << >>,
             \A t \in Thread : calls'[t] >= calls[t] /\ calls'[t] \in Nat,
             \/ worker' = worker
             \/ worker'.kind # "log"
             \/ worker.kind = "log" /\ worker.todo # << >> /\ worker'.todo = Tail(worker.todo)
      PROVE  OnceOK'
  <2>0. Set(handlers') \subseteq Set(handlers) /\ (Distinct(handlers) => Distinct(handlers'))
    BY <1>1, NoItems DEF Distinct
  <2>1. AddersMade'
    BY <1>0, <1>1, <2>0 DEF AddersMade
  <2>2. AddingOnce'
    BY <1>1, <2>0 DEF AddingOnce, Work
  <2>3. VisitsOnce'
    BY <1>1, <2>0, WorkerTypes, DistinctTail DEF VisitsOnce
  <2> QED BY <2>1, <2>2, <2>3
<1>2. ASSUME NEW t \in Thread, NEW item \in WorkItem, SendStep(t, item) PROVE OnceOK'
  <2>1. /\ \A u \in Thread \ {t} : Work(u)' = Work(u)
        /\ DOMAIN Work(t)' = 1..(Len(Work(t)) + 1) /\ DOMAIN Work(t) = 1..Len(Work(t))
        /\ Len(Work(t)) \in Nat
        /\ \A k \in 1..Len(Work(t)) : Work(t)'[k] = Work(t)[k]
        /\ Work(t)'[Len(Work(t)) + 1] = item
    BY <1>2, WorkSent, WorkItems DEF SendStep
  <2>2. /\ item.call = <<t, calls[t] + 1>> /\ UNCHANGED <<handlers, worker>>
        /\ calls'[t] = calls[t] + 1 /\ \A u \in Thread \ {t} : calls'[u] = calls[u]
        /\ IF item.kind \in Adding
           THEN /\ item.arg \in held /\ adder[item.arg] = NoCall
                /\ adder' = [adder EXCEPT ![item.arg] = item.call]
           ELSE adder' = adder
    BY <1>2 DEF SendStep, This
  <2>3. item.kind \in Adding => /\ item.arg \in Handler /\ item.arg \notin Set(handlers)
                                /\ item.call \in Call /\ item.call # NoCall
    BY <2>2, NoCallIsNone DEF AddersMade, TypeInv, WorkItem
  <2>4. AddersMade'
    <3>1. ASSUME NEW h \in Handler, adder'[h] # NoCall
          PROVE  adder'[h][2] <= calls'[adder'[h][1]]
      <4>1. CASE item.kind \in Adding /\ h = item.arg
        BY <4>1, <1>0, <2>2, <2>3 DEF TypeInv
      <4>2. CASE ~(item.kind \in Adding /\ h = item.arg)
        <5>1. adder'[h] = adder[h]
          BY <4>2, <2>2, <2>3 DEF TypeInv
        <5>2. adder[h][2] <= calls[adder[h][1]] /\ adder[h][1] \in Thread /\ adder[h][2] \in Nat
          BY <5>1, <3>1, <1>0 DEF AddersMade
        <5> QED BY <5>1, <5>2, <1>0, <2>2
      <4> QED BY <4>1, <4>2
    <3>2. ASSUME NEW h \in Set(handlers) PROVE adder'[h] # NoCall
      BY <1>0, <2>2, <2>3 DEF AddersMade, TypeInv
    <3> QED BY <2>2, <3>1, <3>2 DEF AddersMade
  <2>5. AddingOnce'
    <3> SUFFICES ASSUME NEW u \in Thread, NEW i \in DOMAIN Work(u)', Work(u)'[i].kind \in Adding
                 PROVE  /\ adder'[Work(u)'[i].arg] = Work(u)'[i].call
                        /\ Work(u)'[i].arg \notin Set(handlers)
      BY <2>2 DEF AddingOnce
    <3>1. CASE u = t /\ i = Len(Work(t)) + 1
      BY <3>1, <2>1, <2>2, <2>3 DEF TypeInv
    <3>2. CASE ~(u = t /\ i = Len(Work(t)) + 1)
      <4>1. i \in DOMAIN Work(u) /\ Work(u)'[i] = Work(u)[i]
        BY <3>2, <2>1
      <4>2. /\ adder[Work(u)[i].arg] = Work(u)[i].call /\ Work(u)[i].arg \notin Set(handlers)
            /\ Work(u)[i].call # NoCall /\ Work(u)[i].arg \in Handler
        BY <4>1, WorkItems, NoCallIsNone DEF AddingOnce, WorkItem, Adding
      <4>3. item.kind \in Adding => item.arg # Work(u)[i].arg
        BY <4>2, <2>2
      <4> QED BY <4>1, <4>2, <4>3, <2>2 DEF TypeInv
    <3> QED BY <3>1, <3>2
  <2> QED BY <2>2, <2>4, <2>5 DEF VisitsOnce
<1>3. ASSUME NEW t \in Thread, TakeStep(t) PROVE OnceOK'
  <2> DEFINE h == WorkOf(t).arg
  <2>1. /\ UNCHANGED <<adder, calls>> /\ worker.kind = "idle"
    BY <1>3 DEF TakeStep
  <2>2. /\ WorkOf(t).kind \in Adding => /\ h \in Handler /\ h \notin Set(handlers)
                                        /\ adder[h] = WorkOf(t).call /\ adder[h] # NoCall
    BY <1>3, CarriedTaken, WorkLeft, NoCallIsNone DEF AddingOnce
  <2>3. \A k \in Set(handlers') : k \in Set(handlers) \/ (WorkOf(t).kind \in Adding /\ k = h)
    BY <1>3, HandlersTaken
  <2>4. AddersMade'
    BY <2>1, <2>2, <2>3 DEF AddersMade
  <2>5. AddingOnce'
    <3> SUFFICES ASSUME NEW u \in Thread, NEW i \in DOMAIN Work(u)', Work(u)'[i].kind \in Adding
                 PROVE  /\ adder[Work(u)'[i].arg] = Work(u)'[i].call
                        /\ Work(u)'[i].arg \notin Set(handlers')
      BY <2>1 DEF AddingOnce
    <3>1. PICK j \in DOMAIN Work(u) :
            Work(u)'[i] = Work(u)[j] /\ (u = t => j = i + 1) /\ (u # t => j = i)
      BY <1>3, WorkLeft
    <3>2. /\ adder[Work(u)[j].arg] = Work(u)[j].call /\ Work(u)[j].arg \notin Set(handlers)
          /\ Work(u)[j].call[1] = u
      BY <3>1 DEF AddingOnce, QueueOK, CallsQueued
    <3>3. ASSUME WorkOf(t).kind \in Adding, Work(u)[j].arg = h PROVE FALSE
      <4>1. Work(u)[j].call = WorkOf(t).call
        BY <3>2, <3>3, <2>2
      <4>2. /\ WorkOf(t).call[1] = t /\ WorkOf(t) = Work(t)[1] /\ 1 \in DOMAIN Work(t)
            /\ DOMAIN Work(t)' = 1..(Len(Work(t)) - 1) /\ Len(Work(t)) \in Nat
        BY <1>3, WorkLeft DEF QueueOK, CallsQueued
      <4>3. u = t /\ j = i + 1 /\ 1 < j
        BY <4>1, <4>2, <3>1, <3>2
      <4>4. Work(t)[1].call[2] < Work(t)[j].call[2]
        BY <4>2, <4>3, <3>1, <3>3 DEF QueueOK, CallsInOrder, Adding
      <4>5. WorkOf(t).call[2] \in Nat
        BY <1>3, WorkLeft, CallParts
      <4> QED BY <4>1, <4>2, <4>3, <4>4, <4>5
    <3> QED BY <3>1, <3>2, <3>3, <2>3
  <2>6. VisitsOnce'
    <3>1. worker'.kind = "log" => worker'.todo = handlers
      BY <1>3, HandlersTaken
    <3>2. Distinct(handlers')
      <4>1. CASE handlers' = handlers
        BY <4>1 DEF VisitsOnce
      <4>2. CASE WorkOf(t).kind \in Adding /\ handlers' = Append(handlers, h)
        BY <4>2, <1>0, <2>2, AppendDistinct DEF VisitsOnce
      <4>3. CASE WorkOf(t).kind \in Adding
                 /\ \E i \in DOMAIN handlers : handlers' = [handlers EXCEPT ![i] = h]
        <5>1. PICK i \in DOMAIN handlers : handlers' = [handlers EXCEPT ![i] = h]
          BY <4>3
        <5>2. h \in Handler /\ h \notin Set(handlers) /\ Distinct(handlers)
          BY <4>3, <2>2 DEF VisitsOnce
        <5> QED BY <1>0, <5>1, <5>2, ExceptDistinct
      <4>4. CASE handlers' = << >>
        BY <4>4, NoItems DEF Distinct
      <4> QED BY <1>3, <4>1, <4>2, <4>3, <4>4 DEF TakeStep, Adding
    <3>3. worker'.kind = "log" => Distinct(worker'.todo)
      BY <3>1 DEF VisitsOnce
    <3> QED BY <3>2, <3>3 DEF VisitsOnce
  <2> QED BY <2>4, <2>5, <2>6
<1>4. ASSUME NEW t \in Thread, StopExecutor(t) PROVE OnceOK'
  <2>1. UNCHANGED <<handlers, adder, worker, calls>>
    BY <1>4 DEF StopExecutor, loggerVars, callVars
  <2>2. AddingOnce'
    BY <1>4, <2>1, StopSent DEF AddingOnce, Adding
  <2> QED BY <2>1, <2>2 DEF AddersMade, VisitsOnce
<1>5. ASSUME NEW t \in Thread, JoinExecutor(t) PROVE OnceOK'
  <2>1. /\ handlers' = << >> /\ UNCHANGED <<adder, worker, calls>>
        /\ \A u \in Thread : DOMAIN Work(u)' = {}
    BY <1>5, WorkDropped DEF JoinExecutor
  <2>2. Set(handlers') = {} /\ Distinct(handlers')
    BY <2>1, NoItems DEF Distinct
  <2> QED BY <2>1, <2>2 DEF AddersMade, AddingOnce, VisitsOnce
<1>6. ASSUME NEW t \in Thread, QuietCall(t) PROVE OnceOK'
  <2>1. UNCHANGED <<executor, handlers, adder, worker>> /\ \A u \in Thread : calls'[u] >= calls[u] /\ calls'[u] \in Nat
    BY <1>0, <1>6 DEF QuietCall
  <2> QED BY <1>1, <2>1
<1>7. ASSUME NEW t \in Thread, Return(t) \/ Destroyed(t) PROVE OnceOK'
  <2>1. UNCHANGED <<executor, handlers, adder, worker, calls>>
    BY <1>7 DEF Return, Destroyed, loggerVars
  <2> QED BY <1>0, <1>1, <2>1
<1>8. CASE HandOver
  <2>1. /\ worker.kind = "log" /\ worker.todo # << >>
        /\ worker' = [worker EXCEPT !.todo = Tail(worker.todo)]
        /\ UNCHANGED <<executor, handlers, adder, calls>>
    BY <1>8 DEF HandOver, outsideVars
  <2>2. worker'.todo = Tail(worker.todo)
    BY <2>1, WorkerTypes
  <2> QED BY <1>0, <1>1, <2>1, <2>2
<1>9. CASE DropPointer \/ Joined \/ AllDropped \/ LogDone \/ FlushDone
  <2>1. UNCHANGED <<executor, adder, calls>> /\ worker'.kind # "log"
    BY <1>9 DEF DropPointer, Joined, AllDropped, LogDone, FlushDone, NoWorkItem, Drops, outsideVars
  <2>2. handlers' = handlers \/ AllDropped
    BY <1>9 DEF DropPointer, Joined, LogDone, FlushDone
  <2> QED BY <1>0, <1>1, <2>1, <2>2, HandlersLeft
<1>10. CASE AsideStep
  BY <1>0, <1>1, <1>10 DEF AsideStep
<1> QED BY <1>2, <1>3, <1>4, <1>5, <1>6, <1>7, <1>8, <1>9, <1>10, Cases, QuietSteps, AsideSteps
        DEF SilentCall

-----------------------------------------------------------------------------
(* What the handlers are given                                                  *)

GivenInOrder == \A h \in Handler : \A i, j \in DOMAIN given[h] :
  i < j /\ given[h][i].call[1] = given[h][j].call[1]
    => given[h][i].call[2] < given[h][j].call[2]

\* A message that was given to a handler is earlier than what is to come.
IsEarlier(c, h) ==
  /\ c[2] <= calls[c[1]]
  /\ \A i \in DOMAIN Work(c[1]) : Work(c[1])[i].kind \in Adding \cup {"log"} =>
       c[2] < Work(c[1])[i].call[2]
  /\ worker.kind = "log" /\ worker.call[1] = c[1] =>
       c[2] < worker.call[2] \/ (c[2] = worker.call[2] /\ h \notin Set(worker.todo))

GivenBefore == \A h \in Handler : \A k \in DOMAIN given[h] : IsEarlier(given[h][k].call, h)

GivenOK == GivenInOrder /\ GivenBefore

LEMMA GivenItems ==
  ASSUME TypeInv, NEW h \in Handler
  PROVE  /\ given[h] \in Seq(LogMessage) /\ Len(given[h]) \in Nat
         /\ DOMAIN given[h] = 1..Len(given[h])
         /\ \A k \in DOMAIN given[h] :
              /\ given[h][k] \in LogMessage /\ given[h][k].call \in Call
              /\ given[h][k].call[1] \in Thread /\ given[h][k].call[2] \in Nat
<1>1. given[h] \in Seq(LogMessage)
  BY DEF TypeInv
<1>2. /\ Len(given[h]) \in Nat /\ DOMAIN given[h] = 1..Len(given[h])
      /\ \A k \in DOMAIN given[h] : given[h][k] \in LogMessage
  BY <1>1, Items
<1>3. \A k \in DOMAIN given[h] : given[h][k].call \in Call
  BY <1>2 DEF LogMessage
<1> QED BY <1>1, <1>2, <1>3, CallParts

LEMMA HandOverResult ==
  ASSUME TypeInv, LifeOK, HandOver
  PROVE  LET h   == Head(worker.todo)
             msg == [call |-> worker.call, identified |-> baseMsg.identified,
                     field |-> baseMsg.field, own |-> worker.own]
         IN /\ h \in Handler /\ msg \in LogMessage /\ worker.kind = "log"
            /\ worker.todo \in Seq(Handler) /\ worker.todo # << >> /\ stopper[h] = Nobody
            /\ worker'.kind = "log" /\ worker'.call = worker.call /\ worker'.own = worker.own
            /\ worker'.todo = Tail(worker.todo)
            /\ sink'[h] = AddMessage(sink[h], WorkerThread, msg)
            /\ given'[h] = Append(given[h], msg)
            /\ \A k \in Handler \ {h} : sink'[k] = sink[k] /\ given'[k] = given[k]
            /\ UNCHANGED <<executor, flushing, handlers, baseMsg, answer, stopper, held,
                           adder, calls, waits, destroying, phase, lastField>>
<1> DEFINE h   == Head(worker.todo)
           msg == [call |-> worker.call, identified |-> baseMsg.identified,
                   field |-> baseMsg.field, own |-> worker.own]
<1>1. worker.kind = "log" /\ worker.todo # << >> /\ worker.todo \in Seq(Handler)
  BY WorkerTypes DEF HandOver
<1>2. h \in Handler /\ h \in Set(worker.todo) /\ msg \in LogMessage
  BY <1>1, TailItems, Items, MessageType DEF Set
<1>3. stopper[h] = Nobody
  BY <1>1, <1>2 DEF LifeOK, Unreachable
<1>4. /\ sink' = [sink EXCEPT ![h] = AddMessage(@, WorkerThread, msg)]
      /\ given' = [given EXCEPT ![h] = Append(@, msg)]
      /\ worker' = [worker EXCEPT !.todo = Tail(worker.todo)]
      /\ UNCHANGED <<executor, flushing, handlers, baseMsg, answer, stopper, held,
                     adder, calls, waits, destroying, phase, lastField>>
  BY DEF HandOver, outsideVars
<1>5. /\ worker'.kind = "log" /\ worker'.call = worker.call /\ worker'.own = worker.own
      /\ worker'.todo = Tail(worker.todo)
  BY <1>1, <1>4, WorkerTypes
<1> HIDE DEF h, msg
<1>6. /\ sink'[h] = AddMessage(sink[h], WorkerThread, msg)
      /\ given'[h] = Append(given[h], msg)
      /\ \A k \in Handler \ {h} : sink'[k] = sink[k] /\ given'[k] = given[k]
  BY <1>2, <1>4 DEF TypeInv
<1> QED BY <1>1, <1>2, <1>3, <1>4, <1>5, <1>6 DEF h, msg

LEMMA GivenStep ==
  ASSUME TypeInv, TypeInv', QueueOK, EndOK, LifeOK, OnceOK, GivenOK, Step
  PROVE  GivenOK'
<1> USE DEF GivenOK
<1>0. \A t \in Thread : calls[t] \in Nat
  BY DEF TypeInv
<1>1. ASSUME given' = given,
             \A h \in Handler : \A c \in Call : IsEarlier(c, h) => IsEarlier(c, h)'
      PROVE  GivenOK'
  BY <1>1, GivenItems DEF GivenInOrder, GivenBefore
<1>2. ASSUME given' = given, UNCHANGED <<executor, calls>>,
             worker' = worker \/ worker'.kind # "log"
      PROVE  GivenOK'
  BY <1>1, <1>2 DEF IsEarlier, Work
<1>3. ASSUME NEW t \in Thread, NEW item \in WorkItem, SendStep(t, item) PROVE GivenOK'
  <2>1. /\ \A u \in Thread \ {t} : Work(u)' = Work(u)
        /\ DOMAIN Work(t)' = 1..(Len(Work(t)) + 1) /\ DOMAIN Work(t) = 1..Len(Work(t))
        /\ Len(Work(t)) \in Nat
        /\ \A k \in 1..Len(Work(t)) : Work(t)'[k] = Work(t)[k]
        /\ Work(t)'[Len(Work(t)) + 1] = item
        /\ item.call = <<t, calls[t] + 1>> /\ UNCHANGED <<worker, given>>
        /\ calls'[t] = calls[t] + 1 /\ \A u \in Thread \ {t} : calls'[u] = calls[u]
    BY <1>3, WorkSent, WorkItems DEF SendStep, This
  <2>2. ASSUME NEW h \in Handler, NEW c \in Call, IsEarlier(c, h) PROVE IsEarlier(c, h)'
    <3>1. c[1] \in Thread /\ c[2] \in Nat /\ c[2] <= calls[c[1]] /\ c[2] <= calls'[c[1]]
      BY <2>2, <1>0, <2>1, CallParts DEF IsEarlier
    <3>2. ASSUME NEW i \in DOMAIN Work(c[1])', Work(c[1])'[i].kind \in Adding \cup {"log"}
          PROVE  c[2] < Work(c[1])'[i].call[2]
      <4>1. CASE c[1] = t /\ i = Len(Work(t)) + 1
        BY <4>1, <1>0, <2>1, <3>1
      <4>2. CASE ~(c[1] = t /\ i = Len(Work(t)) + 1)
        <5>1. i \in DOMAIN Work(c[1]) /\ Work(c[1])'[i] = Work(c[1])[i]
          BY <4>2, <2>1, <3>1
        <5> QED BY <5>1, <3>2, <2>2 DEF IsEarlier
      <4> QED BY <4>1, <4>2
    <3> QED BY <3>1, <3>2, <2>1, <2>2 DEF IsEarlier
  <2> QED BY <1>1, <2>1, <2>2
<1>4. ASSUME NEW t \in Thread, QuietCall(t) PROVE GivenOK'
  <2>1. /\ UNCHANGED <<executor, worker, given>>
        /\ calls'[t] = calls[t] + 1 /\ \A u \in Thread \ {t} : calls'[u] = calls[u]
    BY <1>4 DEF QuietCall
  <2>2. ASSUME NEW h \in Handler, NEW c \in Call, IsEarlier(c, h) PROVE IsEarlier(c, h)'
    <3>1. c[1] \in Thread /\ c[2] \in Nat /\ c[2] <= calls[c[1]] /\ c[2] <= calls'[c[1]]
      BY <2>2, <1>0, <2>1, CallParts DEF IsEarlier
    <3> QED BY <3>1, <2>1, <2>2 DEF IsEarlier, Work
  <2> QED BY <1>1, <2>1, <2>2
<1>5. ASSUME NEW t \in Thread, TakeStep(t) PROVE GivenOK'
  <2>1. UNCHANGED <<given, calls>> /\ worker.kind = "idle"
    BY <1>5 DEF TakeStep
  <2>2. ASSUME NEW h \in Handler, NEW c \in Call, IsEarlier(c, h) PROVE IsEarlier(c, h)'
    <3>1. c[1] \in Thread /\ c[2] \in Nat
      BY CallParts
    <3>2. ASSUME NEW i \in DOMAIN Work(c[1])', Work(c[1])'[i].kind \in Adding \cup {"log"}
          PROVE  c[2] < Work(c[1])'[i].call[2]
      <4>1. PICK j \in DOMAIN Work(c[1]) : Work(c[1])'[i] = Work(c[1])[j]
        BY <1>5, <3>1, WorkLeft
      <4> QED BY <4>1, <3>2, <2>2 DEF IsEarlier
    <3>3. ASSUME worker'.kind = "log", worker'.call[1] = c[1] PROVE c[2] < worker'.call[2]
      <4>1. /\ WorkOf(t).kind = "log" /\ worker'.call = WorkOf(t).call
            /\ WorkOf(t) = Work(t)[1] /\ 1 \in DOMAIN Work(t)
        BY <1>5, <3>3, HandlersTaken, WorkLeft
      <4>2. WorkOf(t).call[1] = t
        BY <4>1 DEF QueueOK, CallsQueued
      <4> QED BY <4>1, <4>2, <3>3, <2>2 DEF IsEarlier
    <3> QED BY <2>1, <3>2, <3>3, <2>2 DEF IsEarlier
  <2> QED BY <1>1, <2>1, <2>2
<1>6. ASSUME NEW t \in Thread, StopExecutor(t) PROVE GivenOK'
  <2>1. UNCHANGED <<given, worker, calls>>
    BY <1>6 DEF StopExecutor, loggerVars, callVars, historyVars
  <2>2. /\ \A u \in Thread \ {t} : Work(u)' = Work(u)
        /\ DOMAIN Work(t)' = {1} /\ Work(t)'[1].kind = "stop"
    BY <1>6, StopSent
  <2>3. ASSUME NEW h \in Handler, NEW c \in Call, IsEarlier(c, h) PROVE IsEarlier(c, h)'
    <3>1. c[1] \in Thread
      BY CallParts
    <3>2. ASSUME NEW i \in DOMAIN Work(c[1])', Work(c[1])'[i].kind \in Adding \cup {"log"}
          PROVE  c[2] < Work(c[1])'[i].call[2]
      <4>1. CASE c[1] = t
        BY <4>1, <3>2, <2>2 DEF Adding, Work
      <4>2. CASE c[1] # t
        BY <4>2, <3>1, <3>2, <2>2, <2>3 DEF IsEarlier
      <4> QED BY <4>1, <4>2
    <3> QED BY <2>1, <3>2, <2>3 DEF IsEarlier
  <2> QED BY <1>1, <2>1, <2>3
<1>7. ASSUME NEW t \in Thread, JoinExecutor(t) PROVE GivenOK'
  <2>1. UNCHANGED <<given, worker, calls>> /\ \A u \in Thread : DOMAIN Work(u)' = {}
    BY <1>7, WorkDropped DEF JoinExecutor
  <2> QED BY <1>1, <2>1, CallParts DEF IsEarlier
<1>8. ASSUME NEW t \in Thread, Return(t) \/ Destroyed(t) PROVE GivenOK'
  BY <1>2, <1>8 DEF Return, Destroyed, loggerVars, historyVars
<1>9. CASE HandOver
  <2> DEFINE h   == Head(worker.todo)
             msg == [call |-> worker.call, identified |-> baseMsg.identified,
                     field |-> baseMsg.field, own |-> worker.own]
             n   == Len(given[h])
  <2>1. /\ h \in Handler /\ msg \in LogMessage /\ msg.call = worker.call /\ worker.kind = "log"
        /\ worker.todo \in Seq(Handler) /\ worker.todo # << >>
        /\ worker'.kind = "log" /\ worker'.call = worker.call /\ worker'.todo = Tail(worker.todo)
        /\ given'[h] = Append(given[h], msg)
        /\ \A k \in Handler \ {h} : given'[k] = given[k]
        /\ UNCHANGED <<executor, calls>>
    BY <1>9, HandOverResult
  <2>2. /\ h \in Set(worker.todo) /\ h \notin Set(Tail(worker.todo))
        /\ Set(Tail(worker.todo)) \subseteq Set(worker.todo)
    BY <2>1, DistinctTail DEF OnceOK, VisitsOnce
  <2>3. /\ DOMAIN given[h] = 1..n /\ n \in Nat /\ DOMAIN given'[h] = 1..(n + 1)
        /\ \A i \in 1..n : given'[h][i] = given[h][i] /\ given'[h][n + 1] = msg
    <3>1. given[h] \in Seq(LogMessage)
      BY <2>1, GivenItems
    <3> HIDE DEF h, msg
    <3> QED BY <2>1, <3>1, LongerItems
  <2>31. given'[h][n + 1] = msg
    <3>1. given[h] \in Seq(LogMessage)
      BY <2>1, GivenItems
    <3> HIDE DEF h, msg
    <3> QED BY <2>1, <3>1, LongerItems
  <2> HIDE DEF h, msg, n
  <2>4. worker.call \in Call /\ worker.call[1] \in Thread /\ worker.call[2] \in Nat
    BY <2>1, WorkerTypes, CallParts
  <2>5. ASSUME NEW k \in Handler, NEW c \in Call, IsEarlier(c, k) PROVE IsEarlier(c, k)'
    BY <2>1, <2>2, <2>5 DEF IsEarlier, Work
  <2>6. ASSUME NEW k \in Handler, k = h, NEW c \in Call, c = worker.call
        PROVE  IsEarlier(c, k)'
    <3>1. /\ c[2] <= calls[c[1]] /\ c[1] \in Thread
          /\ \A i \in DOMAIN Work(c[1]) : c[2] < Work(c[1])[i].call[2]
      BY <2>1, <2>4, <2>6 DEF QueueOK, WorkerFirst, Runs
    <3> QED BY <2>1, <2>2, <2>6, <3>1 DEF IsEarlier, Work
  <2>7. GivenInOrder'
    <3> SUFFICES ASSUME NEW k \in Handler, NEW i \in DOMAIN given'[k], NEW j \in DOMAIN given'[k],
                        i < j, given'[k][i].call[1] = given'[k][j].call[1]
                 PROVE  given'[k][i].call[2] < given'[k][j].call[2]
      BY DEF GivenInOrder
    <3>1. CASE k # h \/ j \in 1..n
      <4>1. /\ i \in DOMAIN given[k] /\ j \in DOMAIN given[k]
            /\ given'[k][i] = given[k][i] /\ given'[k][j] = given[k][j]
        BY <3>1, <2>1, <2>3
      <4> QED BY <4>1 DEF GivenInOrder
    <3>2. CASE k = h /\ j = n + 1
      <4>1. /\ i \in DOMAIN given[h] /\ given'[h][i] = given[h][i]
            /\ given'[h][j].call = worker.call
        BY <3>2, <2>1, <2>3, <2>31
      <4>2. IsEarlier(given[h][i].call, h) /\ given[h][i].call[1] = worker.call[1]
        BY <4>1, <2>1, <3>2 DEF GivenBefore
      <4>3. given[h][i].call[2] < worker.call[2]
        BY <4>2, <2>1, <2>2 DEF IsEarlier
      <4> QED BY <3>2, <4>1, <4>3
    <3> QED BY <2>3, <3>1, <3>2
  <2>8. ASSUME NEW k \in Handler, NEW i \in DOMAIN given'[k], NEW c \in Call,
               c = given'[k][i].call
        PROVE  IsEarlier(c, k)'
    <3>1. CASE k # h \/ i \in 1..n
      <4>1. i \in DOMAIN given[k] /\ given'[k][i] = given[k][i]
        BY <3>1, <2>1, <2>3
      <4>2. given[k][i].call \in Call /\ IsEarlier(given[k][i].call, k)
        BY <4>1, GivenItems DEF GivenBefore
      <4>3. IsEarlier(c, k)
        BY <4>1, <4>2, <2>8
      <4> QED BY <4>3, <2>5
    <3>2. CASE k = h /\ i = n + 1
      <4>1. c = worker.call
        BY <3>2, <2>1, <2>31, <2>8
      <4> QED BY <3>2, <4>1, <2>6
    <3> QED BY <2>3, <3>1, <3>2
  <2>9. \A k \in Handler : \A i \in DOMAIN given'[k] : given'[k][i].call \in Call
    <3> SUFFICES ASSUME NEW k \in Handler PROVE \A i \in DOMAIN given'[k] : given'[k][i].call \in Call
      OBVIOUS
    <3>1. given'[k] \in Seq(LogMessage)
      BY DEF TypeInv
    <3>2. \A i \in DOMAIN given'[k] : given'[k][i] \in LogMessage
      BY <3>1, Items
    <3> QED BY <3>2 DEF LogMessage
  <2> QED BY <2>7, <2>8, <2>9 DEF GivenBefore
<1>10. CASE DropPointer \/ Joined \/ AllDropped \/ LogDone \/ FlushDone
  <2>1. UNCHANGED <<executor, given, calls>> /\ worker'.kind # "log"
    BY <1>10 DEF DropPointer, Joined, AllDropped, LogDone, FlushDone, NoWorkItem, Drops,
                 outsideVars, historyVars
  <2> QED BY <1>2, <2>1
<1>11. CASE AsideStep
  BY <1>2, <1>11 DEF AsideStep
<1> QED BY <1>3, <1>4, <1>5, <1>6, <1>7, <1>8, <1>9, <1>10, <1>11, Cases, QuietSteps,
           AsideSteps DEF SilentCall

-----------------------------------------------------------------------------
(* What can happen to a handler in one step                                      *)

Inbox(h) == sink[h].exec.work[WorkerThread]

Untouched(h) ==
  /\ sink'[h].exec = sink[h].exec /\ sink'[h].out = sink[h].out
  /\ sink'[h].capacity = sink[h].capacity
  /\ given'[h] = given[h] /\ stopper'[h] = stopper[h]

Asked(h, p, item) ==
  /\ stopper[h] = Nobody /\ stopper'[h] = Nobody /\ given'[h] = given[h]
  /\ p # WorkerThread /\ item.kind \in {"creator", "flush"}
  /\ sink'[h] = Send(sink[h], p, item)

Handed(h) == HandOver /\ h = Head(worker.todo)

Ended(h, p, c) ==
  /\ stopper[h] = Nobody /\ stopper'[h] = p /\ given'[h] = given[h]
  /\ sink'[h] = StartDestruction(sink[h], p, c)

Ran(h, p) ==
  /\ p \in Available(sink[h].exec) /\ sink'[h] = RunWork(sink[h], p)
  /\ given'[h] = given[h] /\ stopper'[h] = stopper[h]

LEMMA Changes ==
  ASSUME TypeInv, EndOK, LifeOK, Step, NEW h \in Handler
  PROVE  \/ Untouched(h) \/ Handed(h) \/ \E p \in Available(sink[h].exec) : Ran(h, p)
         \/ \E p \in Producer : \/ \E item \in SinkItem : Asked(h, p, item)
                                \/ \E c \in Call : Ended(h, p, c)
<1> DEFINE Goal == \/ Untouched(h) \/ Handed(h) \/ \E p \in Available(sink[h].exec) : Ran(h, p)
                   \/ \E p \in Producer : \/ \E item \in SinkItem : Asked(h, p, item)
                                          \/ \E c \in Call : Ended(h, p, c)
<1> SUFFICES Goal
  OBVIOUS
<1>0. sink[h] \in HandlerState /\ \A t \in Thread : t \in Producer /\ t # WorkerThread
  BY ProducerAssumption DEF TypeInv, Producer
<1>1. ASSUME UNCHANGED <<sink, given, stopper>> PROVE Goal
  BY <1>1 DEF Untouched
<1>2. ASSUME NEW t \in Thread, NEW k \in Handler, SetCreator(t, k) PROVE Goal
  <2>1. /\ Calls(t, "setCreator") /\ k \in held /\ UNCHANGED <<given, stopper>>
        /\ sink' = [sink EXCEPT ![k] = SetMessageStringCreatorFunction(@, t, This(t))]
    BY <1>2 DEF SetCreator
  <2>2. This(t) \in Call /\ stopper[k] = Nobody
    BY <2>1, ThisCall DEF LifeOK, Unreachable
  <2>3. CASE k # h
    BY <2>1, <2>3 DEF Untouched, TypeInv
  <2>4. CASE k = h
    <3>1. sink'[h] = SetMessageStringCreatorFunction(sink[h], t, This(t))
      BY <2>1, <2>4 DEF TypeInv
    <3>2. sink'[h] = sink[h] \/ sink'[h] = Send(sink[h], t, HandlerWork("creator", This(t)))
      BY <1>0, <2>2, <3>1, CreatorResult
    <3>3. /\ HandlerWork("creator", This(t)) \in SinkItem
          /\ HandlerWork("creator", This(t)).kind = "creator"
      BY <2>2 DEF HandlerWork, SinkItem
    <3> QED BY <1>0, <2>1, <2>2, <2>4, <3>2, <3>3 DEF Untouched, Asked
  <2> QED BY <2>3, <2>4
<1>3. ASSUME NEW t \in Thread, NEW k \in Handler, Release(t, k) PROVE Goal
  <2>1. Calls(t, "release") /\ k \in held /\ given' = given
    BY <1>3 DEF Release
  <2>2. This(t) \in Call /\ stopper[k] = Nobody
    BY <2>1, ThisCall DEF LifeOK, Unreachable
  <2>3. CASE LoggerHolds(k)
    BY <1>1, <1>3, <2>1, <2>3 DEF Release
  <2>4. CASE ~LoggerHolds(k)
    <3>1. /\ sink' = [sink EXCEPT ![k] = StartDestruction(@, t, This(t))]
          /\ stopper' = [stopper EXCEPT ![k] = t]
      BY <1>3, <2>4 DEF Release
    <3>2. CASE k # h
      BY <2>1, <3>1, <3>2 DEF Untouched, TypeInv
    <3>3. CASE k = h
      <4>1. Ended(h, t, This(t))
        BY <2>1, <2>2, <3>1, <3>3 DEF Ended, TypeInv
      <4> QED BY <1>0, <2>2, <4>1
    <3> QED BY <3>2, <3>3
  <2> QED BY <2>3, <2>4
<1>4. ASSUME NEW t \in Thread, JoinExecutor(t) PROVE Goal
  <2> DEFINE orphans == (Carried \cup Set(handlers)) \ held
  <2>1. /\ sink' = [k \in Handler |-> IF k \in orphans
                     THEN StartDestruction(sink[k], t, <<t, calls[t]>>) ELSE sink[k]]
        /\ stopper' = [k \in Handler |-> IF k \in orphans THEN t ELSE stopper[k]]
        /\ given' = given /\ <<t, calls[t]>> \in Call
    BY <1>4, LastCall DEF JoinExecutor
  <2>2. CASE h \in orphans
    <3>1. stopper[h] = Nobody
      <4>1. worker.kind = "idle"
        BY <1>4 DEF JoinExecutor, EndOK, WorkerStopped
      <4> QED BY <2>2, <4>1 DEF LifeOK, Unreachable, Clearing
    <3>2. Ended(h, t, <<t, calls[t]>>)
      BY <2>1, <2>2, <3>1 DEF Ended
    <3> QED BY <1>0, <2>1, <3>2
  <2>3. CASE h \notin orphans
    BY <2>1, <2>3 DEF Untouched
  <2> QED BY <2>2, <2>3
<1>5. CASE DropPointer
  <2>0. PICK k : k = Head(worker.todo)
    OBVIOUS
  <2>1. /\ worker.kind = "drop" /\ worker.todo # << >> /\ given' = given
        /\ worker.call \in Call /\ k \in Handler /\ stopper[k] = Nobody
    <3>1. worker.kind = "drop" /\ worker.todo # << >> /\ given' = given
      BY <1>5 DEF DropPointer
    <3>2. worker.call \in Call /\ worker.todo \in Seq(Handler)
      BY <3>1, WorkerTypes
    <3>3. k \in Handler /\ k \in Set(worker.todo)
      BY <2>0, <3>1, <3>2, Items DEF Set
    <3> QED BY <3>1, <3>2, <3>3 DEF LifeOK, Unreachable
  <2>2. \/ UNCHANGED <<sink, stopper>>
        \/ /\ sink' = [sink EXCEPT ![k] = StartDestruction(@, WorkerThread, worker.call)]
           /\ stopper' = [stopper EXCEPT ![k] = WorkerThread]
    BY <1>5, <2>0 DEF DropPointer
  <2>3. CASE UNCHANGED <<sink, stopper>>
    BY <1>1, <2>1, <2>3
  <2>4. CASE /\ sink' = [sink EXCEPT ![k] = StartDestruction(@, WorkerThread, worker.call)]
             /\ stopper' = [stopper EXCEPT ![k] = WorkerThread]
    <3>1. CASE k # h
      BY <2>1, <2>4, <3>1 DEF Untouched, TypeInv
    <3>2. CASE k = h
      <4>1. Ended(h, WorkerThread, worker.call)
        BY <2>1, <2>4, <3>2 DEF Ended, TypeInv
      <4> QED BY <2>1, <4>1 DEF Producer
    <3> QED BY <3>1, <3>2
  <2> QED BY <2>2, <2>3, <2>4
<1>6. CASE HandOver
  <2>1. CASE h = Head(worker.todo)
    BY <1>6, <2>1 DEF Handed
  <2>2. CASE h # Head(worker.todo)
    BY <1>6, <2>2, HandOverResult DEF Untouched
  <2> QED BY <2>1, <2>2
<1>7. ASSUME NEW k \in Handler, FlushHandler(k) PROVE Goal
  <2>1. /\ worker.kind = "flush" /\ k \in DOMAIN flushing /\ UNCHANGED <<given, stopper>>
        /\ sink' = [sink EXCEPT ![k] = StartFlush(@, worker.call, worker.call)]
    BY <1>7 DEF FlushHandler, historyVars
  <2>2. worker.call \in Call /\ worker.call # WorkerThread /\ stopper[k] = Nobody
    BY <2>1, WorkerTypes, ProducerAssumption
       DEF LifeOK, Unreachable, VisitsHandlers, Clearing
  <2>3. CASE k # h
    BY <2>1, <2>3 DEF Untouched, TypeInv
  <2>4. CASE k = h
    <3>1. sink'[h] = StartFlush(sink[h], worker.call, worker.call)
      BY <2>1, <2>4 DEF TypeInv
    <3>2. HandlerWork("flush", worker.call) \in SinkItem
          /\ HandlerWork("flush", worker.call).kind = "flush"
      BY <2>2 DEF HandlerWork, SinkItem
    <3>3. worker.call \in Producer
      BY <2>2 DEF Producer
    <3>4. \/ sink'[h] = Send(sink[h], worker.call, HandlerWork("flush", worker.call))
          \/ /\ sink'[h].exec = sink[h].exec /\ sink'[h].out = sink[h].out
             /\ sink'[h].capacity = sink[h].capacity
      BY <1>0, <2>2, <3>1, <3>3, StartFlushResult
    <3> QED BY <2>1, <2>2, <2>4, <3>2, <3>3, <3>4 DEF Untouched, Asked
  <2> QED BY <2>3, <2>4
<1>8. ASSUME NEW k \in Handler, HandlerThread(k) PROVE Goal
  <2>1. PICK p \in Available(sink[k].exec) : sink' = [sink EXCEPT ![k] = RunWork(@, p)]
    BY <1>8 DEF HandlerThread
  <2>2. UNCHANGED <<given, stopper>>
    BY <1>8 DEF HandlerThread, historyVars
  <2>3. CASE k # h
    BY <2>1, <2>2, <2>3 DEF Untouched, TypeInv
  <2>4. CASE k = h
    <3>1. Ran(h, p)
      BY <2>1, <2>2, <2>4 DEF Ran, TypeInv
    <3> QED BY <2>1, <2>4, <3>1
  <2> QED BY <2>3, <2>4
<1>9. ASSUME NEW t \in Thread,
             \/ \E item \in WorkItem : SendStep(t, item)
             \/ SilentCall(t) \/ GetHandlers(t) \/ TakeStep(t)
             \/ Return(t) \/ Destroyed(t) \/ StopExecutor(t)
      PROVE  Goal
  BY <1>1, <1>9 DEF SendStep, SilentCall, QuietCall, GetHandlers, TakeStep, Return, Destroyed,
                    StopExecutor, historyVars
<1>10. CASE Joined \/ AllDropped \/ LogDone \/ FlushDone
  BY <1>1, <1>10 DEF Joined, AllDropped, LogDone, FlushDone, historyVars
<1>11. ASSUME NEW k \in Handler, NEW verdict, Judged(k, verdict) PROVE Goal
  BY <1>1, <1>11 DEF Judged, historyVars
<1> HIDE DEF Goal
<1> QED BY <1>2, <1>3, <1>4, <1>5, <1>6, <1>7, <1>8, <1>9, <1>10, <1>11, Cases DEF Async

-----------------------------------------------------------------------------
(* What a handler's queue holds                                                 *)

Queue(h, p) == sink[h].exec.work[p]

InboxOK(h) ==
  /\ sink[h].capacity = IF h \in Graylog THEN Capacity ELSE 0
  /\ \A p \in Producer : \A i \in DOMAIN Queue(h, p) :
       /\ Queue(h, p)[i].kind = "message" => p = WorkerThread
       /\ Queue(h, p)[i].kind = "stop" => p = stopper[h] /\ i = Len(Queue(h, p))
       /\ p = WorkerThread => Queue(h, p)[i].kind \in {"message", "stop"}
  /\ ~sink[h].exec.running =>
       /\ stopper[h] # Nobody
       /\ h \notin Graylog /\ stopper[h] = WorkerThread => Inbox(h) = << >>

InboxesOK == \A h \in Handler : InboxOK(h)

LEMMA QueueItems ==
  ASSUME TypeInv, NEW h \in Handler
  PROVE  /\ sink[h] \in HandlerState /\ sink[h].exec.running \in BOOLEAN
         /\ \A p \in Producer : /\ Queue(h, p) \in Seq(SinkItem) /\ Len(Queue(h, p)) \in Nat
                                /\ DOMAIN Queue(h, p) = 1..Len(Queue(h, p))
                                /\ \A i \in DOMAIN Queue(h, p) : Queue(h, p)[i] \in SinkItem
         /\ Inbox(h) = Queue(h, WorkerThread) /\ WorkerThread \in Producer
         /\ sink[h].out \in Seq([msg : LogMessage, creator : Formatter])
         /\ Len(sink[h].out) \in Nat /\ DOMAIN sink[h].out = 1..Len(sink[h].out)
<1>1. sink[h] \in HandlerState /\ sink[h].exec.running \in BOOLEAN
      /\ sink[h].out \in Seq([msg : LogMessage, creator : Formatter])
  BY DEF TypeInv, HandlerState
<1>2. \A p \in Producer : Queue(h, p) \in Seq(SinkItem)
  BY <1>1 DEF Queue, HandlerState
<1> QED BY <1>1, <1>2, Items DEF Queue, Inbox, Producer

LEMMA NotGraylog ==
  ASSUME TypeInv, NEW h \in Handler, InboxOK(h)
  PROVE  IsGraylog(sink[h]) <=> h \in Graylog
BY LoggerAssumption DEF InboxOK, IsGraylog

LEMMA SendInbox ==
  ASSUME TypeInv, NEW h \in Handler, InboxOK(h), NEW p \in Producer, NEW item \in SinkItem,
         stopper[h] = Nobody, sink'[h] = Send(sink[h], p, item),
         item.kind = "message" => p = WorkerThread,
         item.kind \in {"creator", "flush"} => p # WorkerThread,
         stopper'[h] = IF item.kind = "stop" THEN p ELSE Nobody
  PROVE  InboxOK(h)'
<1>1. /\ sink[h] \in HandlerState /\ sink[h].exec.running
      /\ \A q \in Producer : /\ DOMAIN Queue(h, q) = 1..Len(Queue(h, q))
                             /\ Queue(h, q) \in Seq(SinkItem) /\ Len(Queue(h, q)) \in Nat
  BY QueueItems DEF InboxOK
<1>2. /\ \A q \in Producer \ {p} : Queue(h, q)' = Queue(h, q)
      /\ Queue(h, p)' = Append(Queue(h, p), item)
      /\ sink'[h].exec.running /\ sink'[h].capacity = sink[h].capacity
  <2>1. sink[h] \in HandlerState
    BY <1>1
  <2> DEFINE n == Send(sink[h], p, item)
  <2>2. /\ \A q \in Producer \ {p} : n.exec.work[q] = sink[h].exec.work[q]
        /\ n.exec.work[p] = Append(sink[h].exec.work[p], item)
        /\ n.exec.running = sink[h].exec.running /\ n.capacity = sink[h].capacity
    BY <2>1, SendResult
  <2>3. sink'[h] = n
    OBVIOUS
  <2> HIDE DEF n
  <2> QED BY <1>1, <2>2, <2>3 DEF Queue
<1>3. /\ DOMAIN Queue(h, p)' = 1..(Len(Queue(h, p)) + 1)
      /\ Len(Queue(h, p)') = Len(Queue(h, p)) + 1
      /\ \A i \in 1..Len(Queue(h, p)) : Queue(h, p)'[i] = Queue(h, p)[i]
      /\ Queue(h, p)'[Len(Queue(h, p)) + 1] = item
  BY <1>1, <1>2, LongerItems
<1>4. \A q \in Producer : \A i \in DOMAIN Queue(h, q) : Queue(h, q)[i].kind # "stop"
  BY ProducerAssumption DEF InboxOK
<1>5. item.kind \in {"message", "creator", "flush", "stop"}
  BY DEF SinkItem
<1>6. ASSUME NEW q \in Producer, NEW i \in DOMAIN Queue(h, q)'
      PROVE  /\ Queue(h, q)'[i].kind = "message" => q = WorkerThread
             /\ Queue(h, q)'[i].kind = "stop" => q = stopper'[h] /\ i = Len(Queue(h, q)')
             /\ q = WorkerThread => Queue(h, q)'[i].kind \in {"message", "stop"}
  <2>1. CASE q = p /\ i = Len(Queue(h, p)) + 1
    <3>1. Queue(h, q)'[i] = item /\ Len(Queue(h, q)') = i
      BY <2>1, <1>3 DEF Queue
    <3> QED BY <2>1, <3>1, <1>5
  <2>2. CASE ~(q = p /\ i = Len(Queue(h, p)) + 1)
    <3>1. i \in DOMAIN Queue(h, q) /\ Queue(h, q)'[i] = Queue(h, q)[i]
      <4>1. CASE q = p
        <5>1. i \in DOMAIN Queue(h, p)'
          BY <4>1 DEF Queue
        <5>2. i \in 1..Len(Queue(h, p)) /\ Queue(h, p)'[i] = Queue(h, p)[i]
          BY <4>1, <5>1, <2>2, <1>1, <1>3
        <5> QED BY <4>1, <5>2, <1>1 DEF Queue
      <4>2. CASE q # p
        <5>1. Queue(h, q)' = Queue(h, q)
          BY <4>2, <1>2
        <5> QED BY <5>1
      <4> QED BY <4>1, <4>2
    <3> QED BY <3>1, <1>4 DEF InboxOK
  <2> QED BY <2>1, <2>2
<1> QED BY <1>2, <1>6 DEF InboxOK

LEMMA InboxStep ==
  ASSUME TypeInv, EndOK, LifeOK, InboxesOK, Step
  PROVE  InboxesOK'
<1> SUFFICES ASSUME NEW h \in Handler PROVE InboxOK(h)'
  BY DEF InboxesOK
<1>0. InboxOK(h) /\ sink[h] \in HandlerState
  BY QueueItems DEF InboxesOK
<1>1. CASE Untouched(h)
  BY <1>0, <1>1 DEF Untouched, InboxOK, Queue, Inbox
<1>2. CASE Handed(h)
  <2>1. PICK msg \in LogMessage : /\ sink'[h] = AddMessage(sink[h], WorkerThread, msg)
                                  /\ stopper[h] = Nobody /\ stopper' = stopper
    BY <1>2, HandOverResult DEF Handed
  <2>2. CASE sink'[h] = sink[h]
    BY <1>0, <2>1, <2>2 DEF InboxOK, Queue, Inbox
  <2>3. CASE sink'[h] = Send(sink[h], WorkerThread, [kind |-> "message", msg |-> msg])
    <3>1. [kind |-> "message", msg |-> msg] \in SinkItem
      BY DEF SinkItem
    <3> QED BY <1>0, <2>1, <2>3, <3>1, SendInbox, QueueItems
  <2>4. WorkerThread \in Producer
    BY DEF Producer
  <2> QED BY <1>0, <2>1, <2>2, <2>3, <2>4, AddMessageResult
<1>3. ASSUME NEW p \in Producer, NEW item \in SinkItem, Asked(h, p, item) PROVE InboxOK(h)'
  BY <1>0, <1>3, SendInbox DEF Asked
<1>4. ASSUME NEW p \in Producer, NEW c \in Call, Ended(h, p, c) PROVE InboxOK(h)'
  <2>1. /\ stopper[h] = Nobody /\ stopper'[h] = p /\ p # Nobody
        /\ sink'[h] = StartDestruction(sink[h], p, c)
    BY <1>4, ProducerAssumption DEF Ended
  <2>2. CASE h \in Graylog
    <3>1. /\ ~sink'[h].exec.running /\ \A q \in Producer : Queue(h, q)' = << >>
          /\ sink'[h].capacity = sink[h].capacity
      BY <1>0, <2>1, <2>2, NotGraylog, DestructionResult DEF Queue
    <3>2. \A q \in Producer : DOMAIN Queue(h, q)' = {}
      BY <3>1, NoItems
    <3> QED BY <1>0, <2>1, <2>2, <3>1, <3>2 DEF InboxOK
  <2>3. CASE h \notin Graylog
    <3>1. sink'[h] = Send(sink[h], p, HandlerWork("stop", c))
      BY <1>0, <2>1, <2>3, NotGraylog, DestructionResult
    <3>2. HandlerWork("stop", c) \in SinkItem /\ HandlerWork("stop", c).kind = "stop"
      BY DEF HandlerWork, SinkItem
    <3> QED BY <1>0, <2>1, <3>1, <3>2, SendInbox
  <2> QED BY <2>2, <2>3
<1>5. ASSUME NEW p \in Available(sink[h].exec), Ran(h, p) PROVE InboxOK(h)'
  <2>1. /\ p \in Producer /\ Queue(h, p) \in Seq(SinkItem) /\ Queue(h, p) # << >>
        /\ \A q \in Producer \ {p} : Queue(h, q)' = Queue(h, q)
        /\ Queue(h, p)' = Tail(Queue(h, p))
        /\ ~sink'[h].exec.running => Queue(h, p)[1].kind = "stop"
        /\ sink'[h].capacity = sink[h].capacity /\ stopper'[h] = stopper[h]
    <3>1. sink'[h] = RunWork(sink[h], p) /\ stopper'[h] = stopper[h]
      BY <1>5 DEF Ran
    <3> DEFINE n == RunWork(sink[h], p)
    <3>2. /\ p \in Producer /\ sink[h].exec.work[p] \in Seq(SinkItem)
          /\ sink[h].exec.work[p] # << >>
          /\ \A q \in Producer \ {p} : n.exec.work[q] = sink[h].exec.work[q]
          /\ n.exec.work[p] = Tail(sink[h].exec.work[p])
          /\ ~n.exec.running => sink[h].exec.work[p][1].kind = "stop"
          /\ n.capacity = sink[h].capacity
      <4>1. sink[h] \in HandlerState
        BY QueueItems
      <4>2. /\ p \in Producer /\ sink[h].exec.work[p] \in Seq(SinkItem)
            /\ sink[h].exec.work[p] # << >>
            /\ \A q \in Producer \ {p} : n.exec.work[q] = sink[h].exec.work[q]
            /\ n.exec.work[p] = Tail(sink[h].exec.work[p])
        BY <4>1, RunResult
      <4>3. /\ ~n.exec.running => sink[h].exec.work[p][1].kind = "stop"
            /\ n.capacity = sink[h].capacity
        BY <4>1, RunResult
      <4> QED BY <4>2, <4>3
    <3> HIDE DEF n
    <3>3. sink'[h] = n
      BY <3>1 DEF n
    <3> QED BY <3>1, <3>2, <3>3 DEF Queue
  <2>2. /\ DOMAIN Queue(h, p)' = 1..(Len(Queue(h, p)) - 1) /\ Len(Queue(h, p)) \in Nat
        /\ Len(Queue(h, p)') = Len(Queue(h, p)) - 1 /\ 1 \in DOMAIN Queue(h, p)
        /\ \A i \in 1..(Len(Queue(h, p)) - 1) :
             i + 1 \in DOMAIN Queue(h, p) /\ Queue(h, p)'[i] = Queue(h, p)[i + 1]
    BY <2>1, TailItems, Items
  <2>3. ASSUME NEW q \in Producer, NEW i \in DOMAIN Queue(h, q)'
        PROVE  /\ Queue(h, q)'[i].kind = "message" => q = WorkerThread
               /\ Queue(h, q)'[i].kind = "stop" => q = stopper'[h] /\ i = Len(Queue(h, q)')
               /\ q = WorkerThread => Queue(h, q)'[i].kind \in {"message", "stop"}
    <3>1. CASE q = p
      <4>1. /\ i \in 1..(Len(Queue(h, p)) - 1) /\ i + 1 \in DOMAIN Queue(h, p)
            /\ Queue(h, q)'[i] = Queue(h, p)[i + 1]
        BY <3>1, <2>2 DEF Queue
      <4>2. /\ Queue(h, p)[i + 1].kind = "message" => p = WorkerThread
            /\ Queue(h, p)[i + 1].kind = "stop" => p = stopper[h] /\ i + 1 = Len(Queue(h, p))
            /\ p = WorkerThread => Queue(h, p)[i + 1].kind \in {"message", "stop"}
        BY <1>0, <2>1, <4>1 DEF InboxOK
      <4>3. Len(Queue(h, q)') = Len(Queue(h, p)) - 1
        BY <3>1, <2>2 DEF Queue
      <4> QED BY <2>1, <2>2, <3>1, <4>1, <4>2, <4>3
    <3>2. CASE q # p
      <4>1. Queue(h, q)' = Queue(h, q)
        BY <2>1, <3>2
      <4> QED BY <4>1, <1>0, <2>1 DEF InboxOK
    <3> QED BY <3>1, <3>2
  <2>4. ASSUME ~sink'[h].exec.running
        PROVE  /\ stopper'[h] # Nobody
               /\ h \notin Graylog /\ stopper'[h] = WorkerThread => Inbox(h)' = << >>
    <3>1. p = stopper[h] /\ Len(Queue(h, p)) = 1
      BY <1>0, <2>1, <2>2, <2>4 DEF InboxOK
    <3>2. Queue(h, p)' \in Seq(SinkItem) /\ Len(Queue(h, p)') = 0
      BY <2>1, <2>2, <3>1, TailItems
    <3>3. Queue(h, p)' = << >>
      BY <3>2, EmptySeq
    <3> QED BY <2>1, <3>1, <3>3, ProducerAssumption DEF Inbox, Queue
  <2> QED BY <1>0, <2>1, <2>3, <2>4 DEF InboxOK
<1> QED BY <1>1, <1>2, <1>3, <1>4, <1>5, Changes

-----------------------------------------------------------------------------
(* What a handler has written or has in its queue, in that order                 *)

Written(h) == Len(sink[h].out)

Passed(h) == {n \in 1..(Written(h) + Len(Inbox(h))) :
                n > Written(h) => Inbox(h)[n - Written(h)].kind = "message"}

At(h, n) == IF n <= Written(h) THEN sink[h].out[n].msg ELSE Inbox(h)[n - Written(h)].msg

\* m was given to h before n.
Before(h, m, n) == \A k, l \in DOMAIN given[h] :
  given[h][k] = m /\ given[h][l] = n => k < l

PassedInOrder(h) ==
  /\ \A n \in Passed(h) : At(h, n) \in Set(given[h])
  /\ \A m, n \in Passed(h) : m < n => Before(h, At(h, m), At(h, n))

PassedAll(h) == Passed(h) = DOMAIN given[h] /\ \A n \in Passed(h) : At(h, n) = given[h][n]

SinksOK == \A h \in Handler : PassedInOrder(h) /\ (h \notin Graylog => PassedAll(h))

\* What a step may leave of it.
Fewer(h) == /\ given'[h] = given[h] /\ Passed(h)' \subseteq Passed(h)
            /\ \A n \in Nat : n \in Passed(h)' => At(h, n)' = At(h, n)
Same(h)  == Fewer(h) /\ Passed(h)' = Passed(h)

LEMMA PassedItems ==
  ASSUME TypeInv, NEW h \in Handler
  PROVE  /\ Written(h) \in Nat /\ Len(Inbox(h)) \in Nat /\ Inbox(h) \in Seq(SinkItem)
         /\ DOMAIN Inbox(h) = 1..Len(Inbox(h)) /\ DOMAIN sink[h].out = 1..Written(h)
         /\ \A n \in Passed(h) : /\ n \in Nat /\ n >= 1 /\ n <= Written(h) + Len(Inbox(h))
                                 /\ At(h, n) \in LogMessage
         /\ \A n \in 1..Written(h) : n \in Passed(h) /\ At(h, n) = sink[h].out[n].msg
<1>1. /\ Written(h) \in Nat /\ Len(Inbox(h)) \in Nat /\ Inbox(h) \in Seq(SinkItem)
      /\ DOMAIN Inbox(h) = 1..Len(Inbox(h)) /\ DOMAIN sink[h].out = 1..Written(h)
      /\ \A i \in DOMAIN Inbox(h) : Inbox(h)[i] \in SinkItem
      /\ sink[h].out \in Seq([msg : LogMessage, creator : Formatter])
  BY QueueItems DEF Written
<1>2. \A i \in 1..Written(h) : sink[h].out[i].msg \in LogMessage
  <2>1. \A i \in DOMAIN sink[h].out : sink[h].out[i] \in [msg : LogMessage, creator : Formatter]
    BY <1>1, Items
  <2> QED BY <1>1, <2>1
<1>3. ASSUME NEW n \in Passed(h)
      PROVE  n \in Nat /\ n >= 1 /\ n <= Written(h) + Len(Inbox(h)) /\ At(h, n) \in LogMessage
  <2>1. n \in Nat /\ n >= 1 /\ n <= Written(h) + Len(Inbox(h))
    BY <1>1, <1>3 DEF Passed
  <2>2. CASE n <= Written(h)
    BY <1>1, <1>2, <2>1, <2>2 DEF At
  <2>3. CASE n > Written(h)
    <3>1. n - Written(h) \in DOMAIN Inbox(h) /\ Inbox(h)[n - Written(h)].kind = "message"
      BY <1>1, <1>3, <2>1, <2>3 DEF Passed
    <3>2. Inbox(h)[n - Written(h)].msg \in LogMessage
      BY <1>1, <3>1 DEF SinkItem
    <3> QED BY <1>1, <2>1, <2>3, <3>2 DEF At
  <2> QED BY <1>1, <2>1, <2>2, <2>3
<1>4. \A n \in 1..Written(h) : n \in Passed(h) /\ At(h, n) = sink[h].out[n].msg
  BY <1>1 DEF Passed, At
<1> QED BY <1>1, <1>3, <1>4

LEMMA FewerPassed ==
  ASSUME TypeInv, NEW h \in Handler, Fewer(h), PassedInOrder(h)
  PROVE  PassedInOrder(h)' /\ (PassedAll(h) /\ Same(h) => PassedAll(h)')
<1>1. \A n \in Passed(h)' : n \in Passed(h) /\ At(h, n)' = At(h, n)
  BY PassedItems DEF Fewer
<1>2. given'[h] = given[h]
  BY DEF Fewer
<1>3. \A n \in Passed(h)' : At(h, n)' \in Set(given'[h])
  BY <1>1, <1>2 DEF PassedInOrder
<1>4. ASSUME NEW m \in Passed(h)', NEW n \in Passed(h)', m < n
      PROVE  \A k, l \in DOMAIN given'[h] :
               given'[h][k] = At(h, m)' /\ given'[h][l] = At(h, n)' => k < l
  BY <1>1, <1>2, <1>4 DEF PassedInOrder, Before
<1>5. PassedInOrder(h)'
  BY <1>3, <1>4 DEF PassedInOrder, Before
<1>6. PassedAll(h) /\ Same(h) => PassedAll(h)'
  BY <1>1, <1>2 DEF PassedAll, Same
<1> QED BY <1>5, <1>6

\* An item that is no message goes to the end of a queue.
LEMMA OtherSent ==
  ASSUME TypeInv, NEW h \in Handler, NEW p \in Producer, NEW item \in SinkItem,
         item.kind # "message", sink'[h] = Send(sink[h], p, item), given'[h] = given[h]
  PROVE  Same(h)
<1> DEFINE n == Send(sink[h], p, item)
<1>1. sink[h] \in HandlerState /\ WorkerThread \in Producer
  BY QueueItems
<1>2. /\ \A q \in Producer \ {p} : n.exec.work[q] = sink[h].exec.work[q]
      /\ n.exec.work[p] = Append(sink[h].exec.work[p], item) /\ n.out = sink[h].out
  BY <1>1, SendResult
<1>3. sink'[h] = n
  OBVIOUS
<1> HIDE DEF n
<1>4. Written(h)' = Written(h) /\ sink'[h].out = sink[h].out
  BY <1>2, <1>3 DEF Written
<1>5. CASE p # WorkerThread
  <2>1. Inbox(h)' = Inbox(h)
    BY <1>1, <1>2, <1>3, <1>5 DEF Inbox
  <2> QED BY <1>4, <2>1 DEF Same, Fewer, Passed, At
<1>6. CASE p = WorkerThread
  <2>1. Inbox(h)' = Append(Inbox(h), item)
    BY <1>1, <1>2, <1>3, <1>6 DEF Inbox
  <2>2. /\ Inbox(h) \in Seq(SinkItem) /\ Written(h) \in Nat /\ Len(Inbox(h)) \in Nat
        /\ DOMAIN sink[h].out = 1..Written(h)
    BY PassedItems
  <2>3. /\ Len(Inbox(h)') = Len(Inbox(h)) + 1
        /\ \A i \in 1..Len(Inbox(h)) : Inbox(h)'[i] = Inbox(h)[i]
        /\ Inbox(h)'[Len(Inbox(h)) + 1] = item
    BY <2>1, <2>2, LongerItems
  <2>4. ASSUME NEW k \in Nat
        PROVE  /\ k \in Passed(h)' <=> k \in Passed(h)
               /\ k \in Passed(h)' => At(h, k)' = At(h, k)
    <3>1. CASE k <= Written(h)
      BY <3>1, <1>4, <2>2, <2>3 DEF Passed, At
    <3>2. CASE k > Written(h) /\ k <= Written(h) + Len(Inbox(h))
      <4>1. k - Written(h) \in 1..Len(Inbox(h))
        BY <3>2, <2>2
      <4>2. Inbox(h)'[k - Written(h)] = Inbox(h)[k - Written(h)]
        BY <4>1, <2>3
      <4> QED BY <3>2, <4>1, <4>2, <1>4, <2>2, <2>3 DEF Passed, At
    <3>3. CASE k = Written(h) + Len(Inbox(h)) + 1
      <4>1. k - Written(h) = Len(Inbox(h)) + 1
        BY <3>3, <2>2
      <4>2. k \notin Passed(h)
        BY <3>3, <2>2 DEF Passed
      <4>3. k \notin Passed(h)'
        BY <3>3, <4>1, <1>4, <2>2, <2>3 DEF Passed
      <4> QED BY <4>2, <4>3
    <3>4. CASE k > Written(h) + Len(Inbox(h)) + 1
      BY <3>4, <1>4, <2>2, <2>3 DEF Passed
    <3> QED BY <3>1, <3>2, <3>3, <3>4, <2>2
  <2>5. Passed(h) \subseteq Nat /\ Passed(h)' \subseteq Nat
    BY <1>4, <2>2, <2>3 DEF Passed
  <2> QED BY <2>4, <2>5 DEF Same, Fewer
<1> QED BY <1>5, <1>6

\* The worker's message goes to the end of a queue.
LEMMA MessageSent ==
  ASSUME TypeInv, NEW h \in Handler, NEW msg \in LogMessage,
         sink'[h] = Send(sink[h], WorkerThread, [kind |-> "message", msg |-> msg]),
         NEW n, n = Written(h) + Len(Inbox(h)) + 1
  PROVE  /\ Passed(h)' = Passed(h) \cup {n} /\ At(h, n)' = msg
         /\ \A k \in Passed(h) : At(h, k)' = At(h, k)
<1> DEFINE item == [kind |-> "message", msg |-> msg]
           s == Send(sink[h], WorkerThread, item)
<1>1. sink[h] \in HandlerState /\ WorkerThread \in Producer
  BY QueueItems
<1>2. item \in SinkItem /\ item.kind = "message" /\ item.msg = msg
  BY DEF SinkItem
<1>3. s.exec.work[WorkerThread] = Append(sink[h].exec.work[WorkerThread], item) /\ s.out = sink[h].out
  BY <1>1, <1>2, SendResult
<1>4. sink'[h] = s
  OBVIOUS
<1> HIDE DEF s, item
<1>5. Written(h)' = Written(h) /\ sink'[h].out = sink[h].out /\ Inbox(h)' = Append(Inbox(h), item)
  BY <1>3, <1>4 DEF Written, Inbox
<1>6. /\ Inbox(h) \in Seq(SinkItem) /\ Written(h) \in Nat /\ Len(Inbox(h)) \in Nat
      /\ DOMAIN sink[h].out = 1..Written(h)
  BY PassedItems
<1>7. /\ Len(Inbox(h)') = Len(Inbox(h)) + 1
      /\ \A i \in 1..Len(Inbox(h)) : Inbox(h)'[i] = Inbox(h)[i]
      /\ Inbox(h)'[Len(Inbox(h)) + 1] = item
  BY <1>2, <1>5, <1>6, LongerItems
<1>8. ASSUME NEW k \in Nat
      PROVE  /\ k \in Passed(h)' <=> (k \in Passed(h) \/ k = n)
             /\ k = n => At(h, k)' = msg
             /\ k \in Passed(h) => At(h, k)' = At(h, k)
  <2>1. CASE k <= Written(h)
    BY <2>1, <1>5, <1>6, <1>7 DEF Passed, At
  <2>2. CASE k > Written(h) /\ k < n
    <3>1. k - Written(h) \in 1..Len(Inbox(h))
      BY <2>2, <1>6
    <3>2. Inbox(h)'[k - Written(h)] = Inbox(h)[k - Written(h)]
      BY <3>1, <1>7
    <3> QED BY <2>2, <3>1, <3>2, <1>5, <1>6, <1>7 DEF Passed, At
  <2>3. CASE k = n
    <3>1. k - Written(h) = Len(Inbox(h)) + 1 /\ k > Written(h)
      BY <2>3, <1>6
    <3>2. Inbox(h)'[k - Written(h)'] = item
      BY <3>1, <1>5, <1>7
    <3>3. k \notin Passed(h)
      BY <2>3, <1>6 DEF Passed
    <3>4. k \in Passed(h)'
      BY <2>3, <3>2, <1>2, <1>5, <1>6, <1>7 DEF Passed
    <3>5. At(h, k)' = msg
      BY <3>1, <3>2, <1>2, <1>5, <1>6 DEF At
    <3> QED BY <2>3, <3>3, <3>4, <3>5
  <2>4. CASE k > n
    BY <2>4, <1>5, <1>6, <1>7 DEF Passed
  <2> QED BY <2>1, <2>2, <2>3, <2>4, <1>6
<1>9. Passed(h) \subseteq Nat /\ Passed(h)' \subseteq Nat /\ n \in Nat
  BY <1>5, <1>6, <1>7 DEF Passed
<1> QED BY <1>8, <1>9

\* The thread of a handler takes an item.
LEMMA ItemRun ==
  ASSUME TypeInv, NEW h \in Handler, InboxOK(h), NEW p \in Available(sink[h].exec), Ran(h, p)
  PROVE  Same(h)
<1> DEFINE n == RunWork(sink[h], p)
           item == sink[h].exec.work[p][1]
<1>1. sink[h] \in HandlerState
  BY QueueItems
<1>2. /\ p \in Producer /\ item \in SinkItem /\ sink[h].exec.work[p] \in Seq(SinkItem)
      /\ sink[h].exec.work[p] # << >>
      /\ \A q \in Producer \ {p} : n.exec.work[q] = sink[h].exec.work[q]
      /\ n.exec.work[p] = Tail(sink[h].exec.work[p])
      /\ n.out = IF item.kind = "message"
                 THEN Append(sink[h].out, [msg |-> item.msg, creator |-> sink[h].creator])
                 ELSE sink[h].out
  BY <1>1, RunResult
<1>3. sink'[h] = n /\ given'[h] = given[h]
  BY DEF Ran
<1> HIDE DEF n, item
<1>4. /\ Inbox(h) \in Seq(SinkItem) /\ Written(h) \in Nat /\ Len(Inbox(h)) \in Nat
      /\ DOMAIN sink[h].out = 1..Written(h) /\ WorkerThread \in Producer
      /\ DOMAIN Inbox(h) = 1..Len(Inbox(h))
  BY PassedItems, QueueItems
<1>5. CASE p # WorkerThread
  <2>1. Inbox(h)' = Inbox(h)
    BY <1>2, <1>3, <1>4, <1>5 DEF Inbox
  <2>2. item.kind # "message"
    <3>1. 1 \in DOMAIN Queue(h, p) /\ Queue(h, p)[1] = item
      BY <1>2, Items DEF Queue, item
    <3> QED BY <3>1, <1>2, <1>5 DEF InboxOK
  <2>3. sink'[h].out = sink[h].out
    BY <1>2, <1>3, <2>2
  <2> QED BY <1>3, <2>1, <2>3 DEF Same, Fewer, Passed, At, Written
<1>6. CASE p = WorkerThread
  <2>1. /\ Inbox(h)' = Tail(Inbox(h)) /\ Inbox(h) # << >> /\ item = Inbox(h)[1]
    BY <1>2, <1>3, <1>6 DEF Inbox, item
  <2>2. /\ Len(Inbox(h)') = Len(Inbox(h)) - 1 /\ Len(Inbox(h)) > 0
        /\ \A i \in 1..(Len(Inbox(h)) - 1) : Inbox(h)'[i] = Inbox(h)[i + 1]
    BY <1>4, <2>1, TailItems, Items
  <2>3. CASE item.kind = "message"
    <3> DEFINE e == [msg |-> item.msg, creator |-> sink[h].creator]
    <3>1. sink'[h].out = Append(sink[h].out, e) /\ e.msg = item.msg
      BY <1>2, <1>3, <2>3
    <3>2. e \in [msg : LogMessage, creator : Formatter]
      BY <1>1, <1>2, <2>3 DEF SinkItem, HandlerState
    <3> HIDE DEF e
    <3>3. sink[h].out \in Seq([msg : LogMessage, creator : Formatter])
      BY <1>1 DEF HandlerState
    <3>4. /\ Written(h)' = Written(h) + 1 /\ sink'[h].out[Written(h) + 1] = e
          /\ \A i \in 1..Written(h) : sink'[h].out[i] = sink[h].out[i]
      BY <3>1, <3>2, <3>3, LongerItems DEF Written
    <3>5. ASSUME NEW k \in Nat
          PROVE  (k \in Passed(h)' <=> k \in Passed(h)) /\ (k \in Passed(h) => At(h, k)' = At(h, k))
      <4>1. CASE k <= Written(h)
        BY <4>1, <1>4, <2>2, <3>4 DEF Passed, At
      <4>2. CASE k = Written(h) + 1
        <5>1. k - Written(h) = 1 /\ k <= Written(h)' /\ k > Written(h) /\ k >= 1
              /\ k <= Written(h) + Len(Inbox(h)) /\ Written(h)' + Len(Inbox(h)') = Written(h) + Len(Inbox(h))
          BY <4>2, <1>4, <2>2, <3>4
        <5>2. k \in Passed(h)' /\ k \in Passed(h)
          BY <5>1, <1>4, <2>1, <2>2, <2>3, <3>4 DEF Passed
        <5>3. At(h, k)' = item.msg /\ At(h, k) = item.msg
          BY <5>1, <4>2, <1>4, <2>1, <3>1, <3>4 DEF At
        <5> QED BY <5>2, <5>3
      <4>3. CASE k > Written(h) + 1 /\ k <= Written(h) + Len(Inbox(h))
        <5>1. /\ k - (Written(h) + 1) \in 1..(Len(Inbox(h)) - 1)
              /\ k - (Written(h) + 1) + 1 = k - Written(h)
          BY <4>3, <1>4, <2>2
        <5>2. Inbox(h)'[k - (Written(h) + 1)] = Inbox(h)[k - Written(h)]
          BY <5>1, <2>2
        <5> QED BY <4>3, <5>2, <1>4, <2>2, <3>4 DEF Passed, At
      <4>4. CASE k > Written(h) + Len(Inbox(h))
        BY <4>4, <1>4, <2>2, <3>4 DEF Passed
      <4> QED BY <4>1, <4>2, <4>3, <4>4, <1>4
    <3>6. Passed(h) \subseteq Nat /\ Passed(h)' \subseteq Nat
      BY <1>4, <2>2, <3>4 DEF Passed
    <3> QED BY <1>3, <3>5, <3>6 DEF Same, Fewer
  <2>4. CASE item.kind # "message"
    <3>1. 1 \in DOMAIN Inbox(h) /\ item.kind = "stop" /\ Len(Inbox(h)) = 1
      <4>1. 1 \in DOMAIN Queue(h, WorkerThread) /\ Queue(h, WorkerThread)[1] = item
            /\ Queue(h, WorkerThread) = Inbox(h)
        BY <1>4, <2>1, <2>2 DEF Queue, Inbox
      <4>2. /\ item.kind \in {"message", "stop"}
            /\ item.kind = "stop" => 1 = Len(Queue(h, WorkerThread))
        BY <1>4, <4>1 DEF InboxOK
      <4> QED BY <2>4, <4>1, <4>2
    <3>2. Len(Inbox(h)') = 0 /\ Written(h)' = Written(h) /\ sink'[h].out = sink[h].out
      BY <1>2, <1>3, <2>2, <2>4, <3>1 DEF Written
    <3>3. ASSUME NEW k \in Nat
          PROVE  (k \in Passed(h)' <=> k \in Passed(h)) /\ (k \in Passed(h)' => At(h, k)' = At(h, k))
      <4>1. CASE k <= Written(h)
        BY <4>1, <1>4, <3>1, <3>2 DEF Passed, At
      <4>2. CASE k > Written(h)
        <5>1. k \notin Passed(h)'
          BY <4>2, <1>4, <3>2 DEF Passed
        <5>2. k \notin Passed(h)
          <6>1. CASE k = Written(h) + 1
            <7>1. k - Written(h) = 1
              BY <6>1, <1>4
            <7> QED BY <7>1, <4>2, <2>1, <2>4 DEF Passed
          <6>2. CASE k > Written(h) + 1
            BY <6>2, <3>1, <1>4 DEF Passed
          <6> QED BY <6>1, <6>2, <4>2, <1>4
        <5> QED BY <5>1, <5>2
      <4> QED BY <4>1, <4>2, <1>4
    <3>4. Passed(h) \subseteq Nat /\ Passed(h)' \subseteq Nat
      BY <1>4, <3>1, <3>2 DEF Passed
    <3> QED BY <1>3, <3>3, <3>4 DEF Same, Fewer
  <2> QED BY <2>3, <2>4
<1> QED BY <1>5, <1>6

\* A handler that gets a message has not got it before.
LEMMA Fresh ==
  ASSUME TypeInv, GivenOK, LifeOK, HandOver, NEW msg \in LogMessage,
         msg.call = worker.call, NEW h \in Handler, h = Head(worker.todo)
  PROVE  msg \notin Set(given[h])
<1>1. /\ worker.kind = "log" /\ worker.todo # << >> /\ worker.todo \in Seq(Handler)
      /\ worker.call \in Call
  BY WorkerTypes DEF HandOver
<1>2. h \in Set(worker.todo)
  BY <1>1, Items DEF Set
<1>3. ASSUME NEW k \in DOMAIN given[h], given[h][k] = msg PROVE FALSE
  <2>1. IsEarlier(worker.call, h)
    BY <1>3 DEF GivenOK, GivenBefore
  <2>2. worker.call[2] \in Nat
    BY <1>1, CallParts
  <2> QED BY <1>1, <1>2, <2>1, <2>2 DEF IsEarlier
<1> QED BY <1>3 DEF Set

LEMMA SinksHanded ==
  ASSUME TypeInv, LifeOK, GivenOK, NEW h \in Handler, InboxOK(h), Handed(h), PassedInOrder(h),
         h \notin Graylog => PassedAll(h)
  PROVE  PassedInOrder(h)' /\ (h \notin Graylog => PassedAll(h)')
<1>1. PICK msg : /\ msg \in LogMessage /\ msg.call = worker.call /\ stopper[h] = Nobody
                 /\ sink'[h] = AddMessage(sink[h], WorkerThread, msg)
                 /\ given'[h] = Append(given[h], msg)
  BY HandOverResult DEF Handed
<1>2. msg \notin Set(given[h])
  BY <1>1, Fresh DEF Handed
<1>3. given[h] \in Seq(LogMessage) /\ DOMAIN given[h] = 1..Len(given[h]) /\ Len(given[h]) \in Nat
  BY GivenItems
<1>4. /\ DOMAIN given'[h] = 1..(Len(given[h]) + 1) /\ given'[h][Len(given[h]) + 1] = msg
      /\ \A k \in 1..Len(given[h]) : given'[h][k] = given[h][k]
  BY <1>1, <1>3, LongerItems
<1>5. /\ Set(given'[h]) = Set(given[h]) \cup {msg}
      /\ \A k \in DOMAIN given'[h] : given'[h][k] = msg => k = Len(given[h]) + 1
      /\ \A k \in DOMAIN given'[h] : given'[h][k] # msg => k \in DOMAIN given[h]
    BY SMTT(30), <1>2, <1>3, <1>4 DEF Set
<1>6. \A m \in Passed(h) : At(h, m) \in Set(given[h]) /\ At(h, m) # msg
  BY <1>2 DEF PassedInOrder
<1>7. \A m, n \in Passed(h) : m < n => \A k, l \in DOMAIN given'[h] :
        given'[h][k] = At(h, m) /\ given'[h][l] = At(h, n) => k < l
  BY <1>3, <1>4, <1>5, <1>6 DEF PassedInOrder, Before
<1>8. ASSUME sink'[h] = sink[h], IsGraylog(sink[h])
      PROVE  PassedInOrder(h)' /\ (h \notin Graylog => PassedAll(h)')
  <2>1. Passed(h)' = Passed(h) /\ \A m \in Passed(h) : At(h, m)' = At(h, m)
    BY <1>8 DEF Passed, At, Written, Inbox
  <2>2. h \in Graylog
    BY <1>8, NotGraylog
  <2>3. \A m \in Passed(h)' : At(h, m)' \in Set(given'[h])
    BY <2>1, <1>5, <1>6
  <2>4. \A m, n \in Passed(h)' : m < n => \A k, l \in DOMAIN given'[h] :
          given'[h][k] = At(h, m)' /\ given'[h][l] = At(h, n)' => k < l
    BY <2>1, <1>7
  <2> QED BY <2>2, <2>3, <2>4 DEF PassedInOrder, Before, Set
<1>9. ASSUME sink'[h] = Send(sink[h], WorkerThread, [kind |-> "message", msg |-> msg])
      PROVE  PassedInOrder(h)' /\ (h \notin Graylog => PassedAll(h)')
  <2>1. PICK n : n = Written(h) + Len(Inbox(h)) + 1
    OBVIOUS
  <2>2. /\ Passed(h)' = Passed(h) \cup {n} /\ At(h, n)' = msg
        /\ \A k \in Passed(h) : At(h, k)' = At(h, k)
    BY <1>1, <1>9, <2>1, MessageSent
  <2>3. n \in Nat /\ \A k \in Passed(h) : k \in Nat /\ k < n
    BY <2>1, PassedItems
  <2>4. \A m \in Passed(h)' : At(h, m)' \in Set(given'[h])
    BY <2>2, <1>5, <1>6
  <2>5. ASSUME NEW l \in Passed(h)', NEW m \in Passed(h)', l < m,
               NEW i \in DOMAIN given'[h], NEW j \in DOMAIN given'[h],
               given'[h][i] = At(h, l)', given'[h][j] = At(h, m)'
        PROVE  i < j
    <3>1. CASE m = n
      <4>1. l \in Passed(h)
        BY <3>1, <2>2, <2>3, <2>5
      <4>2. given'[h][i] # msg /\ given'[h][j] = msg
        BY <4>1, <3>1, <2>2, <2>5, <1>6
      <4>3. i \in DOMAIN given[h] /\ j = Len(given[h]) + 1
        BY <4>2, <1>5
      <4> QED BY <4>3, <1>3
    <3>2. CASE m # n
      <4>1. m \in Passed(h) /\ l \in Passed(h)
        BY <3>2, <2>2, <2>3, <2>5
      <4> QED BY <4>1, <2>2, <2>5, <1>7
    <3> QED BY <3>1, <3>2
  <2>6. PassedInOrder(h)'
    BY <2>4, <2>5 DEF PassedInOrder, Before, Set
  <2>7. ASSUME h \notin Graylog PROVE PassedAll(h)'
    <3>1. PassedAll(h)
      BY <2>7
    <3>2. \A i \in DOMAIN Inbox(h) : Inbox(h)[i].kind = "message"
      BY <1>1, QueueItems, ProducerAssumption DEF InboxOK
    <3>3. /\ Written(h) \in Nat /\ Len(Inbox(h)) \in Nat /\ DOMAIN Inbox(h) = 1..Len(Inbox(h))
      BY PassedItems
    <3>4. Passed(h) = 1..(Written(h) + Len(Inbox(h)))
      BY <3>2, <3>3 DEF Passed
    <3>5. 1..(Written(h) + Len(Inbox(h))) = 1..Len(given[h])
      BY <3>1, <3>4, <1>3 DEF PassedAll
    <3>6. Written(h) + Len(Inbox(h)) = Len(given[h])
      <4>1. ASSUME NEW a \in Nat, NEW b \in Nat, 1..a = 1..b PROVE a = b
        <5>1. a > b => a \in 1..a /\ a \notin 1..b
          OBVIOUS
        <5>2. b > a => b \in 1..b /\ b \notin 1..a
          OBVIOUS
        <5> QED BY <4>1, <5>1, <5>2
      <4>2. Written(h) + Len(Inbox(h)) \in Nat
        BY <3>3
      <4> QED BY <4>1, <4>2, <3>5, <1>3
    <3>7. Passed(h)' = DOMAIN given'[h]
      BY <2>1, <2>2, <3>4, <3>6, <1>3, <1>4
    <3>8. \A m \in Passed(h)' : At(h, m)' = given'[h][m]
      BY <3>1, <2>1, <2>2, <3>4, <3>6, <1>3, <1>4 DEF PassedAll
    <3> QED BY <3>7, <3>8 DEF PassedAll
  <2> QED BY <2>6, <2>7
<1> QED BY <1>1, <1>8, <1>9, AddMessageResult, QueueItems

LEMMA SinksStep ==
  ASSUME TypeInv, EndOK, LifeOK, GivenOK, InboxesOK, SinksOK, Step
  PROVE  SinksOK'
<1> SUFFICES ASSUME NEW h \in Handler
             PROVE  PassedInOrder(h)' /\ (h \notin Graylog => PassedAll(h)')
  BY DEF SinksOK
<1>0. /\ InboxOK(h) /\ PassedInOrder(h) /\ (h \notin Graylog => PassedAll(h))
      /\ sink[h] \in HandlerState
  BY QueueItems DEF InboxesOK, SinksOK
<1>1. CASE Untouched(h)
  <2>1. Same(h)
    BY <1>1 DEF Untouched, Same, Fewer, Passed, At, Written, Inbox
  <2> QED BY <1>0, <2>1, FewerPassed DEF Same
<1>2. CASE Handed(h)
  BY <1>0, <1>2, SinksHanded
<1>3. ASSUME NEW p \in Producer, NEW item \in SinkItem, Asked(h, p, item)
      PROVE  PassedInOrder(h)' /\ (h \notin Graylog => PassedAll(h)')
  <2>1. Same(h)
    BY <1>3, OtherSent DEF Asked
  <2> QED BY <1>0, <2>1, FewerPassed DEF Same
<1>4. ASSUME NEW p \in Producer, NEW c \in Call, Ended(h, p, c)
      PROVE  PassedInOrder(h)' /\ (h \notin Graylog => PassedAll(h)')
  <2> DEFINE n == StartDestruction(sink[h], p, c)
             item == HandlerWork("stop", c)
  <2>1. /\ n.out = sink[h].out
        /\ IF IsGraylog(sink[h])
           THEN \A q \in Producer : n.exec.work[q] = << >>
           ELSE n = Send(sink[h], p, item)
    BY <1>0, DestructionResult
  <2>2. sink'[h] = n /\ given'[h] = given[h]
    BY <1>4 DEF Ended
  <2>3. item \in SinkItem /\ item.kind = "stop"
    BY DEF SinkItem, HandlerWork
  <2> HIDE DEF n, item
  <2>4. CASE ~IsGraylog(sink[h])
    <3>1. Same(h)
      BY <2>1, <2>2, <2>3, <2>4, OtherSent
    <3> QED BY <1>0, <3>1, FewerPassed DEF Same
  <2>5. CASE IsGraylog(sink[h])
    <3>1. Inbox(h)' = << >> /\ sink'[h].out = sink[h].out /\ Written(h)' = Written(h)
      BY <2>1, <2>2, <2>5, QueueItems DEF Inbox, Written
    <3>2. Written(h) \in Nat /\ Len(Inbox(h)) \in Nat /\ Len(Inbox(h)') = 0
      BY <3>1, PassedItems, NoItems
    <3>3. ASSUME NEW m \in Passed(h)' PROVE m \in Passed(h) /\ At(h, m)' = At(h, m)
      <4>1. m \in 1..Written(h)
        BY <3>1, <3>2 DEF Passed
      <4> QED BY <4>1, <3>1, <3>2 DEF Passed, At
    <3>4. Fewer(h)
      BY <2>2, <3>3 DEF Fewer
    <3> QED BY <1>0, <2>5, <3>4, FewerPassed, NotGraylog
  <2> QED BY <2>4, <2>5
<1>5. ASSUME NEW p \in Available(sink[h].exec), Ran(h, p)
      PROVE  PassedInOrder(h)' /\ (h \notin Graylog => PassedAll(h)')
  BY <1>0, <1>5, ItemRun, FewerPassed DEF Same
<1> QED BY <1>1, <1>2, <1>3, <1>4, <1>5, Changes

-----------------------------------------------------------------------------
(* What an added handler is given                                               *)

Got(h) == Set(given[h])

Current == [call |-> worker.call, identified |-> baseMsg.identified,
            field |-> baseMsg.field, own |-> worker.own]
IsCurrent(msg) == worker.kind = "log" /\ msg.call = worker.call

\* A handler that the worker does not visit any more has got the message.
Handing ==
  /\ \A k \in Handler : \A msg \in Got(k) : IsCurrent(msg) => msg = Current
  /\ worker.kind = "log" => \A h \in Set(handlers) : h \in Set(worker.todo) \/ Current \in Got(h)

LogsSince(t, n) ==
  /\ \A i \in DOMAIN Work(t) : Work(t)[i].kind = "log" => Work(t)[i].call[2] > n
  /\ worker.kind = "log" /\ worker.call[1] = t => worker.call[2] > n

AddedFirst == \A h \in Handler : adder[h] # NoCall =>
  /\ \A msg \in Got(h) : msg.call[1] = adder[h][1] => msg.call[2] > adder[h][2]
  /\ h \in Set(handlers) => LogsSince(adder[h][1], adder[h][2])

AddedGetsAll == \A h \in Set(handlers) : \A k \in Handler : \A msg \in Got(k) :
  msg.call[1] = adder[h][1] /\ msg.call[2] > adder[h][2] /\ ~IsCurrent(msg) => msg \in Got(h)

AddedOK == /\ Handing /\ AddedFirst /\ AddedGetsAll
           /\ \A h \in Handler : adder[h] = NoCall => given[h] = << >>

\* A step that neither adds a handler nor hands a message over.
LEMMA AddedKept ==
  ASSUME AddedOK, UNCHANGED <<given, adder>>, Set(handlers') \subseteq Set(handlers),
         \A u \in Thread : \A i \in DOMAIN Work(u)' : Work(u)'[i].kind = "log" =>
           \E j \in DOMAIN Work(u) : Work(u)'[i] = Work(u)[j],
         \A h \in Handler : adder[h] # NoCall => adder[h][1] \in Thread,
         \/ worker' = worker /\ baseMsg' = baseMsg
         \/ worker.kind # "log" /\ worker'.kind # "log"
  PROVE  AddedOK'
<1>1. /\ \A h : Got(h)' = Got(h)
      /\ worker'.kind = "log" <=> worker.kind = "log"
      /\ worker.kind = "log" => worker' = worker /\ Current' = Current
      /\ \A msg : IsCurrent(msg)' <=> IsCurrent(msg)
  BY DEF Got, Current, IsCurrent
<1>2. Handing'
  <2>1. \A k \in Handler : \A msg \in Got(k)' : IsCurrent(msg)' => msg = Current'
    BY <1>1 DEF AddedOK, Handing, IsCurrent
  <2>2. worker'.kind = "log" => \A h \in Set(handlers') : h \in Set(worker'.todo) \/ Current' \in Got(h)'
    BY <1>1 DEF AddedOK, Handing
  <2> QED BY <2>1, <2>2 DEF Handing
<1>3. AddedFirst'
  <2> SUFFICES ASSUME NEW h \in Handler, adder[h] # NoCall
               PROVE  /\ \A msg \in Got(h)' : msg.call[1] = adder[h][1] => msg.call[2] > adder[h][2]
                      /\ h \in Set(handlers') => LogsSince(adder[h][1], adder[h][2])'
    BY DEF AddedFirst
  <2>1. \A msg \in Got(h)' : msg.call[1] = adder[h][1] => msg.call[2] > adder[h][2]
    BY <1>1 DEF AddedOK, AddedFirst
  <2>2. h \in Set(handlers') => LogsSince(adder[h][1], adder[h][2])'
    BY <1>1 DEF AddedOK, AddedFirst, LogsSince
  <2> QED BY <2>1, <2>2
<1>4. AddedGetsAll'
  BY <1>1 DEF AddedOK, AddedGetsAll
<1> QED BY <1>2, <1>3, <1>4 DEF AddedOK

LEMMA AddedSent ==
  ASSUME TypeInv, OnceOK, AddedOK, NEW t \in Thread, NEW item \in WorkItem, SendStep(t, item)
  PROVE  AddedOK'
<1>1. /\ \A u \in Thread \ {t} : Work(u)' = Work(u)
      /\ DOMAIN Work(t)' = 1..(Len(Work(t)) + 1) /\ DOMAIN Work(t) = 1..Len(Work(t))
      /\ Len(Work(t)) \in Nat
      /\ \A k \in 1..Len(Work(t)) : Work(t)'[k] = Work(t)[k]
      /\ Work(t)'[Len(Work(t)) + 1] = item
  BY WorkSent, WorkItems DEF SendStep
<1>2. /\ item.call = <<t, calls[t] + 1>> /\ UNCHANGED <<handlers, worker, baseMsg, given>>
      /\ IF item.kind \in Adding
         THEN /\ item.arg \in held /\ adder[item.arg] = NoCall
              /\ adder' = [adder EXCEPT ![item.arg] = item.call]
         ELSE adder' = adder
  BY DEF SendStep, This
<1>3. /\ \A h \in Handler : \/ adder'[h] = adder[h]
                            \/ adder[h] = NoCall /\ given[h] = << >> /\ h \notin Set(handlers)
      /\ calls[t] \in Nat
  BY <1>2 DEF TypeInv, AddedOK, OnceOK, AddersMade
<1>4. /\ \A h : Got(h)' = Got(h)
      /\ Current' = Current /\ \A msg : IsCurrent(msg)' <=> IsCurrent(msg)
  BY <1>2 DEF Got, Current, IsCurrent
<1>5. Handing'
  BY <1>2, <1>4 DEF AddedOK, Handing
<1>6. AddedFirst'
  <2> SUFFICES ASSUME NEW h \in Handler, adder'[h] # NoCall
               PROVE  /\ \A msg \in Got(h) : msg.call[1] = adder'[h][1] => msg.call[2] > adder'[h][2]
                      /\ h \in Set(handlers) => LogsSince(adder[h][1], adder[h][2])'
    <3>1. \A h \in Set(handlers) : h \in Handler => adder'[h] = adder[h]
      BY <1>3
    <3> QED BY <1>2, <1>4, <3>1 DEF AddedFirst, LogsSince
  <2>1. CASE adder'[h] = adder[h]
    <3>1. \A msg \in Got(h) : msg.call[1] = adder'[h][1] => msg.call[2] > adder'[h][2]
      BY <2>1 DEF AddedOK, AddedFirst
    <3>2. ASSUME h \in Set(handlers) PROVE LogsSince(adder[h][1], adder[h][2])'
      <4>0. PICK u : u = adder[h][1]
        OBVIOUS
      <4>1. /\ u \in Thread /\ adder[h][2] \in Nat /\ adder[h][2] <= calls[u]
        BY <2>1, <4>0, CallParts DEF TypeInv, OnceOK, AddersMade
      <4>2. LogsSince(u, adder[h][2])
        BY <2>1, <3>2, <4>0 DEF AddedOK, AddedFirst
      <4>3. ASSUME NEW i \in DOMAIN Work(u)', Work(u)'[i].kind = "log"
            PROVE  Work(u)'[i].call[2] > adder[h][2]
        <5>1. CASE u = t /\ i = Len(Work(t)) + 1
          <6>1. Work(u)'[i] = item
            BY <5>1, <1>1
          <6> QED BY <5>1, <6>1, <4>1, <1>2, <1>3
        <5>2. CASE ~(u = t /\ i = Len(Work(t)) + 1)
          <6>1. i \in DOMAIN Work(u) /\ Work(u)'[i] = Work(u)[i]
            BY <5>2, <4>1, <1>1
          <6> QED BY <6>1, <4>2, <4>3 DEF LogsSince
        <5> QED BY <5>1, <5>2
      <4> QED BY <2>1, <4>0, <4>2, <4>3, <1>2 DEF LogsSince
    <3> QED BY <3>1, <3>2
  <2>2. CASE adder'[h] # adder[h]
    <3>1. Got(h) = {} /\ h \notin Set(handlers)
      BY <2>2, <1>3, NoItems DEF Got
    <3> QED BY <3>1
  <2> QED BY <2>1, <2>2
<1>7. AddedGetsAll'
  <2>1. \A h \in Set(handlers) : adder'[h] = adder[h]
    BY <1>3, Items DEF TypeInv
  <2> QED BY <1>2, <1>4, <2>1 DEF AddedOK, AddedGetsAll
<1>8. \A h \in Handler : adder'[h] = NoCall => given[h] = << >>
  BY <1>3 DEF AddedOK
<1> QED BY <1>2, <1>5, <1>6, <1>7, <1>8 DEF AddedOK

LEMMA AddedTaken ==
  ASSUME TypeInv, QueueOK, OnceOK, GivenOK, AddedOK, NEW t \in Thread, TakeStep(t)
  PROVE  AddedOK'
<1>0. worker.kind = "idle" /\ UNCHANGED <<given, adder>>
  BY DEF TakeStep
<1>1. /\ worker.kind = "idle" /\ UNCHANGED <<given, adder>>
      /\ WorkOf(t) = Work(t)[1] /\ 1 \in DOMAIN Work(t) /\ WorkOf(t).call \in Call
      /\ WorkOf(t).call[1] = t
      /\ \A h \in Set(handlers') : h \in Set(handlers)
           \/ (WorkOf(t).kind \in Adding /\ h = WorkOf(t).arg)
      /\ worker'.kind = "log" => /\ WorkOf(t).kind = "log" /\ worker'.todo = handlers
                                 /\ worker'.call = WorkOf(t).call /\ handlers' = handlers
  <2>1. /\ WorkOf(t) = Work(t)[1] /\ 1 \in DOMAIN Work(t) /\ WorkOf(t).call \in Call
        /\ WorkOf(t).call[1] = t
    BY WorkLeft DEF QueueOK, CallsQueued
  <2>2. /\ \A h \in Set(handlers') : h \in Set(handlers)
             \/ (WorkOf(t).kind \in Adding /\ h = WorkOf(t).arg)
        /\ worker'.kind = "log" => /\ WorkOf(t).kind = "log" /\ worker'.todo = handlers
                                   /\ worker'.call = WorkOf(t).call /\ handlers' = handlers
    BY HandlersTaken
  <2> QED BY <1>0, <2>1, <2>2
<1>2. \A u \in Thread : \A i \in DOMAIN Work(u)' : \E j \in DOMAIN Work(u) :
        Work(u)'[i] = Work(u)[j] /\ (u = t => j = i + 1 /\ i \in Nat /\ i >= 1)
  BY WorkLeft
<1>3. \A h : Got(h)' = Got(h)
  BY <1>1 DEF Got
\* What is given is earlier than the item, if that is a message or adds a handler.
<1>4. ASSUME WorkOf(t).kind \in Adding \cup {"log"}, NEW k \in Handler, NEW msg \in Got(k),
             msg.call[1] = t
      PROVE  msg.call[2] < WorkOf(t).call[2] /\ msg.call[2] \in Nat /\ WorkOf(t).call[2] \in Nat
  <2>1. PICK i \in DOMAIN given[k] : msg = given[k][i]
    BY <1>4 DEF Got, Set
  <2>2. msg.call \in Call /\ IsEarlier(msg.call, k)
    BY <2>1, GivenItems DEF GivenOK, GivenBefore
  <2> QED BY <1>1, <1>4, <2>2, CallParts DEF IsEarlier
<1>5. Handing'
  <2>1. \A k \in Handler : \A msg \in Got(k) : ~IsCurrent(msg)'
    BY <1>1, <1>4 DEF IsCurrent
  <2>2. worker'.kind = "log" => \A h \in Set(handlers') : h \in Set(worker'.todo)
    BY <1>1
  <2> QED BY <1>3, <2>1, <2>2 DEF Handing
\* The handler that is added.
<1>6. ASSUME NEW h \in Set(handlers'), h \notin Set(handlers)
      PROVE  /\ WorkOf(t).kind \in Adding /\ adder[h] = WorkOf(t).call /\ h \in Handler
             /\ worker'.kind # "log"
  <2>1. WorkOf(t).kind \in Adding /\ h = WorkOf(t).arg /\ h \in Handler
    BY <1>1, <1>6, CarriedTaken
  <2> QED BY <1>1, <1>6, <2>1 DEF OnceOK, AddingOnce
<1>7. AddedFirst'
  <2> SUFFICES ASSUME NEW h \in Handler, adder[h] # NoCall, h \in Set(handlers'),
                      NEW u \in Thread, u = adder[h][1], NEW n \in Nat, n = adder[h][2]
               PROVE  LogsSince(u, n)'
    <3>1. \A h \in Handler : adder[h] # NoCall => adder[h][1] \in Thread /\ adder[h][2] \in Nat
      BY CallParts DEF TypeInv
    <3> QED BY <1>1, <1>3, <3>1 DEF AddedFirst, AddedOK, LogsSince
  <2>1. CASE h \in Set(handlers)
    <3>1. LogsSince(u, n)
      BY <2>1 DEF AddedOK, AddedFirst
    <3>2. worker'.kind = "log" /\ worker'.call[1] = u => worker'.call[2] > n
      BY <1>1, <3>1 DEF LogsSince
    <3> QED BY <1>2, <3>1, <3>2 DEF LogsSince
  <2>2. CASE h \notin Set(handlers)
    <3>1. WorkOf(t).kind \in Adding /\ u = t /\ n = Work(t)[1].call[2] /\ worker'.kind # "log"
      BY <1>1, <1>6, <2>2
    <3>2. ASSUME NEW i \in DOMAIN Work(t)'
          PROVE  Work(t)'[i].call[2] > n
      <4>1. PICK j \in DOMAIN Work(t) : Work(t)'[i] = Work(t)[j] /\ j = i + 1 /\ i \in Nat /\ i >= 1
        BY <1>2
      <4>2. Work(t)[1].call[2] < Work(t)[j].call[2]
        BY <1>1, <3>1, <4>1 DEF QueueOK, CallsInOrder, Adding
      <4>3. Work(t)[j].call[2] \in Nat
        BY <4>1, WorkItems, CallParts
      <4> QED BY <3>1, <4>1, <4>2, <4>3
    <3> QED BY <3>1, <3>2 DEF LogsSince
  <2> QED BY <2>1, <2>2
<1>8. AddedGetsAll'
  <2> SUFFICES ASSUME NEW h \in Set(handlers'), NEW k \in Handler, NEW msg \in Got(k),
                      msg.call[1] = adder[h][1], msg.call[2] > adder[h][2]
               PROVE  msg \in Got(h)
    BY <1>1, <1>3 DEF AddedGetsAll
  <2>1. CASE h \in Set(handlers)
    BY <1>1, <2>1 DEF AddedOK, AddedGetsAll, IsCurrent
  <2>2. CASE h \notin Set(handlers)
    BY <1>1, <1>4, <1>6, <2>2
  <2> QED BY <2>1, <2>2
<1> QED BY <1>1, <1>5, <1>7, <1>8 DEF AddedOK

LEMMA AddedHanded ==
  ASSUME TypeInv, LifeOK, OnceOK, AddedOK, HandOver
  PROVE  AddedOK'
<1>1. PICK h0, msg0 : /\ h0 = Head(worker.todo) /\ h0 \in Handler /\ worker.kind = "log"
                      /\ worker.todo \in Seq(Handler) /\ worker.todo # << >>
                      /\ worker'.kind = "log" /\ worker'.call = worker.call /\ worker'.own = worker.own
                      /\ worker'.todo = Tail(worker.todo)
                      /\ msg0 = Current /\ given'[h0] = Append(given[h0], msg0)
                      /\ msg0 \in LogMessage
                      /\ \A k \in Handler \ {h0} : given'[k] = given[k]
                      /\ UNCHANGED <<executor, handlers, baseMsg, adder>>
  BY HandOverResult DEF Current
<1>2. h0 \in Set(worker.todo) /\ Set(worker.todo) \subseteq Set(handlers) /\ h0 \in Set(handlers)
  <2>1. h0 \in Set(worker.todo)
    BY <1>1, Items DEF Set
  <2> QED BY <1>1, <2>1 DEF LifeOK, VisitsHandlers
<1>3. \A h \in Set(worker.todo) : h = h0 \/ h \in Set(worker'.todo)
  <2>1. ASSUME NEW i \in DOMAIN worker.todo, i # 1
        PROVE  worker.todo[i] \in Set(Tail(worker.todo))
    <3>1. DOMAIN worker.todo = 1..Len(worker.todo) /\ Len(worker.todo) \in Nat
      BY <1>1, Items
    <3>2. i - 1 \in DOMAIN Tail(worker.todo) /\ Tail(worker.todo)[i - 1] = worker.todo[i]
      BY <1>1, <2>1, <3>1, TailItems
    <3> QED BY <3>2 DEF Set
  <2> QED BY <1>1, <2>1, TailItems DEF Set
<1>4. /\ Got(h0)' = Got(h0) \cup {msg0} /\ \A k \in Handler \ {h0} : Got(k)' = Got(k)
      /\ \A k \in Handler : Got(k) \subseteq Got(k)'
      /\ Set(handlers) \subseteq Handler
  <2>1. given[h0] \in Seq(LogMessage) /\ Set(handlers) \subseteq Handler
    BY <1>1, Items DEF TypeInv
  <2>2. Set(Append(given[h0], msg0)) = Set(given[h0]) \cup {msg0}
    BY SMTT(30), <1>1, <2>1, LongerItems DEF Set
  <2> QED BY <1>1, <2>1, <2>2 DEF Got
<1>5. Current' = msg0 /\ msg0.call = worker.call /\ \A msg : IsCurrent(msg)' <=> IsCurrent(msg)
  BY <1>1 DEF Current, IsCurrent
<1>6. Handing'
  <2>1. ASSUME NEW k \in Handler, NEW msg \in Got(k)', IsCurrent(msg)' PROVE msg = Current'
    BY <1>1, <1>4, <1>5, <2>1 DEF AddedOK, Handing
  <2>2. ASSUME NEW h \in Set(handlers') PROVE h \in Set(worker'.todo) \/ Current' \in Got(h)'
    BY <1>1, <1>3, <1>4, <1>5, <2>2 DEF AddedOK, Handing
  <2> QED BY <2>1, <2>2 DEF Handing
<1>7. AddedFirst'
  <2> SUFFICES ASSUME NEW h \in Handler, adder[h] # NoCall
               PROVE  /\ \A msg \in Got(h)' : msg.call[1] = adder[h][1] => msg.call[2] > adder[h][2]
                      /\ h \in Set(handlers) => LogsSince(adder[h][1], adder[h][2])'
    BY <1>1 DEF AddedFirst
  <2>1. h \in Set(handlers) => LogsSince(adder[h][1], adder[h][2])
    BY DEF AddedOK, AddedFirst
  <2>2. h \in Set(handlers) => LogsSince(adder[h][1], adder[h][2])'
    BY <1>1, <2>1 DEF LogsSince, Work
  <2>3. \A msg \in Got(h) : msg.call[1] = adder[h][1] => msg.call[2] > adder[h][2]
    BY DEF AddedOK, AddedFirst
  <2>4. h = h0 /\ worker.call[1] = adder[h][1] => worker.call[2] > adder[h][2]
    BY <1>1, <1>2, <2>1 DEF LogsSince
  <2> QED BY <1>4, <1>5, <2>2, <2>3, <2>4
<1>8. AddedGetsAll'
  <2>1. \A k \in Handler : \A msg \in Got(k)' : ~IsCurrent(msg)' => msg \in Got(k)
    BY <1>1, <1>4, <1>5 DEF IsCurrent
  <2> QED BY <1>1, <1>4, <1>5, <2>1 DEF AddedOK, AddedGetsAll
<1>9. \A h \in Handler : adder[h] = NoCall => given'[h] = << >>
  BY <1>1, <1>2 DEF AddedOK, OnceOK, AddersMade
<1> QED BY <1>1, <1>6, <1>7, <1>8, <1>9 DEF AddedOK

LEMMA AddedStep ==
  ASSUME TypeInv, QueueOK, EndOK, LifeOK, OnceOK, GivenOK, AddedOK, Step
  PROVE  AddedOK'
<1>0. \A h \in Handler : adder[h] # NoCall => adder[h][1] \in Thread
  BY CallParts DEF TypeInv
<1>1. ASSUME UNCHANGED <<given, adder, executor>>, Set(handlers') \subseteq Set(handlers),
             \/ worker' = worker /\ baseMsg' = baseMsg
             \/ worker.kind # "log" /\ worker'.kind # "log"
      PROVE  AddedOK'
  BY <1>0, <1>1, AddedKept DEF Work
<1>2. ASSUME NEW t \in Thread, NEW item \in WorkItem, SendStep(t, item) PROVE AddedOK'
  BY <1>2, AddedSent
<1>3. ASSUME NEW t \in Thread, QuietCall(t) \/ Return(t) \/ Destroyed(t) PROVE AddedOK'
  BY <1>1, <1>3 DEF QuietCall, Return, Destroyed, loggerVars, historyVars
<1>4. ASSUME NEW t \in Thread, TakeStep(t) PROVE AddedOK'
  BY <1>4, AddedTaken
<1>5. ASSUME NEW t \in Thread, StopExecutor(t) PROVE AddedOK'
  <2>1. UNCHANGED <<given, adder, handlers, worker, baseMsg>>
    BY <1>5 DEF StopExecutor, loggerVars, historyVars
  <2>2. \A u \in Thread : \A i \in DOMAIN Work(u)' : Work(u)'[i].kind = "log" =>
          \E j \in DOMAIN Work(u) : Work(u)'[i] = Work(u)[j]
    BY <1>5, StopSent
  <2> QED BY <1>0, <2>1, <2>2, AddedKept
<1>6. ASSUME NEW t \in Thread, JoinExecutor(t) PROVE AddedOK'
  <2>1. UNCHANGED <<given, adder, worker, baseMsg>> /\ handlers' = << >>
    BY <1>6 DEF JoinExecutor
  <2>2. Set(handlers') \subseteq Set(handlers)
    BY <2>1, NoItems
  <2>3. \A u \in Thread : DOMAIN Work(u)' = {}
    BY <1>6, WorkDropped
  <2> QED BY <1>0, <2>1, <2>2, <2>3, AddedKept
<1>7. CASE DropPointer \/ Joined \/ AllDropped \/ FlushDone
  <2>1. UNCHANGED <<given, adder, executor>> /\ worker.kind # "log"
    BY <1>7 DEF DropPointer, Joined, AllDropped, FlushDone, historyVars, outsideVars
  <2>2. worker'.kind # "log"
    BY <1>7 DEF DropPointer, Joined, AllDropped, FlushDone, Drops, NoWorkItem
  <2>3. handlers' = handlers \/ AllDropped
    BY <1>7 DEF DropPointer, Joined, FlushDone
  <2> QED BY <1>1, <2>1, <2>2, <2>3, HandlersLeft
<1>8. CASE HandOver
  BY <1>8, AddedHanded
<1>9. CASE LogDone
  <2>1. /\ UNCHANGED <<given, adder, executor, handlers>> /\ worker'.kind = "idle"
        /\ worker.kind = "log" /\ worker.todo = << >>
    BY <1>9 DEF LogDone, historyVars, outsideVars, NoWorkItem
  <2>2. \A h \in Set(handlers) : Current \in Got(h)
    BY <2>1, NoItems DEF AddedOK, Handing
  <2>3. \A h : Got(h)' = Got(h)
    BY <2>1 DEF Got
  <2>4. AddedGetsAll'
    BY <2>1, <2>2, <2>3 DEF AddedOK, AddedGetsAll, Handing
  <2>5. AddedFirst'
    BY <2>1, <2>3 DEF AddedOK, AddedFirst, LogsSince, Work
  <2>6. Handing'
    BY <2>1 DEF Handing, IsCurrent
  <2> QED BY <2>1, <2>4, <2>5, <2>6 DEF AddedOK
<1>10. CASE AsideStep
  BY <1>1, <1>10 DEF AsideStep
<1>11. \A t \in Thread : /\ \A h \in Handler : SetCreator(t, h) \/ Release(t, h) => QuietCall(t)
                         /\ GetHandlers(t) \/ SilentCall(t) => QuietCall(t)
  BY QuietSteps DEF SilentCall
<1> QED BY <1>2, <1>3, <1>4, <1>5, <1>6, <1>7, <1>8, <1>9, <1>10, <1>11, Cases, AsideSteps

-----------------------------------------------------------------------------
(* Which field, and whether host and process are known                          *)

BaseHas(t, n) == IF baseMsg.field = NoCall THEN n = 0
                 ELSE baseMsg.field[1] = t => baseMsg.field[2] = n

\* n is the field of a message of t that comes after the items of Work(t) before place j.
FieldBy(t, j, n) ==
  /\ \A i \in DOMAIN Work(t) : i < j /\ Work(t)[i].kind = "addField" =>
       Work(t)[i].call[2] <= n
  /\ \/ \E i \in DOMAIN Work(t) : i < j /\ Work(t)[i].kind = "addField" /\ Work(t)[i].call[2] = n
     \/ /\ \A i \in DOMAIN Work(t) : i < j => Work(t)[i].kind # "addField"
        /\ BaseHas(t, n)

LogsGetFields == \A t \in Thread : \A j \in DOMAIN Work(t) :
  Work(t)[j].kind = "log" => FieldBy(t, j, Work(t)[j].arg)

LastFields == \A t \in Thread :
  /\ lastField[t] <= calls[t]
  /\ phase = "alive" => FieldBy(t, Len(Work(t)) + 1, lastField[t])

WorkerHasField == worker.kind = "log" => BaseHas(worker.call[1], worker.own)

Identified ==
  /\ \/ baseMsg.identified \/ phase = "dead"
     \/ 1 \in DOMAIN Work(Main) /\ Work(Main)[1].kind = "identify"
  /\ worker.kind = "log" /\ worker.call[1] = Main => baseMsg.identified
  /\ phase = "dead" => ~executor.running

FieldsOK == LogsGetFields /\ LastFields /\ WorkerHasField /\ Identified /\ FieldsInOrder

\* A step that sends nothing and takes nothing.
LEMMA FieldsKept ==
  ASSUME TypeInv, FieldsOK, UNCHANGED <<given, executor, baseMsg, lastField>>, phase' = phase,
         \A t \in Thread : calls'[t] >= calls[t] /\ calls'[t] \in Nat,
         worker' = worker \/ worker'.kind # "log"
  PROVE  FieldsOK'
<1>0. \A t \in Thread : lastField[t] \in Nat /\ calls[t] \in Nat
  BY DEF TypeInv
<1>1. \A t, j, n : FieldBy(t, j, n)' <=> FieldBy(t, j, n)
  BY DEF FieldBy, Work, BaseHas
<1>2. LogsGetFields'
  BY <1>1 DEF FieldsOK, LogsGetFields, Work
<1>3. LastFields'
  BY <1>0, <1>1 DEF FieldsOK, LastFields, Work
<1>4. WorkerHasField' /\ Identified'
  BY DEF FieldsOK, WorkerHasField, Identified, BaseHas, Work
<1>5. FieldsInOrder'
  BY DEF FieldsOK, FieldsInOrder
<1> QED BY <1>2, <1>3, <1>4, <1>5 DEF FieldsOK

LEMMA FieldsSent ==
  ASSUME TypeInv, EndOK, FieldsOK, NEW t \in Thread, NEW item \in WorkItem, SendStep(t, item)
  PROVE  FieldsOK'
<1>1. /\ \A u \in Thread \ {t} : Work(u)' = Work(u)
      /\ DOMAIN Work(t)' = 1..(Len(Work(t)) + 1) /\ DOMAIN Work(t) = 1..Len(Work(t))
      /\ Len(Work(t)) \in Nat /\ Work(t)' = Append(Work(t), item) /\ Work(t) \in Seq(WorkItem)
      /\ \A k \in 1..Len(Work(t)) : Work(t)'[k] = Work(t)[k]
      /\ Work(t)'[Len(Work(t)) + 1] = item /\ executor'.running = executor.running
  BY WorkSent, WorkItems DEF SendStep
<1>2. /\ item.call = <<t, calls[t] + 1>> /\ UNCHANGED <<worker, baseMsg, given>>
      /\ calls'[t] = calls[t] + 1 /\ \A u \in Thread \ {t} : calls'[u] = calls[u]
      /\ phase = "alive" /\ phase' # "dead"
      /\ lastField' = IF item.kind = "addField" THEN [lastField EXCEPT ![t] = calls[t] + 1]
                      ELSE lastField
      /\ item.kind = "log" => item.arg = lastField[t]
  BY DEF SendStep, This
<1>3. \A u \in Thread : calls[u] \in Nat /\ lastField[u] \in Nat /\ lastField[u] <= calls[u]
  BY DEF TypeInv, FieldsOK, LastFields
<1>4. \A u, n : BaseHas(u, n)' <=> BaseHas(u, n)
  BY <1>2 DEF BaseHas
<1>5. ASSUME NEW u \in Thread, NEW j \in Nat, u = t => j <= Len(Work(t)) + 1, NEW n
      PROVE  FieldBy(u, j, n)' <=> FieldBy(u, j, n)
  <2>1. CASE u # t
    BY <2>1, <1>1, <1>4 DEF FieldBy
  <2>2. CASE u = t
    <3>1. \A i : i \in DOMAIN Work(t)' /\ i < j => i \in DOMAIN Work(t) /\ Work(t)'[i] = Work(t)[i]
      BY <2>2, <1>1, <1>5
    <3>2. \A i \in DOMAIN Work(t) : i \in DOMAIN Work(t)'
      BY <1>1
    <3> QED BY <2>2, <3>1, <3>2, <1>4 DEF FieldBy
  <2> QED BY <2>1, <2>2
<1>6. LogsGetFields'
  <2> SUFFICES ASSUME NEW u \in Thread, NEW j \in DOMAIN Work(u)', Work(u)'[j].kind = "log",
                      NEW n, n = Work(u)'[j].arg
               PROVE  FieldBy(u, j, n)'
    BY DEF LogsGetFields
  <2>1. CASE u = t /\ j = Len(Work(t)) + 1
    <3>1. n = lastField[t] /\ FieldBy(t, j, n)
      BY <2>1, <1>1, <1>2 DEF FieldsOK, LastFields
    <3> QED BY <2>1, <3>1, <1>1, <1>5
  <2>2. CASE ~(u = t /\ j = Len(Work(t)) + 1)
    <3>1. j \in DOMAIN Work(u) /\ Work(u)'[j] = Work(u)[j]
      BY <2>2, <1>1
    <3>2. j \in Nat /\ (u = t => j <= Len(Work(t)) + 1)
      BY <3>1, <1>1, WorkItems
    <3>3. FieldBy(u, j, n)
      BY <3>1 DEF FieldsOK, LogsGetFields
    <3> QED BY <3>2, <3>3, <1>5
  <2> QED BY <2>1, <2>2
<1>7. LastFields'
  <2>1. \A u \in Thread : lastField'[u] <= calls'[u]
    BY <1>2, <1>3 DEF TypeInv
  <2>2. ASSUME NEW u \in Thread, NEW j, j = Len(Work(u)') + 1, NEW n, n = lastField'[u]
        PROVE  FieldBy(u, j, n)'
    <3>1. CASE u # t
      <4>1. lastField'[u] = lastField[u] /\ j = Len(Work(u)) + 1 /\ j \in Nat
        BY <3>1, <2>2, <1>1, <1>2, WorkItems DEF TypeInv
      <4>2. FieldBy(u, j, n)
        BY <4>1, <2>2, <1>2 DEF FieldsOK, LastFields
      <4> QED BY <3>1, <4>1, <4>2, <1>5
    <3>2. CASE u = t
      <4>1. j = Len(Work(t)) + 2
        BY <3>2, <2>2, <1>1, LongerItems
      <4>2. PICK k : k = Len(Work(t)) + 1
        OBVIOUS
      <4>3. FieldBy(t, k, lastField[t])
        BY <1>2, <4>2 DEF FieldsOK, LastFields
      <4>4. /\ k \in DOMAIN Work(t)' /\ Work(t)'[k] = item /\ k < j
            /\ \A i \in DOMAIN Work(t)' : i < k \/ i = k
            /\ \A i \in DOMAIN Work(t)' : i < k => i \in DOMAIN Work(t) /\ Work(t)'[i] = Work(t)[i]
            /\ \A i \in DOMAIN Work(t) : i < k /\ i \in DOMAIN Work(t)' /\ i < j
        BY <4>1, <4>2, <1>1
      <4>5. CASE item.kind = "addField"
        <5>1. n = calls[t] + 1 /\ item.call[2] = n
          BY <4>5, <3>2, <2>2, <1>2 DEF TypeInv
        <5>2. \A i \in DOMAIN Work(t)' : Work(t)'[i].kind = "addField" => Work(t)'[i].call[2] <= n
          <6>1. ASSUME NEW i \in DOMAIN Work(t), Work(t)[i].kind = "addField"
                PROVE  Work(t)[i].call[2] <= n
            <7>1. Work(t)[i].call[2] <= lastField[t] /\ Work(t)[i].call[2] \in Nat
              BY <6>1, <4>3, <4>4, WorkItems, CallParts DEF FieldBy
            <7> QED BY <7>1, <5>1, <1>3
          <6>2. item.call[2] <= n
            BY <5>1, <1>3
          <6> QED BY <6>1, <6>2, <4>4
        <5> QED BY <3>2, <4>4, <4>5, <5>1, <5>2 DEF FieldBy
      <4>6. CASE item.kind # "addField"
        <5>1. n = lastField[t]
          BY <4>6, <3>2, <2>2, <1>2
        <5>2. \A i \in DOMAIN Work(t)' : Work(t)'[i].kind = "addField" =>
                i \in DOMAIN Work(t) /\ i < k /\ Work(t)'[i] = Work(t)[i]
          BY <4>4, <4>6
        <5> QED BY <3>2, <4>3, <4>4, <5>1, <5>2, <1>4 DEF FieldBy
      <4> QED BY <4>5, <4>6
    <3> QED BY <3>1, <3>2
  <2> QED BY <2>1, <2>2 DEF LastFields
<1>8. WorkerHasField'
  BY <1>2, <1>4 DEF FieldsOK, WorkerHasField
<1>9. Identified'
  <2>1. 1 \in DOMAIN Work(Main) => 1 \in DOMAIN Work(Main)' /\ Work(Main)'[1] = Work(Main)[1]
    BY <1>1, LoggerAssumption
  <2> QED BY <1>1, <1>2, <2>1 DEF FieldsOK, Identified
<1>10. FieldsInOrder'
  BY <1>2 DEF FieldsOK, FieldsInOrder
<1> QED BY <1>6, <1>7, <1>8, <1>9, <1>10 DEF FieldsOK

LEMMA FieldsTaken ==
  ASSUME TypeInv, QueueOK, EndOK, FieldsOK, NEW t \in Thread, TakeStep(t)
  PROVE  FieldsOK'
<1>1. /\ \A u \in Thread \ {t} : Work(u)' = Work(u)
      /\ DOMAIN Work(t)' = 1..(Len(Work(t)) - 1) /\ DOMAIN Work(t) = 1..Len(Work(t))
      /\ Len(Work(t)) \in Nat /\ 1 \in DOMAIN Work(t)
      /\ \A i \in 1..(Len(Work(t)) - 1) : i + 1 \in DOMAIN Work(t) /\ Work(t)'[i] = Work(t)[i + 1]
      /\ WorkOf(t) = Work(t)[1] /\ WorkOf(t) \in WorkItem /\ WorkOf(t).call \in Call
  BY WorkLeft
<1>2. Len(Work(t)') = Len(Work(t)) - 1
  BY WorkTaken, WorkItems DEF TakeStep, Work
<1>3. /\ worker.kind = "idle" /\ UNCHANGED <<given, lastField, phase, calls>>
      /\ executor.running /\ phase # "dead"
  BY WorkTaken DEF TakeStep, FieldsOK, Identified
<1>4. /\ worker'.kind = "log" => /\ WorkOf(t).kind = "log" /\ worker'.call = WorkOf(t).call
                                 /\ worker'.own = WorkOf(t).arg
      /\ WorkOf(t).call[1] = t /\ WorkOf(t).call # NoCall /\ WorkOf(t).call[2] \in Nat
  BY <1>1, HandlersTaken, CallParts, NoCallIsNone DEF QueueOK, CallsQueued
<1>5. baseMsg \in [identified : BOOLEAN, field : Call \cup {NoCall}]
  BY DEF TypeInv
<1>6. /\ WorkOf(t).kind = "addField" => baseMsg'.field = WorkOf(t).call
      /\ WorkOf(t).kind # "addField" => baseMsg'.field = baseMsg.field
      /\ WorkOf(t).kind = "identify" => baseMsg'.identified
      /\ WorkOf(t).kind # "identify" => baseMsg'.identified = baseMsg.identified
  <2>1. baseMsg' = CASE WorkOf(t).kind = "identify" -> [baseMsg EXCEPT !.identified = TRUE]
                     [] WorkOf(t).kind = "addField" -> [baseMsg EXCEPT !.field = WorkOf(t).call]
                     [] OTHER -> baseMsg
    BY DEF TakeStep
  <2>2. CASE WorkOf(t).kind = "identify"
    BY <1>5, <2>1, <2>2
  <2>3. CASE WorkOf(t).kind = "addField"
    BY <1>5, <2>1, <2>3
  <2>4. CASE WorkOf(t).kind \notin {"identify", "addField"}
    BY <2>1, <2>4
  <2> QED BY <2>2, <2>3, <2>4
\* What FieldBy says is still true after the item.
<1>7. ASSUME NEW u \in Thread, NEW j \in Nat, j >= 1,
             NEW n \in Nat, IF u = t THEN FieldBy(t, j + 1, n) ELSE FieldBy(u, j, n)
      PROVE  FieldBy(u, j, n)'
  <2>1. CASE u # t
    <3>1. BaseHas(u, n) => BaseHas(u, n)'
      BY <2>1, <1>4, <1>6 DEF BaseHas
    <3> QED BY <2>1, <3>1, <1>1, <1>7 DEF FieldBy
  <2>2. CASE u = t
    <3>1. \A i \in DOMAIN Work(t)' : i < j =>
            i + 1 \in DOMAIN Work(t) /\ Work(t)'[i] = Work(t)[i + 1] /\ i + 1 < j + 1
      BY <1>1, <1>7
    <3>2. FieldBy(t, j + 1, n)
      BY <2>2, <1>7
    <3>3. \A i \in DOMAIN Work(t)' : i < j /\ Work(t)'[i].kind = "addField" =>
            Work(t)'[i].call[2] <= n
      BY <3>1, <3>2 DEF FieldBy
    <3>4. ASSUME NEW i \in DOMAIN Work(t), i < j + 1, Work(t)[i].kind = "addField",
                 Work(t)[i].call[2] = n, i # 1
          PROVE  \E k \in DOMAIN Work(t)' :
                   k < j /\ Work(t)'[k].kind = "addField" /\ Work(t)'[k].call[2] = n
      <4>1. i - 1 \in DOMAIN Work(t)' /\ (i - 1) + 1 = i /\ i - 1 < j
        BY <1>1, <1>7, <3>4
      <4>2. Work(t)'[i - 1] = Work(t)[i]
        BY <4>1, <1>1
      <4> QED BY <4>1, <4>2, <3>4
    <3>5. ASSUME Work(t)[1].kind = "addField", Work(t)[1].call[2] = n
          PROVE  /\ \A i \in DOMAIN Work(t)' : i < j => Work(t)'[i].kind # "addField"
                 /\ BaseHas(t, n)'
      <4>1. ASSUME NEW i \in DOMAIN Work(t)', i < j, Work(t)'[i].kind = "addField" PROVE FALSE
        <5>1. i + 1 \in DOMAIN Work(t) /\ Work(t)[i + 1].kind = "addField" /\ 1 < i + 1
          BY <3>1, <4>1, <1>1
        <5>2. Work(t)[i + 1].call[2] <= n /\ Work(t)[i + 1].call[2] \in Nat
          BY <3>1, <3>3, <4>1, <5>1, WorkItems, CallParts
        <5>3. n < Work(t)[i + 1].call[2]
          BY <5>1, <3>5, <1>1 DEF QueueOK, CallsInOrder
        <5> QED BY <5>2, <5>3
      <4>2. BaseHas(t, n)'
        BY <3>5, <1>1, <1>4, <1>6 DEF BaseHas
      <4> QED BY <4>1, <4>2
    <3>6. ASSUME \A i \in DOMAIN Work(t) : i < j + 1 => Work(t)[i].kind # "addField",
                 BaseHas(t, n)
          PROVE  /\ \A i \in DOMAIN Work(t)' : i < j => Work(t)'[i].kind # "addField"
                 /\ BaseHas(t, n)'
      <4>1. Work(t)[1].kind # "addField"
        BY <3>6, <1>1, <1>7
      <4>2. BaseHas(t, n)'
        BY <3>6, <4>1, <1>1, <1>6 DEF BaseHas
      <4> QED BY <3>1, <3>6, <4>2
    <3> QED BY <2>2, <3>2, <3>3, <3>4, <3>5, <3>6 DEF FieldBy
  <2> QED BY <2>1, <2>2
<1>8. LogsGetFields'
  <2> SUFFICES ASSUME NEW u \in Thread, NEW j \in DOMAIN Work(u)', Work(u)'[j].kind = "log",
                      NEW n, n = Work(u)'[j].arg
               PROVE  FieldBy(u, j, n)'
    BY DEF LogsGetFields
  <2>1. CASE u = t
    <3>1. /\ j \in Nat /\ j >= 1 /\ j + 1 \in DOMAIN Work(t) /\ Work(t)'[j] = Work(t)[j + 1]
      BY <2>1, <1>1
    <3>2. n \in Nat
      BY <2>1, <3>1, WorkItems DEF WorkItem
    <3>3. FieldBy(t, j + 1, n)
      BY <2>1, <3>1 DEF FieldsOK, LogsGetFields
    <3> QED BY <2>1, <3>1, <3>2, <3>3, <1>7
  <2>2. CASE u # t
    <3>1. j \in DOMAIN Work(u) /\ Work(u)'[j] = Work(u)[j]
      BY <2>2, <1>1
    <3>2. n \in Nat /\ j \in Nat /\ j >= 1
      BY <3>1, WorkItems DEF WorkItem
    <3>3. FieldBy(u, j, n)
      BY <3>1 DEF FieldsOK, LogsGetFields
    <3> QED BY <2>2, <3>2, <3>3, <1>7
  <2> QED BY <2>1, <2>2
<1>9. LastFields'
  <2> SUFFICES ASSUME NEW u \in Thread, phase = "alive", NEW j, j = Len(Work(u)') + 1,
                      NEW n, n = lastField[u]
               PROVE  FieldBy(u, j, n)'
    BY <1>3 DEF LastFields, FieldsOK
  <2>1. n \in Nat
    BY DEF TypeInv
  <2>2. CASE u = t
    <3>1. j = Len(Work(t)) /\ j \in Nat /\ j >= 1
      BY <2>2, <1>1, <1>2
    <3>2. FieldBy(t, j + 1, n)
      BY <2>2, <3>1 DEF FieldsOK, LastFields
    <3> QED BY <2>1, <2>2, <3>1, <3>2, <1>7
  <2>3. CASE u # t
    <3>1. j = Len(Work(u)) + 1 /\ j \in Nat /\ j >= 1
      BY <2>3, <1>1, WorkItems
    <3>2. FieldBy(u, j, n)
      BY <3>1 DEF FieldsOK, LastFields
    <3> QED BY <2>1, <2>3, <3>1, <3>2, <1>7
  <2> QED BY <2>2, <2>3
<1>10. WorkerHasField'
  <2> SUFFICES ASSUME worker'.kind = "log" PROVE BaseHas(worker.call[1], worker.own)'
    BY DEF WorkerHasField
  <2>1. /\ Work(t)[1].kind = "log" /\ worker'.call[1] = t /\ worker'.own = Work(t)[1].arg
        /\ baseMsg'.field = baseMsg.field
    BY <1>1, <1>4, <1>6
  <2>2. FieldBy(t, 1, Work(t)[1].arg)
    BY <2>1, <1>1 DEF FieldsOK, LogsGetFields
  <2>3. BaseHas(t, Work(t)[1].arg)
    BY <2>2, <1>1 DEF FieldBy
  <2> QED BY <2>1, <2>3 DEF BaseHas
<1>11. Identified'
  <2>1. baseMsg'.identified \/ (1 \in DOMAIN Work(Main)' /\ Work(Main)'[1].kind = "identify")
    <3>1. CASE baseMsg.identified
      BY <3>1, <1>6
    <3>2. CASE 1 \in DOMAIN Work(Main) /\ Work(Main)[1].kind = "identify"
      BY <3>2, <1>1, <1>6, LoggerAssumption
    <3> QED BY <3>1, <3>2, <1>3 DEF FieldsOK, Identified
  <2>2. worker'.kind = "log" /\ worker'.call[1] = Main => baseMsg'.identified
    <3>1. worker'.kind = "log" /\ worker'.call[1] = Main =>
            t = Main /\ Work(Main)[1].kind = "log"
      BY <1>1, <1>4
    <3> QED BY <3>1, <1>3, <1>6, <1>1 DEF FieldsOK, Identified
  <2> QED BY <2>1, <2>2, <1>3 DEF Identified
<1>12. FieldsInOrder'
  BY <1>3 DEF FieldsOK, FieldsInOrder
<1> QED BY <1>8, <1>9, <1>10, <1>11, <1>12 DEF FieldsOK

LEMMA FieldsEnd ==
  ASSUME TypeInv, EndOK, FieldsOK, NEW t \in Thread, StopExecutor(t) \/ JoinExecutor(t)
  PROVE  FieldsOK'
<1>1. /\ UNCHANGED <<given, worker, baseMsg, lastField, calls>> /\ phase' # "alive"
  BY DEF StopExecutor, JoinExecutor, loggerVars, historyVars, callVars
<1>2. /\ \A u, n : BaseHas(u, n)' <=> BaseHas(u, n)
      /\ LastFields' /\ WorkerHasField' /\ FieldsInOrder'
  BY <1>1 DEF FieldsOK, LastFields, WorkerHasField, FieldsInOrder, BaseHas
<1>3. CASE StopExecutor(t)
  <2>1. /\ \A u \in Thread \ {t} : Work(u)' = Work(u)
        /\ DOMAIN Work(t)' = {1} /\ Work(t)'[1].kind = "stop" /\ DOMAIN Work(t) = {}
        /\ phase = "removing" /\ phase' = "stopping"
    BY <1>3, StopSent, NoItems DEF StopExecutor
  <2>2. LogsGetFields'
    <3>1. ASSUME NEW u \in Thread, NEW j \in DOMAIN Work(u)', Work(u)'[j].kind = "log",
                 NEW n, n = Work(u)'[j].arg
          PROVE  FieldBy(u, j, n)'
      <4>1. u # t /\ Work(u)' = Work(u)
        BY <2>1, <3>1
      <4>2. FieldBy(u, j, n)
        BY <3>1, <4>1 DEF FieldsOK, LogsGetFields
      <4> QED BY <1>2, <4>1, <4>2 DEF FieldBy
    <3> QED BY <3>1 DEF LogsGetFields
  <2>3. Identified'
    BY <1>1, <2>1, LoggerAssumption DEF FieldsOK, Identified
  <2> QED BY <1>2, <2>2, <2>3 DEF FieldsOK
<1>4. CASE JoinExecutor(t)
  <2>1. /\ \A u \in Thread : DOMAIN Work(u)' = {}
        /\ ~executor'.running /\ phase' = "dead"
    BY <1>4, WorkDropped DEF JoinExecutor
  <2>2. LogsGetFields'
    BY <2>1 DEF LogsGetFields
  <2>3. Identified'
    BY <1>1, <2>1 DEF FieldsOK, Identified
  <2> QED BY <1>2, <2>2, <2>3 DEF FieldsOK
<1> QED BY <1>3, <1>4

LEMMA FieldsHanded ==
  ASSUME TypeInv, LifeOK, FieldsOK, HandOver
  PROVE  FieldsOK'
<1>1. PICK h0, msg0 :
        /\ h0 \in Handler /\ worker.kind = "log"
        /\ worker'.kind = "log" /\ worker'.call = worker.call /\ worker'.own = worker.own
        /\ msg0 \in LogMessage /\ msg0.call = worker.call /\ msg0.field = baseMsg.field
        /\ msg0.identified = baseMsg.identified /\ msg0.own = worker.own
        /\ given'[h0] = Append(given[h0], msg0)
        /\ \A k \in Handler \ {h0} : given'[k] = given[k]
        /\ UNCHANGED <<executor, baseMsg, lastField, calls, phase>>
  BY HandOverResult
<1>2. /\ \A u, n : BaseHas(u, n)' <=> BaseHas(u, n)
      /\ \A u, j, n : FieldBy(u, j, n)' <=> FieldBy(u, j, n)
  BY <1>1 DEF BaseHas, FieldBy, Work
<1>3. LogsGetFields' /\ LastFields'
  BY <1>1, <1>2 DEF FieldsOK, LogsGetFields, LastFields, Work
<1>4. WorkerHasField' /\ Identified'
  BY <1>1, <1>2 DEF FieldsOK, WorkerHasField, Identified, Work
<1>5. /\ IF msg0.field = NoCall THEN msg0.own = 0
         ELSE msg0.field[1] = msg0.call[1] => msg0.field[2] = msg0.own
      /\ msg0.call[1] = Main => msg0.identified
  BY <1>1 DEF FieldsOK, WorkerHasField, Identified, BaseHas
<1>6. FieldsInOrder'
  <2> SUFFICES ASSUME NEW h \in Handler, NEW i \in DOMAIN given'[h], NEW msg, msg = given'[h][i]
               PROVE  /\ IF msg.field = NoCall THEN msg.own = 0
                         ELSE msg.field[1] = msg.call[1] => msg.field[2] = msg.own
                      /\ msg.call[1] = Main => msg.identified
    BY DEF FieldsInOrder
  <2>1. \/ msg = msg0
        \/ i \in DOMAIN given[h] /\ msg = given[h][i]
    <3>1. CASE h = h0
      <4>1. /\ DOMAIN given'[h] = 1..(Len(given[h]) + 1) /\ DOMAIN given[h] = 1..Len(given[h])
            /\ Len(given[h]) \in Nat /\ given'[h][Len(given[h]) + 1] = msg0
            /\ \A k \in 1..Len(given[h]) : given'[h][k] = given[h][k]
        BY <3>1, <1>1, GivenItems, LongerItems
      <4> QED BY <4>1
    <3>2. CASE h # h0
      BY <3>2, <1>1
    <3> QED BY <3>1, <3>2
  <2> QED BY <2>1, <1>5 DEF FieldsOK, FieldsInOrder
<1> QED BY <1>3, <1>4, <1>6 DEF FieldsOK

LEMMA FieldsStep ==
  ASSUME TypeInv, TypeInv', QueueOK, EndOK, LifeOK, FieldsOK, Step
  PROVE  FieldsOK'
<1>0. \A t \in Thread : calls[t] \in Nat /\ calls'[t] \in Nat
  BY DEF TypeInv
<1>1. ASSUME UNCHANGED <<given, executor, baseMsg, lastField, phase, calls>>,
             worker' = worker \/ worker'.kind # "log"
      PROVE  FieldsOK'
  BY <1>0, <1>1, FieldsKept
<1>2. ASSUME NEW t \in Thread, NEW item \in WorkItem, SendStep(t, item) PROVE FieldsOK'
  BY <1>2, FieldsSent
<1>3. ASSUME NEW t \in Thread, QuietCall(t) PROVE FieldsOK'
  <2>1. /\ UNCHANGED <<given, executor, baseMsg, lastField, phase, worker>>
        /\ calls'[t] = calls[t] + 1 /\ \A u \in Thread \ {t} : calls'[u] = calls[u]
    BY <1>3 DEF QuietCall
  <2>2. \A u \in Thread : calls'[u] >= calls[u] /\ calls'[u] \in Nat
    BY <1>0, <2>1
  <2> QED BY <2>1, <2>2, FieldsKept
<1>4. ASSUME NEW t \in Thread, TakeStep(t) PROVE FieldsOK'
  BY <1>4, FieldsTaken
<1>5. ASSUME NEW t \in Thread, Return(t) \/ Destroyed(t) PROVE FieldsOK'
  BY <1>1, <1>5 DEF Return, Destroyed, loggerVars, historyVars
<1>6. ASSUME NEW t \in Thread, StopExecutor(t) \/ JoinExecutor(t) PROVE FieldsOK'
  BY <1>6, FieldsEnd
<1>7. CASE DropPointer \/ Joined \/ AllDropped \/ LogDone \/ FlushDone
  <2>1. UNCHANGED <<given, executor, baseMsg, lastField, phase, calls>>
    BY <1>7 DEF DropPointer, Joined, AllDropped, LogDone, FlushDone, historyVars, outsideVars
  <2>2. worker'.kind # "log"
    BY <1>7 DEF DropPointer, Joined, AllDropped, LogDone, FlushDone, Drops, NoWorkItem
  <2> QED BY <1>1, <2>1, <2>2
<1>8. CASE HandOver
  BY <1>8, FieldsHanded
<1>9. CASE AsideStep
  BY <1>1, <1>9 DEF AsideStep
<1>10. \A t \in Thread : /\ \A h \in Handler : SetCreator(t, h) \/ Release(t, h) => QuietCall(t)
                         /\ GetHandlers(t) \/ SilentCall(t) => QuietCall(t)
  BY QuietSteps DEF SilentCall
<1> QED BY <1>2, <1>3, <1>4, <1>5, <1>6, <1>7, <1>8, <1>9, <1>10, Cases, AsideSteps

-----------------------------------------------------------------------------
(* What a flush asks                                                            *)

FlushedOK == \A h \in DOMAIN flushing : flushing[h] = "TRUE" => worker.call \in sink[h].reached

\* No step takes back what a handler has reached.
LEMMA ReachedKept ==
  ASSUME TypeInv, EndOK, LifeOK, Step, NEW h \in Handler
  PROVE  sink[h].reached \subseteq sink'[h].reached
<1> DEFINE Goal == sink[h].reached \subseteq sink'[h].reached
<1> SUFFICES Goal
  OBVIOUS
<1>0. sink[h] \in HandlerState /\ WorkerThread \in Producer /\ \A t \in Thread : t \in Producer
  BY QueueItems DEF Producer
<1>1. ASSUME sink' = sink PROVE Goal
  BY <1>1
<1>2. ASSUME NEW k, NEW n, sink' = [sink EXCEPT ![k] = n],
             k = h => sink[h].reached \subseteq n.reached
      PROVE  Goal
  BY <1>2 DEF TypeInv
<1>3. ASSUME NEW t \in Thread, NEW k \in Handler, SetCreator(t, k) PROVE Goal
  <2>1. /\ This(t) \in Call
        /\ sink' = [sink EXCEPT ![k] = SetMessageStringCreatorFunction(sink[k], t, This(t))]
    BY <1>3, ThisCall DEF SetCreator
  <2>2. LET n == SetMessageStringCreatorFunction(sink[h], t, This(t)) IN
        n.reached = sink[h].reached
    <3> DEFINE n == SetMessageStringCreatorFunction(sink[h], t, This(t))
               item == HandlerWork("creator", This(t))
    <3>1. n = sink[h] \/ n = Send(sink[h], t, item)
      BY <1>0, <2>1, CreatorResult
    <3>2. item \in SinkItem
      BY <2>1 DEF HandlerWork, SinkItem
    <3> HIDE DEF n, item
    <3>3. n.reached = sink[h].reached
      BY <1>0, <3>1, <3>2, SendResult
    <3> QED BY <3>3 DEF n
  <2> QED BY <1>2, <2>1, <2>2
<1>4. ASSUME NEW k \in Handler, NEW p \in Producer, NEW c \in Call,
             sink' = [sink EXCEPT ![k] = StartDestruction(sink[k], p, c)]
      PROVE  Goal
  <2>1. StartDestruction(sink[h], p, c).reached = sink[h].reached
    BY <1>0, DestructionResult
  <2> QED BY <1>2, <1>4, <2>1
<1>5. ASSUME NEW t \in Thread, NEW k \in Handler, Release(t, k) PROVE Goal
  <2>1. This(t) \in Call
    BY <1>5, ThisCall DEF Release
  <2> QED BY <1>0, <1>1, <1>4, <1>5, <2>1 DEF Release
<1>6. ASSUME NEW t \in Thread, JoinExecutor(t) PROVE Goal
  <2>1. <<t, calls[t]>> \in Call
    BY LastCall
  <2>2. StartDestruction(sink[h], t, <<t, calls[t]>>).reached = sink[h].reached
    BY <1>0, <2>1, DestructionResult
  <2>3. sink'[h] = StartDestruction(sink[h], t, <<t, calls[t]>>) \/ sink'[h] = sink[h]
    BY <1>6 DEF JoinExecutor
  <2> QED BY <2>2, <2>3
<1>7. CASE DropPointer
  <2>1. worker.call \in Call /\ Head(worker.todo) \in Handler
    BY <1>7, WorkerTypes, Items DEF DropPointer
  <2> QED BY <1>0, <1>1, <1>4, <1>7, <2>1 DEF DropPointer
<1>8. CASE HandOver
  <2>1. PICK k, msg : /\ msg \in LogMessage /\ k \in Handler
                      /\ sink'[k] = AddMessage(sink[k], WorkerThread, msg)
                      /\ \A l \in Handler \ {k} : sink'[l] = sink[l]
    BY <1>8, HandOverResult
  <2> DEFINE n == AddMessage(sink[h], WorkerThread, msg)
             item == [kind |-> "message", msg |-> msg]
  <2>2. n = sink[h] \/ n = Send(sink[h], WorkerThread, item)
    BY <1>0, <2>1, AddMessageResult
  <2>3. item \in SinkItem
    BY <2>1 DEF SinkItem
  <2>4. sink'[h] = n \/ sink'[h] = sink[h]
    BY <2>1
  <2> HIDE DEF n, item
  <2>5. n.reached = sink[h].reached
    BY <1>0, <2>2, <2>3, SendResult
  <2> QED BY <2>4, <2>5
<1>9. ASSUME NEW k \in Handler, FlushHandler(k) PROVE Goal
  <2>1. /\ worker.call \in Call /\ worker.call \in Producer
        /\ sink' = [sink EXCEPT ![k] = StartFlush(sink[k], worker.call, worker.call)]
    BY <1>9, WorkerTypes DEF FlushHandler, Producer
  <2> DEFINE n == StartFlush(sink[h], worker.call, worker.call)
             item == HandlerWork("flush", worker.call)
  <2>2. n = Send(sink[h], worker.call, item) \/ sink[h].reached \subseteq n.reached
    BY <1>0, <2>1, StartFlushResult
  <2>3. item \in SinkItem
    BY <2>1 DEF SinkItem, HandlerWork
  <2>4. sink'[h] = n \/ sink'[h] = sink[h]
    BY <2>1 DEF TypeInv
  <2> HIDE DEF n, item
  <2>5. sink[h].reached \subseteq n.reached
    BY <1>0, <2>1, <2>2, <2>3, SendResult
  <2> QED BY <2>4, <2>5
<1>10. ASSUME NEW k \in Handler, HandlerThread(k) PROVE Goal
  <2>1. PICK p \in Available(sink[k].exec) : sink' = [sink EXCEPT ![k] = RunWork(sink[k], p)]
    BY <1>10 DEF HandlerThread
  <2>2. sink[k] \in HandlerState
    BY QueueItems
  <2>3. k = h => sink[h].reached \subseteq RunWork(sink[k], p).reached
    BY <2>2, RunResult
  <2> QED BY <1>2, <2>1, <2>3
<1>11. ASSUME NEW t \in Thread,
              \/ \E item \in WorkItem : SendStep(t, item)
              \/ SilentCall(t) \/ GetHandlers(t) \/ TakeStep(t)
              \/ Return(t) \/ Destroyed(t) \/ StopExecutor(t)
       PROVE  Goal
  BY <1>1, <1>11 DEF SendStep, SilentCall, QuietCall, GetHandlers, TakeStep, Return, Destroyed,
                     StopExecutor
<1>12. CASE Joined \/ AllDropped \/ LogDone \/ FlushDone
  BY <1>1, <1>12 DEF Joined, AllDropped, LogDone, FlushDone
<1>13. ASSUME NEW k \in Handler, NEW verdict, Judged(k, verdict) PROVE Goal
  BY <1>1, <1>13 DEF Judged
<1> HIDE DEF Goal
<1>14. CASE Async \/ \E k \in Handler : HandlerThread(k)
  BY <1>9, <1>10, <1>13, <1>14 DEF Async
<1>15. ASSUME NEW t \in Thread,
              \/ \E item \in WorkItem : SendStep(t, item)
              \/ SilentCall(t) \/ GetHandlers(t)
              \/ \E k \in Handler : SetCreator(t, k) \/ Release(t, k)
              \/ TakeStep(t)
              \/ Return(t) \/ Destroyed(t) \/ StopExecutor(t) \/ JoinExecutor(t)
       PROVE  Goal
  BY <1>3, <1>5, <1>6, <1>11, <1>15
<1> QED BY <1>7, <1>8, <1>12, <1>14, <1>15, Cases

LEMMA FlushedStep ==
  ASSUME TypeInv, EndOK, LifeOK, LifeOK', FlushedOK, Step
  PROVE  FlushedOK'
<1>0. \A h \in DOMAIN flushing : h \in Handler /\ sink[h].reached \subseteq sink'[h].reached
  BY ReachedKept DEF TypeInv
<1>1. CASE worker'.kind # "flush"
  BY <1>1 DEF LifeOK, VisitsHandlers, FlushedOK
<1>2. ASSUME flushing' = flushing, worker' = worker PROVE FlushedOK'
  BY <1>0, <1>2 DEF FlushedOK
<1>3. ASSUME NEW t \in Thread, TakeStep(t), worker'.kind = "flush" PROVE FlushedOK'
  <2>1. \A h \in DOMAIN flushing' : flushing'[h] = "started"
    BY <1>3, HandlersTaken DEF TakeStep
  <2> QED BY <2>1 DEF FlushedOK
<1>4. ASSUME NEW k \in Handler, FlushHandler(k) PROVE FlushedOK'
  <2>1. flushing' = [flushing EXCEPT ![k] = "waiting"] /\ worker' = worker
    BY <1>4 DEF FlushHandler
  <2> QED BY <1>0, <2>1 DEF FlushedOK
<1>5. ASSUME NEW k \in Handler, NEW verdict \in {"TRUE", "FALSE"}, Judged(k, verdict)
      PROVE  FlushedOK'
  <2>1. /\ flushing' = [flushing EXCEPT ![k] = verdict] /\ worker' = worker /\ sink' = sink
        /\ verdict = "TRUE" => worker.call \in sink[k].reached
    BY <1>5 DEF Judged
  <2> QED BY <2>1 DEF FlushedOK
<1>6. ASSUME NEW t \in Thread,
             \/ \E item \in WorkItem : SendStep(t, item)
             \/ SilentCall(t) \/ GetHandlers(t)
             \/ \E h \in Handler : SetCreator(t, h) \/ Release(t, h)
             \/ Return(t) \/ Destroyed(t) \/ StopExecutor(t) \/ JoinExecutor(t)
      PROVE  FlushedOK'
  <2>1. SilentCall(t) \/ GetHandlers(t) \/ (\E h \in Handler : SetCreator(t, h) \/ Release(t, h))
          => QuietCall(t)
    BY QuietSteps DEF SilentCall
  <2> QED BY <1>2, <1>6, <2>1 DEF SendStep, QuietCall, Return, Destroyed, StopExecutor,
                                  JoinExecutor, loggerVars
<1>7. ASSUME NEW h \in Handler, HandlerThread(h) PROVE FlushedOK'
  BY <1>2, <1>7 DEF HandlerThread, loggerVars
<1>8. CASE DropPointer \/ Joined \/ AllDropped \/ HandOver \/ LogDone \/ FlushDone
  <2>1. worker'.kind # "flush"
    BY <1>8, HandOverResult DEF DropPointer, Joined, AllDropped, LogDone, FlushDone, Drops, NoWorkItem
  <2> QED BY <1>1, <2>1
<1> QED BY <1>1, <1>3, <1>4, <1>5, <1>6, <1>7, <1>8, Cases DEF Async

\* The step by which a flush becomes TRUE.
LEMMA FlushAnswered ==
  ASSUME TypeInv, LifeOK, FlushedOK, Step, NEW c \in Call, answer'[c] = "TRUE", answer[c] = "none",
         NEW h \in Set(handlers)
  PROVE  c \in sink[h].reached
<1>0. answer' # answer
  OBVIOUS
<1>1. CASE FlushDone
  <2>1. worker.kind = "flush" /\ answer' = [answer EXCEPT ![worker.call] = Verdict]
    BY <1>1 DEF FlushDone, Answers
  <2>2. c = worker.call /\ Verdict = "TRUE"
    BY <2>1 DEF TypeInv
  <2>3. flushing[h] = "TRUE" /\ h \in DOMAIN flushing
    BY <2>1, <2>2 DEF Verdict, LifeOK, VisitsHandlers
  <2> QED BY <2>2, <2>3 DEF FlushedOK
<1>2. CASE AllDropped
  BY <1>2 DEF AllDropped, Answers, TypeInv
<1>3. ASSUME NEW t \in Thread, TakeStep(t) PROVE FALSE
  BY <1>3 DEF TakeStep, TypeInv
<1>4. ASSUME NEW t \in Thread,
             \/ \E item \in WorkItem : SendStep(t, item)
             \/ QuietCall(t)
             \/ Return(t) \/ Destroyed(t) \/ StopExecutor(t) \/ JoinExecutor(t)
      PROVE  FALSE
  BY <1>0, <1>4 DEF SendStep, QuietCall, Return, Destroyed, StopExecutor, JoinExecutor, callVars
<1>5. CASE DropPointer \/ Joined \/ HandOver \/ LogDone
  BY <1>0, <1>5 DEF DropPointer, Joined, HandOver, LogDone
<1>6. CASE AsideStep
  BY <1>0, <1>6 DEF AsideStep
<1>7. \A t \in Thread : /\ \A k \in Handler : SetCreator(t, k) \/ Release(t, k) => QuietCall(t)
                        /\ GetHandlers(t) \/ SilentCall(t) => QuietCall(t)
  BY QuietSteps DEF SilentCall
<1> QED BY <1>1, <1>2, <1>3, <1>4, <1>5, <1>6, <1>7, Cases, AsideSteps

-----------------------------------------------------------------------------
(* Calls that block.  This is about LoggingBase alone: Logger's addLogHandler()   *)
(* does not wait.                                                                *)

NoReplace == \A t \in Thread : \A i \in DOMAIN Work(t) : Work(t)[i].kind # "replace"

BlockedOn(t, c) ==
  c = <<t, calls[t]>> /\ waits[t] \notin {"no", "release"} /\ answer[c] = "none"

ItemsBlock == \A t \in Thread : \A i \in DOMAIN Work(t) :
  Work(t)[i].kind \in Blocking => BlockedOn(t, Work(t)[i].call)

WorkerBlocks == \A t \in Thread :
  worker.kind \in {"drop", "join", "flush"} /\ worker.call[1] = t => BlockedOn(t, worker.call)

NothingLeft == phase = "dead" => ~executor.running /\ \A t \in Thread : DOMAIN Work(t) = {}

BlockedOK == NoReplace /\ ItemsBlock /\ WorkerBlocks /\ NothingLeft

LEMMA ItemSent ==
  ASSUME TypeInv, NoReplace, NEW t \in Thread, NEW kind, NEW c, NEW arg,
         executor' = SendWork(executor, t, Item(kind, c, arg)), kind # "replace"
  PROVE  NoReplace'
<1> DEFINE item == Item(kind, c, arg)
<1>1. item.kind # "replace"
  BY DEF Item
<1> HIDE DEF item
<1>2. /\ \A u \in Thread \ {t} : Work(u)' = Work(u)
      /\ Work(t)' = Append(Work(t), item)
  BY DEF SendWork, Enqueue, TypeInv, Work, item
<1>3. Work(t) \in Seq(WorkItem) /\ DOMAIN Work(t) = 1..Len(Work(t)) /\ Len(Work(t)) \in Nat
  BY WorkItems
<1>4. /\ DOMAIN Append(Work(t), item) = 1..(Len(Work(t)) + 1)
      /\ \A i \in 1..Len(Work(t)) : Append(Work(t), item)[i] = Work(t)[i]
      /\ Append(Work(t), item)[Len(Work(t)) + 1] = item
  <2>1. Work(t) \in Seq(WorkItem \cup {item})
    BY <1>3
  <2> QED BY <2>1, LongerItems
<1> QED BY <1>1, <1>2, <1>3, <1>4 DEF NoReplace

LEMMA NoReplaceStep ==
  ASSUME TypeInv, EndOK, NoReplace, Next
  PROVE  NoReplace'
<1>1. ASSUME executor' = executor PROVE NoReplace'
  BY <1>1 DEF NoReplace, Work
<1>2. ASSUME NEW t \in Thread, NEW level \in Level, Log(t, level) \/ SetMinSeverity(t, level)
      PROVE  NoReplace'
  BY <1>1, <1>2, ItemSent DEF Log, SetMinSeverity, BlockingCall, Sends
<1>3. ASSUME NEW t \in Thread, AddField(t) \/ RemoveAllHandlers(t) \/ Flush(t) \/ DestroyLogger(t)
      PROVE  NoReplace'
  BY <1>3, ItemSent DEF AddField, RemoveAllHandlers, Flush, DestroyLogger, BlockingCall, Sends
<1>4. ASSUME NEW t \in Thread, NEW h \in Handler, AddLogHandler(t, h) PROVE NoReplace'
  BY <1>4, ItemSent DEF AddLogHandler, Adds, Sends
<1>5. ASSUME NEW t \in Thread, StopExecutor(t) PROVE NoReplace'
  BY <1>5, ItemSent DEF StopExecutor
<1>6. ASSUME NEW t \in Thread, JoinExecutor(t) PROVE NoReplace'
  BY <1>6, WorkDropped DEF NoReplace
<1>7. ASSUME NEW t \in Thread, TakeStep(t) PROVE NoReplace'
  BY <1>7, WorkLeft DEF NoReplace
<1>8. ASSUME NEW t \in Thread,
             \/ GetHandlers(t) \/ Return(t) \/ Destroyed(t)
             \/ \E h \in Handler : SetCreator(t, h) \/ Release(t, h)
      PROVE  NoReplace'
  BY <1>1, <1>8 DEF GetHandlers, Return, Destroyed, SetCreator, Release
<1>9. CASE DropPointer \/ Joined \/ AllDropped \/ HandOver \/ LogDone \/ FlushDone
  BY <1>1, <1>9 DEF DropPointer, Joined, AllDropped, HandOver, LogDone, FlushDone
<1>10. CASE Async \/ \E h \in Handler : HandlerThread(h)
  BY <1>1, <1>10, AsideSteps DEF AsideStep
<1>11. ASSUME NEW t \in Thread, Application(t) PROVE NoReplace'
  BY <1>2, <1>3, <1>5, <1>6, <1>8, <1>11 DEF Application
<1>12. CASE Worker
  BY <1>7, <1>9, <1>12, TakeSteps DEF Worker
<1> QED BY <1>4, <1>10, <1>11, <1>12 DEF Next

LEMMA NothingLeftStep ==
  ASSUME TypeInv, EndOK, NothingLeft, Step
  PROVE  NothingLeft'
<1>1. ASSUME UNCHANGED executor, phase' = phase \/ phase' # "dead" PROVE NothingLeft'
  BY <1>1 DEF NothingLeft, Work
<1>2. ASSUME NEW t \in Thread,
             \/ \E item \in WorkItem : SendStep(t, item)
             \/ StopExecutor(t)
      PROVE  NothingLeft'
  BY <1>2 DEF SendStep, StopExecutor, NothingLeft
<1>3. ASSUME NEW t \in Thread, TakeStep(t) PROVE NothingLeft'
  BY <1>3, WorkTaken DEF TakeStep, NothingLeft
<1>4. ASSUME NEW t \in Thread, JoinExecutor(t) PROVE NothingLeft'
  BY <1>4, WorkDropped DEF NothingLeft
<1>5. ASSUME NEW t \in Thread, QuietCall(t) \/ Return(t) \/ Destroyed(t) PROVE NothingLeft'
  BY <1>1, <1>5 DEF QuietCall, Return, Destroyed
<1>6. CASE VisitStep \/ AsideStep
  BY <1>1, <1>6 DEF VisitStep, AsideStep
<1> QED BY <1>2, <1>3, <1>4, <1>5, <1>6, Kinds

LEMMA BlockedStep ==
  ASSUME TypeInv, QueueOK, EndOK, BlockedOK, Next
  PROVE  BlockedOK'
<1>0. /\ NoReplace' /\ NothingLeft' /\ Step
      /\ \A t \in Thread : calls[t] \in Nat
      /\ \A t \in Thread : \A i \in DOMAIN Work(t) : Work(t)[i].call[1] = t
      /\ worker.kind \in {"idle", "log", "drop", "join", "flush"}
  BY NoReplaceStep, NothingLeftStep, BaseSteps, WorkerTypes DEF BlockedOK, TypeInv, QueueOK, CallsQueued
<1> SUFFICES ItemsBlock' /\ WorkerBlocks'
  BY <1>0 DEF BlockedOK
\* A thread that is not inside a blocking call has nothing that blocks.
<1>1. \A t \in Thread : waits[t] \in {"no", "release"} \/ answer[<<t, calls[t]>>] # "none" =>
        /\ \A i \in DOMAIN Work(t) : Work(t)[i].kind \notin Blocking
        /\ worker.kind \in {"drop", "join", "flush"} => worker.call[1] # t
  BY DEF BlockedOK, ItemsBlock, WorkerBlocks, BlockedOn
<1>2. ASSUME NEW t \in Thread, NEW item \in WorkItem, SendStep(t, item)
      PROVE  ItemsBlock' /\ WorkerBlocks'
  <2>1. /\ \A u \in Thread \ {t} : Work(u)' = Work(u)
        /\ DOMAIN Work(t)' = 1..(Len(Work(t)) + 1) /\ DOMAIN Work(t) = 1..Len(Work(t))
        /\ Len(Work(t)) \in Nat
        /\ \A k \in 1..Len(Work(t)) : Work(t)'[k] = Work(t)[k]
        /\ Work(t)'[Len(Work(t)) + 1] = item
    BY <1>2, WorkSent, WorkItems DEF SendStep
  <2>2. /\ item.call = <<t, calls[t] + 1>> /\ waits[t] = "no" /\ UNCHANGED <<worker, answer>>
        /\ calls'[t] = calls[t] + 1 /\ \A u \in Thread \ {t} : calls'[u] = calls[u]
        /\ \A u \in Thread \ {t} : waits'[u] = waits[u]
        /\ item.kind \in Blocking => waits'[t] \notin {"no", "release"}
        /\ item.call \in Call
    BY <1>2, ThisCall, WorkItems DEF SendStep, This, WorkItem
  <2>3. answer[item.call] = "none"
    BY <1>0, <2>2 DEF QueueOK, AnswersMade
  <2>4. \A u \in Thread \ {t} : \A c : BlockedOn(u, c) => BlockedOn(u, c)'
    BY <2>2 DEF BlockedOn
  <2>6. ItemsBlock'
    <3> SUFFICES ASSUME NEW u \in Thread, NEW i \in DOMAIN Work(u)', NEW c, c = Work(u)'[i].call,
                        Work(u)'[i].kind \in Blocking
                 PROVE  BlockedOn(u, c)'
      BY DEF ItemsBlock
    <3>1. CASE u = t /\ i = Len(Work(t)) + 1
      <4>1. item.kind \in Blocking /\ c = item.call
        BY <3>1, <2>1
      <4>2. BlockedOn(t, c)'
        BY <4>1, <2>2, <2>3 DEF BlockedOn
      <4> QED BY <3>1, <4>2
    <3>2. CASE ~(u = t /\ i = Len(Work(t)) + 1)
      <4>1. i \in DOMAIN Work(u) /\ Work(u)'[i] = Work(u)[i]
        BY <3>2, <2>1
      <4>2. u # t
        BY <4>1, <1>1, <2>2
      <4>3. BlockedOn(u, c)
        BY <4>1 DEF BlockedOK, ItemsBlock
      <4> QED BY <4>2, <4>3, <2>4
    <3> QED BY <3>1, <3>2
  <2>7. WorkerBlocks'
    BY <1>1, <2>2, <2>4 DEF BlockedOK, WorkerBlocks
  <2> QED BY <2>6, <2>7
<1>3. ASSUME NEW t \in Thread, QuietCall(t) \/ Return(t) \/ Destroyed(t)
      PROVE  ItemsBlock' /\ WorkerBlocks'
  <2>1. /\ UNCHANGED <<executor, worker, answer>>
        /\ \A u \in Thread \ {t} : calls'[u] = calls[u] /\ waits'[u] = waits[u]
    BY <1>3 DEF QuietCall, Return, Destroyed, Blocks, loggerVars, TypeInv
  <2>2. \/ waits[t] \in {"no", "release"} \/ answer[<<t, calls[t]>>] # "none"
        \/ phase = "dead"
    BY <1>3 DEF QuietCall, Return, Destroyed, EndOK, Releasing
  <2>3. /\ \A i \in DOMAIN Work(t) : Work(t)[i].kind \notin Blocking
        /\ worker.kind \in {"drop", "join", "flush"} => worker.call[1] # t
    <3>1. CASE phase = "dead"
      BY <3>1 DEF BlockedOK, NothingLeft, EndOK, WorkerStopped
    <3>2. CASE phase # "dead"
      BY <3>2, <2>2, <1>1
    <3> QED BY <3>1, <3>2
  <2>4. \A u \in Thread \ {t} : \A c : BlockedOn(u, c) => BlockedOn(u, c)'
    BY <2>1 DEF BlockedOn
  <2>5. ItemsBlock'
    BY <2>1, <2>3, <2>4 DEF BlockedOK, ItemsBlock, Work
  <2>6. WorkerBlocks'
    BY <2>1, <2>3, <2>4 DEF BlockedOK, WorkerBlocks
  <2> QED BY <2>5, <2>6
<1>4. ASSUME NEW t \in Thread, TakeStep(t)
      PROVE  ItemsBlock' /\ WorkerBlocks'
  <2>1. /\ UNCHANGED <<calls, waits>>
        /\ answer' = IF WorkOf(t).kind \in {"add", "setMinSeverity"}
                     THEN [answer EXCEPT ![WorkOf(t).call] = "done"] ELSE answer
        /\ worker.kind = "idle"
    BY <1>4 DEF TakeStep
  <2>2. /\ WorkOf(t) = Work(t)[1] /\ 1 \in DOMAIN Work(t) /\ WorkOf(t).call \in Call
        /\ WorkOf(t).kind # "replace" /\ WorkOf(t).call[1] = t
    BY <1>0, <1>4, WorkLeft DEF BlockedOK, NoReplace
  <2>3. \A u \in Thread : \A i \in DOMAIN Work(u)' : \E j \in DOMAIN Work(u) :
          Work(u)'[i] = Work(u)[j] /\ (u = t => j = i + 1 /\ i \in Nat /\ i >= 1)
    BY <1>4, WorkLeft
  <2>4. ASSUME NEW u \in Thread, NEW i \in DOMAIN Work(u)', Work(u)'[i].kind \in Blocking,
               NEW c, c = Work(u)'[i].call
        PROVE  BlockedOn(u, c)'
    <3>1. PICK j \in DOMAIN Work(u) : /\ Work(u)'[i] = Work(u)[j]
                                      /\ u = t => j = i + 1 /\ i \in Nat /\ i >= 1
      BY <2>3
    <3>2. BlockedOn(u, c) /\ c[1] = u
      BY <1>0, <2>4, <3>1 DEF BlockedOK, ItemsBlock
    <3>3. WorkOf(t).kind \in Blocking => WorkOf(t).call # c
      <4>1. CASE u = t
        <5>1. Work(t)[1].kind # "identify" => Work(t)[1].call[2] < Work(t)[j].call[2]
          BY <2>2, <3>1, <4>1 DEF QueueOK, CallsInOrder
        <5>2. Work(t)[1].call[2] \in Nat
          BY <2>2, CallParts
        <5> QED BY <2>2, <2>4, <3>1, <4>1, <5>1, <5>2 DEF Blocking
      <4>2. CASE u # t
        BY <2>2, <3>2, <4>2
      <4> QED BY <4>1, <4>2
    <3>4. answer'[c] = answer[c]
      BY <2>1, <2>2, <3>3 DEF TypeInv, Blocking
    <3> QED BY <2>1, <3>2, <3>4 DEF BlockedOn
  <2>5. ASSUME worker'.kind \in {"drop", "join", "flush"}
        PROVE  /\ WorkOf(t).kind \in {"removeAllHandlers", "flush"}
               /\ worker'.call = WorkOf(t).call
    <3>1. CASE WorkOf(t).kind = "removeAllHandlers"
      BY <1>4, <3>1 DEF TakeStep
    <3>2. CASE WorkOf(t).kind = "flush"
      BY <1>4, <3>2 DEF TakeStep
    <3>3. CASE WorkOf(t).kind = "log"
      BY <1>4, <2>5, <3>3 DEF TakeStep
    <3>4. CASE WorkOf(t).kind \notin {"removeAllHandlers", "replace", "flush", "log"}
      BY <1>4, <2>1, <2>5, <3>4 DEF TakeStep
    <3> QED BY <2>2, <3>1, <3>2, <3>3, <3>4
  <2>6. ASSUME NEW u \in Thread, worker'.kind \in {"drop", "join", "flush"}, worker'.call[1] = u,
               NEW c, c = worker'.call
        PROVE  BlockedOn(u, c)'
    <3>1. u = t /\ c = Work(t)[1].call /\ WorkOf(t).kind \in {"removeAllHandlers", "flush"}
      BY <2>2, <2>5, <2>6
    <3>2. BlockedOn(t, c)
      BY <2>2, <3>1 DEF BlockedOK, ItemsBlock, Blocking
    <3> QED BY <2>1, <3>1, <3>2 DEF BlockedOn
  <2> QED BY <2>4, <2>6 DEF ItemsBlock, WorkerBlocks
<1>5. ASSUME NEW t \in Thread, StopExecutor(t)
      PROVE  ItemsBlock' /\ WorkerBlocks'
  <2>1. /\ \A u \in Thread \ {t} : Work(u)' = Work(u)
        /\ DOMAIN Work(t)' = {1} /\ Work(t)'[1].kind = "stop"
        /\ UNCHANGED <<calls, waits, answer, worker>>
    BY <1>5, StopSent DEF StopExecutor, loggerVars, callVars
  <2>2. \A u, c : BlockedOn(u, c) => BlockedOn(u, c)'
    BY <2>1 DEF BlockedOn
  <2>3. ItemsBlock'
    BY <2>1, <2>2 DEF BlockedOK, ItemsBlock, Blocking
  <2> QED BY <2>1, <2>2, <2>3 DEF BlockedOK, WorkerBlocks
<1>6. ASSUME NEW t \in Thread, JoinExecutor(t)
      PROVE  ItemsBlock' /\ WorkerBlocks'
  <2>1. (\A u \in Thread : DOMAIN Work(u)' = {}) /\ worker' = worker /\ worker.kind = "idle"
    BY <1>6, WorkDropped DEF JoinExecutor, EndOK, WorkerStopped
  <2> QED BY <2>1 DEF ItemsBlock, WorkerBlocks
<1>7. CASE VisitStep
  <2>1. /\ worker.kind # "idle"
        /\ \/ worker'.kind = "idle"
           \/ /\ worker'.call = worker.call /\ (worker'.kind = "log" <=> worker.kind = "log")
              /\ worker'.kind # "idle" /\ answer' = answer
        /\ \/ answer' = answer
           \/ \E value : answer' = [answer EXCEPT ![worker.call] = value]
        /\ UNCHANGED <<executor, calls, waits>> /\ worker.call \in Call
    <3>1. worker.kind # "idle" /\ worker.call \in Call /\ UNCHANGED <<executor, calls, waits>>
      BY <1>7, WorkerTypes DEF VisitStep
    <3>2. worker'.kind # "idle" => /\ worker'.call = worker.call /\ answer' = answer
                                   /\ worker'.kind = "log" <=> worker.kind = "log"
      BY <1>7 DEF VisitStep, NoWorkItem
    <3>3. answer' = answer \/ \E value : answer' = [answer EXCEPT ![worker.call] = value]
      BY <1>7 DEF VisitStep
    <3> QED BY <3>1, <3>2, <3>3
  <2>2. ASSUME NEW u \in Thread, NEW i \in DOMAIN Work(u), Work(u)[i].kind \in Blocking,
               NEW c, c = Work(u)[i].call
        PROVE  BlockedOn(u, c)'
    <3>1. BlockedOn(u, c) /\ c[1] = u /\ c \in Call
      BY <1>0, <2>2, WorkItems DEF BlockedOK, ItemsBlock
    <3>2. c # worker.call
      <4>1. worker.call[1] = u => worker.call[2] < c[2]
        BY <2>1, <2>2 DEF QueueOK, WorkerFirst, Runs
      <4> QED BY <3>1, <4>1, CallParts
    <3>3. answer'[c] = answer[c]
      BY <2>1, <3>1, <3>2 DEF TypeInv
    <3> QED BY <2>1, <3>1, <3>3 DEF BlockedOn
  <2>3. ItemsBlock'
    BY <2>1, <2>2 DEF ItemsBlock, Work
  <2>4. ASSUME NEW u \in Thread, worker'.kind \in {"drop", "join", "flush"}, worker'.call[1] = u,
               NEW c, c = worker'.call
        PROVE  BlockedOn(u, c)'
    <3>1. /\ c = worker.call /\ worker.kind \in {"drop", "join", "flush"}
          /\ UNCHANGED <<answer, calls, waits>>
      BY <1>0, <2>1, <2>4
    <3> QED BY <2>4, <3>1 DEF BlockedOK, WorkerBlocks, BlockedOn
  <2> QED BY <2>3, <2>4 DEF WorkerBlocks
<1>8. CASE AsideStep
  <2>1. UNCHANGED <<executor, worker, calls, answer, waits>>
    BY <1>8 DEF AsideStep
  <2> QED BY <2>1 DEF BlockedOK, ItemsBlock, WorkerBlocks, BlockedOn, Work
<1> QED BY <1>0, <1>2, <1>3, <1>4, <1>5, <1>6, <1>7, <1>8, Kinds

-----------------------------------------------------------------------------
(* The inductive invariant of the handlers                                      *)

HandlersOK == /\ TypeInv /\ QueueOK /\ EndOK /\ LifeOK /\ OnceOK /\ GivenOK
              /\ InboxesOK /\ SinksOK /\ AddedOK /\ FieldsOK /\ FlushedOK

\* Nobody is added yet but the handler that Logger's constructor adds.
LEMMA StartAdding ==
  ASSUME NEW sent, NEW owned, Starts(sent, owned)
  PROVE  AddersMade /\ AddingOnce
<1>1. /\ handlers = << >> /\ calls = [t \in Thread |-> 0]
      /\ adder = [h \in Handler |-> IF h \in owned THEN NoCall ELSE <<Main, 0>>]
  BY DEF Starts, Constructed
<1>2. Set(handlers) = {}
  BY <1>1, NoItems
<1>3. AddersMade
  BY <1>1, <1>2, LoggerAssumption DEF AddersMade
<1>4. ASSUME NEW t \in Thread, NEW i \in DOMAIN Work(t), Work(t)[i].kind \in Adding
      PROVE  adder[Work(t)[i].arg] = Work(t)[i].call
  <2>1. \A u \in Thread \ {Main} : DOMAIN Work(u) = {}
    BY StartWork, NoItems
  <2>2. /\ Work(Main) = sent /\ sent[1].kind = "identify"
        /\ DOMAIN sent = {1} \/ (DOMAIN sent = {1, 2} /\ sent[2].call = <<Main, 0>>
             /\ owned = Handler \ {sent[2].arg} /\ sent[2].arg \in Handler)
    BY StartWork
  <2>3. t = Main /\ i = 2 /\ DOMAIN sent = {1, 2}
    BY <1>4, <2>1, <2>2 DEF Adding
  <2>4. sent[2].arg \in Handler /\ sent[2].arg \notin owned /\ sent[2].call = <<Main, 0>>
    BY <2>2, <2>3
  <2> QED BY <1>1, <2>2, <2>3, <2>4
<1>5. AddingOnce
  BY <1>2, <1>4 DEF AddingOnce
<1> QED BY <1>3, <1>5

LEMMA StartFields ==
  ASSUME NEW sent, NEW owned, Starts(sent, owned)
  PROVE  FieldsOK
<1>1. /\ worker.kind = "idle" /\ baseMsg.field = NoCall /\ phase = "alive"
      /\ calls = [t \in Thread |-> 0] /\ lastField = [t \in Thread |-> 0]
      /\ given = [h \in Handler |-> << >>]
  BY DEF Starts, Constructed, NoWorkItem
<1>2. /\ 1 \in DOMAIN Work(Main) /\ Work(Main)[1].kind = "identify"
      /\ \A t \in Thread : \A i \in DOMAIN Work(t) :
           Work(t)[i].kind # "addField" /\ Work(t)[i].kind # "log"
  <2>1. \A t \in Thread \ {Main} : DOMAIN Work(t) = {}
    BY StartWork, NoItems
  <2>2. /\ Work(Main) = sent /\ sent[1].kind = "identify"
        /\ DOMAIN sent = {1} \/ (DOMAIN sent = {1, 2} /\ sent[2].kind = "replace")
    BY StartWork
  <2> QED BY <2>1, <2>2
<1>3. LogsGetFields
  BY <1>2 DEF LogsGetFields
<1>4. LastFields
  BY <1>1, <1>2 DEF LastFields, FieldBy, BaseHas
<1>5. WorkerHasField /\ Identified
  BY <1>1, <1>2 DEF WorkerHasField, Identified
<1>6. FieldsInOrder
  BY <1>1, NoItems DEF FieldsInOrder
<1> QED BY <1>3, <1>4, <1>5, <1>6 DEF FieldsOK

LEMMA HandlersStart ==
  ASSUME NEW sent, NEW owned, Starts(sent, owned)
  PROVE  HandlersOK
<1>1. /\ worker.kind = "idle" /\ flushing = << >> /\ handlers = << >>
      /\ sink = [h \in Handler |-> NewHandler(Producer, IF h \in Graylog THEN Capacity ELSE 0)]
      /\ given = [h \in Handler |-> << >>] /\ stopper = [h \in Handler |-> Nobody]
      /\ dangling = {}
  BY DEF Starts, Constructed, NoWorkItem
<1>2. LifeOK
  BY <1>1, NoItems DEF LifeOK, VisitsHandlers, Unreachable, CopiesKnown
<1>3. OnceOK
  BY <1>1, StartAdding, NoItems DEF OnceOK, VisitsOnce, Distinct
<1>4. GivenOK
  BY <1>1, NoItems DEF GivenOK, GivenInOrder, GivenBefore
<1>5. ASSUME NEW h \in Handler
      PROVE  /\ \A p \in Producer : Queue(h, p) = << >>
             /\ Inbox(h) = << >> /\ sink[h].out = << >> /\ sink[h].exec.running
             /\ sink[h].capacity = IF h \in Graylog THEN Capacity ELSE 0
             /\ given[h] = << >>
  BY <1>1 DEF NewHandler, NewExecutor, NoWork, Producer, Queue, Inbox
<1>6. InboxesOK
  BY <1>5, NoItems DEF InboxesOK, InboxOK
<1>7. \A h \in Handler : Passed(h) = {} /\ DOMAIN given[h] = {}
  BY <1>5, NoItems DEF Passed, Written
<1>8. SinksOK
  BY <1>7 DEF SinksOK, PassedInOrder, PassedAll
<1>9. AddedOK
  <2>1. Set(handlers) = {} /\ \A h \in Handler : Got(h) = {}
    BY <1>1, NoItems DEF Got
  <2> QED BY <1>1, <2>1 DEF AddedOK, Handing, AddedFirst, AddedGetsAll
<1>10. FlushedOK
  BY <1>1, NoItems DEF FlushedOK
<1> QED BY <1>2, <1>3, <1>4, <1>6, <1>8, <1>9, <1>10, StartTypes, StartOrder, StartFields
        DEF HandlersOK

LEMMA HandlersStep == HandlersOK /\ Step => HandlersOK'
<1> SUFFICES ASSUME HandlersOK, Step PROVE HandlersOK'
  OBVIOUS
<1>1. TypeInv' /\ QueueOK' /\ EndOK' /\ LifeOK'
  BY TypeStep, QueueStep, EndStep, LifeStep DEF HandlersOK
<1>2. OnceOK' /\ GivenOK' /\ InboxesOK' /\ SinksOK'
  BY <1>1, OnceStep, GivenStep, InboxStep, SinksStep DEF HandlersOK
<1>3. AddedOK' /\ FieldsOK' /\ FlushedOK'
  BY <1>1, AddedStep, FieldsStep, FlushedStep DEF HandlersOK
<1> QED BY <1>1, <1>2, <1>3 DEF HandlersOK

LEMMA HandlersStutter == HandlersOK /\ UNCHANGED vars => HandlersOK'
<1> SUFFICES ASSUME HandlersOK, UNCHANGED vars PROVE HandlersOK'
  OBVIOUS
<1> USE DEF vars, loggerVars, callVars, historyVars
<1>1. TypeInv' /\ QueueOK' /\ EndOK'
  BY Stutters DEF HandlersOK
<1>2. Carried' = Carried
  BY CarriedKept
<1>3. LifeOK'
  BY <1>2 DEF HandlersOK, LifeOK, VisitsHandlers, Unreachable, CopiesKnown, Clearing
<1>4. OnceOK'
  BY DEF HandlersOK, OnceOK, AddersMade, AddingOnce, VisitsOnce, Distinct, Work
<1>5. GivenOK'
  <2>1. GivenInOrder'
    BY DEF HandlersOK, GivenOK, GivenInOrder
  <2>2. \A h \in Handler : \A c : IsEarlier(c, h) => IsEarlier(c, h)'
    BY DEF IsEarlier, Work
  <2>3. GivenBefore'
    BY <2>2 DEF HandlersOK, GivenOK, GivenBefore
  <2> QED BY <2>1, <2>3 DEF GivenOK
<1>6. InboxesOK'
  BY DEF HandlersOK, InboxesOK, InboxOK, Queue, Inbox
<1>7. SinksOK'
  <2>1. \A h \in Handler : Same(h)
    BY DEF Same, Fewer, Passed, At, Written, Inbox
  <2> QED BY <2>1, FewerPassed DEF HandlersOK, SinksOK, Same
<1>8. AddedOK'
  <2>1. \A h \in Handler : adder[h] # NoCall => adder[h][1] \in Thread
    BY CallParts DEF HandlersOK, TypeInv
  <2>2. UNCHANGED <<given, adder, worker, baseMsg, handlers>> /\ \A u : Work(u)' = Work(u)
    BY DEF Work
  <2> QED BY <2>1, <2>2, AddedKept DEF HandlersOK
<1>9. FieldsOK'
  <2>1. \A t \in Thread : calls'[t] >= calls[t] /\ calls'[t] \in Nat
    BY DEF HandlersOK, TypeInv
  <2> QED BY <2>1, FieldsKept DEF HandlersOK
<1>10. FlushedOK'
  BY DEF HandlersOK, FlushedOK
<1> QED BY <1>1, <1>3, <1>4, <1>5, <1>6, <1>7, <1>8, <1>9, <1>10 DEF HandlersOK

-----------------------------------------------------------------------------
(* What it means                                                                *)

LEMMA OwnedMeans == TypeInv /\ LifeOK => OwnedIsAlive
<1> SUFFICES ASSUME TypeInv, LifeOK PROVE OwnedIsAlive
  OBVIOUS
<1> DEFINE visits == Set(IF worker.kind = "join" THEN Tail(worker.todo) ELSE worker.todo)
<1>1. ASSUME NEW h \in Handler, stopper[h] # Nobody
      PROVE  /\ h \notin held \cup Carried
             /\ h \in Set(handlers) => Clearing
  BY <1>1 DEF LifeOK, Unreachable
<1>2. ASSUME NEW h \in DOMAIN flushing PROVE h \in Set(handlers) /\ ~Clearing
  BY <1>2 DEF LifeOK, VisitsHandlers, Clearing
<1>3. ASSUME NEW h \in Handler, stopper[h] # Nobody PROVE h \notin visits
  <2>1. CASE worker.kind \in {"log", "drop", "join"}
    BY <1>3, <2>1 DEF LifeOK, Unreachable
  <2>2. CASE worker.kind = "flush"
    BY <1>3, <2>2 DEF LifeOK, Unreachable, VisitsHandlers, Clearing
  <2>3. CASE worker.kind = "idle"
    <3>1. worker.todo = << >>
      BY <2>3, WorkerTypes DEF NoWorkItem
    <3> QED BY <2>3, <3>1, NoItems
  <2> QED BY <2>1, <2>2, <2>3, WorkerTypes
<1>4. CopiesKnown
  BY DEF LifeOK
<1> HIDE DEF visits
<1> QED BY <1>1, <1>2, <1>3, <1>4 DEF OwnedIsAlive, CopiesKnown, Clearing, visits

LEMMA DrainedMeans == HandlersOK => DrainedByWorker
<1> SUFFICES ASSUME HandlersOK, NEW h \in Handler \ Graylog, Gone(sink[h]),
                    stopper[h] = WorkerThread
             PROVE  Written(h) = Len(given[h])
  BY DEF DrainedByWorker, Written
<1>1. TypeInv /\ InboxOK(h) /\ PassedAll(h)
  BY DEF HandlersOK, InboxesOK, SinksOK
<1>2. Inbox(h) = << >>
  BY <1>1 DEF Gone, InboxOK
<1>3. Written(h) \in Nat /\ Len(Inbox(h)) = 0
  BY <1>1, <1>2, PassedItems, NoItems
<1>4. Passed(h) = 1..Written(h)
  BY <1>3 DEF Passed
<1>5. 1..Written(h) = 1..Len(given[h]) /\ Len(given[h]) \in Nat
  BY <1>1, <1>4, GivenItems DEF PassedAll
<1>6. ASSUME NEW a \in Nat, NEW b \in Nat, 1..a = 1..b PROVE a = b
  <2>1. a > b => a \in 1..a /\ a \notin 1..b
    OBVIOUS
  <2>2. b > a => b \in 1..b /\ b \notin 1..a
    OBVIOUS
  <2> QED BY <1>6, <2>1, <2>2
<1> QED BY <1>3, <1>5, <1>6

LEMMA GivenOnce ==
  ASSUME TypeInv, GivenInOrder, NEW h \in Handler,
         NEW i \in DOMAIN given[h], NEW j \in DOMAIN given[h], given[h][i] = given[h][j]
  PROVE  i = j
<1>1. i \in Nat /\ j \in Nat /\ given[h][i].call[2] \in Nat
  BY GivenItems
<1>2. ~ (i < j) /\ ~ (j < i)
  BY <1>1 DEF GivenInOrder
<1> QED BY <1>1, <1>2

LEMMA HandledMeans == HandlersOK => HandledInOrder
<1> SUFFICES ASSUME HandlersOK, NEW h \in Handler
             PROVE  LET Place(i) == CHOOSE k \in DOMAIN given[h] :
                                      given[h][k] = sink[h].out[i].msg IN
                    /\ \A i \in DOMAIN sink[h].out : sink[h].out[i].msg \in Set(given[h])
                    /\ \A i, j \in DOMAIN sink[h].out : i < j => Place(i) < Place(j)
                    /\ h \notin Graylog => \A i \in DOMAIN sink[h].out : Place(i) = i
                    /\ \A i, j \in DOMAIN given[h] :
                         i < j /\ given[h][i].call[1] = given[h][j].call[1]
                           => given[h][i].call[2] < given[h][j].call[2]
  BY DEF HandledInOrder
<1> DEFINE Place(i) == CHOOSE k \in DOMAIN given[h] : given[h][k] = sink[h].out[i].msg
<1>1. TypeInv /\ PassedInOrder(h) /\ (h \notin Graylog => PassedAll(h)) /\ GivenInOrder
  BY DEF HandlersOK, SinksOK, GivenOK
<1>2. /\ DOMAIN sink[h].out = 1..Written(h) /\ Written(h) \in Nat
      /\ \A i \in DOMAIN sink[h].out : i \in Passed(h) /\ At(h, i) = sink[h].out[i].msg
  BY <1>1, PassedItems
<1>3. \A i \in DOMAIN sink[h].out : sink[h].out[i].msg \in Set(given[h])
  BY <1>1, <1>2 DEF PassedInOrder
<1>4. \A i \in DOMAIN sink[h].out :
        Place(i) \in DOMAIN given[h] /\ given[h][Place(i)] = sink[h].out[i].msg
  BY <1>3 DEF Set
<1> HIDE DEF Place
<1>5. \A i, j \in DOMAIN sink[h].out : i < j => Place(i) < Place(j)
  BY <1>1, <1>2, <1>4 DEF PassedInOrder, Before
<1>6. ASSUME h \notin Graylog, NEW i \in DOMAIN sink[h].out PROVE Place(i) = i
  <2>1. i \in DOMAIN given[h] /\ given[h][i] = sink[h].out[i].msg
    BY <1>1, <1>2, <1>6 DEF PassedAll
  <2> QED BY <1>1, <1>4, <2>1, GivenOnce
<1>7. \A i, j \in DOMAIN given[h] : i < j /\ given[h][i].call[1] = given[h][j].call[1]
        => given[h][i].call[2] < given[h][j].call[2]
  BY <1>1 DEF GivenInOrder
<1> QED BY <1>3, <1>5, <1>6, <1>7 DEF Place

LEMMA AddedMeans == HandlersOK => AddedGetsTheRest
<1> SUFFICES ASSUME AddedOK PROVE AddedGetsTheRest
  BY DEF HandlersOK
<1> QED BY DEF AddedOK, AddedFirst, AddedGetsAll, AddedGetsTheRest, Got, IsCurrent

LEMMA FieldsMeans == HandlersOK => FieldsInOrder
BY DEF HandlersOK, FieldsOK

LEMMA FlushMeans == HandlersOK /\ Step => \A c \in Call :
  answer'[c] = "TRUE" /\ answer[c] = "none" => \A h \in Set(handlers) : c \in sink[h].reached
BY FlushAnswered DEF HandlersOK

LEMMA BlockedMeans == BlockedOK => EffectBeforeReturn
BY DEF BlockedOK, ItemsBlock, WorkerBlocks, BlockedOn, EffectBeforeReturn, Work

LEMMA BlockedStart == Init => BlockedOK
<1> SUFFICES ASSUME Init PROVE BlockedOK
  OBVIOUS
<1>1. worker.kind = "idle" /\ phase = "alive"
  BY DEF Init, Constructed, NoWorkItem
<1>2. Work(Main) = <<Identify>> /\ \A t \in Thread \ {Main} : Work(t) = << >>
  BY BaseStarts, StartWork
<1>3. \A t \in Thread : \A i \in DOMAIN Work(t) : Work(t)[i].kind = "identify"
  BY <1>2, NoItems DEF Identify, Item
<1> QED BY <1>1, <1>3 DEF BlockedOK, NoReplace, ItemsBlock, WorkerBlocks, NothingLeft, Blocking

-----------------------------------------------------------------------------
(* Theorems                                                                     *)

LEMMA HandlersInvariant == Spec => []HandlersOK
<1>1. Init => HandlersOK
  BY BaseStarts, HandlersStart
<1>2. HandlersOK /\ [Next]_vars => HandlersOK'
  BY BaseSteps, HandlersStep, HandlersStutter
<1> QED BY <1>1, <1>2, PTL DEF Spec

\* What the application owns, queued work carries, a flush uses or the worker has
\* still to visit is not being destroyed.  Handlers shows such a handler only while
\* the worker clears it, and a copy of Handlers only if it was made then or while a
\* console was replaced.
THEOREM OwnedHandlersAlive == Spec => []OwnedIsAlive
<1>1. HandlersOK => OwnedIsAlive
  BY OwnedMeans DEF HandlersOK
<1> QED BY <1>1, HandlersInvariant, PTL

\* A handler writes what it was given, in that order and once; each thread's
\* messages are in the order of its calls.
THEOREM HandlersWriteInOrder == Spec => []HandledInOrder
BY HandledMeans, HandlersInvariant, PTL

\* A handler that the worker destroyed has written all it was given.
THEOREM WorkerDrainsHandlers == Spec => []DrainedByWorker
BY DrainedMeans, HandlersInvariant, PTL

\* A handler gets none of the messages its thread logged before it added it, and all
\* that any handler gets of those that thread logged since.
THEOREM AddedHandlersGetTheRest == Spec => []AddedGetsTheRest
BY AddedMeans, HandlersInvariant, PTL

\* A message carries the latest field of its own thread or one set since by another
\* thread; the constructing thread's messages name host and process.
THEOREM MessagesGetFields == Spec => []FieldsInOrder
BY FieldsMeans, HandlersInvariant, PTL

\* A flush() becomes TRUE only when every handler has reached it.
THEOREM FlushReachesHandlers == Spec => FlushAsksEveryHandler
<1> DEFINE Reached == \A c \in Call : answer'[c] = "TRUE" /\ answer[c] = "none"
                      => \A h \in Set(handlers) : c \in sink[h].reached
<1>1. HandlersOK /\ [Next]_vars => [Reached]_vars
  BY FlushMeans, BaseSteps
<1> QED BY <1>1, HandlersInvariant, PTL DEF Spec, FlushAsksEveryHandler

\* What a blocking call sent has been run, to its end, when the call returns.
THEOREM CallsWaitForEffect == Spec => []EffectBeforeReturn
<1>1. HandlersOK /\ BlockedOK /\ [Next]_vars => BlockedOK'
  <2>1. HandlersOK /\ BlockedOK /\ Next => BlockedOK'
    BY BlockedStep DEF HandlersOK
  <2>2. BlockedOK /\ UNCHANGED vars => BlockedOK'
    BY DEF BlockedOK, NoReplace, ItemsBlock, WorkerBlocks, NothingLeft, BlockedOn, Work,
           vars, loggerVars, callVars
  <2> QED BY <2>1, <2>2
<1> QED BY <1>1, BlockedStart, BlockedMeans, HandlersInvariant, PTL DEF Spec
=============================================================================
