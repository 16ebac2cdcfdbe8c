------------------------------ MODULE LogHandler ------------------------------
(* The log handlers, each with a thread of its own: ConsoleInterface,            *)
(* FileInterface and GraylogInterface.  A handler is a value: its queue and      *)
(* whether its thread runs (`exec`), the formatter its thread uses, what it has  *)
(* written and how much of that is flushed, and the flush() promises that have   *)
(* been fulfilled or broken.                                                    *)
(*                                                                             *)
(* A GraylogInterface has a queue of limited capacity and no formatter; its      *)
(* thread is the connection of module GraylogConnection, of which nothing is     *)
(* used here but what MessagePipe says: it takes each producer's items in order, *)
(* some time or never.                                                          *)
EXTENDS ThreadedExecutor

\* A capacity of 0 stands for no limit: the queue of a ThreadedExecutor.
NewHandler(Producer, capacity) ==
  [exec |-> NewExecutor(Producer), capacity |-> capacity, creator |-> "default",
   out |-> << >>, flushed |-> 0, reached |-> {}]

IsGraylog(s) == s.capacity > 0
Refuses(s)   == IsGraylog(s) /\ IsFull(s.exec.work, s.capacity)

HandlerWork(kind, call) == [kind |-> kind, call |-> call]

Send(s, p, work) == [s EXCEPT !.exec = SendWork(@, p, work)]

AddMessage(s, p, msg) ==
  IF Refuses(s) THEN s ELSE Send(s, p, [kind |-> "message", msg |-> msg])

SetMessageStringCreatorFunction(s, p, call) ==
  IF IsGraylog(s) THEN s ELSE Send(s, p, HandlerWork("creator", call))

\* A marker that is refused breaks its promise.
StartFlush(s, p, call) ==
  IF Refuses(s) THEN [s EXCEPT !.reached = @ \cup {call}]
  ELSE Send(s, p, HandlerWork("flush", call))

\* Defect: the loop is told to stop directly, not by an item of its queue.
StopAtOnce(s, p, call) == [s EXCEPT !.exec = Stop(@)]

\* ~ThreadedExecutor(), the first member to be destroyed: `p` sends this, then
\* waits until the handler is Gone.  A connection's io_service is stopped directly
\* and its queue destroyed.
StartDestruction(s, p, call) ==
  IF IsGraylog(s)
  THEN [s EXCEPT !.exec = Stop(DropWork(@))]
  ELSE Send(s, p, HandlerWork("stop", call))
Gone(s) == ~s.exec.running

\* What the handler's thread makes of one item.
Done(s, work) ==
  CASE work.kind = "message" ->
         [s EXCEPT !.out = Append(@, [msg |-> work.msg, creator |-> s.creator])]
    [] work.kind = "creator" -> [s EXCEPT !.creator = "custom"]
    [] work.kind = "flush" ->
         [s EXCEPT !.flushed = Len(s.out), !.reached = @ \cup {work.call}]
    [] work.kind = "stop" -> [s EXCEPT !.exec = Stop(@)]

RunWork(s, p) ==
  Done([s EXCEPT !.exec = TakeWork(@, p)], NextWork(s.exec, p))
=============================================================================
