-------------------------- MODULE GraylogConnection --------------------------
(* GraylogConnection::Impl: the TCP connection to a Graylog server.             *)
(*                                                                             *)
(* One thread runs the io_service.  Every asio handler is therefore one atomic  *)
(* step, and handlers run in the order in which their operations completed      *)
(* (io.ready).  An operation started and not completed is counted in            *)
(* io.pending.  Application threads reach the connection only through the       *)
(* queue LogMessages and the promises of their flush() calls.                   *)
EXTENDS WorkQueue

CONSTANTS
  Thread,                \* application threads that log or flush
  MaxMessage,            \* sendMessage() calls of each thread
  FlushCall,             \* the flush() calls that may be made
  Capacity,              \* LogMessages' slots
  MessageAdditionLimit,  \* no message is added to a longer MessageBuffer
  FrameLen,              \* characters of a framed message, its '\0' included
  Endpoint, V6,          \* addresses the host name resolves to, those of IPv6
  NoEndpoint,            \* the default-constructed endpoint
  MaxFaults              \* failures of the resolver, the server or the network

ASSUME CountAssumption ==
  /\ MaxMessage \in Nat
  /\ Capacity \in Nat
  /\ MessageAdditionLimit \in Nat
  /\ FrameLen \in Nat \ {0}
  /\ MaxFaults \in Nat
ASSUME EndpointAssumption ==
  IsFiniteSet(Endpoint) /\ V6 \subseteq Endpoint /\ NoEndpoint \notin Endpoint

Message == Thread \X (1..MaxMessage)
Byte    == [msg : Message, pos : 1..FrameLen]
ASSUME KindAssumption == Message \cap FlushCall = {}

\* The operations a connection is established and watched with, one of which
\* must always be outstanding, and the ones that carry the messages.
ChainOp == {"resolve", "connect", "receive", "timer"}
SendOp  == {"write", "send"}
Op      == ChainOp \cup SendOp
Status  == {"ADDR_LOOKUP", "ADDR_RETRY_WAIT", "CONNECT", "SEND_LOOP"}

VARIABLES
  queue,      \* LogMessages
  count,      \* sendMessage() calls made by each thread
  promise,    \* of each flush() call: unused, unset, set, broken
  caller,     \* of each flush() call: idle, waiting, TRUE, FALSE
  ahead,      \* history: what the caller's thread had queued before its marker
  io,         \* the io_service: operations pending, completed ones ready to run
  status,     \* ConnectionState
  open,       \* Socket.is_open()
  endpoints,  \* QueryResult::EndpointList
  next,       \* QueryResult::NextEndpoint
  tried,      \* history: endpoints connected to since the last address query
  buffer,     \* MessageBuffer
  progress,   \* bytes of the outstanding write the kernel has accepted
  peer,       \* the server's end: up, gone, or gone with data left to receive
  stream,     \* history: everything ever put in MessageBuffer
  sent,       \* history: everything the kernel ever accepted
  faults,     \* failures so far
  alive       \* the Impl has not been destroyed

clientVars   == <<count, caller, ahead>>
workVars     == <<queue, promise>>
bufferVars   == <<buffer, stream>>
endpointVars == <<endpoints, next, tried>>
netVars      == <<peer, sent, faults>>
vars == <<clientVars, workVars, bufferVars, endpointVars, netVars, progress,
          io, status, open, alive>>
-----------------------------------------------------------------------------
(* asio: starting, completing, aborting and posting.  Each returns a new io.    *)

Completed(op, ok) == [op |-> op, ok |-> ok]

Service(pending, ready) == [pending |-> pending, ready |-> ready]

Start(a, op) == Service([a.pending EXCEPT ![op] = @ + 1], a.ready)

Post(a, op, ok) == Service(a.pending, Append(a.ready, Completed(op, ok)))

Complete(a, op, ok) ==
  Service([a.pending EXCEPT ![op] = @ - 1], Append(a.ready, Completed(op, ok)))

\* All of op's pending operations complete at once with operation_aborted.
Abort(a, op) ==
  Service([a.pending EXCEPT ![op] = 0],
          a.ready \o [i \in 1..a.pending[op] |-> Completed(op, FALSE)])

\* Socket.close(): the read queue of the socket is aborted before the write queue.
Close(a) == Abort(Abort(Abort(a, "receive"), "connect"), "write")

\* Socket.async_receive(): on a closed socket it fails at once.
Receive(a, isOpen) ==
  IF isOpen THEN Start(a, "receive") ELSE Post(a, "receive", FALSE)

\* Defect: the timer is cancelled and not started again.
WaitCancelled(a) == Abort(a, "timer")

\* ReconnectTimeout.expires_after() cancels the waits that are still pending.
Wait(a) == Start(Abort(a, "timer"), "timer")

\* The handler the io thread runs now, and what remains after it is taken.
Runs(op) == alive /\ io.ready # << >> /\ Head(io.ready).op = op
Error    == ~Head(io.ready).ok
Rest     == Service(io.pending, Tail(io.ready))

Outstanding(op) ==
  io.pending[op] + Cardinality({i \in DOMAIN io.ready : io.ready[i].op = op})

Writing == Outstanding("write") > 0
-----------------------------------------------------------------------------
(* The private member functions, from the io_service `a` they are called with.  *)

\* Defect: the addresses are left in the order of the answer.
Unsorted(list) == TRUE

\* QueryResult: the addresses in the order std::sort leaves them, IPv4 first.
Sorted(list) == \A i, j \in DOMAIN list :
                  i < j => (list[i] \in V6 => list[j] \in V6)
Permutations(S) == {list \in [1..Cardinality(S) -> S] :
                      \A i, j \in DOMAIN list : list[i] = list[j] => i = j}
EndpointLists == {list \in UNION {Permutations(S) : S \in (SUBSET Endpoint) \ {{}}} :
                    Sorted(list)}

\* Defect: off by one, the last address is never tried.
IsDoneEarly(list, n) == n + 1 >= Len(list)

IsDone(list, n) == n >= Len(list)

\* Defect: the state is not updated.
DoAddressQuerySilently(a) == io' = Start(a, "resolve") /\ UNCHANGED status

DoAddressQuery(a) ==
  /\ status' = "ADDR_LOOKUP"
  /\ io' = Start(a, "resolve")

ReConnect(a) ==
  /\ io' = Wait(a)
  /\ status' = "ADDR_RETRY_WAIT"

\* async_connect() opens the socket.
TryConnect(a, list, n) ==
  /\ endpoints' = list
  /\ IF n < Len(list)
     THEN next' = n + 1 /\ tried' = Append(tried, list[n + 1])
     ELSE next' = n     /\ tried' = Append(tried, NoEndpoint)
  /\ io' = Start(a, "connect")
  /\ open' = TRUE
  /\ status' = "CONNECT"

\* Defect: a message is not terminated.
FrameUnterminated(m) == [i \in 1..(FrameLen - 1) |-> [msg |-> m, pos |-> i]]

Frame(m) == [i \in 1..FrameLen |-> [msg |-> m, pos |-> i]]

\* Defects: the loop goes on twice, or it ends when there is nothing to send.
WriteAndPost(a, b) == Post(IF b # << >> THEN Start(a, "write") ELSE a, "send", TRUE)
WriteOrStop(a, b)  == IF b # << >> THEN Start(a, "write") ELSE a

\* Defect: a limit that is one too large.
MayAddOneMore(b) == Len(b) <= MessageAdditionLimit + 1

MayAdd(b) == Len(b) <= MessageAdditionLimit

WriteOrPost(a, b) == IF b # << >> THEN Start(a, "write") ELSE Post(a, "send", TRUE)

TrySendMessage(a, b) ==
  /\ progress' = 0
  /\ \/ /\ ~open
        /\ io' = a
        /\ buffer' = b
        /\ UNCHANGED <<workVars, stream>>
     \/ /\ open
        /\ ~MayAdd(b)
        /\ io' = Start(a, "write")
        /\ buffer' = b
        /\ UNCHANGED <<workVars, stream>>
     \/ /\ open
        /\ MayAdd(b)
        /\ \E t \in Waiting(queue) :
           /\ queue' = Dequeue(queue, t)
           /\ \/ /\ Oldest(queue, t) \in FlushCall
                 /\ promise' = [promise EXCEPT ![Oldest(queue, t)] = "set"]
                 /\ io' = WriteOrPost(a, b)
                 /\ buffer' = b
                 /\ UNCHANGED stream
              \/ /\ Oldest(queue, t) \in Message
                 /\ buffer' = b \o Frame(Oldest(queue, t))
                 /\ stream' = stream \o Frame(Oldest(queue, t))
                 /\ io' = Start(a, "write")
                 /\ UNCHANGED promise
     \/ /\ open
        /\ MayAdd(b)
        /\ IsEmpty(queue)
        /\ io' = WriteOrPost(a, b)
        /\ buffer' = b
        /\ UNCHANGED <<workVars, stream>>

\* Defect: a partial write is repeated from its start.
ErasedAllOrNothing(b, n) == IF n = Len(b) THEN << >> ELSE b

\* MessageBuffer once the `n` bytes that were sent are erased.
Erased(b, n) == IF n = Len(b) THEN << >> ELSE SubSeq(b, n + 1, Len(b))
-----------------------------------------------------------------------------
Init ==
  /\ queue = NoWork(Thread)
  /\ count = [t \in Thread |-> 0]
  /\ promise = [f \in FlushCall |-> "unused"]
  /\ caller = [f \in FlushCall |-> "idle"]
  /\ ahead = [f \in FlushCall |-> {}]
  /\ io = Service([op \in Op |-> IF op = "resolve" THEN 1 ELSE 0], << >>)
  /\ status = "ADDR_LOOKUP"
  /\ open = FALSE
  /\ endpoints = << >> /\ next = 0 /\ tried = << >>
  /\ buffer = << >> /\ progress = 0
  /\ peer = "gone"
  /\ stream = << >> /\ sent = << >>
  /\ faults = 0
  /\ alive = TRUE

(* The handlers, run by the io thread. *)

ResolverHandler ==
  /\ Runs("resolve")
  /\ \/ /\ Error
        /\ ReConnect(Rest)
        /\ UNCHANGED <<endpointVars, open>>
     \/ /\ ~Error
        /\ \E list \in EndpointLists : TryConnect(Rest, list, 0)
  /\ UNCHANGED <<clientVars, workVars, bufferVars, netVars, progress, alive>>

ConnectHandlerOk ==
  /\ Runs("connect")
  /\ ~Error
  /\ status' = "SEND_LOOP"
  /\ TrySendMessage(Receive(Rest, open), buffer)
  /\ UNCHANGED <<clientVars, endpointVars, netVars, open, alive>>

\* Defect: the early return after reConnect() is missing.
ConnectHandlerFallsThrough ==
  /\ Runs("connect")
  /\ Error
  /\ TryConnect(IF IsDone(endpoints, next) THEN Wait(Close(Rest)) ELSE Close(Rest),
                endpoints, next)
  /\ peer' = "gone"
  /\ UNCHANGED <<clientVars, workVars, bufferVars, sent, faults, progress, alive>>

ConnectHandlerError ==
  /\ Runs("connect")
  /\ Error
  /\ IF IsDone(endpoints, next)
     THEN ReConnect(Close(Rest)) /\ open' = FALSE /\ UNCHANGED endpointVars
     ELSE TryConnect(Close(Rest), endpoints, next)
  /\ peer' = "gone"
  /\ UNCHANGED <<clientVars, workVars, bufferVars, sent, faults, progress, alive>>

TimerHandler ==
  /\ Runs("timer")
  /\ DoAddressQuery(Rest)
  /\ tried' = << >>
  /\ UNCHANGED <<clientVars, workVars, bufferVars, netVars, endpoints, next,
                 progress, open, alive>>

ReceiveHandler ==
  /\ Runs("receive")
  /\ \/ /\ Error
        /\ ReConnect(Close(Rest))
        /\ open' = FALSE
        /\ peer' = "gone"
     \/ /\ ~Error
        /\ io' = Receive(Rest, open)
        /\ UNCHANGED <<open, status, peer>>
  /\ UNCHANGED <<clientVars, workVars, bufferVars, endpointVars, sent, faults,
                 progress, alive>>

\* The trySendMessage() that was posted because there was nothing to send.
PostedSend ==
  /\ Runs("send")
  /\ TrySendMessage(Rest, buffer)
  /\ UNCHANGED <<clientVars, endpointVars, netVars, status, open, alive>>

SentMessageHandler ==
  /\ Runs("write")
  /\ \/ /\ Error
        /\ buffer' = Erased(buffer, progress)
        /\ io' = Close(Rest)
        /\ open' = FALSE
        /\ peer' = "gone"
        /\ progress' = 0
        /\ UNCHANGED <<workVars, stream>>
     \/ /\ ~Error
        /\ TrySendMessage(Rest, Erased(buffer, progress))
        /\ UNCHANGED <<open, peer>>
  /\ UNCHANGED <<clientVars, endpointVars, sent, faults, status, alive>>

RunHandler ==
  \/ ResolverHandler \/ ConnectHandlerOk \/ ConnectHandlerError
  \/ TimerHandler \/ ReceiveHandler \/ PostedSend \/ SentMessageHandler
-----------------------------------------------------------------------------
(* The application. *)

\* sendMessage(): try_enqueue's result is ignored, a full queue drops the message.
SendMessage(t) ==
  /\ alive
  /\ count[t] < MaxMessage
  /\ count' = [count EXCEPT ![t] = @ + 1]
  /\ queue' = IF IsFull(queue, Capacity)
              THEN queue ELSE Enqueue(queue, t, <<t, count[t] + 1>>)
  /\ UNCHANGED <<promise, caller, ahead, bufferVars, endpointVars, netVars,
                 progress, io, status, open, alive>>

\* flush(): the marker carries the only reference to the promise, so that a
\* marker that is refused breaks the promise.
FlushBegin(f, t) ==
  /\ alive
  /\ caller[f] = "idle"
  /\ caller' = [caller EXCEPT ![f] = "waiting"]
  /\ IF IsFull(queue, Capacity)
     THEN /\ promise' = [promise EXCEPT ![f] = "broken"]
          /\ UNCHANGED <<queue, ahead>>
     ELSE /\ promise' = [promise EXCEPT ![f] = "unset"]
          /\ queue' = Enqueue(queue, t, f)
          /\ ahead' = [ahead EXCEPT ![f] = {queue[t][i] : i \in DOMAIN queue[t]}]
  /\ UNCHANGED <<count, bufferVars, endpointVars, netVars, progress, io, status,
                 open, alive>>

\* A broken promise makes the future ready, as a fulfilled one does.
FlushReady(f) ==
  /\ caller[f] = "waiting"
  /\ promise[f] \in {"set", "broken"}
  /\ caller' = [caller EXCEPT ![f] = "TRUE"]
  /\ UNCHANGED <<count, ahead, workVars, bufferVars, endpointVars, netVars,
                 progress, io, status, open, alive>>

FlushTimeOut(f) ==
  /\ caller[f] = "waiting"
  /\ promise[f] = "unset"
  /\ caller' = [caller EXCEPT ![f] = "FALSE"]
  /\ UNCHANGED <<count, ahead, workVars, bufferVars, endpointVars, netVars,
                 progress, io, status, open, alive>>

\* ~Impl(): the running handler returns, the others never run, the queue and the
\* promises in it are destroyed.  Nobody may still be inside flush().
Destroy ==
  /\ alive
  /\ \A f \in FlushCall : caller[f] # "waiting"
  /\ alive' = FALSE
  /\ open' = FALSE
  /\ peer' = "gone"
  /\ queue' = NoWork(Thread)
  /\ promise' = [f \in FlushCall |->
                   IF promise[f] = "unset" THEN "broken" ELSE promise[f]]
  /\ UNCHANGED <<clientVars, bufferVars, endpointVars, sent, faults, progress,
                 io, status>>

Application ==
  \/ \E t \in Thread : SendMessage(t) \/ \E f \in FlushCall : FlushBegin(f, t)
  \/ \E f \in FlushCall : FlushReady(f) \/ FlushTimeOut(f)
  \/ Destroy
-----------------------------------------------------------------------------
(* The resolver, the timer, the kernel and the server.                          *)

\* Defect: an operation completes that was never started.
PendingOrNot(op) == alive

Pending(op) == alive /\ io.pending[op] > 0

Fails(ok) ==
  IF ok THEN UNCHANGED faults ELSE faults < MaxFaults /\ faults' = faults + 1

outsideVars == <<clientVars, workVars, bufferVars, endpointVars, status, open, alive>>

ResolveDone(ok) ==
  /\ Pending("resolve")
  /\ io' = Complete(io, "resolve", ok)
  /\ Fails(ok)
  /\ UNCHANGED <<outsideVars, peer, sent, progress>>

ConnectDone(ok) ==
  /\ Pending("connect")
  /\ io' = Complete(io, "connect", ok)
  /\ peer' = IF ok THEN "up" ELSE peer
  /\ Fails(ok)
  /\ UNCHANGED <<outsideVars, sent, progress>>

TimerFires ==
  /\ Pending("timer")
  /\ io' = Complete(io, "timer", TRUE)
  /\ UNCHANGED <<outsideVars, netVars, progress>>

\* Part of a write leaves for the kernel, whatever the state of the server's end.
KernelAccepts ==
  /\ Pending("write")
  /\ progress < Len(buffer)
  /\ progress' = progress + 1
  /\ sent' = Append(sent, buffer[progress + 1])
  /\ UNCHANGED <<outsideVars, io, peer, faults>>

WriteDone ==
  /\ Pending("write")
  /\ progress = Len(buffer)
  /\ io' = Complete(io, "write", TRUE)
  /\ UNCHANGED <<outsideVars, netVars, progress>>

WriteFails ==
  /\ Pending("write")
  /\ peer # "up"
  /\ io' = Complete(io, "write", FALSE)
  /\ UNCHANGED <<outsideVars, netVars, progress>>

\* Data that arrived before the server went may still be received.
ReceiveData ==
  /\ Pending("receive")
  /\ peer \in {"up", "leftover"}
  /\ peer' = IF peer = "up" THEN "up" ELSE "gone"
  /\ io' = Complete(io, "receive", TRUE)
  /\ UNCHANGED <<outsideVars, sent, faults, progress>>

ReceiveFails ==
  /\ Pending("receive")
  /\ peer = "gone"
  /\ io' = Complete(io, "receive", FALSE)
  /\ UNCHANGED <<outsideVars, netVars, progress>>

PeerGone ==
  /\ alive
  /\ peer = "up"
  /\ peer' \in {"leftover", "gone"}
  /\ Fails(FALSE)
  /\ UNCHANGED <<outsideVars, sent, progress, io>>

Network ==
  \/ \E ok \in BOOLEAN : ResolveDone(ok) \/ ConnectDone(ok)
  \/ TimerFires \/ KernelAccepts \/ WriteDone \/ WriteFails
  \/ ReceiveData \/ ReceiveFails \/ PeerGone
-----------------------------------------------------------------------------
Next == RunHandler \/ Application \/ Network

Spec == Init /\ [][Next]_vars

\* The io thread never stops running handlers, the resolver, the timer and the
\* kernel answer, and the faults are finitely many.  The code has no time-outs of
\* its own (GraylogConnection.hpp:27), so it relies on the answers.
Fairness ==
  /\ WF_vars(RunHandler)
  /\ WF_vars(ResolveDone(TRUE))
  /\ WF_vars(ConnectDone(TRUE))
  /\ WF_vars(TimerFires)
  /\ WF_vars(KernelAccepts)
  /\ WF_vars(WriteDone)
  /\ WF_vars(ReceiveFails)
  /\ WF_vars(peer = "leftover" /\ ReceiveData)

FairSpec == Spec /\ Fairness
-----------------------------------------------------------------------------
(* Properties *)

TypeOK ==
  /\ queue \in [Thread -> Seq(Message \cup FlushCall)]
  /\ count \in [Thread -> 0..MaxMessage]
  /\ promise \in [FlushCall -> {"unused", "unset", "set", "broken"}]
  /\ caller \in [FlushCall -> {"idle", "waiting", "TRUE", "FALSE"}]
  /\ ahead \in [FlushCall -> SUBSET (Message \cup FlushCall)]
  /\ io \in [pending : [Op -> Nat], ready : Seq([op : Op, ok : BOOLEAN])]
  /\ status \in Status
  /\ open \in BOOLEAN
  /\ endpoints \in Seq(Endpoint) /\ next \in Nat
  /\ tried \in Seq(Endpoint \cup {NoEndpoint})
  /\ buffer \in Seq(Byte) /\ progress \in Nat
  /\ peer \in {"up", "leftover", "gone"}
  /\ stream \in Seq(Byte) /\ sent \in Seq(Byte)
  /\ faults \in 0..MaxFaults
  /\ alive \in BOOLEAN

\* Whatever fails, there is one way forward and only one: exactly one of the
\* operations resolve, connect, receive and wait is outstanding.  Without one the
\* connection is never established again; with two, reConnect() and
\* receiveHandler() would build a second connection on the same socket.
OneConnectionChain ==
  alive => \E op \in ChainOp : /\ Outstanding(op) = 1
                               /\ \A other \in ChainOp \ {op} : Outstanding(other) = 0

\* The send loop is neither doubled nor lost: at most one of async_write and the
\* posted trySendMessage() is outstanding, and exactly one while the socket is
\* connected.
OneSendLoop ==
  alive => /\ Outstanding("write") + Outstanding("send") <= 1
           /\ (open /\ status = "SEND_LOOP") =>
                Outstanding("write") + Outstanding("send") = 1

\* getConnectionStatus() tells what the connection is really waiting for.
StatusMatchesOperation ==
  alive =>
    /\ Outstanding("resolve") > 0 => status = "ADDR_LOOKUP"
    /\ Outstanding("connect") > 0 => status = "CONNECT" /\ open
    /\ Outstanding("timer") > 0   => status = "ADDR_RETRY_WAIT" /\ ~open
    /\ Outstanding("receive") > 0 => status = "SEND_LOOP"

\* What has left and what is still in MessageBuffer is everything that was ever
\* put there: no reconnection loses or repeats a character (sentMessageHandler).
Unsent == IF Writing THEN SubSeq(buffer, progress + 1, Len(buffer)) ELSE buffer
ByteStreamExact == stream = sent \o Unsent

\* MessageBuffer exceeds the limit by at most the message that was added to it.
BufferBounded == Len(buffer) <= MessageAdditionLimit + FrameLen

\* async_write() reads MessageBuffer while it is outstanding: nobody may change it.
BufferUntouchedInWrite == [][Pending("write") => buffer' = buffer]_vars

\* The connection is a MessagePipe: across every interleaving and reconnection it
\* takes each thread's messages in order and once, with at most the limit unsent,
\* and hands their characters to the kernel in order and once.
Pipe == INSTANCE MessagePipe
PipeSpec == Pipe!Spec

\* When a flush marker is reached, everything its thread queued before it has
\* been taken, and at most the buffer's limit has not been sent yet.
InStream(m) == \E i \in DOMAIN stream : stream[i].msg = m
FlushBarrier == \A f \in FlushCall :
  promise[f] = "set" => \A m \in ahead[f] \cap Message : InStream(m)
FlushLeavesLittle ==
  [][\A f \in FlushCall : promise[f] = "unset" /\ promise'[f] = "set"
       => Len(stream) - Len(sent) <= MessageAdditionLimit]_vars

\* IPv6 addresses are tried after every IPv4 address of the same answer, no
\* address twice, and the connection waits only when there is none left.
EndpointsInOrder ==
  /\ NoEndpoint \notin {tried[i] : i \in DOMAIN tried}
  /\ \A i, j \in DOMAIN tried : i < j => /\ tried[i] # tried[j]
                                         /\ tried[i] \in V6 => tried[j] \in V6
WaitsOnlyWhenExhausted ==
  [][status = "CONNECT" /\ status' = "ADDR_RETRY_WAIT" => tried = endpoints]_vars

\* A flush that says TRUE got an answer from the connection: its marker was
\* reached (GraylogInterface.hpp:40, and the test FlushFail).
FlushTrueMeansReached ==
  \A f \in FlushCall : caller[f] = "TRUE" => promise[f] = "set"

\* As long as failures stop, every message that was queued is sent.
Queued(m) == \E i \in DOMAIN queue[m[1]] : queue[m[1]][i] = m
Sent(m) == \E i \in DOMAIN sent : sent[i] = [msg |-> m, pos |-> FrameLen]
EventuallySent == \A m \in Message : Queued(m) ~> (Sent(m) \/ ~alive)

\* Every lost connection is replaced.
EventuallyConnected == []<>(~alive \/ status = "SEND_LOOP")
-----------------------------------------------------------------------------
(* The inductive invariant.                                                     *)

PendingIs(S) == io.pending = [op \in Op |-> IF op \in S THEN 1 ELSE 0]
ReadyIs(ops) == /\ Len(io.ready) = Len(ops)
                /\ \A i \in DOMAIN ops : io.ready[i].op = ops[i]

\* The connection is resolving or connecting, and no message moves.
ChainOnly(op) == \/ PendingIs({op}) /\ ReadyIs(<< >>)
                 \/ PendingIs({}) /\ ReadyIs(<<op>>)

Resolving  == status = "ADDR_LOOKUP" /\ ~open /\ ChainOnly("resolve")
Connecting == status = "CONNECT" /\ open /\ ChainOnly("connect")

\* Connected: a receive and one operation of the send loop are outstanding.
Connected ==
  /\ status = "SEND_LOOP" /\ open
  /\ \/ PendingIs({"receive", "write"}) /\ ReadyIs(<< >>)
     \/ PendingIs({"write"}) /\ ReadyIs(<<"receive">>)
     \/ \E s \in SendOp : PendingIs({"receive"}) /\ ReadyIs(<<s>>)
     \/ \E s \in SendOp : PendingIs({}) /\ ReadyIs(<<"receive", s>>)
     \/ \E s \in SendOp : PendingIs({}) /\ ReadyIs(<<s, "receive">>)

\* The send loop has closed the socket; the receive it aborted is still to run.
Closing == /\ status = "SEND_LOOP" /\ ~open
           /\ PendingIs({}) /\ ReadyIs(<<"receive">>)

\* The receive handler has closed the socket; what is left of the send loop runs
\* before the timer's handler and then ends.
Retrying ==
  /\ status = "ADDR_RETRY_WAIT" /\ ~open
  /\ \/ PendingIs({"timer"}) /\ ReadyIs(<< >>)
     \/ PendingIs({}) /\ ReadyIs(<<"timer">>)
     \/ \E s \in SendOp : PendingIs({"timer"}) /\ ReadyIs(<<s>>)
     \/ \E s \in SendOp : PendingIs({}) /\ ReadyIs(<<s, "timer">>)

Phases == alive => Resolving \/ Connecting \/ Connected \/ Closing \/ Retrying

\* Every queued message is its thread's, newer than what that thread has had taken.
QueueOrdered == \A t \in Thread : \A i \in DOMAIN queue[t] :
  queue[t][i] \in Message =>
    /\ queue[t][i][1] = t /\ queue[t][i][2] <= count[t]
    /\ Pipe!Newer(queue[t][i], stream)
    /\ \A j \in DOMAIN queue[t] :
         i < j /\ queue[t][j] \in Message => queue[t][i][2] < queue[t][j][2]
StreamCounted == \A i \in DOMAIN stream :
  stream[i].msg[2] <= count[stream[i].msg[1]]

\* What was ahead of a marker that is still queued has been taken or is ahead of
\* it still; a marker is queued once, and only while its promise is unset.
AheadOrdered == \A f \in FlushCall :
  /\ caller[f] = "idle" => promise[f] = "unused"
  /\ \A t \in Thread : \A i \in DOMAIN queue[t] :
       queue[t][i] = f =>
         /\ promise[f] = "unset"
         /\ \A u \in Thread : \A j \in DOMAIN queue[u] :
              queue[u][j] = f => u = t /\ j = i
         /\ \A m \in ahead[f] \cap Message :
              InStream(m) \/ \E j \in 1..i : queue[t][j] = m

ProgressInBuffer == progress <= Len(buffer)

Inv == /\ TypeOK /\ Phases /\ ProgressInBuffer /\ ByteStreamExact /\ BufferBounded
       /\ QueueOrdered /\ StreamCounted /\ AheadOrdered /\ FlushBarrier
=============================================================================
