----------------------- MODULE GraylogConnectionProofs -----------------------
(* Theorems about GraylogConnection, for every value of its constants.          *)
EXTENDS GraylogConnection, TLAPS, FiniteSetTheorems, SequenceTheorems

IoType == [pending : [Op -> Nat], ready : Seq([op : Op, ok : BOOLEAN])]

-----------------------------------------------------------------------------
(* The asio operators return an io_service. *)

LEMMA StartType == ASSUME NEW a \in IoType, NEW op \in Op
                   PROVE  Start(a, op) \in IoType
BY DEF Start, IoType, Service

LEMMA PostType == ASSUME NEW a \in IoType, NEW op \in Op, NEW ok \in BOOLEAN
                  PROVE  Post(a, op, ok) \in IoType
BY DEF Post, Completed, IoType, Service

LEMMA CompleteType ==
  ASSUME NEW a \in IoType, NEW op \in Op, NEW ok \in BOOLEAN, a.pending[op] > 0
  PROVE  Complete(a, op, ok) \in IoType
BY DEF Complete, Completed, IoType, Service

LEMMA AbortType == ASSUME NEW a \in IoType, NEW op \in Op
                   PROVE  Abort(a, op) \in IoType
<1> DEFINE gone == [i \in 1..a.pending[op] |-> Completed(op, FALSE)]
<1>1. a.pending[op] \in Nat
  BY DEF IoType
<1>2. gone \in Seq([op : Op, ok : BOOLEAN])
  <2>1. Completed(op, FALSE) \in [op : Op, ok : BOOLEAN]
    BY DEF Completed
  <2>2. gone \in [1..a.pending[op] -> [op : Op, ok : BOOLEAN]]
    BY <2>1
  <2> HIDE DEF gone
  <2> QED BY <1>1, <2>2, SeqDef
<1>3. a.ready \o gone \in Seq([op : Op, ok : BOOLEAN])
  BY <1>2 DEF IoType
<1>4. [a.pending EXCEPT ![op] = 0] \in [Op -> Nat]
  BY DEF IoType
<1> QED BY <1>3, <1>4 DEF Abort, IoType, Service

LEMMA CloseType == ASSUME NEW a \in IoType
                   PROVE  Close(a) \in IoType
BY AbortType DEF Close, Op, ChainOp, SendOp

LEMMA ReceiveType == ASSUME NEW a \in IoType, NEW isOpen \in BOOLEAN
                     PROVE  Receive(a, isOpen) \in IoType
BY StartType, PostType DEF Receive, Op, ChainOp

LEMMA WaitType == ASSUME NEW a \in IoType
                  PROVE  Wait(a) \in IoType
BY StartType, AbortType DEF Wait, Op, ChainOp

LEMMA RestType == ASSUME io \in IoType, io.ready # << >>
                  PROVE  Rest \in IoType
<1>1. Tail(io.ready) \in Seq([op : Op, ok : BOOLEAN])
  BY DEF IoType
<1> QED BY <1>1 DEF Rest, IoType, Service

LEMMA FrameType == ASSUME NEW m \in Message PROVE Frame(m) \in Seq(Byte)
BY CountAssumption DEF Frame, Byte

LEMMA ErasedType ==
  ASSUME NEW b \in Seq(Byte), NEW n \in Nat
  PROVE  Erased(b, n) \in Seq(Byte)
BY DEF Erased

LEMMA QueueTaken ==
  ASSUME TypeOK, NEW t \in Waiting(queue)
  PROVE  /\ t \in Thread
         /\ queue[t] \in Seq(Message \cup FlushCall) /\ queue[t] # << >>
         /\ Oldest(queue, t) \in Message \cup FlushCall
         /\ Dequeue(queue, t) \in [Thread -> Seq(Message \cup FlushCall)]
<1>1. t \in Thread /\ queue[t] \in Seq(Message \cup FlushCall) /\ queue[t] # << >>
  BY DEF TypeOK, Waiting
<1>2. Head(queue[t]) \in Message \cup FlushCall
      /\ Tail(queue[t]) \in Seq(Message \cup FlushCall)
  BY <1>1, HeadTailProperties
<1> QED BY <1>1, <1>2 DEF Oldest, Dequeue, TypeOK

LEMMA QueueAdded ==
  ASSUME TypeOK, NEW t \in Thread, NEW item \in Message \cup FlushCall
  PROVE  Enqueue(queue, t, item) \in [Thread -> Seq(Message \cup FlushCall)]
<1>1. Append(queue[t], item) \in Seq(Message \cup FlushCall)
  BY AppendProperties DEF TypeOK
<1> QED BY <1>1 DEF Enqueue, TypeOK

LEMMA EndpointListType == EndpointLists \subseteq Seq(Endpoint)
<1> SUFFICES ASSUME NEW S \in SUBSET Endpoint, NEW list \in Permutations(S)
             PROVE  list \in Seq(Endpoint)
  BY DEF EndpointLists
<1>1. Cardinality(S) \in Nat
  BY EndpointAssumption, FS_Subset, FS_CardinalityType
<1>2. list \in [1..Cardinality(S) -> Endpoint]
  BY DEF Permutations
<1> QED BY <1>1, <1>2, SeqDef

\* TrySendMessage returns typed values of the variables it assigns.
LEMMA TrySendType ==
  ASSUME TypeOK, NEW a \in IoType, NEW b \in Seq(Byte), TrySendMessage(a, b)
  PROVE  /\ queue' \in [Thread -> Seq(Message \cup FlushCall)]
         /\ promise' \in [FlushCall -> {"unused", "unset", "set", "broken"}]
         /\ io' \in IoType
         /\ buffer' \in Seq(Byte) /\ stream' \in Seq(Byte) /\ progress' \in Nat
<1>1. Start(a, "write") \in IoType /\ WriteOrPost(a, b) \in IoType
  BY StartType, PostType DEF WriteOrPost, Op, SendOp
<1>2. ASSUME NEW m \in Message
      PROVE  b \o Frame(m) \in Seq(Byte) /\ stream \o Frame(m) \in Seq(Byte)
  BY FrameType, ConcatProperties DEF TypeOK
<1>3. ASSUME NEW t \in Waiting(queue), queue' = Dequeue(queue, t)
      PROVE  queue' \in [Thread -> Seq(Message \cup FlushCall)]
  BY <1>3, QueueTaken
<1>4. ASSUME NEW f \in FlushCall
      PROVE  [promise EXCEPT ![f] = "set"]
               \in [FlushCall -> {"unused", "unset", "set", "broken"}]
  BY DEF TypeOK
<1>5. /\ queue \in [Thread -> Seq(Message \cup FlushCall)]
      /\ promise \in [FlushCall -> {"unused", "unset", "set", "broken"}]
      /\ stream \in Seq(Byte)
  BY DEF TypeOK
<1> QED BY <1>1, <1>2, <1>3, <1>4, <1>5 DEF TrySendMessage, workVars

-----------------------------------------------------------------------------
LEMMA InitType == Init => TypeOK
<1> SUFFICES ASSUME Init PROVE TypeOK
  OBVIOUS
<1>1. queue \in [Thread -> Seq(Message \cup FlushCall)]
  BY EmptySeq DEF Init, NoWork
<1>2. io \in [pending : [Op -> Nat], ready : Seq([op : Op, ok : BOOLEAN])]
  BY EmptySeq DEF Init, Service
<1>3. /\ endpoints \in Seq(Endpoint) /\ tried \in Seq(Endpoint \cup {NoEndpoint})
      /\ buffer \in Seq(Byte) /\ stream \in Seq(Byte) /\ sent \in Seq(Byte)
  BY EmptySeq DEF Init
<1>4. count \in [Thread -> 0..MaxMessage] /\ faults \in 0..MaxFaults
  BY CountAssumption DEF Init
<1> QED BY <1>1, <1>2, <1>3, <1>4 DEF Init, TypeOK, Status

LEMMA HandlerType == TypeOK /\ RunHandler => TypeOK'
<1> SUFFICES ASSUME TypeOK, RunHandler PROVE TypeOK'
  OBVIOUS
<1> USE DEF clientVars, workVars, bufferVars, endpointVars, netVars
<1>0. io \in IoType
  BY DEF TypeOK, IoType
<1>1. ASSUME io.ready # << >> PROVE Rest \in IoType
  BY <1>0, <1>1, RestType
<1>2. Erased(buffer, progress) \in Seq(Byte)
  BY ErasedType DEF TypeOK
<1>3. ASSUME NEW a \in IoType, NEW list \in Seq(Endpoint), NEW n \in Nat,
             TryConnect(a, list, n)
      PROVE  /\ io' \in IoType /\ status' \in Status /\ open' \in BOOLEAN
             /\ endpoints' \in Seq(Endpoint) /\ next' \in Nat
             /\ tried' \in Seq(Endpoint \cup {NoEndpoint})
  <2>1. io' \in IoType
    BY <1>3, StartType DEF TryConnect, Op, ChainOp
  <2>2. ASSUME NEW e \in Endpoint \cup {NoEndpoint}
        PROVE  Append(tried, e) \in Seq(Endpoint \cup {NoEndpoint})
    BY AppendProperties DEF TypeOK
  <2>3. CASE n < Len(list)
    <3>1. list[n + 1] \in Endpoint
      BY <2>3, ElementOfSeq, LenProperties
    <3> QED BY <1>3, <2>1, <2>2, <2>3, <3>1 DEF TryConnect, Status
  <2>4. CASE ~(n < Len(list))
    BY <1>3, <2>1, <2>2, <2>4 DEF TryConnect, Status
  <2> QED BY <2>3, <2>4
<1>4. CASE ResolverHandler
  <2>1. Rest \in IoType
    BY <1>1, <1>4 DEF ResolverHandler, Runs
  <2>2. CASE ReConnect(Rest) /\ UNCHANGED <<endpointVars, open>>
    BY <1>4, <2>1, <2>2, WaitType
       DEF ResolverHandler, ReConnect, TypeOK, IoType, Status
  <2>3. CASE \E list \in EndpointLists : TryConnect(Rest, list, 0)
    BY <1>3, <1>4, <2>1, <2>3, EndpointListType DEF ResolverHandler, TypeOK, IoType
  <2> QED BY <1>4, <2>2, <2>3 DEF ResolverHandler
<1>5. CASE ConnectHandlerOk
  <2>1. Receive(Rest, open) \in IoType
    BY <1>1, <1>5, ReceiveType DEF ConnectHandlerOk, Runs, TypeOK
  <2> QED BY <1>5, <2>1, TrySendType DEF ConnectHandlerOk, TypeOK, IoType, Status
<1>6. CASE ConnectHandlerError
  <2>1. Close(Rest) \in IoType
    BY <1>1, <1>6, CloseType DEF ConnectHandlerError, Runs
  <2>2. CASE ReConnect(Close(Rest)) /\ open' = FALSE /\ UNCHANGED endpointVars
    BY <1>6, <2>1, <2>2, WaitType
       DEF ConnectHandlerError, ReConnect, TypeOK, IoType, Status
  <2>3. CASE TryConnect(Close(Rest), endpoints, next)
    BY <1>3, <1>6, <2>1, <2>3 DEF ConnectHandlerError, TypeOK, IoType
  <2> QED BY <1>6, <2>2, <2>3 DEF ConnectHandlerError
<1>7. CASE TimerHandler
  <2>1. Start(Rest, "resolve") \in IoType
    BY <1>1, <1>7, StartType DEF TimerHandler, Runs, Op, ChainOp
  <2> QED BY <1>7, <2>1 DEF TimerHandler, DoAddressQuery, TypeOK, IoType, Status
<1>8. CASE ReceiveHandler
  <2>1. Rest \in IoType
    BY <1>1, <1>8 DEF ReceiveHandler, Runs
  <2>2. Wait(Close(Rest)) \in IoType /\ Receive(Rest, open) \in IoType
    BY <2>1, CloseType, WaitType, ReceiveType DEF TypeOK
  <2> QED BY <1>8, <2>2 DEF ReceiveHandler, ReConnect, TypeOK, IoType, Status
<1>9. CASE PostedSend
  <2>1. Rest \in IoType
    BY <1>1, <1>9 DEF PostedSend, Runs
  <2> QED BY <1>9, <2>1, TrySendType DEF PostedSend, TypeOK, IoType
<1>10. CASE SentMessageHandler
  <2>1. Rest \in IoType
    BY <1>1, <1>10 DEF SentMessageHandler, Runs
  <2>2. Close(Rest) \in IoType
    BY <2>1, CloseType
  <2>3. CASE Error
    <3>1. /\ buffer' = Erased(buffer, progress) /\ io' = Close(Rest)
          /\ open' = FALSE /\ peer' = "gone" /\ progress' = 0
          /\ UNCHANGED <<workVars, stream>>
      BY <1>10, <2>3 DEF SentMessageHandler
    <3> QED BY <1>2, <1>10, <2>2, <3>1 DEF SentMessageHandler, TypeOK, IoType
  <2>4. CASE ~Error
    <3>1. TrySendMessage(Rest, Erased(buffer, progress)) /\ UNCHANGED <<open, peer>>
      BY <1>10, <2>4 DEF SentMessageHandler
    <3>2. /\ queue' \in [Thread -> Seq(Message \cup FlushCall)]
          /\ promise' \in [FlushCall -> {"unused", "unset", "set", "broken"}]
          /\ io' \in IoType
          /\ buffer' \in Seq(Byte) /\ stream' \in Seq(Byte) /\ progress' \in Nat
      BY <1>2, <2>1, <3>1, TrySendType
    <3> QED BY <1>10, <3>1, <3>2 DEF SentMessageHandler, TypeOK, IoType
  <2> QED BY <2>3, <2>4
<1> QED BY <1>4, <1>5, <1>6, <1>7, <1>8, <1>9, <1>10 DEF RunHandler

LEMMA ApplicationType == TypeOK /\ Application => TypeOK'
<1> SUFFICES ASSUME TypeOK, Application PROVE TypeOK'
  OBVIOUS
<1> USE DEF clientVars, workVars, bufferVars, endpointVars, netVars
<1>1. CASE \E t \in Thread : SendMessage(t)
  <2> PICK t \in Thread : SendMessage(t)
    BY <1>1
  <2>1. count[t] + 1 \in 1..MaxMessage
    BY CountAssumption DEF SendMessage, TypeOK
  <2>2. queue' \in [Thread -> Seq(Message \cup FlushCall)]
    <3>1. <<t, count[t] + 1>> \in Message
      BY <2>1 DEF Message
    <3> QED BY <3>1, QueueAdded DEF SendMessage, TypeOK
  <2>3. count' \in [Thread -> 0..MaxMessage]
    BY <2>1 DEF SendMessage, TypeOK
  <2> QED BY <2>2, <2>3 DEF SendMessage, TypeOK
<1>2. CASE \E t \in Thread, f \in FlushCall : FlushBegin(f, t)
  <2> PICK t \in Thread, f \in FlushCall : FlushBegin(f, t)
    BY <1>2
  <2>1. {queue[t][i] : i \in DOMAIN queue[t]} \in SUBSET (Message \cup FlushCall)
    BY ElementOfSeq, LenProperties DEF TypeOK
  <2>2. queue' \in [Thread -> Seq(Message \cup FlushCall)]
    <3>1. queue' = queue \/ queue' = Enqueue(queue, t, f)
      BY DEF FlushBegin
    <3>2. Enqueue(queue, t, f) \in [Thread -> Seq(Message \cup FlushCall)]
      BY QueueAdded
    <3> QED BY <3>1, <3>2 DEF TypeOK
  <2>3. ahead' \in [FlushCall -> SUBSET (Message \cup FlushCall)]
    BY <2>1 DEF FlushBegin, TypeOK
  <2> QED BY <2>2, <2>3 DEF FlushBegin, TypeOK
<1>3. CASE \E f \in FlushCall : FlushReady(f) \/ FlushTimeOut(f)
  <2>1. caller' \in [FlushCall -> {"idle", "waiting", "TRUE", "FALSE"}]
    BY <1>3 DEF FlushReady, FlushTimeOut, TypeOK
  <2>2. UNCHANGED <<queue, count, promise, ahead, io, status, open, endpoints, next, tried,
                    buffer, progress, peer, stream, sent, faults, alive>>
    BY <1>3 DEF FlushReady, FlushTimeOut
  <2> QED BY <2>1, <2>2 DEF TypeOK
<1>4. CASE Destroy
  <2>1. queue' \in [Thread -> Seq(Message \cup FlushCall)]
    BY <1>4, EmptySeq DEF Destroy, NoWork
  <2>2. promise' \in [FlushCall -> {"unused", "unset", "set", "broken"}]
    BY <1>4 DEF Destroy, TypeOK
  <2> QED BY <1>4, <2>1, <2>2 DEF Destroy, TypeOK
<1> QED BY <1>1, <1>2, <1>3, <1>4 DEF Application

LEMMA NetworkType == TypeOK /\ Network => TypeOK'
<1> SUFFICES ASSUME TypeOK, Network PROVE TypeOK'
  OBVIOUS
<1> USE DEF outsideVars, clientVars, workVars, bufferVars, endpointVars, netVars
<1>0. io \in IoType /\ TypeOK
  BY DEF TypeOK, IoType
<1>1. ASSUME NEW op \in Op, NEW ok \in BOOLEAN, Pending(op)
      PROVE  Complete(io, op, ok) \in [pending : [Op -> Nat],
                                       ready : Seq([op : Op, ok : BOOLEAN])]
  BY <1>0, <1>1, CompleteType DEF Pending, IoType
<1>2. ASSUME NEW ok \in BOOLEAN, Fails(ok)
      PROVE  faults' \in 0..MaxFaults
  BY <1>2, CountAssumption DEF Fails, TypeOK
<1>3. CASE \E ok \in BOOLEAN : ResolveDone(ok)
  <2>1. io' \in [pending : [Op -> Nat], ready : Seq([op : Op, ok : BOOLEAN])]
    BY <1>1, <1>3 DEF ResolveDone, Op, ChainOp
  <2>2. faults' \in 0..MaxFaults /\ UNCHANGED <<outsideVars, peer, sent, progress>>
    BY <1>2, <1>3 DEF ResolveDone
  <2> QED BY <2>1, <2>2 DEF TypeOK
<1>4. CASE \E ok \in BOOLEAN : ConnectDone(ok)
  <2>1. io' \in [pending : [Op -> Nat], ready : Seq([op : Op, ok : BOOLEAN])]
    BY <1>1, <1>4 DEF ConnectDone, Op, ChainOp
  <2>2. faults' \in 0..MaxFaults /\ UNCHANGED <<outsideVars, sent, progress>>
    BY <1>2, <1>4 DEF ConnectDone
  <2>3. peer' \in {"up", "leftover", "gone"}
    BY <1>4 DEF ConnectDone, TypeOK
  <2> QED BY <2>1, <2>2, <2>3 DEF TypeOK
<1>5. CASE TimerFires
  BY <1>1, <1>5 DEF TimerFires, TypeOK, Op, ChainOp
<1>6. CASE KernelAccepts
  <2>1. buffer[progress + 1] \in Byte
    BY <1>6, ElementOfSeq DEF KernelAccepts, TypeOK
  <2>2. sent' \in Seq(Byte)
    BY <1>6, <2>1, AppendProperties DEF KernelAccepts, TypeOK
  <2> QED BY <1>6, <2>2 DEF KernelAccepts, TypeOK
<1>7. CASE WriteDone \/ WriteFails
  <2>1. /\ io' \in [pending : [Op -> Nat], ready : Seq([op : Op, ok : BOOLEAN])]
        /\ UNCHANGED <<outsideVars, netVars, progress>>
    BY <1>1, <1>7 DEF WriteDone, WriteFails, Op, SendOp
  <2> QED BY <2>1 DEF TypeOK
<1>8. CASE ReceiveData
  <2>1. Complete(io, "receive", TRUE) \in [pending : [Op -> Nat],
                                           ready : Seq([op : Op, ok : BOOLEAN])]
    BY <1>1, <1>8 DEF ReceiveData, Op, ChainOp
  <2> QED BY <1>8, <2>1 DEF ReceiveData, TypeOK
<1>9. CASE ReceiveFails
  BY <1>1, <1>9 DEF ReceiveFails, TypeOK, Op, ChainOp
<1>10. CASE PeerGone
  BY <1>2, <1>10 DEF PeerGone, TypeOK
<1> QED BY <1>3, <1>4, <1>5, <1>6, <1>7, <1>8, <1>9, <1>10 DEF Network

\* Every variable keeps its type: in particular no handler is run twice for one
\* operation, which would make a count of pending operations negative.
THEOREM TypeCorrect == Spec => []TypeOK
<1>1. TypeOK /\ UNCHANGED vars => TypeOK'
  BY DEF TypeOK, vars, clientVars, workVars, bufferVars, endpointVars, netVars
<1>2. TypeOK /\ [Next]_vars => TypeOK'
  BY <1>1, HandlerType, ApplicationType, NetworkType DEF Next
<1> QED BY <1>2, InitType, PTL DEF Spec
-----------------------------------------------------------------------------
(* The shape of an io_service: the operations pending and those to run.         *)

Shape(a, S, ops) ==
  /\ a \in IoType
  /\ a.pending = [op \in Op |-> IF op \in S THEN 1 ELSE 0]
  /\ Len(a.ready) = Len(ops)
  /\ \A i \in 1..Len(ops) : a.ready[i].op = ops[i]

LEMMA StartShape ==
  ASSUME NEW a, NEW S, NEW ops \in Seq(Op), Shape(a, S, ops), NEW op \in Op \ S
  PROVE  Shape(Start(a, op), S \cup {op}, ops)
<1>1. Start(a, op) \in IoType
  BY StartType DEF Shape
<1> QED BY <1>1 DEF Shape, Start, Service

LEMMA AddedShape ==
  ASSUME NEW ready \in Seq([op : Op, ok : BOOLEAN]), NEW ops \in Seq(Op),
         Len(ready) = Len(ops), \A i \in 1..Len(ops) : ready[i].op = ops[i],
         NEW c \in [op : Op, ok : BOOLEAN]
  PROVE  /\ Len(Append(ready, c)) = Len(Append(ops, c.op))
         /\ \A i \in 1..Len(Append(ops, c.op)) :
              Append(ready, c)[i].op = Append(ops, c.op)[i]
BY AppendProperties

LEMMA PostShape ==
  ASSUME NEW a, NEW S, NEW ops \in Seq(Op), Shape(a, S, ops),
         NEW op \in Op, NEW ok \in BOOLEAN
  PROVE  Shape(Post(a, op, ok), S, Append(ops, op))
<1>1. Post(a, op, ok) \in IoType
  BY PostType DEF Shape
<1>2. Completed(op, ok) \in [op : Op, ok : BOOLEAN] /\ Completed(op, ok).op = op
  BY DEF Completed
<1>3. a.ready \in Seq([op : Op, ok : BOOLEAN])
  BY DEF Shape, IoType
<1>4. /\ Len(Append(a.ready, Completed(op, ok))) = Len(Append(ops, op))
      /\ \A i \in 1..Len(Append(ops, op)) :
           Append(a.ready, Completed(op, ok))[i].op = Append(ops, op)[i]
  BY <1>2, <1>3, AddedShape DEF Shape
<1> QED BY <1>1, <1>4 DEF Shape, Post, Service

LEMMA CompleteShape ==
  ASSUME NEW a, NEW S, NEW ops \in Seq(Op), Shape(a, S, ops),
         NEW op \in Op, op \in S, NEW ok \in BOOLEAN
  PROVE  Shape(Complete(a, op, ok), S \ {op}, Append(ops, op))
<1> DEFINE b == Service([a.pending EXCEPT ![op] = @ - 1], a.ready)
<1>1. Shape(b, S \ {op}, ops)
  <2>1. [a.pending EXCEPT ![op] = @ - 1] = [o \in Op |-> IF o \in S \ {op} THEN 1 ELSE 0]
    BY DEF Shape, IoType
  <2>2. /\ b.pending = [o \in Op |-> IF o \in S \ {op} THEN 1 ELSE 0]
        /\ b.ready = a.ready /\ b \in IoType
    BY <2>1 DEF Shape, IoType, Service
  <2> HIDE DEF b
  <2> QED BY <2>2 DEF Shape
<1>2. Complete(a, op, ok) = Post(b, op, ok)
  BY DEF Complete, Post, Service
<1> QED BY <1>1, <1>2, PostShape

LEMMA AbortNoneShape ==
  ASSUME NEW a, NEW S, NEW ops \in Seq(Op), Shape(a, S, ops), NEW op \in Op \ S
  PROVE  Shape(Abort(a, op), S, ops)
<1> DEFINE gone == [i \in 1..a.pending[op] |-> Completed(op, FALSE)]
<1>1. gone = << >>
  BY DEF Shape
<1>2. a.ready \o gone = a.ready
  BY <1>1, ConcatEmptySeq DEF Shape, IoType
<1>3. [a.pending EXCEPT ![op] = 0] = a.pending
  BY DEF Shape
<1> HIDE DEF gone
<1>4. Abort(a, op) = Service(a.pending, a.ready)
  BY <1>2, <1>3 DEF Abort, gone
<1> QED BY <1>4 DEF Shape, Service, IoType

LEMMA OneElement == ASSUME NEW x PROVE [i \in 1..1 |-> x] = <<x>>
<1> DEFINE f == [i \in 1..1 |-> x]
<1>1. f \in Seq({x})
  BY SeqDef
<1>2. Len(f) = 1 /\ f[1] = x
  BY <1>1, LenProperties
<1>3. <<x>> \in Seq({x}) /\ Len(<<x>>) = 1 /\ <<x>>[1] = x
  OBVIOUS
<1> HIDE DEF f
<1>4. f = <<x>>
  BY <1>1, <1>2, <1>3, SeqEqual
<1> QED BY <1>4 DEF f

LEMMA AbortOneShape ==
  ASSUME NEW a, NEW S, NEW ops \in Seq(Op), Shape(a, S, ops),
         NEW op \in Op, op \in S
  PROVE  Shape(Abort(a, op), S \ {op}, Append(ops, op))
<1> DEFINE gone == [i \in 1..a.pending[op] |-> Completed(op, FALSE)]
           b    == Service([a.pending EXCEPT ![op] = 0], a.ready)
<1>0. a.pending[op] = 1
  BY DEF Shape
<1>1. gone = <<Completed(op, FALSE)>>
  <2>1. gone = [i \in 1..1 |-> Completed(op, FALSE)]
    BY <1>0
  <2> HIDE DEF gone
  <2> QED BY <2>1, OneElement
<1>2. Shape(b, S \ {op}, ops)
  BY DEF Shape, IoType, Service
<1>3. a.ready \o gone = Append(a.ready, Completed(op, FALSE))
  <2>1. Completed(op, FALSE) \in [op : Op, ok : BOOLEAN]
    BY DEF Completed
  <2>2. a.ready \in Seq([op : Op, ok : BOOLEAN])
    BY DEF Shape, IoType
  <2> HIDE DEF gone
  <2> QED BY <1>1, <2>1, <2>2, AppendIsConcat
<1> HIDE DEF gone
<1>4. Abort(a, op) = Post(b, op, FALSE)
  BY <1>3 DEF Abort, Post, Service, gone
<1> QED BY <1>2, <1>4, PostShape

LEMMA RestShape ==
  ASSUME NEW S, NEW ops \in Seq(Op), Shape(io, S, ops), ops # << >>
  PROVE  Shape(Rest, S, Tail(ops))
<1>1. io \in IoType /\ io.ready # << >> /\ io.ready \in Seq([op : Op, ok : BOOLEAN])
  BY EmptySeq DEF Shape, IoType
<1>2. Rest \in IoType
  BY <1>1, RestType
<1>3. /\ Len(Tail(io.ready)) = Len(Tail(ops))
      /\ \A i \in 1..Len(Tail(ops)) : Tail(io.ready)[i].op = Tail(ops)[i]
  BY <1>1, HeadTailProperties DEF Shape
<1> QED BY <1>2, <1>3 DEF Shape, Rest, Service
LEMMA CloseShape ==
  ASSUME NEW a, NEW ops \in Seq(Op)
  PROVE  /\ Shape(a, {}, ops) => Shape(Close(a), {}, ops)
         /\ Shape(a, {"write"}, ops) => Shape(Close(a), {}, Append(ops, "write"))
         /\ Shape(a, {"receive"}, ops) => Shape(Close(a), {}, Append(ops, "receive"))
<1> DEFINE r == Abort(a, "receive")
           c == Abort(r, "connect")
<1>0. "write" \in Op /\ "receive" \in Op /\ "connect" \in Op
  BY DEF Op, ChainOp, SendOp
<1>1. ASSUME Shape(a, {}, ops) PROVE Shape(Close(a), {}, ops)
  <2>1. Shape(r, {}, ops)
    BY <1>0, <1>1, AbortNoneShape
  <2>2. Shape(c, {}, ops)
    BY <1>0, <2>1, AbortNoneShape
  <2>3. Shape(Abort(c, "write"), {}, ops)
    BY <1>0, <2>2, AbortNoneShape
  <2> QED BY <2>3 DEF Close
<1>2. ASSUME Shape(a, {"write"}, ops)
      PROVE  Shape(Close(a), {}, Append(ops, "write"))
  <2>1. Shape(r, {"write"}, ops)
    BY <1>0, <1>2, AbortNoneShape
  <2>2. Shape(c, {"write"}, ops)
    BY <1>0, <2>1, AbortNoneShape
  <2>3. Shape(Abort(c, "write"), {"write"} \ {"write"}, Append(ops, "write"))
    BY <1>0, <2>2, AbortOneShape
  <2>4. {"write"} \ {"write"} = {}
    OBVIOUS
  <2> QED BY <2>3, <2>4 DEF Close
<1>3. ASSUME Shape(a, {"receive"}, ops)
      PROVE  Shape(Close(a), {}, Append(ops, "receive"))
  <2>0. Append(ops, "receive") \in Seq(Op)
    BY <1>0, AppendProperties
  <2>1. Shape(r, {"receive"} \ {"receive"}, Append(ops, "receive"))
    BY <1>0, <1>3, AbortOneShape
  <2>2. {"receive"} \ {"receive"} = {}
    OBVIOUS
  <2>3. Shape(c, {}, Append(ops, "receive"))
    BY <1>0, <2>0, <2>1, <2>2, AbortNoneShape
  <2>4. Shape(Abort(c, "write"), {}, Append(ops, "receive"))
    BY <1>0, <2>0, <2>3, AbortNoneShape
  <2> QED BY <2>4 DEF Close
<1> QED BY <1>1, <1>2, <1>3

LEMMA WaitShape ==
  ASSUME NEW a, NEW ops \in Seq(Op), Shape(a, {}, ops)
  PROVE  Shape(Wait(a), {"timer"}, ops)
<1>1. "timer" \in Op
  BY DEF Op, ChainOp
<1>2. Shape(Abort(a, "timer"), {}, ops)
  BY <1>1, AbortNoneShape
<1>3. Shape(Wait(a), {} \cup {"timer"}, ops)
  BY <1>1, <1>2, StartShape DEF Wait
<1>4. {} \cup {"timer"} = {"timer"}
  OBVIOUS
<1> QED BY <1>3, <1>4

\* A call of trySendMessage() on an open socket continues the send loop once.
LEMMA TrySendShape ==
  ASSUME NEW a, NEW S, NEW ops \in Seq(Op), Shape(a, S, ops), "write" \notin S,
         NEW b, TrySendMessage(a, b)
  PROVE  /\ ~open => Shape(io', S, ops)
         /\ open => \/ Shape(io', S \cup {"write"}, ops)
                    \/ Shape(io', S, Append(ops, "send"))
<1>1. Shape(Start(a, "write"), S \cup {"write"}, ops)
  BY StartShape DEF Op, SendOp
<1>2. Shape(Post(a, "send", TRUE), S, Append(ops, "send"))
  BY PostShape DEF Op, SendOp
<1>3. ~open => io' = a
  BY DEF TrySendMessage
<1>4. open => io' \in {Start(a, "write"), WriteOrPost(a, b)}
  BY DEF TrySendMessage
<1> QED BY <1>1, <1>2, <1>3, <1>4 DEF WriteOrPost

-----------------------------------------------------------------------------
(* The phases of a connection. *)

\* PendingIs and ReadyIs as a Shape, in this state and in the next.
LEMMA ShapeNow ==
  ASSUME io \in IoType, NEW S, NEW ops \in Seq(Op)
  PROVE  Shape(io, S, ops) <=> PendingIs(S) /\ ReadyIs(ops)
BY LenProperties DEF Shape, PendingIs, ReadyIs

LEMMA ShapeNext ==
  ASSUME NEW S, NEW ops \in Seq(Op), Shape(io', S, ops)
  PROVE  PendingIs(S)' /\ ReadyIs(ops)'
BY LenProperties DEF Shape, PendingIs, ReadyIs

LEMMA OpSequences ==
  /\ << >> \in Seq(Op)
  /\ \A p \in Op : <<p>> \in Seq(Op) /\ Append(<< >>, p) = <<p>> /\ Tail(<<p>>) = << >>
  /\ \A p, q \in Op : /\ <<p, q>> \in Seq(Op)
                      /\ Append(<<p>>, q) = <<p, q>>
                      /\ Tail(<<p, q>>) = <<q>>
<1>1. << >> \in Seq(Op)
  OBVIOUS
<1>2. ASSUME NEW p \in Op
      PROVE  <<p>> \in Seq(Op) /\ Append(<< >>, p) = <<p>> /\ Tail(<<p>>) = << >>
  <2>1. <<p>> \in Seq(Op)
    OBVIOUS
  <2>2. Append(<< >>, p) = <<p>>
    OBVIOUS
  <2>3. Tail(<<p>>) = << >>
    OBVIOUS
  <2> QED BY <2>1, <2>2, <2>3
<1>3. ASSUME NEW p \in Op, NEW q \in Op
      PROVE  /\ <<p, q>> \in Seq(Op)
             /\ Append(<<p>>, q) = <<p, q>>
             /\ Tail(<<p, q>>) = <<q>>
  <2>1. <<p, q>> \in Seq(Op)
    OBVIOUS
  <2>2. Append(<<p>>, q) = <<p, q>>
    <3>1. <<p>> \in Seq(Op) /\ Len(<<p>>) = 1 /\ <<p>>[1] = p
      OBVIOUS
    <3>2. /\ Append(<<p>>, q) \in Seq(Op) /\ Len(Append(<<p>>, q)) = 2
          /\ Append(<<p>>, q)[1] = p /\ Append(<<p>>, q)[2] = q
      BY <3>1, AppendProperties
    <3>3. <<p, q>> \in Seq(Op) /\ Len(<<p, q>>) = 2
          /\ <<p, q>>[1] = p /\ <<p, q>>[2] = q
      OBVIOUS
    <3> DEFINE s == Append(<<p>>, q)
               t == <<p, q>>
    <3>4. s \in Seq(Op) /\ t \in Seq(Op) /\ Len(s) = Len(t)
      BY <3>2, <3>3
    <3>5. \A i \in 1..Len(s) : s[i] = t[i]
      BY <3>2, <3>3
    <3> HIDE DEF s, t
    <3>6. s = t
      BY <3>4, <3>5, SeqEqual
    <3> QED BY <3>6 DEF s, t
  <2>3. Tail(<<p, q>>) = <<q>>
    OBVIOUS
  <2> QED BY <2>1, <2>2, <2>3
<1> QED BY <1>1, <1>2, <1>3
\* A phase's status, socket and shape.
Ph(st, sock, S, ops) == status = st /\ open = sock /\ Shape(io, S, ops)

LEMMA PhaseOf ==
  ASSUME TypeOK, Phases, alive
  PROVE  \/ Ph("ADDR_LOOKUP", FALSE, {"resolve"}, << >>)
         \/ Ph("ADDR_LOOKUP", FALSE, {}, <<"resolve">>)
         \/ Ph("CONNECT", TRUE, {"connect"}, << >>)
         \/ Ph("CONNECT", TRUE, {}, <<"connect">>)
         \/ Ph("SEND_LOOP", TRUE, {"receive", "write"}, << >>)
         \/ Ph("SEND_LOOP", TRUE, {"write"}, <<"receive">>)
         \/ \E s \in SendOp : Ph("SEND_LOOP", TRUE, {"receive"}, <<s>>)
         \/ \E s \in SendOp : Ph("SEND_LOOP", TRUE, {}, <<"receive", s>>)
         \/ \E s \in SendOp : Ph("SEND_LOOP", TRUE, {}, <<s, "receive">>)
         \/ Ph("SEND_LOOP", FALSE, {}, <<"receive">>)
         \/ Ph("ADDR_RETRY_WAIT", FALSE, {"timer"}, << >>)
         \/ Ph("ADDR_RETRY_WAIT", FALSE, {}, <<"timer">>)
         \/ \E s \in SendOp : Ph("ADDR_RETRY_WAIT", FALSE, {"timer"}, <<s>>)
         \/ \E s \in SendOp : Ph("ADDR_RETRY_WAIT", FALSE, {}, <<s, "timer">>)
<1>0. io \in IoType /\ open \in BOOLEAN
  BY DEF TypeOK, IoType
<1>1. \A S : /\ PendingIs(S) /\ ReadyIs(<< >>) => Shape(io, S, << >>)
             /\ \A p \in Op : PendingIs(S) /\ ReadyIs(<<p>>) => Shape(io, S, <<p>>)
             /\ \A p, q \in Op :
                  PendingIs(S) /\ ReadyIs(<<p, q>>) => Shape(io, S, <<p, q>>)
  BY <1>0, ShapeNow, OpSequences
<1>2. SendOp \subseteq Op /\ ChainOp \subseteq Op
  BY DEF Op
<1>3. "resolve" \in ChainOp /\ "connect" \in ChainOp /\ "receive" \in ChainOp
      /\ "timer" \in ChainOp
  BY DEF ChainOp
<1>4. CASE Resolving
  BY <1>0, <1>1, <1>2, <1>3, <1>4 DEF Resolving, ChainOnly, Ph
<1>5. CASE Connecting
  BY <1>0, <1>1, <1>2, <1>3, <1>5 DEF Connecting, ChainOnly, Ph
<1>6. CASE Connected
  BY <1>0, <1>1, <1>2, <1>3, <1>6 DEF Connected, Ph
<1>7. CASE Closing
  BY <1>0, <1>1, <1>2, <1>3, <1>7 DEF Closing, Ph
<1>8. CASE Retrying
  BY <1>0, <1>1, <1>2, <1>3, <1>8 DEF Retrying, Ph
<1> QED BY <1>4, <1>5, <1>6, <1>7, <1>8 DEF Phases

LEMMA HeadShape ==
  ASSUME NEW S, NEW ops \in Seq(Op), Shape(io, S, ops), NEW op \in Op, Runs(op)
  PROVE  ops # << >> /\ ops[1] = op
BY LenProperties, EmptySeq DEF Shape, IoType, Runs

\* The phase a handler can run in.
LEMMA PhaseOfHandler ==
  ASSUME TypeOK, Phases, NEW op \in Op, Runs(op)
  PROVE  /\ op = "resolve" => Ph("ADDR_LOOKUP", FALSE, {}, <<"resolve">>)
         /\ op = "connect" => Ph("CONNECT", TRUE, {}, <<"connect">>)
         /\ op = "timer" => Ph("ADDR_RETRY_WAIT", FALSE, {}, <<"timer">>)
         /\ op = "receive" =>
              \/ Ph("SEND_LOOP", TRUE, {"write"}, <<"receive">>)
              \/ \E s \in SendOp : Ph("SEND_LOOP", TRUE, {}, <<"receive", s>>)
              \/ Ph("SEND_LOOP", FALSE, {}, <<"receive">>)
         /\ op \in SendOp =>
              \/ Ph("SEND_LOOP", TRUE, {"receive"}, <<op>>)
              \/ Ph("SEND_LOOP", TRUE, {}, <<op, "receive">>)
              \/ Ph("ADDR_RETRY_WAIT", FALSE, {"timer"}, <<op>>)
              \/ Ph("ADDR_RETRY_WAIT", FALSE, {}, <<op, "timer">>)
<1>1. alive
  BY DEF Runs
<1>2. \A S : ~Shape(io, S, << >>)
  BY HeadShape, OpSequences
<1>3. \A S : \A p \in Op : Shape(io, S, <<p>>) => p = op
  BY HeadShape, OpSequences
<1>4. \A S : \A p, q \in Op : Shape(io, S, <<p, q>>) => p = op
  <2> SUFFICES ASSUME NEW S, NEW p \in Op, NEW q \in Op, Shape(io, S, <<p, q>>)
               PROVE  p = op
    OBVIOUS
  <2>1. <<p, q>>[1] = op
    BY HeadShape, OpSequences
  <2> QED BY <2>1
<1>5. /\ SendOp \subseteq Op /\ "resolve" \in Op /\ "connect" \in Op
      /\ "receive" \in Op /\ "timer" \in Op
      /\ "resolve" \notin SendOp /\ "connect" \notin SendOp
      /\ "receive" \notin SendOp /\ "timer" \notin SendOp
  BY DEF Op, ChainOp, SendOp
<1> QED BY <1>1, <1>2, <1>3, <1>4, <1>5, PhaseOf DEF Ph

\* The phase an operation can complete in.
LEMMA PhaseOfOperation ==
  ASSUME TypeOK, Phases, NEW op \in Op, Pending(op)
  PROVE  /\ op = "resolve" => Ph("ADDR_LOOKUP", FALSE, {"resolve"}, << >>)
         /\ op = "connect" => Ph("CONNECT", TRUE, {"connect"}, << >>)
         /\ op = "timer" =>
              \/ Ph("ADDR_RETRY_WAIT", FALSE, {"timer"}, << >>)
              \/ \E s \in SendOp : Ph("ADDR_RETRY_WAIT", FALSE, {"timer"}, <<s>>)
         /\ op = "receive" =>
              \/ Ph("SEND_LOOP", TRUE, {"receive", "write"}, << >>)
              \/ \E s \in SendOp : Ph("SEND_LOOP", TRUE, {"receive"}, <<s>>)
         /\ op = "write" =>
              \/ Ph("SEND_LOOP", TRUE, {"receive", "write"}, << >>)
              \/ Ph("SEND_LOOP", TRUE, {"write"}, <<"receive">>)
<1>1. alive
  BY DEF Pending
<1>2. \A S : \A ops : Shape(io, S, ops) => op \in S
  BY DEF Shape, Pending
<1> QED BY <1>1, <1>2, PhaseOf DEF Ph
\* The same phases as the result of a step.
PhNext(st, sock, S, ops) == status' = st /\ open' = sock /\ Shape(io', S, ops)

LEMMA PhaseReached ==
  ASSUME \/ PhNext("ADDR_LOOKUP", FALSE, {"resolve"}, << >>)
         \/ PhNext("ADDR_LOOKUP", FALSE, {}, <<"resolve">>)
         \/ PhNext("CONNECT", TRUE, {"connect"}, << >>)
         \/ PhNext("CONNECT", TRUE, {}, <<"connect">>)
         \/ PhNext("SEND_LOOP", TRUE, {"receive", "write"}, << >>)
         \/ PhNext("SEND_LOOP", TRUE, {"write"}, <<"receive">>)
         \/ \E s \in SendOp : PhNext("SEND_LOOP", TRUE, {"receive"}, <<s>>)
         \/ \E s \in SendOp : PhNext("SEND_LOOP", TRUE, {}, <<"receive", s>>)
         \/ \E s \in SendOp : PhNext("SEND_LOOP", TRUE, {}, <<s, "receive">>)
         \/ PhNext("SEND_LOOP", FALSE, {}, <<"receive">>)
         \/ PhNext("ADDR_RETRY_WAIT", FALSE, {"timer"}, << >>)
         \/ PhNext("ADDR_RETRY_WAIT", FALSE, {}, <<"timer">>)
         \/ \E s \in SendOp : PhNext("ADDR_RETRY_WAIT", FALSE, {"timer"}, <<s>>)
         \/ \E s \in SendOp : PhNext("ADDR_RETRY_WAIT", FALSE, {}, <<s, "timer">>)
  PROVE  Phases'
<1>1. \A S : /\ Shape(io', S, << >>) => PendingIs(S)' /\ ReadyIs(<< >>)'
             /\ \A p \in Op : Shape(io', S, <<p>>) => PendingIs(S)' /\ ReadyIs(<<p>>)'
             /\ \A p, q \in Op :
                  Shape(io', S, <<p, q>>) => PendingIs(S)' /\ ReadyIs(<<p, q>>)'
  BY ShapeNext, OpSequences
<1>2. SendOp \subseteq Op /\ ChainOp \subseteq Op
  BY DEF Op
<1>3. "resolve" \in ChainOp /\ "connect" \in ChainOp /\ "receive" \in ChainOp
      /\ "timer" \in ChainOp
  BY DEF ChainOp
<1> USE <1>1, <1>2, <1>3 DEF PhNext
<1>4. CASE \/ PhNext("ADDR_LOOKUP", FALSE, {"resolve"}, << >>)
           \/ PhNext("ADDR_LOOKUP", FALSE, {}, <<"resolve">>)
  BY <1>4 DEF Phases, Resolving, ChainOnly
<1>5. CASE \/ PhNext("CONNECT", TRUE, {"connect"}, << >>)
           \/ PhNext("CONNECT", TRUE, {}, <<"connect">>)
  BY <1>5 DEF Phases, Connecting, ChainOnly
<1>6. CASE \/ PhNext("SEND_LOOP", TRUE, {"receive", "write"}, << >>)
           \/ PhNext("SEND_LOOP", TRUE, {"write"}, <<"receive">>)
           \/ \E s \in SendOp : PhNext("SEND_LOOP", TRUE, {"receive"}, <<s>>)
           \/ \E s \in SendOp : PhNext("SEND_LOOP", TRUE, {}, <<"receive", s>>)
           \/ \E s \in SendOp : PhNext("SEND_LOOP", TRUE, {}, <<s, "receive">>)
  BY <1>6 DEF Phases, Connected
<1>7. CASE PhNext("SEND_LOOP", FALSE, {}, <<"receive">>)
  BY <1>7 DEF Phases, Closing
<1>8. CASE \/ PhNext("ADDR_RETRY_WAIT", FALSE, {"timer"}, << >>)
           \/ PhNext("ADDR_RETRY_WAIT", FALSE, {}, <<"timer">>)
           \/ \E s \in SendOp : PhNext("ADDR_RETRY_WAIT", FALSE, {"timer"}, <<s>>)
           \/ \E s \in SendOp : PhNext("ADDR_RETRY_WAIT", FALSE, {}, <<s, "timer">>)
  BY <1>8 DEF Phases, Retrying
<1> QED BY <1>4, <1>5, <1>6, <1>7, <1>8

\* What is left when the handler at the head is taken.
LEMMA RestOf ==
  ASSUME NEW S
  PROVE  /\ \A p \in Op : Shape(io, S, <<p>>) => Shape(Rest, S, << >>)
         /\ \A p, q \in Op : Shape(io, S, <<p, q>>) => Shape(Rest, S, <<q>>)
<1>1. ASSUME NEW p \in Op, Shape(io, S, <<p>>) PROVE Shape(Rest, S, << >>)
  <2>1. <<p>> \in Seq(Op) /\ <<p>> # << >> /\ Tail(<<p>>) = << >>
    BY OpSequences
  <2> QED BY <1>1, <2>1, RestShape
<1>2. ASSUME NEW p \in Op, NEW q \in Op, Shape(io, S, <<p, q>>)
      PROVE  Shape(Rest, S, <<q>>)
  <2>1. <<p, q>> \in Seq(Op) /\ <<p, q>> # << >> /\ Tail(<<p, q>>) = <<q>>
    BY OpSequences
  <2> QED BY <1>2, <2>1, RestShape
<1> QED BY <1>1, <1>2

LEMMA NamesOfOps ==
  /\ SendOp = {"write", "send"} /\ SendOp \subseteq Op
  /\ "resolve" \in Op /\ "connect" \in Op /\ "receive" \in Op /\ "timer" \in Op
  /\ "write" \in Op /\ "send" \in Op
BY DEF Op, ChainOp, SendOp

\* The chain is handed from one operation to the next by its handlers.
LEMMA ChainHandlerPhase ==
  ASSUME TypeOK, Phases, ResolverHandler \/ ConnectHandlerError \/ TimerHandler
  PROVE  Phases'
<1> USE NamesOfOps, OpSequences
<1>1. CASE ResolverHandler
  <2>1. Ph("ADDR_LOOKUP", FALSE, {}, <<"resolve">>)
    BY <1>1, PhaseOfHandler DEF ResolverHandler
  <2>2. Shape(Rest, {}, << >>)
    BY <2>1, RestOf DEF Ph
  <2>3. CASE ReConnect(Rest) /\ UNCHANGED <<endpointVars, open>>
    <3>1. PhNext("ADDR_RETRY_WAIT", FALSE, {"timer"}, << >>)
      BY <2>1, <2>2, <2>3, WaitShape DEF ReConnect, PhNext, Ph
    <3> QED BY <3>1, PhaseReached
  <2>4. CASE \E list \in EndpointLists : TryConnect(Rest, list, 0)
    <3>1. Shape(Start(Rest, "connect"), {} \cup {"connect"}, << >>)
      BY <2>2, StartShape
    <3>2. {} \cup {"connect"} = {"connect"}
      OBVIOUS
    <3>3. PhNext("CONNECT", TRUE, {"connect"}, << >>)
      BY <2>4, <3>1, <3>2 DEF TryConnect, PhNext
    <3> QED BY <3>3, PhaseReached
  <2> QED BY <1>1, <2>3, <2>4 DEF ResolverHandler
<1>2. CASE ConnectHandlerError
  <2>1. Ph("CONNECT", TRUE, {}, <<"connect">>)
    BY <1>2, PhaseOfHandler DEF ConnectHandlerError
  <2>2. Shape(Close(Rest), {}, << >>)
    BY <2>1, RestOf, CloseShape DEF Ph
  <2>3. CASE ReConnect(Close(Rest)) /\ open' = FALSE
    <3>1. PhNext("ADDR_RETRY_WAIT", FALSE, {"timer"}, << >>)
      BY <2>2, <2>3, WaitShape DEF ReConnect, PhNext
    <3> QED BY <3>1, PhaseReached
  <2>4. CASE TryConnect(Close(Rest), endpoints, next)
    <3>1. Shape(Start(Close(Rest), "connect"), {} \cup {"connect"}, << >>)
      BY <2>2, StartShape
    <3>2. {} \cup {"connect"} = {"connect"}
      OBVIOUS
    <3>3. PhNext("CONNECT", TRUE, {"connect"}, << >>)
      BY <2>4, <3>1, <3>2 DEF TryConnect, PhNext
    <3> QED BY <3>3, PhaseReached
  <2> QED BY <1>2, <2>3, <2>4 DEF ConnectHandlerError
<1>3. CASE TimerHandler
  <2>1. Ph("ADDR_RETRY_WAIT", FALSE, {}, <<"timer">>)
    BY <1>3, PhaseOfHandler DEF TimerHandler
  <2>2. Shape(Rest, {}, << >>)
    BY <2>1, RestOf DEF Ph
  <2>3. Shape(Start(Rest, "resolve"), {} \cup {"resolve"}, << >>)
    BY <2>2, StartShape
  <2>4. {} \cup {"resolve"} = {"resolve"}
    OBVIOUS
  <2>5. PhNext("ADDR_LOOKUP", FALSE, {"resolve"}, << >>)
    BY <1>3, <2>1, <2>3, <2>4 DEF TimerHandler, DoAddressQuery, PhNext, Ph
  <2> QED BY <2>5, PhaseReached
<1> QED BY <1>1, <1>2, <1>3
\* On an open socket the receive operation is renewed, on a closed one it fails.
LEMMA ReceiveShape ==
  ASSUME NEW a, NEW S, NEW ops \in Seq(Op), Shape(a, S, ops), "receive" \notin S
  PROVE  /\ open => Shape(Receive(a, open), S \cup {"receive"}, ops)
         /\ ~open => Shape(Receive(a, open), S, Append(ops, "receive"))
BY StartShape, PostShape, NamesOfOps DEF Receive

\* trySendMessage() called when the connection is up, with a receive outstanding.
LEMMA SendLoopGoesOn ==
  ASSUME TypeOK, status' = "SEND_LOOP", open' = open, NEW a, NEW b,
         TrySendMessage(a, b), open,
         Shape(a, {"receive"}, << >>) \/ Shape(a, {}, <<"receive">>)
  PROVE  Phases'
<1> USE NamesOfOps, OpSequences
<1>0. open' = TRUE
  BY DEF TypeOK
<1>1. CASE Shape(a, {"receive"}, << >>)
  <2>1. \/ Shape(io', {"receive"} \cup {"write"}, << >>)
        \/ Shape(io', {"receive"}, Append(<< >>, "send"))
    BY <1>1, TrySendShape
  <2>2. {"receive"} \cup {"write"} = {"receive", "write"}
    OBVIOUS
  <2>3. \/ PhNext("SEND_LOOP", TRUE, {"receive", "write"}, << >>)
        \/ \E s \in SendOp : PhNext("SEND_LOOP", TRUE, {"receive"}, <<s>>)
    BY <1>0, <2>1, <2>2 DEF PhNext
  <2> QED BY <2>3, PhaseReached
<1>2. CASE Shape(a, {}, <<"receive">>)
  <2>1. \/ Shape(io', {} \cup {"write"}, <<"receive">>)
        \/ Shape(io', {}, Append(<<"receive">>, "send"))
    BY <1>2, TrySendShape
  <2>2. {} \cup {"write"} = {"write"}
    OBVIOUS
  <2>3. \/ PhNext("SEND_LOOP", TRUE, {"write"}, <<"receive">>)
        \/ \E s \in SendOp : PhNext("SEND_LOOP", TRUE, {}, <<"receive", s>>)
    BY <1>0, <2>1, <2>2 DEF PhNext
  <2> QED BY <2>3, PhaseReached
<1> QED BY <1>1, <1>2

\* trySendMessage() called after the connection was given up: the loop ends.
LEMMA SendLoopEnds ==
  ASSUME status' = "ADDR_RETRY_WAIT", open' = FALSE, NEW a, io' = a,
         Shape(a, {"timer"}, << >>) \/ Shape(a, {}, <<"timer">>)
  PROVE  Phases'
BY PhaseReached DEF PhNext

LEMMA SendHandlerPhase ==
  ASSUME TypeOK, Phases, ConnectHandlerOk \/ PostedSend \/ SentMessageHandler
  PROVE  Phases'
<1> USE NamesOfOps, OpSequences
<1>1. CASE ConnectHandlerOk
  <2>1. Ph("CONNECT", TRUE, {}, <<"connect">>)
    BY <1>1, PhaseOfHandler DEF ConnectHandlerOk
  <2>2. Shape(Rest, {}, << >>) /\ open
    BY <2>1, RestOf DEF Ph
  <2>3. Shape(Receive(Rest, open), {} \cup {"receive"}, << >>)
    BY <2>2, ReceiveShape
  <2>4. {} \cup {"receive"} = {"receive"}
    OBVIOUS
  <2>5. Shape(Receive(Rest, open), {"receive"}, << >>)
    BY <2>3, <2>4
  <2>6. /\ TrySendMessage(Receive(Rest, open), buffer)
        /\ status' = "SEND_LOOP" /\ open' = open
    BY <1>1 DEF ConnectHandlerOk
  <2> QED BY <2>2, <2>5, <2>6, SendLoopGoesOn
<1>2. ASSUME NEW op \in SendOp, Runs(op)
      PROVE  \/ /\ status = "SEND_LOOP" /\ open = TRUE
                /\ Shape(Rest, {"receive"}, << >>) \/ Shape(Rest, {}, <<"receive">>)
             \/ /\ status = "ADDR_RETRY_WAIT" /\ open = FALSE
                /\ Shape(Rest, {"timer"}, << >>) \/ Shape(Rest, {}, <<"timer">>)
  <2>1. \/ Ph("SEND_LOOP", TRUE, {"receive"}, <<op>>)
        \/ Ph("SEND_LOOP", TRUE, {}, <<op, "receive">>)
        \/ Ph("ADDR_RETRY_WAIT", FALSE, {"timer"}, <<op>>)
        \/ Ph("ADDR_RETRY_WAIT", FALSE, {}, <<op, "timer">>)
    BY <1>2, PhaseOfHandler
  <2> QED BY <2>1, RestOf DEF Ph
<1>3. ASSUME NEW op \in SendOp, Runs(op), NEW b, TrySendMessage(Rest, b),
             status' = status, open' = open
      PROVE  Phases'
  <2>1. CASE open
    BY <1>2, <1>3, <2>1, SendLoopGoesOn
  <2>2. CASE ~open
    <3>1. io' = Rest
      BY <1>3, <2>2 DEF TrySendMessage
    <3> QED BY <1>2, <1>3, <2>2, <3>1, SendLoopEnds
  <2> QED BY <2>1, <2>2
<1>4. CASE PostedSend
  BY <1>3, <1>4 DEF PostedSend
<1>5. CASE SentMessageHandler
  <2>1. Runs("write") /\ status' = status
    BY <1>5 DEF SentMessageHandler
  <2>2. CASE ~Error
    BY <1>3, <1>5, <2>1, <2>2 DEF SentMessageHandler
  <2>3. CASE Error
    <3>1. io' = Close(Rest) /\ open' = FALSE
      BY <1>5, <2>3 DEF SentMessageHandler
    <3>2. CASE /\ status = "SEND_LOOP"
               /\ Shape(Rest, {"receive"}, << >>) \/ Shape(Rest, {}, <<"receive">>)
      <4>1. Shape(Close(Rest), {}, <<"receive">>)
        BY <3>2, CloseShape
      <4>2. PhNext("SEND_LOOP", FALSE, {}, <<"receive">>)
        BY <2>1, <3>1, <3>2, <4>1 DEF PhNext
      <4> QED BY <4>2, PhaseReached
    <3>3. CASE /\ status = "ADDR_RETRY_WAIT"
               /\ Shape(Rest, {"timer"}, << >>) \/ Shape(Rest, {}, <<"timer">>)
      <4>1. ASSUME NEW S, NEW ops \in Seq(Op), Shape(Rest, S, ops),
                   "receive" \notin S, "connect" \notin S, "write" \notin S
            PROVE  Shape(Close(Rest), S, ops)
        <5>1. Shape(Abort(Rest, "receive"), S, ops)
          BY <4>1, AbortNoneShape
        <5>2. Shape(Abort(Abort(Rest, "receive"), "connect"), S, ops)
          BY <4>1, <5>1, AbortNoneShape
        <5> QED BY <4>1, <5>2, AbortNoneShape DEF Close
      <4>2. Shape(Close(Rest), {"timer"}, << >>) \/ Shape(Close(Rest), {}, <<"timer">>)
        BY <3>3, <4>1
      <4> QED BY <2>1, <3>1, <3>3, <4>2, SendLoopEnds
    <3> QED BY <1>2, <2>1, <3>2, <3>3
  <2> QED BY <2>2, <2>3
<1> QED BY <1>1, <1>4, <1>5

LEMMA ReceiveHandlerPhase ==
  ASSUME TypeOK, Phases, ReceiveHandler
  PROVE  Phases'
<1> USE NamesOfOps, OpSequences
<1>1. \/ /\ status = "SEND_LOOP" /\ open = TRUE
         /\ \/ Shape(Rest, {"write"}, << >>)
            \/ \E s \in SendOp : Shape(Rest, {}, <<s>>)
      \/ status = "SEND_LOOP" /\ open = FALSE /\ Shape(Rest, {}, << >>)
  <2>1. \/ Ph("SEND_LOOP", TRUE, {"write"}, <<"receive">>)
        \/ \E s \in SendOp : Ph("SEND_LOOP", TRUE, {}, <<"receive", s>>)
        \/ Ph("SEND_LOOP", FALSE, {}, <<"receive">>)
    BY PhaseOfHandler DEF ReceiveHandler
  <2> QED BY <2>1, RestOf DEF Ph
<1>2. CASE ReConnect(Close(Rest)) /\ open' = FALSE
  <2>1. Shape(Close(Rest), {}, << >>) \/ \E s \in SendOp : Shape(Close(Rest), {}, <<s>>)
    BY <1>1, CloseShape
  <2>2. \/ Shape(Wait(Close(Rest)), {"timer"}, << >>)
        \/ \E s \in SendOp : Shape(Wait(Close(Rest)), {"timer"}, <<s>>)
    BY <2>1, WaitShape
  <2>3. \/ PhNext("ADDR_RETRY_WAIT", FALSE, {"timer"}, << >>)
        \/ \E s \in SendOp : PhNext("ADDR_RETRY_WAIT", FALSE, {"timer"}, <<s>>)
    BY <1>2, <2>2 DEF ReConnect, PhNext
  <2> QED BY <2>3, PhaseReached
<1>3. CASE io' = Receive(Rest, open) /\ UNCHANGED <<open, status, peer>>
  <2>1. CASE open = TRUE
    <3>1. \/ Shape(io', {"write"} \cup {"receive"}, << >>)
          \/ \E s \in SendOp : Shape(io', {} \cup {"receive"}, <<s>>)
      BY <1>1, <1>3, <2>1, ReceiveShape
    <3>2. {"write"} \cup {"receive"} = {"receive", "write"}
          /\ {} \cup {"receive"} = {"receive"}
      OBVIOUS
    <3>3. \/ PhNext("SEND_LOOP", TRUE, {"receive", "write"}, << >>)
          \/ \E s \in SendOp : PhNext("SEND_LOOP", TRUE, {"receive"}, <<s>>)
      <4>1. status' = "SEND_LOOP" /\ open' = TRUE
        BY <1>1, <1>3, <2>1
      <4> QED BY <3>1, <3>2, <4>1 DEF PhNext
    <3> QED BY <3>3, PhaseReached
  <2>2. CASE open = FALSE
    <3>1. Shape(io', {}, <<"receive">>)
      <4>1. Shape(Rest, {}, << >>) /\ ~open /\ io' = Receive(Rest, open)
        BY <1>1, <1>3, <2>2
      <4>2. Shape(Receive(Rest, open), {}, Append(<< >>, "receive"))
        BY <4>1, ReceiveShape
      <4> QED BY <4>1, <4>2
    <3>2. PhNext("SEND_LOOP", FALSE, {}, <<"receive">>)
      BY <1>1, <1>3, <2>2, <3>1 DEF PhNext
    <3> QED BY <3>2, PhaseReached
  <2> QED BY <1>1, <2>1, <2>2
<1> QED BY <1>2, <1>3 DEF ReceiveHandler
\* An operation completes: it moves from the pending ones to the end of the ready.
LEMMA CompletedShape ==
  ASSUME NEW op \in Op, NEW ok \in BOOLEAN, io' = Complete(io, op, ok)
  PROVE  /\ Shape(io, {op}, << >>) => Shape(io', {}, <<op>>)
         /\ \A s \in Op : Shape(io, {op}, <<s>>) => Shape(io', {}, <<s, op>>)
         /\ \A q \in Op \ {op} : Shape(io, {op, q}, << >>) => Shape(io', {q}, <<op>>)
         /\ \A q \in Op \ {op} : Shape(io, {q, op}, << >>) => Shape(io', {q}, <<op>>)
         /\ \A q \in Op \ {op}, s \in Op :
              Shape(io, {op, q}, <<s>>) => Shape(io', {q}, <<s, op>>)
<1>1. ASSUME NEW S, NEW ops \in Seq(Op), Shape(io, S, ops), op \in S,
             NEW T, T = S \ {op}, NEW more, more = Append(ops, op)
      PROVE  Shape(io', T, more)
  BY <1>1, CompleteShape
<1>2. {op} \ {op} = {}
  OBVIOUS
<1>3. \A q \in Op \ {op} : {op, q} \ {op} = {q} /\ {q, op} \ {op} = {q}
  OBVIOUS
<1>4. /\ << >> \in Seq(Op) /\ <<op>> = Append(<< >>, op)
      /\ \A s \in Op : <<s>> \in Seq(Op) /\ <<s, op>> = Append(<<s>>, op)
  BY OpSequences
<1>5. Shape(io, {op}, << >>) => Shape(io', {}, <<op>>)
  BY <1>1, <1>2, <1>4
<1>6. ASSUME NEW s \in Op, Shape(io, {op}, <<s>>) PROVE Shape(io', {}, <<s, op>>)
  BY <1>1, <1>2, <1>4, <1>6
<1>7. ASSUME NEW q \in Op \ {op}, Shape(io, {op, q}, << >>) \/ Shape(io, {q, op}, << >>)
      PROVE  Shape(io', {q}, <<op>>)
  BY <1>1, <1>3, <1>4, <1>7
<1>8. ASSUME NEW q \in Op \ {op}, NEW s \in Op, Shape(io, {op, q}, <<s>>)
      PROVE  Shape(io', {q}, <<s, op>>)
  BY <1>1, <1>3, <1>4, <1>8
<1> QED BY <1>5, <1>6, <1>7, <1>8

LEMMA PhasesKept ==
  ASSUME Phases, UNCHANGED <<io, status, open, alive>>
  PROVE  Phases'
<1>1. /\ \A S : PendingIs(S) => PendingIs(S)'
      /\ \A ops : ReadyIs(ops) => ReadyIs(ops)'
  BY DEF PendingIs, ReadyIs
<1>2. Resolving => Resolving'
  BY <1>1 DEF Resolving, ChainOnly
<1>3. Connecting => Connecting'
  BY <1>1 DEF Connecting, ChainOnly
<1>4. Connected => Connected'
  BY <1>1 DEF Connected
<1>5. Closing => Closing'
  BY <1>1 DEF Closing
<1>6. Retrying => Retrying'
  BY <1>1 DEF Retrying
<1> QED BY <1>2, <1>3, <1>4, <1>5, <1>6 DEF Phases

LEMMA NetworkPhase ==
  ASSUME TypeOK, Phases, Network
  PROVE  Phases'
<1> USE NamesOfOps, OpSequences
<1>1. ASSUME NEW op \in Op, NEW ok \in BOOLEAN, Pending(op), op # "send",
             io' = Complete(io, op, ok), status' = status, open' = open
      PROVE  Phases'
  <2>3. CASE op = "resolve"
    <3>1. Ph("ADDR_LOOKUP", FALSE, {"resolve"}, << >>)
      BY <1>1, <2>3, PhaseOfOperation
    <3>2. PhNext("ADDR_LOOKUP", FALSE, {}, <<"resolve">>)
      BY <1>1, <2>3, <3>1, CompletedShape DEF Ph, PhNext
    <3> QED BY <3>2, PhaseReached
  <2>4. CASE op = "connect"
    <3>1. Ph("CONNECT", TRUE, {"connect"}, << >>)
      BY <1>1, <2>4, PhaseOfOperation
    <3>2. PhNext("CONNECT", TRUE, {}, <<"connect">>)
      BY <1>1, <2>4, <3>1, CompletedShape DEF Ph, PhNext
    <3> QED BY <3>2, PhaseReached
  <2>5. CASE op = "timer"
    <3>1. \/ Ph("ADDR_RETRY_WAIT", FALSE, {"timer"}, << >>)
          \/ \E s \in SendOp : Ph("ADDR_RETRY_WAIT", FALSE, {"timer"}, <<s>>)
      BY <1>1, <2>5, PhaseOfOperation
    <3>2. \/ PhNext("ADDR_RETRY_WAIT", FALSE, {}, <<"timer">>)
          \/ \E s \in SendOp : PhNext("ADDR_RETRY_WAIT", FALSE, {}, <<s, "timer">>)
      BY <1>1, <2>5, <3>1, CompletedShape DEF Ph, PhNext
    <3> QED BY <3>2, PhaseReached
  <2>6. CASE op = "receive"
    <3>1. \/ Ph("SEND_LOOP", TRUE, {"receive", "write"}, << >>)
          \/ \E s \in SendOp : Ph("SEND_LOOP", TRUE, {"receive"}, <<s>>)
      BY <1>1, <2>6, PhaseOfOperation
    <3>3. \/ PhNext("SEND_LOOP", TRUE, {"write"}, <<"receive">>)
          \/ \E s \in SendOp : PhNext("SEND_LOOP", TRUE, {}, <<s, "receive">>)
      BY <1>1, <2>6, <3>1, CompletedShape DEF Ph, PhNext
    <3> QED BY <3>3, PhaseReached
  <2>7. CASE op = "write"
    <3>1. \/ Ph("SEND_LOOP", TRUE, {"receive", "write"}, << >>)
          \/ Ph("SEND_LOOP", TRUE, {"write"}, <<"receive">>)
      BY <1>1, <2>7, PhaseOfOperation
    <3>3. \/ \E s \in SendOp : PhNext("SEND_LOOP", TRUE, {"receive"}, <<s>>)
          \/ \E s \in SendOp : PhNext("SEND_LOOP", TRUE, {}, <<"receive", s>>)
      BY <1>1, <2>7, <3>1, CompletedShape DEF Ph, PhNext
    <3> QED BY <3>3, PhaseReached
  <2> QED BY <1>1, <2>3, <2>4, <2>5, <2>6, <2>7 DEF Op, ChainOp, SendOp
<1> USE DEF outsideVars
<1>2. CASE \E ok \in BOOLEAN : ResolveDone(ok) \/ ConnectDone(ok)
  BY <1>1, <1>2 DEF ResolveDone, ConnectDone
<1>3. CASE TimerFires
  BY <1>1, <1>3 DEF TimerFires
<1>4. CASE WriteDone \/ WriteFails
  BY <1>1, <1>4 DEF WriteDone, WriteFails
<1>5. CASE ReceiveData \/ ReceiveFails
  BY <1>1, <1>5 DEF ReceiveData, ReceiveFails
<1>6. CASE KernelAccepts \/ PeerGone
  BY <1>6, PhasesKept DEF KernelAccepts, PeerGone
<1> QED BY <1>2, <1>3, <1>4, <1>5, <1>6 DEF Network

LEMMA InitPhase == Init => Phases
BY DEF Init, Phases, Resolving, ChainOnly, PendingIs, ReadyIs, Service

LEMMA NextPhase ==
  ASSUME TypeOK, Phases, [Next]_vars
  PROVE  Phases'
<1>1. CASE RunHandler
  BY <1>1, ChainHandlerPhase, SendHandlerPhase, ReceiveHandlerPhase DEF RunHandler
<1>2. CASE Network
  BY <1>2, NetworkPhase
<1>3. CASE Application
  <2>1. CASE Destroy
    BY <2>1 DEF Destroy, Phases
  <2>2. CASE ~Destroy
    BY <1>3, <2>2, PhasesKept
       DEF Application, SendMessage, FlushBegin, FlushReady, FlushTimeOut
  <2> QED BY <2>1, <2>2
<1>4. CASE UNCHANGED vars
  BY <1>4, PhasesKept DEF vars
<1> QED BY <1>1, <1>2, <1>3, <1>4 DEF Next

LEMMA PhasesInvariant == Spec => [](TypeOK /\ Phases)
<1>1. Phases /\ TypeOK /\ [Next]_vars => Phases'
  BY NextPhase
<1> QED BY <1>1, InitPhase, TypeCorrect, PTL DEF Spec
-----------------------------------------------------------------------------
(* Counting the outstanding operations of a phase. *)

LEMMA OutstandingShape ==
  ASSUME NEW S, NEW ops \in Seq(Op), Shape(io, S, ops), NEW op \in Op
  PROVE  Outstanding(op) = (IF op \in S THEN 1 ELSE 0)
                           + Cardinality({i \in 1..Len(ops) : ops[i] = op})
<1>1. DOMAIN io.ready = 1..Len(ops)
  BY LenProperties DEF Shape, IoType
<1>2. {i \in DOMAIN io.ready : io.ready[i].op = op} = {i \in 1..Len(ops) : ops[i] = op}
  BY <1>1 DEF Shape
<1>3. io.pending[op] = IF op \in S THEN 1 ELSE 0
  BY DEF Shape
<1> QED BY <1>2, <1>3 DEF Outstanding

\* The operations of P, and no others, are outstanding, once each.
Counted(P) == \A op \in Op : Outstanding(op) = IF op \in P THEN 1 ELSE 0

LEMMA CountedShape ==
  ASSUME NEW S, NEW ops \in Seq(Op), Shape(io, S, ops), NEW P
  PROVE  /\ Len(ops) = 0 /\ P = S => Counted(P)
         /\ Len(ops) = 1 /\ ops[1] \notin S /\ P = S \cup {ops[1]} => Counted(P)
         /\ Len(ops) = 2 /\ ops[1] # ops[2] /\ S = {} /\ P = {ops[1], ops[2]}
              => Counted(P)
<1> SUFFICES ASSUME NEW op \in Op,
               \/ Len(ops) = 0 /\ P = S
               \/ Len(ops) = 1 /\ ops[1] \notin S /\ P = S \cup {ops[1]}
               \/ Len(ops) = 2 /\ ops[1] # ops[2] /\ S = {} /\ P = {ops[1], ops[2]}
             PROVE Outstanding(op) = IF op \in P THEN 1 ELSE 0
  BY DEF Counted
<1> DEFINE D == {i \in 1..Len(ops) : ops[i] = op}
<1>0. Cardinality({}) = 0 /\ \A i : Cardinality({i}) = 1
  BY FS_EmptySet, FS_Singleton
<1>1. Outstanding(op) = (IF op \in S THEN 1 ELSE 0) + Cardinality(D)
  BY OutstandingShape
<1>2. CASE Len(ops) = 0 /\ P = S
  <2>1. D = {}
    BY <1>2
  <2> HIDE DEF D
  <2> QED BY <1>0, <1>1, <1>2, <2>1
<1>3. CASE Len(ops) = 1 /\ ops[1] \notin S /\ P = S \cup {ops[1]}
  <2>1. D = IF op = ops[1] THEN {1} ELSE {}
    BY <1>3
  <2> HIDE DEF D
  <2>2. Cardinality(D) = IF op = ops[1] THEN 1 ELSE 0
    BY <1>0, <2>1
  <2> QED BY <1>1, <1>3, <2>2
<1>4. CASE Len(ops) = 2 /\ ops[1] # ops[2] /\ S = {} /\ P = {ops[1], ops[2]}
  <2>1. D = IF op = ops[1] THEN {1} ELSE IF op = ops[2] THEN {2} ELSE {}
    BY <1>4
  <2> HIDE DEF D
  <2>2. Cardinality(D) = IF op \in {ops[1], ops[2]} THEN 1 ELSE 0
    BY <1>0, <2>1
  <2> QED BY <1>1, <1>4, <2>2
<1> QED BY <1>2, <1>3, <1>4

LEMMA CountedPhase ==
  ASSUME NEW S, NEW P
  PROVE  /\ Shape(io, S, << >>) /\ P = S => Counted(P)
         /\ \A p \in Op : Shape(io, S, <<p>>) /\ p \notin S /\ P = S \cup {p}
              => Counted(P)
         /\ \A p, q \in Op : Shape(io, S, <<p, q>>) /\ p # q /\ S = {} /\ P = {p, q}
              => Counted(P)
<1>1. ASSUME Shape(io, S, << >>), P = S PROVE Counted(P)
  <2>1. << >> \in Seq(Op) /\ Len(<< >>) = 0
    BY OpSequences
  <2> QED BY <1>1, <2>1, CountedShape
<1>2. ASSUME NEW p \in Op, NEW ops \in Seq(Op), ops = <<p>>, Shape(io, S, ops),
             p \notin S, P = S \cup {p}
      PROVE  Counted(P)
  <2>1. Len(ops) = 1 /\ ops[1] = p
    BY <1>2
  <2> QED BY <1>2, <2>1, CountedShape
<1>3. ASSUME NEW p \in Op, NEW q \in Op, NEW ops \in Seq(Op), ops = <<p, q>>,
             Shape(io, S, ops), p # q, S = {}, P = {p, q}
      PROVE  Counted(P)
  <2>1. Len(ops) = 2 /\ ops[1] = p /\ ops[2] = q
    BY <1>3
  <2> QED BY <1>3, <2>1, CountedShape
<1> QED BY <1>1, <1>2, <1>3, OpSequences

LEMMA PhaseCounts ==
  ASSUME TypeOK, Phases
  PROVE  OneConnectionChain /\ OneSendLoop /\ StatusMatchesOperation
<1> SUFFICES ASSUME alive
             PROVE  OneConnectionChain /\ OneSendLoop /\ StatusMatchesOperation
  BY DEF OneConnectionChain, OneSendLoop, StatusMatchesOperation
<1> USE NamesOfOps
<1>1. \/ Ph("ADDR_LOOKUP", FALSE, {"resolve"}, << >>)
      \/ Ph("ADDR_LOOKUP", FALSE, {}, <<"resolve">>)
      => status = "ADDR_LOOKUP" /\ Counted({"resolve"})
  BY CountedPhase DEF Ph
<1>2. \/ Ph("CONNECT", TRUE, {"connect"}, << >>)
      \/ Ph("CONNECT", TRUE, {}, <<"connect">>)
      => status = "CONNECT" /\ open /\ Counted({"connect"})
  BY CountedPhase DEF Ph
<1>3. \/ Ph("SEND_LOOP", TRUE, {"receive", "write"}, << >>)
      \/ Ph("SEND_LOOP", TRUE, {"write"}, <<"receive">>)
      \/ \E s \in SendOp : Ph("SEND_LOOP", TRUE, {"receive"}, <<s>>)
      \/ \E s \in SendOp : Ph("SEND_LOOP", TRUE, {}, <<"receive", s>>)
      \/ \E s \in SendOp : Ph("SEND_LOOP", TRUE, {}, <<s, "receive">>)
      => status = "SEND_LOOP" /\ open /\ \E s \in SendOp : Counted({"receive", s})
  <2>1. Ph("SEND_LOOP", TRUE, {"receive", "write"}, << >>) => Counted({"receive", "write"})
    BY CountedPhase DEF Ph
  <2>2. ASSUME NEW S, NEW s \in SendOp, S = {s}, Shape(io, S, <<"receive">>)
        PROVE  Counted({"receive", s})
    <3>1. "receive" \notin S /\ {"receive", s} = S \cup {"receive"}
      BY <2>2
    <3> QED BY <2>2, <3>1, CountedPhase
  <2>3. ASSUME NEW s \in SendOp, Shape(io, {"receive"}, <<s>>)
        PROVE  Counted({"receive", s})
    <3>1. s \notin {"receive"} /\ {"receive", s} = {"receive"} \cup {s} /\ s \in Op
      OBVIOUS
    <3> QED BY <2>3, <3>1, CountedPhase
  <2>4. ASSUME NEW s \in SendOp, \/ Shape(io, {}, <<"receive", s>>)
                                 \/ Shape(io, {}, <<s, "receive">>)
        PROVE  Counted({"receive", s})
    <3>1. s # "receive" /\ {"receive", s} = {s, "receive"} /\ s \in Op
      OBVIOUS
    <3> QED BY <2>4, <3>1, CountedPhase
  <2> QED BY <2>1, <2>2, <2>3, <2>4 DEF Ph
<1>4. Ph("SEND_LOOP", FALSE, {}, <<"receive">>)
      => status = "SEND_LOOP" /\ ~open /\ Counted({"receive"})
  BY CountedPhase DEF Ph
<1>5. \/ Ph("ADDR_RETRY_WAIT", FALSE, {"timer"}, << >>)
      \/ Ph("ADDR_RETRY_WAIT", FALSE, {}, <<"timer">>)
      => status = "ADDR_RETRY_WAIT" /\ ~open /\ Counted({"timer"})
  BY CountedPhase DEF Ph
<1>6. \/ \E s \in SendOp : Ph("ADDR_RETRY_WAIT", FALSE, {"timer"}, <<s>>)
      \/ \E s \in SendOp : Ph("ADDR_RETRY_WAIT", FALSE, {}, <<s, "timer">>)
      => status = "ADDR_RETRY_WAIT" /\ ~open /\ \E s \in SendOp : Counted({"timer", s})
  <2>1. ASSUME NEW s \in SendOp, Shape(io, {"timer"}, <<s>>)
        PROVE  Counted({"timer", s})
    <3>1. s \notin {"timer"} /\ {"timer", s} = {"timer"} \cup {s} /\ s \in Op
      OBVIOUS
    <3> QED BY <2>1, <3>1, CountedPhase
  <2>2. ASSUME NEW s \in SendOp, Shape(io, {}, <<s, "timer">>)
        PROVE  Counted({"timer", s})
    <3>1. s # "timer" /\ {"timer", s} = {s, "timer"} /\ s \in Op
      OBVIOUS
    <3> QED BY <2>2, <3>1, CountedPhase
  <2> QED BY <2>1, <2>2 DEF Ph
<1>7. \/ status = "ADDR_LOOKUP" /\ Counted({"resolve"})
      \/ status = "CONNECT" /\ open /\ Counted({"connect"})
      \/ status = "SEND_LOOP" /\ open /\ \E s \in SendOp : Counted({"receive", s})
      \/ status = "SEND_LOOP" /\ ~open /\ Counted({"receive"})
      \/ status = "ADDR_RETRY_WAIT" /\ ~open /\ Counted({"timer"})
      \/ status = "ADDR_RETRY_WAIT" /\ ~open /\ \E s \in SendOp : Counted({"timer", s})
  BY <1>1, <1>2, <1>3, <1>4, <1>5, <1>6, PhaseOf
<1>8. OneConnectionChain
  BY <1>7 DEF OneConnectionChain, Counted, ChainOp
<1>9. OneSendLoop
  BY <1>7 DEF OneSendLoop, Counted
<1>10. StatusMatchesOperation
  BY <1>7 DEF StatusMatchesOperation, Counted
<1> QED BY <1>8, <1>9, <1>10

\* Whatever fails and in whatever order the handlers run, exactly one operation
\* that keeps the connection going is outstanding (tryConnect, connectHandler,
\* receiveHandler, reConnect and doAddressQuery hand it to each other).
THEOREM OneChain == Spec => []OneConnectionChain
BY PhasesInvariant, PhaseCounts, PTL

\* trySendMessage() and sentMessageHandler() keep exactly one send loop running on
\* a connected socket, and never two.
THEOREM OneLoop == Spec => []OneSendLoop
BY PhasesInvariant, PhaseCounts, PTL

\* ConnectionState agrees with the operation the connection is waiting for.
THEOREM StatusCorrect == Spec => []StatusMatchesOperation
BY PhasesInvariant, PhaseCounts, PTL

-----------------------------------------------------------------------------
(* The characters that are moved and the addresses that are tried.             *)

(* Whether an async_write is outstanding in an io_service, and what changes it.   *)

WriteReady(ready) == \E i \in 1..Len(ready) : ready[i].op = "write"
Writes(a) == a.pending["write"] > 0 \/ WriteReady(a.ready)

LEMMA WritingIsWrites == ASSUME TypeOK PROVE Writing <=> Writes(io)
<1> DEFINE R == {i \in DOMAIN io.ready : io.ready[i].op = "write"}
<1>1. io \in IoType /\ "write" \in Op
  BY DEF TypeOK, IoType, Op, SendOp
<1>2. io.pending["write"] \in Nat /\ DOMAIN io.ready = 1..Len(io.ready)
      /\ Len(io.ready) \in Nat
  BY <1>1, LenProperties DEF IoType
<1>3. IsFiniteSet(R)
  <2>1. R \subseteq 1..Len(io.ready) /\ IsFiniteSet(1..Len(io.ready))
    BY <1>2, FS_Interval
  <2> HIDE DEF R
  <2> QED BY <2>1, FS_Subset
<1>4. Cardinality(R) \in Nat /\ (Cardinality(R) = 0 <=> R = {})
  BY <1>3, FS_CardinalityType, FS_EmptySet
<1>5. R # {} <=> WriteReady(io.ready)
  BY <1>2 DEF WriteReady
<1>6. Outstanding("write") = io.pending["write"] + Cardinality(R)
  BY DEF Outstanding
<1> HIDE DEF R
<1> QED BY <1>2, <1>4, <1>5, <1>6 DEF Writing, Writes

LEMMA AppendWrites ==
  ASSUME NEW ready \in Seq([op : Op, ok : BOOLEAN]), NEW c \in [op : Op, ok : BOOLEAN]
  PROVE  WriteReady(Append(ready, c)) <=> WriteReady(ready) \/ c.op = "write"
BY AppendProperties DEF WriteReady

LEMMA CompletedWrites ==
  ASSUME NEW ready \in Seq([op : Op, ok : BOOLEAN]), NEW op \in Op, NEW ok \in BOOLEAN
  PROVE  WriteReady(Append(ready, Completed(op, ok))) <=> WriteReady(ready) \/ op = "write"
<1>1. Completed(op, ok) \in [op : Op, ok : BOOLEAN] /\ Completed(op, ok).op = op
  BY DEF Completed
<1> QED BY <1>1, AppendWrites

LEMMA StartWrites ==
  ASSUME NEW a \in IoType, NEW op \in Op \ {"write"}
  PROVE  Writes(Start(a, op)) <=> Writes(a)
BY DEF Start, Service, Writes, IoType

LEMMA PostWrites ==
  ASSUME NEW a \in IoType, NEW op \in Op \ {"write"}, NEW ok \in BOOLEAN
  PROVE  Writes(Post(a, op, ok)) <=> Writes(a)
<1>1. WriteReady(Append(a.ready, Completed(op, ok))) <=> WriteReady(a.ready)
  BY CompletedWrites DEF IoType
<1> QED BY <1>1 DEF Post, Service, Writes

LEMMA CompleteWrites ==
  ASSUME NEW a \in IoType, NEW op \in Op, NEW ok \in BOOLEAN, a.pending[op] > 0
  PROVE  Writes(Complete(a, op, ok)) <=> Writes(a)
<1>1. WriteReady(Append(a.ready, Completed(op, ok))) <=> WriteReady(a.ready) \/ op = "write"
  BY CompletedWrites DEF IoType
<1>2. /\ a.pending \in [Op -> Nat] /\ "write" \in Op
      /\ Complete(a, op, ok).pending = [a.pending EXCEPT ![op] = @ - 1]
      /\ Complete(a, op, ok).ready = Append(a.ready, Completed(op, ok))
  BY DEF Complete, Service, IoType, Op, SendOp
<1>3. CASE op = "write"
  BY <1>1, <1>2, <1>3 DEF Writes
<1>4. CASE op # "write"
  BY <1>1, <1>2, <1>4 DEF Writes
<1> QED BY <1>3, <1>4

LEMMA AbortWrites ==
  ASSUME NEW a \in IoType, NEW op \in Op
  PROVE  Writes(Abort(a, op)) <=> Writes(a)
<1> DEFINE gone == [i \in 1..a.pending[op] |-> Completed(op, FALSE)]
<1>1. a.pending[op] \in Nat /\ a.ready \in Seq([op : Op, ok : BOOLEAN])
  BY DEF IoType
<1>2. gone \in Seq([op : Op, ok : BOOLEAN]) /\ Len(gone) = a.pending[op]
      /\ \A i \in 1..a.pending[op] : gone[i].op = op
  <2>1. Completed(op, FALSE) \in [op : Op, ok : BOOLEAN] /\ Completed(op, FALSE).op = op
    BY DEF Completed
  <2>2. gone \in [1..a.pending[op] -> [op : Op, ok : BOOLEAN]]
        /\ \A i \in 1..a.pending[op] : gone[i].op = op
    BY <2>1
  <2> HIDE DEF gone
  <2>3. gone \in Seq([op : Op, ok : BOOLEAN])
    BY <1>1, <2>2, SeqDef
  <2> QED BY <1>1, <2>2, <2>3, LenProperties
<1>3. WriteReady(a.ready \o gone) <=> WriteReady(a.ready) \/ (op = "write" /\ a.pending[op] > 0)
  <2> HIDE DEF gone
  <2> DEFINE n == Len(a.ready)
  <2>0. a.ready \in Seq([op : Op, ok : BOOLEAN]) /\ gone \in Seq([op : Op, ok : BOOLEAN])
    BY <1>1, <1>2
  <2>1. /\ n \in Nat /\ Len(a.ready \o gone) = n + a.pending[op]
        /\ \A i \in 1..(n + a.pending[op]) :
             (a.ready \o gone)[i] = IF i <= n THEN a.ready[i] ELSE gone[i - n]
    <3>1. Len(gone) = a.pending[op] /\ n \in Nat
      BY <1>2, <2>0, LenProperties
    <3> QED BY <2>0, <3>1, ConcatProperties
  <2>2. ASSUME WriteReady(a.ready \o gone)
        PROVE  WriteReady(a.ready) \/ (op = "write" /\ a.pending[op] > 0)
    BY <1>1, <1>2, <2>1, <2>2 DEF WriteReady
  <2>3. ASSUME WriteReady(a.ready) PROVE WriteReady(a.ready \o gone)
    BY <1>1, <2>1, <2>3 DEF WriteReady
  <2>4. ASSUME op = "write", a.pending[op] > 0 PROVE WriteReady(a.ready \o gone)
    <3>1. n + 1 \in 1..(n + a.pending[op]) /\ (a.ready \o gone)[n + 1] = gone[1]
      BY <1>1, <2>1, <2>4
    <3> QED BY <1>1, <1>2, <2>1, <2>4, <3>1 DEF WriteReady
  <2> QED BY <2>2, <2>3, <2>4
<1>4. Abort(a, op) = [pending |-> [a.pending EXCEPT ![op] = 0], ready |-> a.ready \o gone]
  BY DEF Abort, Service
<1> HIDE DEF gone
<1>5. a.pending \in [Op -> Nat] /\ "write" \in Op
  BY DEF IoType, Op, SendOp
<1> QED BY <1>3, <1>4, <1>5 DEF Writes

LEMMA OperatorWrites ==
  ASSUME NEW a \in IoType
  PROVE  /\ Writes(Close(a)) <=> Writes(a)
         /\ Writes(Wait(a)) <=> Writes(a)
         /\ \A isOpen \in BOOLEAN : Writes(Receive(a, isOpen)) <=> Writes(a)
<1>1. /\ "receive" \in Op \ {"write"} /\ "connect" \in Op \ {"write"}
      /\ "timer" \in Op \ {"write"} /\ "write" \in Op
  BY DEF Op, ChainOp, SendOp
<1>2. Writes(Close(a)) <=> Writes(a)
  BY <1>1, AbortType, AbortWrites DEF Close
<1>3. Writes(Wait(a)) <=> Writes(a)
  BY <1>1, AbortType, AbortWrites, StartWrites DEF Wait
<1>4. \A isOpen \in BOOLEAN : Writes(Receive(a, isOpen)) <=> Writes(a)
  BY <1>1, StartWrites, PostWrites DEF Receive
<1> QED BY <1>2, <1>3, <1>4

LEMMA RestWrites ==
  ASSUME io \in IoType, NEW op \in Op \ {"write"}, Runs(op)
  PROVE  Writes(Rest) <=> Writes(io)
<1>1. io.ready \in Seq([op : Op, ok : BOOLEAN]) /\ io.ready # << >> /\ io.ready[1].op = op
  BY DEF Runs, IoType
<1>2. /\ Len(io.ready) \in Nat \ {0} /\ Len(Tail(io.ready)) = Len(io.ready) - 1
      /\ \A i \in 1..Len(Tail(io.ready)) : Tail(io.ready)[i] = io.ready[i + 1]
  BY <1>1, HeadTailProperties, EmptySeq
<1>3. WriteReady(Tail(io.ready)) => WriteReady(io.ready)
  BY <1>2 DEF WriteReady
<1>4. ASSUME WriteReady(io.ready) PROVE WriteReady(Tail(io.ready))
  <2>1. PICK i \in 1..Len(io.ready) : io.ready[i].op = "write"
    BY <1>4 DEF WriteReady
  <2>2. i # 1
    BY <1>1, <2>1
  <2>3. i - 1 \in 1..Len(Tail(io.ready)) /\ Tail(io.ready)[i - 1] = io.ready[i]
    BY <1>2, <2>2
  <2> QED BY <2>1, <2>3 DEF WriteReady
<1> QED BY <1>3, <1>4 DEF Rest, Service, Writes

\* A connect handler and a posted trySendMessage() run while nothing is written.
LEMMA NotWriting ==
  ASSUME TypeOK, Phases, Runs("connect") \/ Runs("send")
  PROVE  ~Writes(io)
<1>1. "connect" \in Op /\ "send" \in Op /\ "send" \in SendOp
  BY DEF Op, ChainOp, SendOp
<1>2. ASSUME NEW S, NEW ops, Shape(io, S, ops), "write" \notin S,
             Len(ops) \in Nat, \A i \in 1..Len(ops) : ops[i] # "write"
      PROVE  ~Writes(io)
  <2>1. "write" \in Op
    BY DEF Op, SendOp
  <2> QED BY <1>2, <2>1 DEF Shape, Writes, WriteReady
<1>3. CASE Runs("connect")
  <2>1. Shape(io, {}, <<"connect">>)
    BY <1>1, <1>3, PhaseOfHandler DEF Ph
  <2> QED BY <1>2, <2>1
<1>4. CASE Runs("send")
  <2>1. \/ Shape(io, {"receive"}, <<"send">>)
        \/ Shape(io, {}, <<"send", "receive">>)
        \/ Shape(io, {"timer"}, <<"send">>)
        \/ Shape(io, {}, <<"send", "timer">>)
    BY <1>1, <1>4, PhaseOfHandler DEF Ph
  <2> QED BY <1>2, <2>1
<1> QED BY <1>3, <1>4

-----------------------------------------------------------------------------
(* The characters: put in MessageBuffer, accepted by the kernel, erased.        *)

DataOK == ProgressInBuffer /\ ByteStreamExact /\ BufferBounded

LEMMA UnsentValue ==
  ASSUME TypeOK
  PROVE  Unsent = IF Writes(io) THEN SubSeq(buffer, progress + 1, Len(buffer)) ELSE buffer
BY WritingIsWrites DEF Unsent

\* An operation that leaves the buffer and the outstanding write alone.
LEMMA DataKept ==
  ASSUME TypeOK, TypeOK', DataOK, UNCHANGED <<bufferVars, sent, progress>>,
         Writes(io') <=> Writes(io)
  PROVE  DataOK'
<1>1. UNCHANGED <<buffer, stream, sent, progress>>
  BY DEF bufferVars
<1>2. Writing' <=> Writes(io')
  <2>1. TypeOK' => (Writing' <=> Writes(io)')
    BY WritingIsWrites, PTL
  <2> QED BY <2>1 DEF Writes, WriteReady
<1>3. Unsent' = Unsent
  BY <1>1, <1>2, WritingIsWrites DEF Unsent
<1> QED BY <1>1, <1>3 DEF DataOK, ProgressInBuffer, ByteStreamExact, BufferBounded

\* A handler that leaves everything in the buffer to be sent from its start.
LEMMA DataRestarted ==
  ASSUME TypeOK', progress' = 0, stream' = sent' \o buffer',
         Len(buffer') <= MessageAdditionLimit + FrameLen
  PROVE  DataOK'
<1>1. buffer' \in Seq(Byte)
  BY DEF TypeOK
<1>2. SubSeq(buffer', progress' + 1, Len(buffer')) = buffer' /\ Len(buffer') \in Nat
  BY <1>1, SubSeqFull, LenProperties
<1>3. Unsent' = buffer'
  BY <1>2 DEF Unsent
<1> QED BY <1>2, <1>3 DEF DataOK, ProgressInBuffer, ByteStreamExact, BufferBounded

LEMMA TrySendData ==
  ASSUME TypeOK, NEW a, NEW b \in Seq(Byte), TrySendMessage(a, b),
         stream = sent \o b, Len(b) <= MessageAdditionLimit + FrameLen
  PROVE  /\ progress' = 0 /\ stream' = sent \o buffer'
         /\ Len(buffer') <= MessageAdditionLimit + FrameLen
<1>1. progress' = 0
  BY DEF TrySendMessage
<1>2. \/ buffer' = b /\ stream' = stream
      \/ /\ MayAdd(b)
         /\ \E m \in Message : buffer' = b \o Frame(m) /\ stream' = stream \o Frame(m)
  BY DEF TrySendMessage
<1>3. ASSUME MayAdd(b), NEW m \in Message,
             buffer' = b \o Frame(m), stream' = stream \o Frame(m)
      PROVE  stream' = sent \o buffer' /\ Len(buffer') <= MessageAdditionLimit + FrameLen
  <2>1. Frame(m) \in Seq(Byte) /\ sent \in Seq(Byte)
    BY FrameType DEF TypeOK
  <2>2. Len(Frame(m)) = FrameLen
    <3>1. DOMAIN Frame(m) = 1..FrameLen /\ FrameLen \in Nat
      BY CountAssumption DEF Frame
    <3>2. DOMAIN Frame(m) = 1..Len(Frame(m)) /\ Len(Frame(m)) \in Nat
      BY <2>1, LenProperties
    <3> QED BY <3>1, <3>2
  <2>3. (sent \o b) \o Frame(m) = sent \o (b \o Frame(m))
    BY <2>1, ConcatAssociative
  <2>4. Len(b \o Frame(m)) = Len(b) + FrameLen /\ Len(b) \in Nat
    BY <2>1, <2>2, ConcatProperties, LenProperties
  <2> QED BY <1>3, <2>3, <2>4, CountAssumption DEF MayAdd
<1> QED BY <1>1, <1>2, <1>3

LEMMA ErasedIsSubSeq ==
  ASSUME NEW b \in Seq(Byte), NEW n \in Nat, n <= Len(b)
  PROVE  /\ Erased(b, n) = SubSeq(b, n + 1, Len(b))
         /\ Len(Erased(b, n)) <= Len(b)
<1>1. Len(b) \in Nat /\ \A i \in (n + 1)..Len(b) : b[i] \in Byte
  BY LenProperties, ElementOfSeq
<1>2. CASE n = Len(b)
  <2>1. SubSeq(b, n + 1, Len(b)) = << >>
    BY <1>1, <1>2, SubSeqEmpty
  <2> QED BY <1>1, <1>2, <2>1 DEF Erased
<1>3. CASE n # Len(b)
  BY <1>1, <1>3, SubSeqProperties DEF Erased
<1> QED BY <1>2, <1>3

\* When a write's handler runs, what it leaves in MessageBuffer is what is not sent.
LEMMA WrittenIsErased ==
  ASSUME TypeOK, DataOK, Runs("write")
  PROVE  stream = sent \o Erased(buffer, progress)
<1>1. Writes(io)
  <2>1. io.ready \in Seq([op : Op, ok : BOOLEAN]) /\ io.ready # << >>
        /\ io.ready[1].op = "write"
    BY DEF Runs, TypeOK
  <2>2. 1 \in 1..Len(io.ready)
    BY <2>1, EmptySeq
  <2> QED BY <2>1, <2>2 DEF Writes, WriteReady
<1>2. /\ buffer \in Seq(Byte) /\ progress \in Nat /\ progress <= Len(buffer)
      /\ stream = sent \o SubSeq(buffer, progress + 1, Len(buffer))
  BY <1>1, UnsentValue DEF DataOK, ByteStreamExact, ProgressInBuffer, TypeOK
<1> QED BY <1>2, ErasedIsSubSeq

LEMMA KernelData ==
  ASSUME TypeOK, TypeOK', DataOK, KernelAccepts
  PROVE  DataOK'
<1> DEFINE rest == SubSeq(buffer, progress + 2, Len(buffer))
<1>1. /\ buffer \in Seq(Byte) /\ sent \in Seq(Byte) /\ progress \in Nat
      /\ Len(buffer) \in Nat /\ progress + 1 \in 1..Len(buffer)
      /\ buffer[progress + 1] \in Byte
  BY LenProperties, ElementOfSeq DEF TypeOK, KernelAccepts
<1>2. /\ UNCHANGED <<io, buffer, stream>> /\ progress' = progress + 1
      /\ sent' = Append(sent, buffer[progress + 1])
  BY DEF KernelAccepts, outsideVars, bufferVars
<1>3. Writing /\ Writing'
  <2>1. Writes(io)
    BY DEF KernelAccepts, Pending, Writes
  <2>2. Writing' = Writing
    BY <1>2 DEF Writing, Outstanding
  <2> QED BY <2>1, <2>2, WritingIsWrites
<1>4. SubSeq(buffer, progress + 1, Len(buffer)) = <<buffer[progress + 1]>> \o rest
  <2>1. Len(buffer) \in (progress + 1)..Len(buffer)
    BY <1>1
  <2>2. SubSeq(buffer, progress + 1, Len(buffer))
          = <<buffer[progress + 1]>> \o SubSeq(buffer, (progress + 1) + 1, Len(buffer))
    BY <1>1, <2>1, SubSeqRecursiveFirst
  <2>3. (progress + 1) + 1 = progress + 2
    BY <1>1
  <2> QED BY <2>2, <2>3
<1>5. rest \in Seq(Byte) /\ <<buffer[progress + 1]>> \in Seq(Byte)
  <2>1. \A i \in (progress + 2)..Len(buffer) : buffer[i] \in Byte
    BY <1>1, ElementOfSeq
  <2>2. rest \in Seq(Byte)
    BY <1>1, <2>1, SubSeqProperties
  <2> QED BY <1>1, <2>2
<1>6. stream = sent \o (<<buffer[progress + 1]>> \o rest)
  BY <1>3, <1>4 DEF DataOK, ByteStreamExact, Unsent
<1>7. sent' = sent \o <<buffer[progress + 1]>>
  BY <1>1, <1>2, AppendIsConcat
<1> HIDE DEF rest
<1>8. stream' = sent' \o rest
  <2> DEFINE b == <<buffer[progress + 1]>>
  <2>1. (sent \o b) \o rest = sent \o (b \o rest)
    <3> HIDE DEF b
    <3> QED BY <1>1, <1>5, ConcatAssociative DEF b
  <2> QED BY <1>2, <1>6, <1>7, <2>1
<1>9. Unsent' = rest
  <2>1. (progress + 1) + 1 = progress + 2
    BY <1>1
  <2> QED BY <1>2, <1>3, <2>1 DEF Unsent, rest
<1> QED BY <1>1, <1>2, <1>8, <1>9
        DEF DataOK, ProgressInBuffer, ByteStreamExact, BufferBounded

LEMMA HandlerData ==
  ASSUME TypeOK, TypeOK', Phases, DataOK, RunHandler
  PROVE  DataOK'
<1> USE DEF netVars
<1>0. /\ io \in IoType /\ open \in BOOLEAN
      /\ "resolve" \in Op \ {"write"} /\ "connect" \in Op \ {"write"}
      /\ "timer" \in Op \ {"write"} /\ "receive" \in Op \ {"write"}
      /\ "send" \in Op \ {"write"} /\ "write" \in Op
  BY DEF TypeOK, IoType, Op, ChainOp, SendOp
<1>1. ASSUME NEW op \in Op, Runs(op) PROVE Rest \in IoType
  BY <1>0, <1>1, RestType DEF Runs
<1>2. ASSUME NEW op \in Op \ {"write"}, Runs(op),
             UNCHANGED <<bufferVars, sent, progress>>,
             \/ Writes(io') <=> Writes(Rest)
             \/ \E c \in IoType : /\ Writes(c) <=> Writes(Rest)
                                  /\ Writes(io') <=> Writes(c)
      PROVE  DataOK'
  BY <1>0, <1>2, RestWrites, DataKept
<1>3. CASE ResolverHandler
  BY <1>0, <1>1, <1>2, <1>3, OperatorWrites, StartWrites
     DEF ResolverHandler, ReConnect, TryConnect
<1>4. CASE ConnectHandlerError
  BY <1>0, <1>1, <1>2, <1>4, CloseType, OperatorWrites, StartWrites
     DEF ConnectHandlerError, ReConnect, TryConnect
<1>5. CASE TimerHandler
  BY <1>0, <1>1, <1>2, <1>5, StartWrites DEF TimerHandler, DoAddressQuery
<1>6. CASE ReceiveHandler
  BY <1>0, <1>1, <1>2, <1>6, CloseType, OperatorWrites DEF ReceiveHandler, ReConnect
<1>7. ASSUME NEW a, NEW b \in Seq(Byte), TrySendMessage(a, b), stream = sent \o b,
             Len(b) <= MessageAdditionLimit + FrameLen, sent' = sent
      PROVE  DataOK'
  BY <1>7, TrySendData, DataRestarted
<1>8. CASE ConnectHandlerOk \/ PostedSend
  <2>1. ~Writes(io)
    BY <1>8, NotWriting DEF ConnectHandlerOk, PostedSend
  <2>2. /\ stream = sent \o buffer /\ buffer \in Seq(Byte)
        /\ Len(buffer) <= MessageAdditionLimit + FrameLen
    BY <2>1, UnsentValue DEF DataOK, ByteStreamExact, BufferBounded, TypeOK
  <2>3. \E a : TrySendMessage(a, buffer) /\ sent' = sent
    BY <1>8 DEF ConnectHandlerOk, PostedSend
  <2> QED BY <1>7, <2>2, <2>3
<1>9. CASE SentMessageHandler
  <2>2. /\ buffer \in Seq(Byte) /\ progress \in Nat /\ progress <= Len(buffer)
        /\ Len(buffer) <= MessageAdditionLimit + FrameLen
    BY DEF DataOK, BufferBounded, ProgressInBuffer, TypeOK
  <2> DEFINE b == Erased(buffer, progress)
  <2>3. b \in Seq(Byte) /\ stream = sent \o b
    BY <1>9, <2>2, WrittenIsErased, ErasedType DEF SentMessageHandler
  <2>4. Len(b) <= MessageAdditionLimit + FrameLen
    <3>1. Len(b) <= Len(buffer) /\ Len(b) \in Nat /\ Len(buffer) \in Nat
      BY <2>2, <2>3, ErasedIsSubSeq, LenProperties
    <3> QED BY <2>2, <3>1, CountAssumption
  <2>5. CASE Error
    <3>1. buffer' = b /\ progress' = 0 /\ stream' = stream /\ sent' = sent
      BY <1>9, <2>5 DEF SentMessageHandler
    <3> QED BY <2>3, <2>4, <3>1, DataRestarted
  <2>6. CASE ~Error
    <3>1. TrySendMessage(Rest, b) /\ sent' = sent
      BY <1>9, <2>6 DEF SentMessageHandler
    <3> QED BY <1>7, <2>3, <2>4, <3>1
  <2> QED BY <2>5, <2>6
<1> QED BY <1>3, <1>4, <1>5, <1>6, <1>8, <1>9 DEF RunHandler

LEMMA NetworkData ==
  ASSUME TypeOK, TypeOK', DataOK, Network
  PROVE  DataOK'
<1> USE DEF netVars, outsideVars
<1>0. /\ io \in IoType
      /\ "resolve" \in Op /\ "connect" \in Op /\ "timer" \in Op
      /\ "receive" \in Op /\ "write" \in Op
  BY DEF TypeOK, IoType, Op, ChainOp, SendOp
<1>1. ASSUME NEW op \in Op, NEW ok \in BOOLEAN, Pending(op), io' = Complete(io, op, ok),
             UNCHANGED <<bufferVars, sent, progress>>
      PROVE  DataOK'
  BY <1>0, <1>1, CompleteWrites, DataKept DEF Pending
<1>2. CASE \E ok \in BOOLEAN : ResolveDone(ok) \/ ConnectDone(ok)
  BY <1>0, <1>1, <1>2 DEF ResolveDone, ConnectDone
<1>3. CASE TimerFires \/ WriteDone \/ WriteFails \/ ReceiveData \/ ReceiveFails
  BY <1>0, <1>1, <1>3 DEF TimerFires, WriteDone, WriteFails, ReceiveData, ReceiveFails
<1>4. CASE KernelAccepts
  BY <1>4, KernelData
<1>5. CASE PeerGone
  BY <1>5, DataKept DEF PeerGone
<1> QED BY <1>2, <1>3, <1>4, <1>5 DEF Network

LEMMA NextData ==
  ASSUME TypeOK, TypeOK', Phases, DataOK, [Next]_vars
  PROVE  DataOK'
<1>1. CASE Application
  BY <1>1, DataKept
     DEF Application, SendMessage, FlushBegin, FlushReady, FlushTimeOut, Destroy, netVars
<1>2. CASE UNCHANGED vars
  BY <1>2, DataKept DEF vars, netVars
<1> QED BY <1>1, <1>2, HandlerData, NetworkData DEF Next

LEMMA InitData == Init => DataOK
<1> SUFFICES ASSUME Init PROVE DataOK
  OBVIOUS
<1>1. ~Writes(io)
  BY DEF Init, Service, Writes, WriteReady, Op, SendOp
<1>2. Unsent = buffer
  BY <1>1, InitType, UnsentValue
<1>3. << >> \o << >> = << >> /\ Len(<< >>) = 0
  OBVIOUS
<1> QED BY <1>2, <1>3, CountAssumption
        DEF Init, DataOK, ProgressInBuffer, ByteStreamExact, BufferBounded

LEMMA DataInvariant == Spec => [](TypeOK /\ Phases /\ DataOK)
<1>1. TypeOK /\ TypeOK' /\ Phases /\ DataOK /\ [Next]_vars => DataOK'
  BY NextData
<1> QED BY <1>1, InitData, PhasesInvariant, PTL DEF Spec

\* For every limit, frame length, number of threads and failure: what the kernel
\* has accepted followed by what MessageBuffer still has to give is exactly what
\* was ever put there (trySendMessage, sentMessageHandler).
THEOREM StreamIsExact == Spec => []ByteStreamExact
BY DataInvariant, PTL DEF DataOK

\* MessageBuffer never exceeds MessageAdditionLimit by more than one message.
THEOREM BufferIsBounded == Spec => []BufferBounded
BY DataInvariant, PTL DEF DataOK

-----------------------------------------------------------------------------
(* The buffer of an outstanding write. *)

LEMMA NotPendingWrite ==
  ASSUME TypeOK, Phases, Runs("connect") \/ Runs("send") \/ Runs("write")
  PROVE  ~Pending("write")
<1>1. "connect" \in Op /\ SendOp \subseteq Op /\ "send" \in SendOp /\ "write" \in SendOp
  BY DEF Op, ChainOp, SendOp
<1>2. \A S, ops : Shape(io, S, ops) /\ "write" \notin S => ~Pending("write")
  BY <1>1 DEF Shape, Pending
<1>3. ASSUME Runs("connect") PROVE ~Pending("write")
  <2>1. Shape(io, {}, <<"connect">>)
    BY <1>1, <1>3, PhaseOfHandler DEF Ph
  <2> QED BY <1>2, <2>1
<1>4. ASSUME NEW op \in SendOp, Runs(op) PROVE ~Pending("write")
  <2>1. \/ Shape(io, {"receive"}, <<op>>)
        \/ Shape(io, {}, <<op, "receive">>)
        \/ Shape(io, {"timer"}, <<op>>)
        \/ Shape(io, {}, <<op, "timer">>)
    BY <1>1, <1>4, PhaseOfHandler DEF Ph
  <2>2. "write" \notin {} /\ "write" \notin {"receive"} /\ "write" \notin {"timer"}
    OBVIOUS
  <2> QED BY <1>2, <2>1, <2>2
<1> QED BY <1>1, <1>3, <1>4

LEMMA StepKeepsWritten ==
  ASSUME TypeOK, Phases, [Next]_vars, Pending("write")
  PROVE  buffer' = buffer
<1>1. ~ConnectHandlerOk /\ ~PostedSend /\ ~SentMessageHandler
  BY NotPendingWrite DEF ConnectHandlerOk, PostedSend, SentMessageHandler
<1>2. CASE RunHandler
  BY <1>1, <1>2 DEF RunHandler, ResolverHandler, ConnectHandlerError, TimerHandler,
     ReceiveHandler, bufferVars
<1>3. CASE Application
  BY <1>3 DEF Application, SendMessage, FlushBegin, FlushReady, FlushTimeOut, Destroy,
     bufferVars
<1>4. CASE Network
  BY <1>4 DEF Network, ResolveDone, ConnectDone, TimerFires, KernelAccepts, WriteDone,
     WriteFails, ReceiveData, ReceiveFails, PeerGone, outsideVars, bufferVars
<1>5. CASE UNCHANGED vars
  BY <1>5 DEF vars, bufferVars
<1> QED BY <1>2, <1>3, <1>4, <1>5 DEF Next

\* async_write() is given a view of MessageBuffer: no handler that may run while it
\* is outstanding changes the buffer.
THEOREM WriteIsUndisturbed == Spec => BufferUntouchedInWrite
<1>1. TypeOK /\ Phases /\ [Next]_vars => [Pending("write") => buffer' = buffer]_vars
  BY StepKeepsWritten
<1> QED BY <1>1, PhasesInvariant, PTL DEF Spec, BufferUntouchedInWrite

-----------------------------------------------------------------------------
(* The addresses of one answer. *)

\* While the connection connects, the addresses tried are the first of the answer.
EndpointsOK ==
  /\ EndpointsInOrder
  /\ status = "ADDR_LOOKUP" => tried = << >>
  /\ status = "CONNECT" => /\ endpoints \in EndpointLists
                           /\ next \in 1..Len(endpoints)
                           /\ tried = SubSeq(endpoints, 1, next)

LEMMA EndpointListProperties ==
  ASSUME NEW list \in EndpointLists
  PROVE  /\ list \in Seq(Endpoint) /\ Len(list) \in Nat \ {0}
         /\ \A i \in 1..Len(list) : list[i] \in Endpoint
         /\ \A i, j \in 1..Len(list) :
              i < j => list[i] # list[j] /\ (list[i] \in V6 => list[j] \in V6)
<1>1. PICK S \in (SUBSET Endpoint) \ {{}} : list \in Permutations(S)
  BY DEF EndpointLists
<1>2. Cardinality(S) \in Nat \ {0}
  BY EndpointAssumption, FS_Subset, FS_CardinalityType, FS_EmptySet
<1>3. list \in Seq(Endpoint) /\ DOMAIN list = 1..Len(list) /\ Len(list) \in Nat
  BY EndpointListType, LenProperties
<1>4. DOMAIN list = 1..Cardinality(S)
  BY <1>1 DEF Permutations
<1>5. Len(list) # 0
  BY <1>2, <1>3, <1>4
<1>6. \A i, j \in DOMAIN list : /\ i < j => (list[i] \in V6 => list[j] \in V6)
                                /\ list[i] = list[j] => i = j
  BY <1>1 DEF EndpointLists, Sorted, Permutations
<1>7. \A i \in 1..Len(list) : list[i] \in Endpoint
  BY <1>3, ElementOfSeq
<1>8. \A i, j \in 1..Len(list) :
        i < j => list[i] # list[j] /\ (list[i] \in V6 => list[j] \in V6)
  BY <1>3, <1>6
<1> QED BY <1>3, <1>5, <1>7, <1>8

\* tryConnect() while there is an address left to try.
LEMMA TryConnectEndpoints ==
  ASSUME NEW a, NEW list \in EndpointLists, NEW n \in Nat, n < Len(list),
         tried = SubSeq(list, 1, n), TryConnect(a, list, n)
  PROVE  EndpointsOK'
<1>1. /\ list \in Seq(Endpoint) /\ Len(list) \in Nat
      /\ \A i \in 1..Len(list) : list[i] \in Endpoint
  BY EndpointListProperties
<1>2. /\ endpoints' = list /\ next' = n + 1 /\ status' = "CONNECT"
      /\ tried' = Append(tried, list[n + 1]) /\ n + 1 \in 1..Len(list)
  BY <1>1 DEF TryConnect
<1>3. /\ tried' \in Seq(Endpoint) /\ Len(tried') = n + 1
      /\ \A i \in 1..(n + 1) : tried'[i] = list[i]
  <2>1. /\ tried \in Seq(Endpoint) /\ Len(tried) = n
        /\ \A i \in 1..n : tried[i] = list[i]
    BY <1>1, SubSeqProperties
  <2>2. list[n + 1] \in Endpoint
    BY <1>1, <1>2
  <2> QED BY <1>2, <2>1, <2>2, AppendProperties
<1>4. tried' = SubSeq(list, 1, n + 1)
  <2> DEFINE head == SubSeq(list, 1, n + 1)
  <2>1. /\ head \in Seq(Endpoint) /\ Len(head) = n + 1
        /\ \A i \in 1..(n + 1) : head[i] = list[i]
    BY <1>1, <1>2, SubSeqProperties
  <2> HIDE DEF head
  <2>2. tried' = head
    BY <1>3, <2>1, SeqEqual
  <2> QED BY <2>2 DEF head
<1>5. EndpointsInOrder'
  <2>1. DOMAIN tried' = 1..(n + 1) /\ 1..(n + 1) \subseteq 1..Len(list)
    BY <1>1, <1>2, <1>3, LenProperties
  <2>2. \A i, j \in 1..(n + 1) :
          i < j => list[i] # list[j] /\ (list[i] \in V6 => list[j] \in V6)
    BY <2>1, EndpointListProperties
  <2>3. \A i \in 1..(n + 1) : tried'[i] # NoEndpoint
    BY <1>1, <1>3, <2>1, EndpointAssumption
  <2> QED BY <1>3, <2>1, <2>2, <2>3 DEF EndpointsInOrder
<1> QED BY <1>2, <1>4, <1>5 DEF EndpointsOK

LEMMA InitEndpoints == Init => EndpointsOK
BY DEF Init, EndpointsOK, EndpointsInOrder

\* A step that leaves the addresses alone and does not start to connect.
LEMMA EndpointsKept ==
  ASSUME EndpointsOK, UNCHANGED endpointVars,
         status' = status \/ status' \in {"SEND_LOOP", "ADDR_RETRY_WAIT"}
  PROVE  EndpointsOK'
BY DEF EndpointsOK, EndpointsInOrder, endpointVars

\* The step of a connection attempt that failed: the next address, or the wait.
LEMMA ConnectErrorEndpoints ==
  ASSUME TypeOK, Phases, EndpointsOK, ConnectHandlerError
  PROVE  /\ EndpointsOK'
         /\ status' = "ADDR_RETRY_WAIT" => tried = endpoints
<1>1. status = "CONNECT"
  BY PhaseOfHandler DEF ConnectHandlerError, Op, ChainOp, Ph
<1>2. /\ endpoints \in EndpointLists /\ next \in 1..Len(endpoints)
      /\ tried = SubSeq(endpoints, 1, next)
      /\ endpoints \in Seq(Endpoint) /\ Len(endpoints) \in Nat
  BY <1>1, EndpointListProperties DEF EndpointsOK
<1>3. CASE IsDone(endpoints, next)
  <2>1. tried = endpoints
    BY <1>2, <1>3, SubSeqFull DEF IsDone
  <2>2. UNCHANGED endpointVars /\ status' = "ADDR_RETRY_WAIT"
    BY <1>3 DEF ConnectHandlerError, ReConnect
  <2> QED BY <2>1, <2>2, EndpointsKept
<1>4. CASE ~IsDone(endpoints, next)
  <2>1. TryConnect(Close(Rest), endpoints, next) /\ next < Len(endpoints)
    BY <1>2, <1>4 DEF ConnectHandlerError, IsDone
  <2>2. status' = "CONNECT"
    BY <2>1 DEF TryConnect
  <2> QED BY <1>2, <2>1, <2>2, TryConnectEndpoints
<1> QED BY <1>3, <1>4

LEMMA NextEndpoints ==
  ASSUME TypeOK, Phases, EndpointsOK, [Next]_vars
  PROVE  /\ EndpointsOK'
         /\ status = "CONNECT" /\ status' = "ADDR_RETRY_WAIT" => tried = endpoints
<1>0. /\ "resolve" \in Op /\ "connect" \in Op /\ "timer" \in Op /\ "receive" \in Op
      /\ "write" \in Op /\ "send" \in Op
  BY DEF Op, ChainOp, SendOp
<1>1. ASSUME UNCHANGED <<endpointVars, status>>
      PROVE  EndpointsOK' /\ status' = status
  BY <1>1, EndpointsKept
<1>2. CASE ResolverHandler
  <2>1. status = "ADDR_LOOKUP" /\ tried = << >>
    BY <1>0, <1>2, PhaseOfHandler DEF ResolverHandler, Ph, EndpointsOK
  <2>2. CASE ReConnect(Rest) /\ UNCHANGED <<endpointVars, open>>
    BY <2>1, <2>2, EndpointsKept DEF ReConnect
  <2>3. ASSUME NEW list \in EndpointLists, TryConnect(Rest, list, 0)
        PROVE  EndpointsOK'
    <3>1. list \in Seq(Endpoint) /\ 0 < Len(list) /\ SubSeq(list, 1, 0) = << >>
      BY EndpointListProperties, SubSeqEmpty
    <3> QED BY <2>1, <2>3, <3>1, TryConnectEndpoints
  <2> QED BY <1>2, <2>1, <2>2, <2>3 DEF ResolverHandler
<1>3. CASE ConnectHandlerOk
  <2>1. UNCHANGED endpointVars /\ status' = "SEND_LOOP"
    BY <1>3 DEF ConnectHandlerOk
  <2> QED BY <2>1, EndpointsKept
<1>4. CASE ConnectHandlerError
  BY <1>4, ConnectErrorEndpoints
<1>5. CASE TimerHandler
  BY <1>5 DEF TimerHandler, DoAddressQuery, EndpointsOK, EndpointsInOrder
<1>6. CASE ReceiveHandler
  <2>1. status = "SEND_LOOP"
    BY <1>0, <1>6, PhaseOfHandler DEF ReceiveHandler, Ph
  <2>2. UNCHANGED endpointVars /\ status' \in {"ADDR_RETRY_WAIT", status}
    BY <1>6 DEF ReceiveHandler, ReConnect
  <2> QED BY <2>1, <2>2, EndpointsKept
<1>7. CASE PostedSend \/ SentMessageHandler
  BY <1>1, <1>7 DEF PostedSend, SentMessageHandler
<1>8. CASE Application
  BY <1>1, <1>8
     DEF Application, SendMessage, FlushBegin, FlushReady, FlushTimeOut, Destroy
<1>9. CASE Network
  BY <1>1, <1>9 DEF Network, ResolveDone, ConnectDone, TimerFires, KernelAccepts,
     WriteDone, WriteFails, ReceiveData, ReceiveFails, PeerGone, outsideVars
<1>10. CASE UNCHANGED vars
  BY <1>1, <1>10 DEF vars
<1> QED BY <1>2, <1>3, <1>4, <1>5, <1>6, <1>7, <1>8, <1>9, <1>10 DEF Next, RunHandler

LEMMA EndpointsInvariant == Spec => [](TypeOK /\ Phases /\ EndpointsOK)
<1>1. TypeOK /\ Phases /\ EndpointsOK /\ [Next]_vars => EndpointsOK'
  BY NextEndpoints
<1> QED BY <1>1, InitEndpoints, PhasesInvariant, PTL DEF Spec

\* For every answer of the resolver: no address is tried twice, none after one of
\* IPv6 that is not, and never the default-constructed one (tryConnect).
THEOREM EndpointOrder == Spec => []EndpointsInOrder
BY EndpointsInvariant, PTL DEF EndpointsOK

\* connectHandler() starts to wait only when every address of the answer failed.
THEOREM WaitsLast == Spec => WaitsOnlyWhenExhausted
<1>1. TypeOK /\ Phases /\ EndpointsOK /\ [Next]_vars
      => [status = "CONNECT" /\ status' = "ADDR_RETRY_WAIT" => tried = endpoints]_vars
  BY NextEndpoints
<1> QED BY <1>1, EndpointsInvariant, PTL DEF Spec, WaitsOnlyWhenExhausted

-----------------------------------------------------------------------------
(* The implementation of MessagePipe, and the flushes: a flush that was          *)
(* answered came after everything that its thread had queued.                    *)

(* Taking the oldest item of a thread's subqueue, and adding one at its end.    *)

LEMMA TakenItems ==
  ASSUME TypeOK, NEW t \in Waiting(queue), queue' = Dequeue(queue, t)
  PROVE  /\ t \in Thread /\ 1 \in DOMAIN queue[t]
         /\ Oldest(queue, t) = queue[t][1]
         /\ \A u \in Thread \ {t} : queue'[u] = queue[u]
         /\ \A i \in DOMAIN queue'[t] : /\ i + 1 \in DOMAIN queue[t] /\ i \in Nat \ {0}
                                        /\ queue'[t][i] = queue[t][i + 1]
         /\ \A i \in DOMAIN queue[t] : i \in Nat \ {0}
         /\ \A i \in DOMAIN queue[t] \ {1} : i - 1 \in DOMAIN queue'[t]
<1>1. t \in Thread /\ queue[t] \in Seq(Message \cup FlushCall) /\ queue[t] # << >>
  BY QueueTaken
<1>2. /\ Len(queue[t]) \in Nat \ {0} /\ DOMAIN queue[t] = 1..Len(queue[t])
      /\ Tail(queue[t]) \in Seq(Message \cup FlushCall)
      /\ Len(Tail(queue[t])) = Len(queue[t]) - 1
      /\ \A i \in 1..Len(Tail(queue[t])) : Tail(queue[t])[i] = queue[t][i + 1]
  BY <1>1, EmptySeq, LenProperties, HeadTailProperties
<1>3. DOMAIN Tail(queue[t]) = 1..Len(Tail(queue[t]))
  BY <1>2, LenProperties
<1>4. queue'[t] = Tail(queue[t]) /\ \A u \in Thread \ {t} : queue'[u] = queue[u]
  BY <1>1 DEF Dequeue, TypeOK
<1>5. Oldest(queue, t) = queue[t][1]
  BY <1>1 DEF Oldest
<1> QED BY <1>1, <1>2, <1>3, <1>4, <1>5

LEMMA AddedItems ==
  ASSUME TypeOK, NEW t \in Thread, NEW item \in Message \cup FlushCall,
         queue' = Enqueue(queue, t, item)
  PROVE  /\ \A u \in Thread \ {t} : queue'[u] = queue[u]
         /\ Len(queue[t]) \in Nat /\ DOMAIN queue[t] = 1..Len(queue[t])
         /\ DOMAIN queue'[t] = 1..(Len(queue[t]) + 1)
         /\ \A i \in DOMAIN queue[t] : queue'[t][i] = queue[t][i]
         /\ queue'[t][Len(queue[t]) + 1] = item
<1>1. queue[t] \in Seq(Message \cup FlushCall)
  BY DEF TypeOK
<1>2. Len(queue[t]) \in Nat /\ DOMAIN queue[t] = 1..Len(queue[t])
  BY <1>1, LenProperties
<1>3. queue'[t] = Append(queue[t], item) /\ \A u \in Thread \ {t} : queue'[u] = queue[u]
  BY DEF Enqueue, TypeOK
<1>4. /\ Append(queue[t], item) \in Seq(Message \cup FlushCall)
      /\ Len(Append(queue[t], item)) = Len(queue[t]) + 1
      /\ \A i \in 1..Len(queue[t]) : Append(queue[t], item)[i] = queue[t][i]
      /\ Append(queue[t], item)[Len(queue[t]) + 1] = item
  BY <1>1, AppendProperties
<1>5. DOMAIN Append(queue[t], item) = 1..(Len(queue[t]) + 1)
  BY <1>4, LenProperties
<1> QED BY <1>2, <1>3, <1>4, <1>5

\* What a message adds to the stream.
LEMMA FramedStream ==
  ASSUME TypeOK, NEW m \in Message, stream' = stream \o Frame(m)
  PROVE  /\ \A i \in DOMAIN stream : i \in DOMAIN stream' /\ stream'[i] = stream[i]
         /\ \A i \in DOMAIN stream' \ DOMAIN stream : stream'[i].msg = m
         /\ \E i \in DOMAIN stream' : stream'[i].msg = m
<1> DEFINE n == Len(stream)
<1>1. /\ stream \in Seq(Byte) /\ Frame(m) \in Seq(Byte) /\ n \in Nat
      /\ DOMAIN stream = 1..n
  BY FrameType, LenProperties DEF TypeOK
<1>2. /\ Len(Frame(m)) = FrameLen /\ FrameLen \in Nat \ {0}
      /\ \A i \in 1..FrameLen : Frame(m)[i].msg = m
  <2>1. DOMAIN Frame(m) = 1..FrameLen /\ FrameLen \in Nat \ {0}
    BY CountAssumption DEF Frame
  <2>2. DOMAIN Frame(m) = 1..Len(Frame(m)) /\ Len(Frame(m)) \in Nat
    BY <1>1, LenProperties
  <2> QED BY <2>1, <2>2 DEF Frame
<1>3. /\ stream' \in Seq(Byte) /\ Len(stream') = n + FrameLen
      /\ \A i \in 1..(n + FrameLen) :
           stream'[i] = IF i <= n THEN stream[i] ELSE Frame(m)[i - n]
  BY <1>1, <1>2, ConcatProperties
<1>4. DOMAIN stream' = 1..(n + FrameLen)
  BY <1>3, LenProperties
<1> HIDE DEF n
<1>5. ASSUME NEW i \in DOMAIN stream PROVE i \in DOMAIN stream' /\ stream'[i] = stream[i]
  BY <1>1, <1>2, <1>3, <1>4
<1>6. ASSUME NEW i \in DOMAIN stream' \ DOMAIN stream PROVE stream'[i].msg = m
  <2>1. i - n \in 1..FrameLen /\ stream'[i] = Frame(m)[i - n]
    BY <1>1, <1>2, <1>3, <1>4
  <2> QED BY <1>2, <2>1
<1>7. n + 1 \in DOMAIN stream' \ DOMAIN stream
  BY <1>1, <1>2, <1>4
<1> QED BY <1>5, <1>6, <1>7

-----------------------------------------------------------------------------
(* The order of each thread's messages. *)

OrderOK == QueueOrdered /\ StreamCounted

\* One subqueue's part of QueueOrdered, with the thread's count and the stream.
Ordered(q, t, n, s) == \A i \in DOMAIN q : q[i] \in Message =>
  /\ q[i][1] = t /\ q[i][2] <= n /\ Pipe!Newer(q[i], s)
  /\ \A j \in DOMAIN q : i < j /\ q[j] \in Message => q[i][2] < q[j][2]

LEMMA QueueOrderedParts ==
  /\ QueueOrdered <=> \A t \in Thread : Ordered(queue[t], t, count[t], stream)
  /\ QueueOrdered' <=> \A t \in Thread : Ordered(queue'[t], t, count'[t], stream')
BY DEF QueueOrdered, Ordered, Pipe!Newer

LEMMA MessageParts == \A m \in Message : m[1] \in Thread /\ m[2] \in 1..MaxMessage
BY DEF Message

LEMMA TypedItems ==
  ASSUME TypeOK
  PROVE  /\ \A t \in Thread : count[t] \in Nat
         /\ \A i \in DOMAIN stream : stream[i].msg \in Message
<1>1. \A i \in DOMAIN stream : stream[i] \in Byte
  BY ElementOfSeq, LenProperties DEF TypeOK
<1> QED BY <1>1, CountAssumption DEF TypeOK, Byte

LEMMA OrderKept ==
  ASSUME OrderOK, UNCHANGED <<queue, count, stream>>
  PROVE  OrderOK'
BY DEF OrderOK, QueueOrdered, StreamCounted, Pipe!Newer

LEMMA TakeMarkerOrder ==
  ASSUME TypeOK, OrderOK, NEW t \in Waiting(queue), queue' = Dequeue(queue, t),
         UNCHANGED <<count, stream>>
  PROVE  OrderOK'
<1>1. \A u \in Thread : Ordered(queue[u], u, count[u], stream)
  BY QueueOrderedParts DEF OrderOK
<1>2. Ordered(queue'[t], t, count[t], stream)
  BY <1>1, TakenItems DEF Ordered
<1>3. \A u \in Thread : Ordered(queue'[u], u, count'[u], stream')
  BY <1>1, <1>2, TakenItems
<1> QED BY <1>3, QueueOrderedParts DEF OrderOK, StreamCounted

LEMMA TakeMessageOrder ==
  ASSUME TypeOK, OrderOK, NEW t \in Waiting(queue), queue' = Dequeue(queue, t),
         Oldest(queue, t) \in Message,
         stream' = stream \o Frame(Oldest(queue, t)), UNCHANGED count
  PROVE  /\ OrderOK'
         /\ Pipe!Newer(Oldest(queue, t), stream)
<1> DEFINE m == Oldest(queue, t)
<1>0. m \in Message /\ stream' = stream \o Frame(m)
  OBVIOUS
<1>1. \A u \in Thread : Ordered(queue[u], u, count[u], stream)
  BY QueueOrderedParts DEF OrderOK
<1>2. t \in Thread /\ 1 \in DOMAIN queue[t] /\ m = queue[t][1]
  BY TakenItems
<1>3. m[1] = t /\ m[2] <= count[t] /\ Pipe!Newer(m, stream)
  BY <1>0, <1>1, <1>2 DEF Ordered
<1>4. /\ \A i \in DOMAIN stream : i \in DOMAIN stream' /\ stream'[i] = stream[i]
      /\ \A i \in DOMAIN stream' \ DOMAIN stream : stream'[i].msg = m
  BY <1>0, FramedStream
<1> HIDE DEF m
<1>5. ASSUME NEW x, Pipe!Newer(x, stream), m[1] = x[1] => m[2] < x[2]
      PROVE  Pipe!Newer(x, stream')
  BY <1>4, <1>5 DEF Pipe!Newer
<1>6. ASSUME NEW i \in DOMAIN queue'[t], queue'[t][i] \in Message
      PROVE  /\ queue'[t][i][1] = t /\ queue'[t][i][2] <= count[t]
             /\ Pipe!Newer(queue'[t][i], stream')
             /\ \A j \in DOMAIN queue'[t] :
                  i < j /\ queue'[t][j] \in Message => queue'[t][i][2] < queue'[t][j][2]
  <2>1. /\ i + 1 \in DOMAIN queue[t] /\ i \in Nat \ {0} /\ queue'[t][i] = queue[t][i + 1]
        /\ \A j \in DOMAIN queue'[t] : /\ j + 1 \in DOMAIN queue[t] /\ j \in Nat \ {0}
                                       /\ queue'[t][j] = queue[t][j + 1]
    BY <1>6, TakenItems
  <2>2. m[2] < queue'[t][i][2]
    BY <1>0, <1>1, <1>2, <1>6, <2>1 DEF Ordered
  <2>3. queue'[t][i][1] = t /\ queue'[t][i][2] <= count[t] /\ Pipe!Newer(queue'[t][i], stream)
    BY <1>1, <1>2, <1>6, <2>1 DEF Ordered
  <2>4. Pipe!Newer(queue'[t][i], stream')
    BY <1>5, <2>2, <2>3
  <2>5. \A j \in DOMAIN queue'[t] :
          i < j /\ queue'[t][j] \in Message => queue'[t][i][2] < queue'[t][j][2]
    BY <1>1, <1>2, <1>6, <2>1 DEF Ordered
  <2> QED BY <2>3, <2>4, <2>5
<1>7. ASSUME NEW u \in Thread \ {t} PROVE Ordered(queue'[u], u, count'[u], stream')
  <2>1. queue'[u] = queue[u] /\ count'[u] = count[u]
    BY TakenItems
  <2>2. ASSUME NEW i \in DOMAIN queue[u], queue[u][i] \in Message
        PROVE  Pipe!Newer(queue[u][i], stream')
    BY <1>1, <1>3, <1>5, <2>2 DEF Ordered
  <2> QED BY <1>1, <2>1, <2>2 DEF Ordered
<1>8. Ordered(queue'[t], t, count'[t], stream')
  BY <1>6 DEF Ordered
<1>9. StreamCounted'
  <2>1. \A i \in DOMAIN stream : stream[i].msg[2] <= count[stream[i].msg[1]]
    BY DEF OrderOK, StreamCounted
  <2> QED BY <1>3, <1>4, <2>1 DEF StreamCounted
<1>10. QueueOrdered'
  BY <1>7, <1>8, QueueOrderedParts
<1> QED BY <1>3, <1>9, <1>10 DEF OrderOK, m

LEMMA SendMessageOrder ==
  ASSUME TypeOK, OrderOK, NEW t \in Thread, SendMessage(t)
  PROVE  OrderOK'
<1> DEFINE m == <<t, count[t] + 1>>
           n == Len(queue[t])
<1>1. \A u \in Thread : Ordered(queue[u], u, count[u], stream) /\ count[u] \in Nat
  BY QueueOrderedParts, TypedItems DEF OrderOK
<1>2. /\ stream' = stream /\ count' \in [Thread -> Nat]
      /\ \A u \in Thread \ {t} : count'[u] = count[u]
      /\ count'[t] = count[t] + 1
      /\ queue' = queue \/ queue' = Enqueue(queue, t, m)
  BY <1>1 DEF SendMessage, bufferVars, TypeOK
<1>3. m \in Message
  BY <1>1, CountAssumption DEF SendMessage, Message
<1>4. \A i \in DOMAIN stream : stream[i].msg[1] \in Thread
                               /\ stream[i].msg[2] \in Nat
                               /\ stream[i].msg[2] <= count[stream[i].msg[1]]
  BY TypedItems, MessageParts DEF OrderOK, StreamCounted
<1>5. StreamCounted'
  BY <1>1, <1>2, <1>4 DEF StreamCounted
<1>6. Pipe!Newer(m, stream)
  BY <1>1, <1>4 DEF Pipe!Newer
<1>7. \A x \in Message : x[2] \in Nat
  BY MessageParts
<1>8. Ordered(queue[t], t, count'[t], stream)
  BY <1>1, <1>2, <1>7 DEF Ordered
<1>9. CASE queue' = queue
  <2>1. \A u \in Thread : Ordered(queue'[u], u, count'[u], stream')
    BY <1>1, <1>2, <1>8, <1>9
  <2> QED BY <1>5, <2>1, QueueOrderedParts DEF OrderOK
<1>10. CASE queue' = Enqueue(queue, t, m)
  <2>1. /\ \A u \in Thread \ {t} : queue'[u] = queue[u]
        /\ n \in Nat /\ DOMAIN queue[t] = 1..n /\ DOMAIN queue'[t] = 1..(n + 1)
        /\ \A i \in 1..n : queue'[t][i] = queue[t][i]
        /\ queue'[t][n + 1] = m
    BY <1>3, <1>10, AddedItems
  <2>2. m[1] = t /\ m[2] = count[t] + 1
    OBVIOUS
  <2> HIDE DEF m, n
  <2>3. ASSUME NEW i \in 1..(n + 1), queue'[t][i] \in Message
        PROVE  /\ queue'[t][i][1] = t /\ queue'[t][i][2] <= count'[t]
               /\ Pipe!Newer(queue'[t][i], stream)
               /\ \A j \in 1..(n + 1) :
                    i < j /\ queue'[t][j] \in Message => queue'[t][i][2] < queue'[t][j][2]
    <3>1. CASE i = n + 1
      BY <1>1, <1>2, <1>6, <2>1, <2>2, <3>1
    <3>2. CASE i \in 1..n
      <4>1. /\ queue'[t][i] = queue[t][i] /\ queue[t][i][1] = t
            /\ queue[t][i][2] <= count[t] /\ Pipe!Newer(queue[t][i], stream)
            /\ queue[t][i][2] \in Nat
        BY <1>1, <1>7, <2>1, <2>3, <3>2 DEF Ordered
      <4>2. queue[t][i][2] <= count'[t] /\ queue[t][i][2] < m[2]
        BY <1>1, <1>2, <2>2, <4>1
      <4>3. \A j \in 1..n : i < j /\ queue[t][j] \in Message => queue[t][i][2] < queue[t][j][2]
        BY <1>1, <2>1, <2>3, <3>2 DEF Ordered
      <4>4. ASSUME NEW j \in 1..(n + 1), i < j, queue'[t][j] \in Message
            PROVE  queue'[t][i][2] < queue'[t][j][2]
        <5>1. CASE j = n + 1
          BY <2>1, <4>1, <4>2, <5>1
        <5>2. CASE j \in 1..n
          BY <2>1, <4>1, <4>3, <4>4, <5>2
        <5> QED BY <2>1, <5>1, <5>2
      <4> QED BY <4>1, <4>2, <4>4
    <3> QED BY <2>1, <3>1, <3>2
  <2>4. Ordered(queue'[t], t, count'[t], stream')
    BY <1>2, <2>1, <2>3 DEF Ordered
  <2>5. \A u \in Thread : Ordered(queue'[u], u, count'[u], stream')
    BY <1>1, <1>2, <2>1, <2>4
  <2> QED BY <1>5, <2>5, QueueOrderedParts DEF OrderOK
<1> QED BY <1>2, <1>9, <1>10

LEMMA FlushBeginOrder ==
  ASSUME TypeOK, OrderOK, NEW t \in Thread, NEW f \in FlushCall, FlushBegin(f, t)
  PROVE  OrderOK'
<1>1. /\ stream' = stream /\ count' = count
      /\ queue' = queue \/ queue' = Enqueue(queue, t, f)
  BY DEF FlushBegin, bufferVars
<1>2. CASE queue' = queue
  BY <1>1, <1>2, OrderKept
<1>3. CASE queue' = Enqueue(queue, t, f)
  <2>1. \A u \in Thread : Ordered(queue[u], u, count[u], stream)
    BY QueueOrderedParts DEF OrderOK
  <2>2. f \notin Message
    BY KindAssumption
  <2>3. Ordered(queue'[t], t, count[t], stream)
    BY <1>3, <2>1, <2>2, AddedItems DEF Ordered
  <2>4. \A u \in Thread : Ordered(queue'[u], u, count'[u], stream')
    BY <1>1, <1>3, <2>1, <2>3, AddedItems
  <2> QED BY <1>1, <2>4, QueueOrderedParts DEF OrderOK, StreamCounted
<1> QED BY <1>1, <1>2, <1>3

LEMMA DestroyOrder == ASSUME TypeOK, OrderOK, Destroy PROVE OrderOK'
<1>1. \A t \in Thread : queue'[t] = << >>
  BY DEF Destroy, NoWork
<1>2. QueueOrdered'
  BY <1>1 DEF QueueOrdered
<1> QED BY <1>2 DEF Destroy, clientVars, bufferVars, OrderOK, StreamCounted
-----------------------------------------------------------------------------
(* What a call of trySendMessage() takes from the queue. *)

TakesMarker(f, t) ==
  /\ f \in FlushCall /\ f = Oldest(queue, t)
  /\ promise' = [promise EXCEPT ![f] = "set"] /\ UNCHANGED stream

TakesMessage(m, t) ==
  /\ m \in Message /\ m = Oldest(queue, t)
  /\ stream' = stream \o Frame(m) /\ UNCHANGED promise

\* What a handler does to the queue, the promises and the stream.
Takes ==
  \/ UNCHANGED <<queue, promise, stream>>
  \/ /\ Len(stream) - Len(sent) <= MessageAdditionLimit
     /\ \E t \in Waiting(queue) :
          /\ queue' = Dequeue(queue, t)
          /\ (\E f \in FlushCall : TakesMarker(f, t)) \/ \E m \in Message : TakesMessage(m, t)

LEMMA TrySendTakes ==
  ASSUME TypeOK, NEW a, NEW b \in Seq(Byte), TrySendMessage(a, b), stream = sent \o b
  PROVE  Takes
<1>1. \/ UNCHANGED <<queue, promise, stream>>
      \/ /\ MayAdd(b)
         /\ \E t \in Waiting(queue) :
              /\ queue' = Dequeue(queue, t)
              /\ \/ Oldest(queue, t) \in FlushCall /\ TakesMarker(Oldest(queue, t), t)
                 \/ Oldest(queue, t) \in Message /\ TakesMessage(Oldest(queue, t), t)
  BY DEF TrySendMessage, workVars, TakesMarker, TakesMessage
<1>2. /\ sent \in Seq(Byte) /\ Len(sent) \in Nat /\ Len(b) \in Nat
      /\ Len(sent \o b) = Len(sent) + Len(b)
  BY ConcatProperties, LenProperties DEF TypeOK
<1>3. MayAdd(b) => Len(stream) - Len(sent) <= MessageAdditionLimit
  BY <1>2, CountAssumption DEF MayAdd
<1> QED BY <1>1, <1>3 DEF Takes

LEMMA HandlerTakes ==
  ASSUME TypeOK, Phases, DataOK, RunHandler
  PROVE  Takes /\ UNCHANGED <<clientVars, sent>>
<1>1. CASE ConnectHandlerOk \/ PostedSend
  <2>1. ~Writes(io)
    BY <1>1, NotWriting DEF ConnectHandlerOk, PostedSend
  <2>2. stream = sent \o buffer /\ buffer \in Seq(Byte)
    BY <2>1, UnsentValue DEF DataOK, ByteStreamExact, TypeOK
  <2> QED BY <1>1, <2>2, TrySendTakes DEF ConnectHandlerOk, PostedSend, netVars
<1>2. CASE SentMessageHandler
  <2>1. stream = sent \o Erased(buffer, progress) /\ Erased(buffer, progress) \in Seq(Byte)
    BY <1>2, WrittenIsErased, ErasedType DEF SentMessageHandler, TypeOK
  <2> QED BY <1>2, <2>1, TrySendTakes DEF SentMessageHandler, workVars, Takes
<1> QED BY <1>1, <1>2 DEF RunHandler, ResolverHandler, ConnectHandlerError, TimerHandler,
        ReceiveHandler, workVars, bufferVars, netVars, Takes
-----------------------------------------------------------------------------
LEMMA NextOrder ==
  ASSUME TypeOK, Phases, DataOK, OrderOK, [Next]_vars
  PROVE  OrderOK'
<1>1. CASE RunHandler
  <2>1. Takes /\ count' = count
    BY <1>1, HandlerTakes DEF clientVars
  <2>2. CASE UNCHANGED <<queue, promise, stream>>
    BY <2>1, <2>2, OrderKept
  <2>3. ASSUME NEW t \in Waiting(queue), queue' = Dequeue(queue, t),
               NEW f \in FlushCall, TakesMarker(f, t)
        PROVE  OrderOK'
    BY <2>1, <2>3, TakeMarkerOrder DEF TakesMarker
  <2>4. ASSUME NEW t \in Waiting(queue), queue' = Dequeue(queue, t),
               NEW m \in Message, TakesMessage(m, t)
        PROVE  OrderOK'
    BY <2>1, <2>4, TakeMessageOrder DEF TakesMessage
  <2> QED BY <2>1, <2>2, <2>3, <2>4 DEF Takes
<1>2. CASE Application
  <2>1. CASE \E f \in FlushCall : FlushReady(f) \/ FlushTimeOut(f)
    BY <2>1, OrderKept DEF FlushReady, FlushTimeOut, workVars, bufferVars
  <2> QED BY <1>2, <2>1, SendMessageOrder, FlushBeginOrder, DestroyOrder DEF Application
<1>3. CASE Network
  <2>1. UNCHANGED outsideVars
    BY <1>3 DEF Network, ResolveDone, ConnectDone, TimerFires, KernelAccepts, WriteDone,
       WriteFails, ReceiveData, ReceiveFails, PeerGone
  <2> QED BY <2>1, OrderKept DEF outsideVars, clientVars, workVars, bufferVars
<1>4. CASE UNCHANGED vars
  BY <1>4, OrderKept DEF vars, clientVars, workVars, bufferVars
<1> QED BY <1>1, <1>2, <1>3, <1>4 DEF Next

LEMMA InitOrder == Init => OrderOK
BY DEF Init, NoWork, OrderOK, QueueOrdered, StreamCounted

LEMMA OrderInvariant == Spec => [](TypeOK /\ Phases /\ DataOK /\ OrderOK)
<1>1. TypeOK /\ Phases /\ DataOK /\ OrderOK /\ [Next]_vars => OrderOK'
  BY NextOrder
<1> QED BY <1>1, InitOrder, DataInvariant, PTL DEF Spec

\* Each step of the connection takes a message into the pipe, gives a character to
\* the network, or is none of the pipe's.
LEMMA StepOfPipe ==
  ASSUME TypeOK, Phases, DataOK, OrderOK, [Next]_vars
  PROVE  [Pipe!Next]_<<stream, sent>>
<1>1. CASE RunHandler
  <2>1. Takes /\ sent' = sent
    BY <1>1, HandlerTakes
  <2>2. ASSUME NEW t \in Waiting(queue), queue' = Dequeue(queue, t), NEW m \in Message,
               TakesMessage(m, t), Len(stream) - Len(sent) <= MessageAdditionLimit
        PROVE  Pipe!Take(m)
    <3>1. count' = count
      BY <1>1, HandlerTakes DEF clientVars
    <3>2. Pipe!Newer(m, stream)
      BY <2>2, <3>1, TakeMessageOrder DEF TakesMessage
    <3>3. stream' = stream \o Pipe!Frame(m)
      BY <2>2 DEF TakesMessage, Frame, Pipe!Frame
    <3> QED BY <2>1, <2>2, <3>2, <3>3 DEF Pipe!Take
  <2> QED BY <2>1, <2>2 DEF Takes, TakesMarker, Pipe!Next
<1>2. CASE KernelAccepts
  <2>1. /\ buffer \in Seq(Byte) /\ sent \in Seq(Byte) /\ progress \in Nat
        /\ progress + 1 \in 1..Len(buffer) /\ Len(buffer) \in Nat /\ Len(sent) \in Nat
        /\ sent' = Append(sent, buffer[progress + 1]) /\ stream' = stream
    BY <1>2, LenProperties DEF KernelAccepts, outsideVars, bufferVars, TypeOK
  <2> DEFINE rest == SubSeq(buffer, progress + 1, Len(buffer))
  <2>2. stream = sent \o rest
    <3>1. Writes(io)
      BY <1>2 DEF KernelAccepts, Pending, Writes
    <3> QED BY <3>1, UnsentValue DEF DataOK, ByteStreamExact
  <2>3. /\ rest \in Seq(Byte) /\ Len(rest) \in Nat \ {0}
        /\ rest[1] = buffer[progress + 1]
    <3>1. \A i \in (progress + 1)..Len(buffer) : buffer[i] \in Byte
      BY <2>1, ElementOfSeq
    <3> QED BY <2>1, <3>1, SubSeqProperties
  <2> HIDE DEF rest
  <2>4. Len(stream) = Len(sent) + Len(rest) /\ stream[Len(sent) + 1] = rest[1]
    BY <2>1, <2>2, <2>3, ConcatProperties
  <2> QED BY <2>1, <2>3, <2>4 DEF Pipe!Next, Pipe!Emit
<1>3. CASE Application
  BY <1>3 DEF Application, SendMessage, FlushBegin, FlushReady, FlushTimeOut, Destroy,
     bufferVars, netVars
<1>4. CASE Network /\ ~KernelAccepts
  BY <1>4 DEF Network, ResolveDone, ConnectDone, TimerFires, WriteDone, WriteFails,
     ReceiveData, ReceiveFails, PeerGone, outsideVars, bufferVars, netVars
<1>5. CASE UNCHANGED vars
  BY <1>5 DEF vars, bufferVars, netVars
<1> QED BY <1>1, <1>2, <1>3, <1>4, <1>5 DEF Next

\* The connection implements the pipe, for every number of threads and messages,
\* every limit and every sequence of failures: trySendMessage() takes each thread's
\* messages in order and once, and the kernel is given their characters in order
\* and once, whatever sockets they leave by.
THEOREM ImplementsPipe == Spec => PipeSpec
<1>1. Init => Pipe!Init
  BY DEF Init, Pipe!Init
<1>2. TypeOK /\ Phases /\ DataOK /\ OrderOK /\ [Next]_vars => [Pipe!Next]_<<stream, sent>>
  BY StepOfPipe
<1> QED BY <1>1, <1>2, OrderInvariant, PTL DEF Spec, PipeSpec, Pipe!Spec

-----------------------------------------------------------------------------
(* What a flush that was answered came after. *)

FlushOK == AheadOrdered /\ FlushBarrier

\* What AheadOrdered says of a marker in the queue.
QueuedOnce(q, p, a, s, f) == \A t \in Thread : \A i \in DOMAIN q[t] : q[t][i] = f =>
  /\ p[f] = "unset"
  /\ \A u \in Thread : \A j \in DOMAIN q[u] : q[u][j] = f => u = t /\ j = i
  /\ \A m \in a[f] \cap Message :
       \/ \E k \in DOMAIN s : s[k].msg = m
       \/ \E j \in 1..i : q[t][j] = m

LEMMA FlushParts ==
  /\ FlushOK => \A f \in FlushCall :
       /\ caller[f] = "idle" => promise[f] = "unused"
       /\ QueuedOnce(queue, promise, ahead, stream, f)
       /\ promise[f] = "set" => \A m \in ahead[f] \cap Message : InStream(m)
  /\ (\A f \in FlushCall :
       /\ caller'[f] = "idle" => promise'[f] = "unused"
       /\ QueuedOnce(queue', promise', ahead', stream', f)
       /\ promise'[f] = "set" => \A m \in ahead'[f] \cap Message : InStream(m)')
     => FlushOK'
BY DEF FlushOK, AheadOrdered, FlushBarrier, QueuedOnce, InStream

LEMMA FlushKept ==
  ASSUME FlushOK, UNCHANGED <<queue, promise, ahead, stream>>,
         \A f \in FlushCall : caller'[f] = "idle" => caller[f] = "idle"
  PROVE  FlushOK'
BY FlushParts DEF FlushOK, AheadOrdered, FlushBarrier, QueuedOnce, InStream

\* A marker stays in order when another item is taken.
LEMMA TakenOnce ==
  ASSUME TypeOK, NEW t \in Waiting(queue), queue' = Dequeue(queue, t),
         NEW f \in FlushCall, QueuedOnce(queue, promise, ahead, stream, f),
         Oldest(queue, t) # f,
         NEW p, p[f] = promise[f], NEW s,
         \A m : InStream(m) \/ (m \in Message /\ m = Oldest(queue, t))
                  => \E k \in DOMAIN s : s[k].msg = m
  PROVE  QueuedOnce(queue', p, ahead, s, f)
<1>1. /\ t \in Thread /\ 1 \in DOMAIN queue[t] /\ queue[t][1] = Oldest(queue, t)
      /\ \A u \in Thread \ {t} : queue'[u] = queue[u]
      /\ \A i \in DOMAIN queue'[t] : /\ i + 1 \in DOMAIN queue[t] /\ i \in Nat \ {0}
                                     /\ queue'[t][i] = queue[t][i + 1]
  BY TakenItems
<1>2. \A m : (\E k \in DOMAIN stream : stream[k].msg = m)
               => \E k \in DOMAIN s : s[k].msg = m
  BY DEF InStream
<1>3. ASSUME NEW u \in Thread, NEW i \in DOMAIN queue'[u], queue'[u][i] = f
      PROVE  /\ promise[f] = "unset"
             /\ \A v \in Thread : \A j \in DOMAIN queue'[v] :
                  queue'[v][j] = f => v = u /\ j = i
             /\ \A m \in ahead[f] \cap Message :
                  \/ \E k \in DOMAIN s : s[k].msg = m
                  \/ \E j \in 1..i : queue'[u][j] = m
  <2>1. CASE u = t
    <3>1. i + 1 \in DOMAIN queue[t] /\ queue[t][i + 1] = f /\ i \in Nat \ {0}
      BY <1>1, <1>3, <2>1
    <3>2. /\ promise[f] = "unset"
          /\ \A v \in Thread : \A j \in DOMAIN queue[v] :
               queue[v][j] = f => v = t /\ j = i + 1
          /\ \A m \in ahead[f] \cap Message :
               \/ \E k \in DOMAIN stream : stream[k].msg = m
               \/ \E j \in 1..(i + 1) : queue[t][j] = m
      BY <1>1, <3>1 DEF QueuedOnce
    <3>3. \A v \in Thread : \A j \in DOMAIN queue'[v] : queue'[v][j] = f => v = u /\ j = i
      BY <1>1, <2>1, <3>1, <3>2
    <3>4. \A j \in 1..i : j \in DOMAIN queue'[t]
      <4>1. queue'[t] \in Seq(Message \cup FlushCall)
        BY <1>1, QueueTaken
      <4>2. DOMAIN queue'[t] = 1..Len(queue'[t]) /\ Len(queue'[t]) \in Nat
        BY <4>1, LenProperties
      <4> QED BY <1>3, <2>1, <4>2
    <3>5. ASSUME NEW m \in Message, NEW j \in 1..(i + 1), queue[t][j] = m
          PROVE  \/ \E k \in DOMAIN s : s[k].msg = m
                 \/ \E k \in 1..i : queue'[t][k] = m
      <4>1. CASE j = 1
        BY <1>1, <3>5, <4>1
      <4>2. CASE j # 1
        <5>1. j - 1 \in 1..i /\ (j - 1) + 1 = j
          BY <3>1, <4>2
        <5>2. queue'[t][j - 1] = queue[t][j]
          BY <1>1, <3>4, <5>1
        <5> QED BY <3>5, <5>1, <5>2
      <4> QED BY <4>1, <4>2
    <3> QED BY <1>2, <2>1, <3>2, <3>3, <3>5
  <2>2. CASE u # t
    <3>1. queue'[u] = queue[u] /\ queue[u][i] = f /\ i \in DOMAIN queue[u]
      BY <1>1, <1>3, <2>2
    <3>2. /\ promise[f] = "unset"
          /\ \A v \in Thread : \A j \in DOMAIN queue[v] :
               queue[v][j] = f => v = u /\ j = i
          /\ \A m \in ahead[f] \cap Message :
               \/ \E k \in DOMAIN stream : stream[k].msg = m
               \/ \E j \in 1..i : queue[u][j] = m
      BY <3>1 DEF QueuedOnce
    <3>3. \A v \in Thread : \A j \in DOMAIN queue'[v] : queue'[v][j] = f => v = u /\ j = i
      BY <1>1, <2>2, <3>2
    <3> QED BY <1>2, <3>1, <3>2, <3>3
  <2> QED BY <2>1, <2>2
<1> QED BY <1>3 DEF QueuedOnce

LEMMA TakeMarkerFlush ==
  ASSUME TypeOK, FlushOK, NEW t \in Waiting(queue), queue' = Dequeue(queue, t),
         NEW g \in FlushCall, TakesMarker(g, t), UNCHANGED <<caller, ahead>>
  PROVE  FlushOK'
<1>1. /\ t \in Thread /\ 1 \in DOMAIN queue[t] /\ queue[t][1] = g /\ g \notin Message
      /\ \A u \in Thread \ {t} : queue'[u] = queue[u]
      /\ \A i \in DOMAIN queue'[t] : /\ i + 1 \in DOMAIN queue[t] /\ i \in Nat \ {0}
                                     /\ queue'[t][i] = queue[t][i + 1]
  BY TakenItems, KindAssumption DEF TakesMarker
<1>2. /\ stream' = stream /\ ahead' = ahead /\ caller' = caller
      /\ promise' = [promise EXCEPT ![g] = "set"]
      /\ promise \in [FlushCall -> {"unused", "unset", "set", "broken"}]
      /\ g = Oldest(queue, t)
  BY DEF TakesMarker, TypeOK
<1>3. QueuedOnce(queue, promise, ahead, stream, g) /\ promise[g] = "unset"
      /\ \A u \in Thread : \A j \in DOMAIN queue[u] : queue[u][j] = g => u = t /\ j = 1
  BY <1>1, FlushParts DEF QueuedOnce
<1>4. \A m \in ahead[g] \cap Message : InStream(m)
  BY <1>1, <1>3 DEF QueuedOnce, InStream
<1>5. \A u \in Thread : \A j \in DOMAIN queue'[u] : queue'[u][j] # g
  BY <1>1, <1>3
<1>6. ASSUME NEW f \in FlushCall
      PROVE  /\ caller'[f] = "idle" => promise'[f] = "unused"
             /\ QueuedOnce(queue', promise', ahead', stream', f)
             /\ promise'[f] = "set" => \A m \in ahead'[f] \cap Message : InStream(m)'
  <2>1. /\ caller[f] = "idle" => promise[f] = "unused"
        /\ QueuedOnce(queue, promise, ahead, stream, f)
        /\ promise[f] = "set" => \A m \in ahead[f] \cap Message : InStream(m)
    BY FlushParts
  <2>2. \A m : InStream(m)' <=> InStream(m)
    BY <1>2 DEF InStream
  <2>3. CASE f = g
    BY <1>2, <1>3, <1>4, <1>5, <2>1, <2>2, <2>3 DEF QueuedOnce
  <2>4. CASE f # g
    <3>1. promise'[f] = promise[f]
      BY <1>2, <2>4
    <3>2. \A m : InStream(m) \/ (m \in Message /\ m = Oldest(queue, t))
                   => \E k \in DOMAIN stream : stream[k].msg = m
      BY <1>1, <1>2 DEF InStream
    <3>3. Oldest(queue, t) # f
      BY <1>2, <2>4
    <3>4. QueuedOnce(queue', promise', ahead, stream, f)
      BY <2>1, <3>1, <3>2, <3>3, TakenOnce
    <3> QED BY <1>2, <2>1, <2>2, <3>1, <3>4
  <2> QED BY <2>3, <2>4
<1> QED BY <1>6, FlushParts

LEMMA TakeMessageFlush ==
  ASSUME TypeOK, FlushOK, NEW t \in Waiting(queue), queue' = Dequeue(queue, t),
         NEW n \in Message, TakesMessage(n, t), UNCHANGED <<caller, ahead>>
  PROVE  FlushOK'
<1>1. /\ stream' = stream \o Frame(n) /\ ahead' = ahead /\ caller' = caller
      /\ promise' = promise /\ n = Oldest(queue, t)
      /\ \A f \in FlushCall : Oldest(queue, t) # f
  BY KindAssumption DEF TakesMessage
<1>2. \A m : InStream(m) \/ (m \in Message /\ m = Oldest(queue, t))
               => \E k \in DOMAIN stream' : stream'[k].msg = m
  <2>1. /\ \A i \in DOMAIN stream : i \in DOMAIN stream' /\ stream'[i] = stream[i]
        /\ \E i \in DOMAIN stream' : stream'[i].msg = n
    BY <1>1, FramedStream
  <2> QED BY <1>1, <2>1 DEF InStream
<1>3. ASSUME NEW f \in FlushCall
      PROVE  /\ caller'[f] = "idle" => promise'[f] = "unused"
             /\ QueuedOnce(queue', promise', ahead', stream', f)
             /\ promise'[f] = "set" => \A m \in ahead'[f] \cap Message : InStream(m)'
  <2>1. /\ caller[f] = "idle" => promise[f] = "unused"
        /\ QueuedOnce(queue, promise, ahead, stream, f)
        /\ promise[f] = "set" => \A m \in ahead[f] \cap Message : InStream(m)
    BY FlushParts
  <2>2. QueuedOnce(queue', promise', ahead, stream', f)
    BY <1>1, <1>2, <2>1, TakenOnce
  <2>3. \A m : InStream(m) => InStream(m)'
    BY <1>2 DEF InStream
  <2> QED BY <1>1, <2>1, <2>2, <2>3
<1> QED BY <1>3, FlushParts

\* An item that is not one of the markers concerned is added.
LEMMA AddedOnce ==
  ASSUME TypeOK, NEW t \in Thread, NEW item \in Message \cup FlushCall,
         queue' = Enqueue(queue, t, item),
         NEW f \in FlushCall \ {item}, QueuedOnce(queue, promise, ahead, stream, f),
         NEW p, p[f] = promise[f], NEW a, a[f] = ahead[f]
  PROVE  QueuedOnce(queue', p, a, stream, f)
<1> DEFINE n == Len(queue[t])
<1>1. /\ \A u \in Thread \ {t} : queue'[u] = queue[u]
      /\ n \in Nat /\ DOMAIN queue[t] = 1..n /\ DOMAIN queue'[t] = 1..(n + 1)
      /\ \A i \in 1..n : queue'[t][i] = queue[t][i]
      /\ queue'[t][n + 1] = item
  BY AddedItems
<1> HIDE DEF n
<1>2. \A u \in Thread : \A i \in DOMAIN queue'[u] :
        queue'[u][i] = f => i \in DOMAIN queue[u] /\ queue[u][i] = f
  BY <1>1
<1>3. ASSUME NEW u \in Thread, NEW i \in DOMAIN queue[u], queue[u][i] = f
      PROVE  /\ p[f] = "unset"
             /\ \A v \in Thread : \A j \in DOMAIN queue'[v] :
                  queue'[v][j] = f => v = u /\ j = i
             /\ \A m \in a[f] \cap Message :
                  \/ \E k \in DOMAIN stream : stream[k].msg = m
                  \/ \E j \in 1..i : queue'[u][j] = m
  <2>1. /\ promise[f] = "unset"
        /\ \A v \in Thread : \A j \in DOMAIN queue[v] : queue[v][j] = f => v = u /\ j = i
        /\ \A m \in ahead[f] \cap Message :
             \/ \E k \in DOMAIN stream : stream[k].msg = m
             \/ \E j \in 1..i : queue[u][j] = m
    BY <1>3 DEF QueuedOnce
  <2>2. \A j \in 1..i : queue'[u][j] = queue[u][j]
    BY <1>1, <1>3
  <2> QED BY <1>2, <2>1, <2>2
<1> QED BY <1>2, <1>3 DEF QueuedOnce

LEMMA SendMessageFlush ==
  ASSUME TypeOK, FlushOK, NEW t \in Thread, SendMessage(t)
  PROVE  FlushOK'
<1> DEFINE n == <<t, count[t] + 1>>
<1>1. /\ UNCHANGED <<promise, caller, ahead, stream>>
      /\ queue' = queue \/ queue' = Enqueue(queue, t, n)
  BY DEF SendMessage, bufferVars
<1>2. n \in Message
  BY TypedItems, CountAssumption DEF SendMessage, Message
<1> HIDE DEF n
<1>3. CASE queue' = queue
  BY <1>1, <1>3, FlushKept
<1>4. CASE queue' = Enqueue(queue, t, n)
  <2>1. \A m : InStream(m)' <=> InStream(m)
    BY <1>1 DEF InStream
  <2>2. ASSUME NEW f \in FlushCall
        PROVE  QueuedOnce(queue', promise', ahead', stream', f)
    <3>1. f \in FlushCall \ {n}
      BY <1>2, KindAssumption
    <3>2. QueuedOnce(queue, promise, ahead, stream, f)
      BY FlushParts
    <3> QED BY <1>1, <1>2, <1>4, <3>1, <3>2, AddedOnce
  <2> QED BY <1>1, <2>1, <2>2, FlushParts
<1> QED BY <1>1, <1>3, <1>4

LEMMA FlushBeginFlush ==
  ASSUME TypeOK, FlushOK, NEW t \in Thread, NEW g \in FlushCall, FlushBegin(g, t)
  PROVE  FlushOK'
<1>1. /\ caller[g] = "idle" /\ stream' = stream
      /\ caller' = [caller EXCEPT ![g] = "waiting"]
      /\ \/ promise' = [promise EXCEPT ![g] = "broken"] /\ UNCHANGED <<queue, ahead>>
         \/ /\ promise' = [promise EXCEPT ![g] = "unset"]
            /\ queue' = Enqueue(queue, t, g)
            /\ ahead' = [ahead EXCEPT ![g] = {queue[t][i] : i \in DOMAIN queue[t]}]
  BY DEF FlushBegin, bufferVars
<1>2. /\ promise \in [FlushCall -> {"unused", "unset", "set", "broken"}]
      /\ caller \in [FlushCall -> {"idle", "waiting", "TRUE", "FALSE"}]
      /\ ahead \in [FlushCall -> SUBSET (Message \cup FlushCall)]
  BY DEF TypeOK
<1>3. \A f \in FlushCall :
        /\ caller[f] = "idle" => promise[f] = "unused"
        /\ QueuedOnce(queue, promise, ahead, stream, f)
        /\ promise[f] = "set" => \A m \in ahead[f] \cap Message : InStream(m)
  BY FlushParts
\* The marker was not queued before: its promise was unused.
<1>4. \A u \in Thread : \A i \in DOMAIN queue[u] : queue[u][i] # g
  BY <1>1, <1>3 DEF QueuedOnce
<1>5. \A m : InStream(m)' <=> InStream(m)
  BY <1>1 DEF InStream
<1>6. ASSUME NEW f \in FlushCall \ {g}
      PROVE  promise'[f] = promise[f] /\ ahead'[f] = ahead[f] /\ caller'[f] = caller[f]
  BY <1>1, <1>2
<1>7. promise'[g] \in {"broken", "unset"} /\ caller'[g] = "waiting"
  BY <1>1, <1>2
<1>8. ASSUME NEW f \in FlushCall
      PROVE  QueuedOnce(queue', promise', ahead', stream', f)
  <2>1. CASE queue' = queue
    <3>1. CASE f = g
      BY <1>4, <2>1, <3>1 DEF QueuedOnce
    <3>2. CASE f # g
      BY <1>1, <1>3, <1>6, <2>1, <3>2 DEF QueuedOnce
    <3> QED BY <3>1, <3>2
  <2>2. CASE queue' = Enqueue(queue, t, g) /\ f # g
    <3>1. f \in FlushCall \ {g} /\ g \in Message \cup FlushCall
      BY <2>2
    <3>2. promise'[f] = promise[f] /\ ahead'[f] = ahead[f]
      BY <1>6, <3>1
    <3>3. QueuedOnce(queue', promise', ahead', stream, f)
      BY <1>3, <2>2, <3>1, <3>2, AddedOnce
    <3> QED BY <1>1, <3>3
  <2>3. CASE queue' = Enqueue(queue, t, g) /\ promise'[g] = "unset" /\ f = g
             /\ ahead'[g] = {queue[t][i] : i \in DOMAIN queue[t]}
    <3> DEFINE n == Len(queue[t])
    <3>1. /\ \A u \in Thread \ {t} : queue'[u] = queue[u]
          /\ n \in Nat /\ DOMAIN queue[t] = 1..n /\ DOMAIN queue'[t] = 1..(n + 1)
          /\ \A i \in 1..n : queue'[t][i] = queue[t][i]
      BY <2>3, AddedItems
    <3> HIDE DEF n
    <3>2. \A u \in Thread : \A i \in DOMAIN queue'[u] : queue'[u][i] = g => u = t /\ i = n + 1
      BY <1>4, <3>1
    <3>3. \A m \in ahead'[g] : \E j \in 1..(n + 1) : queue'[t][j] = m
      BY <2>3, <3>1
    <3> QED BY <2>3, <3>2, <3>3 DEF QueuedOnce
  <2> QED BY <1>1, <1>2, <2>1, <2>2, <2>3
<1>9. ASSUME NEW f \in FlushCall
      PROVE  /\ caller'[f] = "idle" => promise'[f] = "unused"
             /\ promise'[f] = "set" => \A m \in ahead'[f] \cap Message : InStream(m)'
  BY <1>3, <1>5, <1>6, <1>7
<1> QED BY <1>8, <1>9, FlushParts

LEMMA DestroyFlush == ASSUME TypeOK, FlushOK, Destroy PROVE FlushOK'
<1>1. /\ \A t \in Thread : queue'[t] = << >>
      /\ UNCHANGED <<caller, ahead, stream>>
      /\ \A f \in FlushCall :
           promise'[f] = IF promise[f] = "unset" THEN "broken" ELSE promise[f]
  BY DEF Destroy, NoWork, clientVars, bufferVars
<1>2. \A f \in FlushCall : QueuedOnce(queue', promise', ahead', stream', f)
  BY <1>1 DEF QueuedOnce
<1>3. \A m : InStream(m)' <=> InStream(m)
  BY <1>1 DEF InStream
<1>4. \A f \in FlushCall :
        /\ caller'[f] = "idle" => promise'[f] = "unused"
        /\ promise'[f] = "set" => \A m \in ahead'[f] \cap Message : InStream(m)'
  BY <1>1, <1>3, FlushParts
<1> QED BY <1>2, <1>4, FlushParts

LEMMA NextFlush ==
  ASSUME TypeOK, Phases, DataOK, FlushOK, [Next]_vars
  PROVE  FlushOK'
<1>1. CASE RunHandler
  <2>1. Takes /\ UNCHANGED <<caller, ahead>>
    BY <1>1, HandlerTakes DEF clientVars
  <2>2. CASE UNCHANGED <<queue, promise, stream>>
    BY <2>1, <2>2, FlushKept
  <2> QED BY <2>1, <2>2, TakeMarkerFlush, TakeMessageFlush DEF Takes
<1>2. CASE Application
  <2>1. CASE \E f \in FlushCall : FlushReady(f) \/ FlushTimeOut(f)
    <3>1. PICK g \in FlushCall : FlushReady(g) \/ FlushTimeOut(g)
      BY <2>1
    <3>2. /\ UNCHANGED <<queue, promise, ahead, stream>>
          /\ \E answer \in {"TRUE", "FALSE"} : caller' = [caller EXCEPT ![g] = answer]
      BY <3>1 DEF FlushReady, FlushTimeOut, workVars, bufferVars
    <3>3. \A f \in FlushCall : caller'[f] = "idle" => caller[f] = "idle"
      BY <3>2 DEF TypeOK
    <3> QED BY <3>2, <3>3, FlushKept
  <2> QED BY <1>2, <2>1, SendMessageFlush, FlushBeginFlush, DestroyFlush DEF Application
<1>3. CASE Network
  <2>1. UNCHANGED outsideVars
    BY <1>3 DEF Network, ResolveDone, ConnectDone, TimerFires, KernelAccepts, WriteDone,
       WriteFails, ReceiveData, ReceiveFails, PeerGone
  <2> QED BY <2>1, FlushKept DEF outsideVars, clientVars, workVars, bufferVars
<1>4. CASE UNCHANGED vars
  BY <1>4, FlushKept DEF vars, clientVars, workVars, bufferVars
<1> QED BY <1>1, <1>2, <1>3, <1>4 DEF Next

LEMMA InitFlush == Init => FlushOK
BY DEF Init, NoWork, FlushOK, AheadOrdered, FlushBarrier

LEMMA FlushInvariant == Spec => []FlushOK
<1>1. TypeOK /\ Phases /\ DataOK /\ FlushOK /\ [Next]_vars => FlushOK'
  BY NextFlush
<1> QED BY <1>1, InitFlush, DataInvariant, PTL DEF Spec

\* For any number of threads, calls and failures: once a flush marker was reached,
\* everything its thread had queued before it has been taken (trySendMessage).
THEOREM FlushIsBarrier == Spec => []FlushBarrier
BY FlushInvariant, PTL DEF FlushOK

LEMMA StepFlushes ==
  ASSUME TypeOK, Phases, DataOK, [Next]_vars,
         NEW f \in FlushCall, promise[f] = "unset", promise'[f] = "set"
  PROVE  Len(stream) - Len(sent) <= MessageAdditionLimit
<1>1. promise' # promise
  OBVIOUS
<1>2. CASE RunHandler
  BY <1>1, <1>2, HandlerTakes DEF Takes
<1>3. CASE Application
  <2>1. ASSUME NEW g \in FlushCall, NEW t \in Thread, FlushBegin(g, t)
        PROVE  FALSE
    <3>1. \/ promise' = [promise EXCEPT ![g] = "broken"]
          \/ promise' = [promise EXCEPT ![g] = "unset"]
      BY <2>1 DEF FlushBegin
    <3> QED BY <3>1 DEF TypeOK
  <2>2. Destroy => FALSE
    BY DEF Destroy
  <2>3. UNCHANGED promise => FALSE
    BY <1>1
  <2> QED BY <1>3, <2>1, <2>2, <2>3
          DEF Application, SendMessage, FlushReady, FlushTimeOut, workVars
<1>4. CASE Network
  BY <1>1, <1>4 DEF Network, ResolveDone, ConnectDone, TimerFires, KernelAccepts,
     WriteDone, WriteFails, ReceiveData, ReceiveFails, PeerGone, outsideVars, workVars
<1>5. CASE UNCHANGED vars
  BY <1>1, <1>5 DEF vars, workVars
<1> QED BY <1>2, <1>3, <1>4, <1>5 DEF Next

\* A flush is answered only while at most MessageAdditionLimit characters of what
\* was taken from the queue have not been sent (trySendMessage).
THEOREM FlushIsAlmostSent == Spec => FlushLeavesLittle
<1>1. TypeOK /\ Phases /\ DataOK /\ [Next]_vars
      => [\A f \in FlushCall : promise[f] = "unset" /\ promise'[f] = "set"
            => Len(stream) - Len(sent) <= MessageAdditionLimit]_vars
  BY StepFlushes
<1> QED BY <1>1, DataInvariant, PTL DEF Spec, FlushLeavesLittle

\* The inductive invariant of GraylogConnection.
THEOREM InvHolds == Spec => []Inv
<1>1. TypeOK /\ Phases /\ DataOK /\ OrderOK /\ FlushOK => Inv
  BY DEF DataOK, OrderOK, FlushOK, Inv
<1> QED BY <1>1, OrderInvariant, FlushInvariant, PTL
=============================================================================
