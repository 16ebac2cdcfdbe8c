----------------------------- MODULE LogTestServer -----------------------------
(* LogTestServer of the unit tests: the Graylog server's end of the connection.  *)
(*                                                                             *)
(* One thread runs the io_service; a handler is one atomic step, and handlers    *)
(* run in the order in which their operations completed (ready).  Sockets are    *)
(* numbered in the order in which the client connected.                         *)
EXTENDS Naturals, Sequences, FiniteSets

CONSTANTS
  FrameLen,       \* the character of a message with this number is its '\0'
  MaxConnection,  \* connections a client makes
  BufferSize      \* bufferSize

VARIABLES
  listening,    \* acceptor.is_open()
  accepts,      \* async_accept()s that have not completed
  reads,        \* the sockets whose async_read_some() has not completed
  ready,        \* completed operations and posted calls whose handlers are to run
  backlog,      \* connections nobody has accepted
  closed,       \* sockets closed by the server
  left,         \* sockets closed by the client
  inbox,        \* what has arrived at each socket and has not been read
  existingSockets, connections, receivedBytes, nrOfMessagesReceived,
  currentMessage, previousMessage, socketError,
  received,     \* history: everything HandleRead() was given
  running       \* service.run() has not returned

netVars    == <<backlog, left, inbox>>
asioVars   == <<accepts, reads, ready>>
readVars   == <<receivedBytes, nrOfMessagesReceived, currentMessage, previousMessage,
                received>>
serverVars == <<listening, asioVars, netVars, closed, readVars, existingSockets,
                connections, socketError, running>>

Socket == 1..MaxConnection
Done(op, error, socket, bytes) ==
  [op |-> op, error |-> error, socket |-> socket, bytes |-> bytes]
-----------------------------------------------------------------------------
(* Starting operations.  On a closed acceptor or socket they fail at once.       *)

\* Defect: the next connection is waited for while this one is read from.
WaitForNewConnectionTwice(queue) ==
  IF listening THEN accepts' = accepts + 2 /\ ready' = queue
  ELSE /\ ready' = Append(queue, Done("accept", "bad_descriptor", 0, << >>))
       /\ UNCHANGED accepts

\* WaitForNewConnection(), from a handler that leaves `queue` to be run.
WaitForNewConnection(queue) ==
  IF listening THEN accepts' = accepts + 1 /\ ready' = queue
  ELSE /\ ready' = Append(queue, Done("accept", "bad_descriptor", 0, << >>))
       /\ UNCHANGED accepts

ReadSome(socket, queue) ==
  IF socket \notin closed THEN reads' = reads \cup {socket} /\ ready' = queue
  ELSE /\ ready' = Append(queue, Done("read", "bad_descriptor", socket, << >>))
       /\ UNCHANGED reads

Runs(op) == running /\ ready # << >> /\ Head(ready).op = op
-----------------------------------------------------------------------------
(* The handlers. *)

OnConnectionAccept ==
  /\ Runs("accept")
  /\ LET d == Head(ready) IN
     /\ socketError' = d.error
     /\ IF d.error # "none"
        THEN ready' = Tail(ready) /\ UNCHANGED <<existingSockets, connections, reads>>
        ELSE /\ existingSockets' = Append(existingSockets, d.socket)
             /\ connections' = connections + 1
             /\ ReadSome(d.socket, Tail(ready))
  /\ UNCHANGED <<listening, accepts, netVars, closed, readVars, running>>

Ends(bytes) == {i \in DOMAIN bytes : bytes[i].pos = FrameLen}

\* The loop over receiveBuffer: what the messages are once `bytes` are read.
Latest(S) == CHOOSE i \in S : \A j \in S : j <= i
Previous(text, i) == LET before == {j \in Ends(text) : j < i}
                     IN IF before = {} THEN 0 ELSE Latest(before)
CountMessages(bytes) ==
  LET text == currentMessage \o bytes
      ends == Ends(text)
  IN /\ nrOfMessagesReceived' = nrOfMessagesReceived + Cardinality(ends)
     /\ IF ends = {}
        THEN currentMessage' = text /\ UNCHANGED previousMessage
        ELSE /\ previousMessage' =
                  SubSeq(text, Previous(text, Latest(ends)) + 1, Latest(ends) - 1)
             /\ currentMessage' = SubSeq(text, Latest(ends) + 1, Len(text))

\* The first of the sockets that is `socket` is erased.
RemoveSocket(socket) ==
  LET places == {i \in DOMAIN existingSockets : existingSockets[i] = socket} IN
  \/ places = {} /\ UNCHANGED existingSockets
  \/ \E i \in places :
       /\ \A j \in places : i <= j
       /\ existingSockets' = SubSeq(existingSockets, 1, i - 1)
                               \o SubSeq(existingSockets, i + 1, Len(existingSockets))

HandleRead ==
  /\ Runs("read")
  /\ LET d == Head(ready) IN
     /\ socketError' = d.error
     /\ \/ /\ d.error # "none"
           /\ RemoveSocket(d.socket)
           /\ connections' = connections - 1
           /\ WaitForNewConnection(Tail(ready))
           /\ UNCHANGED <<reads, readVars>>
        \/ /\ d.error = "none"
           /\ receivedBytes' = receivedBytes + Len(d.bytes)
           /\ CountMessages(d.bytes)
           /\ received' = received \o d.bytes
           /\ ReadSome(d.socket, Tail(ready))
           /\ UNCHANGED <<accepts, existingSockets, connections>>
  /\ UNCHANGED <<listening, netVars, closed, running>>

\* The sockets are closed in order, which aborts the reads on them; what has arrived
\* and was not read is lost.
CloseFunction ==
  /\ Runs("close")
  /\ LET sockets == {existingSockets[i] : i \in DOMAIN existingSockets}
         busy    == {i \in DOMAIN existingSockets : existingSockets[i] \in reads}
         aborted == CHOOSE place \in [1..Cardinality(busy) -> busy] :
                      \A i, j \in DOMAIN place : i < j => place[i] < place[j]
     IN /\ closed' = closed \cup sockets
        /\ inbox' = [s \in Socket |-> IF s \in sockets THEN << >> ELSE inbox[s]]
        /\ reads' = reads \ sockets
        /\ ready' = Tail(ready) \o [i \in DOMAIN aborted |->
                      Done("read", "operation_aborted", existingSockets[aborted[i]], << >>)]
  /\ existingSockets' = << >>
  /\ UNCHANGED <<listening, accepts, backlog, left, readVars, connections, socketError,
                 running>>

\* ThreadFunction(): run() returns when there is nothing left to do.
ServiceEnds ==
  /\ running
  /\ accepts = 0 /\ reads = {} /\ ready = << >>
  /\ running' = FALSE
  /\ UNCHANGED <<listening, asioVars, netVars, closed, readVars, existingSockets,
                 connections, socketError>>
-----------------------------------------------------------------------------
(* The test's thread. *)

CloseAllConnections ==
  /\ ready' = Append(ready, Done("close", "none", 0, << >>))
  /\ UNCHANGED <<listening, accepts, reads, netVars, closed, readVars, existingSockets,
                 connections, socketError, running>>

GetLatestMessage ==
  /\ previousMessage' = << >>
  /\ UNCHANGED <<listening, asioVars, netVars, closed, receivedBytes,
                 nrOfMessagesReceived, currentMessage, received, existingSockets,
                 connections, socketError, running>>

GetLastSocketError ==
  /\ socketError' = "none"
  /\ UNCHANGED <<listening, asioVars, netVars, closed, readVars, existingSockets,
                 connections, running>>

ClearReceivedBytes ==
  /\ receivedBytes' = 0
  /\ UNCHANGED <<listening, asioVars, netVars, closed, nrOfMessagesReceived,
                 currentMessage, previousMessage, received, existingSockets,
                 connections, socketError, running>>

\* acceptor.close() of the destructor: whoever is in the backlog is reset.
CloseAcceptor ==
  /\ listening' = FALSE
  /\ ready' = ready \o [i \in 1..accepts |->
                          Done("accept", "operation_aborted", 0, << >>)]
  /\ accepts' = 0
  /\ LET sockets == {backlog[i] : i \in DOMAIN backlog} IN
     /\ closed' = closed \cup sockets
     /\ inbox' = [s \in Socket |-> IF s \in sockets THEN << >> ELSE inbox[s]]
  /\ backlog' = << >>
  /\ UNCHANGED <<reads, left, readVars, existingSockets, connections,
                 socketError, running>>
-----------------------------------------------------------------------------
(* The kernel. *)

AcceptDone ==
  /\ running /\ accepts > 0 /\ backlog # << >>
  /\ accepts' = accepts - 1
  /\ ready' = Append(ready, Done("accept", "none", Head(backlog), << >>))
  /\ backlog' = Tail(backlog)
  /\ UNCHANGED <<listening, reads, left, inbox, closed, readVars, existingSockets,
                 connections, socketError, running>>

\* A read is given some of what has arrived, at most a buffer of it, and the end
\* of the stream when nothing else can arrive.
ReadDone(socket) ==
  /\ running /\ socket \in reads
  /\ reads' = reads \ {socket}
  /\ \/ \E n \in 1..BufferSize :
          /\ n <= Len(inbox[socket])
          /\ ready' = Append(ready,
                        Done("read", "none", socket, SubSeq(inbox[socket], 1, n)))
          /\ inbox' = [inbox EXCEPT ![socket] = SubSeq(@, n + 1, Len(@))]
     \/ /\ inbox[socket] = << >> /\ socket \in left
        /\ ready' = Append(ready, Done("read", "eof", socket, << >>))
        /\ UNCHANGED inbox
  /\ UNCHANGED <<listening, accepts, backlog, left, closed, readVars, existingSockets,
                 connections, socketError, running>>

Serve ==
  \/ OnConnectionAccept \/ HandleRead \/ CloseFunction \/ ServiceEnds
  \/ AcceptDone \/ \E socket \in Socket : ReadDone(socket)

\* What a client does to the server's end.
Connects(socket) ==
  /\ listening
  /\ backlog' = Append(backlog, socket)
  /\ UNCHANGED <<listening, asioVars, left, inbox, closed, readVars, existingSockets,
                 connections, socketError, running>>

Arrives(socket, byte) ==
  /\ inbox' = IF socket \in closed THEN inbox
              ELSE [inbox EXCEPT ![socket] = Append(@, byte)]
  /\ UNCHANGED <<listening, asioVars, backlog, left, closed, readVars,
                 existingSockets, connections, socketError, running>>

Leaves(sockets) ==
  /\ left' = left \cup sockets
  /\ UNCHANGED <<listening, asioVars, backlog, inbox, closed, readVars,
                 existingSockets, connections, socketError, running>>

\* LogTestServer(), if there is one.
Started(exists) ==
  /\ listening = exists /\ running = exists
  /\ accepts = IF exists THEN 1 ELSE 0
  /\ reads = {} /\ ready = << >> /\ backlog = << >>
  /\ closed = {} /\ left = {}
  /\ inbox = [socket \in Socket |-> << >>]
  /\ existingSockets = << >> /\ connections = 0
  /\ receivedBytes = 0 /\ nrOfMessagesReceived = 0
  /\ currentMessage = << >> /\ previousMessage = << >>
  /\ socketError = "none"
  /\ received = << >>
-----------------------------------------------------------------------------
(* Properties *)

Handlers(op) == Cardinality({i \in DOMAIN ready : ready[i].op = op})

\* There is one receiveBuffer for all sockets: while the server listens either one
\* accept or one read is outstanding, and GetNrOfConnections() tells which.
OneServerOperation ==
  /\ connections = Cardinality(reads) + Handlers("read")
  /\ connections + accepts + Handlers("accept") <= 1
  /\ listening => connections + accepts + Handlers("accept") = 1
=============================================================================
