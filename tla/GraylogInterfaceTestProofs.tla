---------------------- MODULE GraylogInterfaceTestProofs ----------------------
(* Theorems about the server of the tests, the connections it has with them and  *)
(* what arrives over them, for every value of the constants.                     *)
EXTENDS GraylogInterfaceTest, GraylogConnectionProofs, TLAPS, FiniteSetTheorems,
        SequenceTheorems

-----------------------------------------------------------------------------
(* A sequence of whatever items, and the items of one operation in it.           *)

IsSequence(s) == s \in Seq({s[i] : i \in DOMAIN s})

None(op, s)     == \A i \in DOMAIN s : s[i].op # op
Only(op, k, s)  == /\ k \in DOMAIN s /\ s[k].op = op
                   /\ \A i \in DOMAIN s : s[i].op = op => i = k

LEMMA ItsItems == ASSUME NEW S, NEW s \in Seq(S) PROVE IsSequence(s)
<1>1. Len(s) \in Nat /\ DOMAIN s = 1..Len(s)
  BY LenProperties
<1>2. s \in [1..Len(s) -> {s[i] : i \in DOMAIN s}]
  <2>1. s = [i \in 1..Len(s) |-> s[i]]
    BY LenProperties
  <2> QED BY <1>1, <2>1
<1> QED BY <1>1, <1>2, SeqDef DEF IsSequence

LEMMA Longer ==
  ASSUME NEW s, IsSequence(s), NEW e
  PROVE  /\ IsSequence(Append(s, e))
         /\ Len(s) \in Nat /\ DOMAIN s = 1..Len(s) /\ DOMAIN Append(s, e) = 1..(Len(s) + 1)
         /\ \A i \in DOMAIN s : Append(s, e)[i] = s[i]
         /\ Append(s, e)[Len(s) + 1] = e
<1> DEFINE S == {s[i] : i \in DOMAIN s} \cup {e}
<1>1. s \in Seq(S) /\ e \in S
  <2>1. s \in Seq({s[i] : i \in DOMAIN s})
    BY DEF IsSequence
  <2>2. Len(s) \in Nat /\ DOMAIN s = 1..Len(s) /\ s \in [1..Len(s) -> {s[i] : i \in DOMAIN s}]
    BY <2>1, LenProperties
  <2>3. s \in [1..Len(s) -> S]
    BY <2>2
  <2> QED BY <2>2, <2>3, SeqDef
<1> HIDE DEF S
<1>2. /\ Append(s, e) \in Seq(S) /\ Len(Append(s, e)) = Len(s) + 1
      /\ \A i \in 1..Len(s) : Append(s, e)[i] = s[i]
      /\ Append(s, e)[Len(s) + 1] = e
  BY <1>1, AppendProperties
<1>3. Len(s) \in Nat /\ DOMAIN s = 1..Len(s) /\ DOMAIN Append(s, e) = 1..Len(Append(s, e))
  BY <1>1, <1>2, LenProperties
<1> QED BY <1>2, <1>3, ItsItems

LEMMA Shorter ==
  ASSUME NEW s, IsSequence(s), s # << >>
  PROVE  /\ IsSequence(Tail(s)) /\ Head(s) = s[1] /\ 1 \in DOMAIN s
         /\ Len(s) \in Nat /\ DOMAIN s = 1..Len(s) /\ DOMAIN Tail(s) = 1..(Len(s) - 1)
         /\ \A i \in DOMAIN Tail(s) : Tail(s)[i] = s[i + 1]
<1> DEFINE S == {s[i] : i \in DOMAIN s}
<1>1. s \in Seq(S)
  BY DEF IsSequence
<1> HIDE DEF S
<1>2. Len(s) \in Nat \ {0} /\ DOMAIN s = 1..Len(s)
  BY <1>1, LenProperties, EmptySeq
<1>3. /\ Tail(s) \in Seq(S) /\ Len(Tail(s)) = Len(s) - 1
      /\ \A i \in 1..Len(Tail(s)) : Tail(s)[i] = s[i + 1]
  BY <1>1, HeadTailProperties
<1>4. DOMAIN Tail(s) = 1..Len(Tail(s)) /\ Head(s) = s[1]
  BY <1>1, <1>3, LenProperties
<1>5. IsSequence(Tail(s))
  BY <1>3, ItsItems
<1>6. DOMAIN Tail(s) = 1..(Len(s) - 1)
  BY <1>3, <1>4
<1> QED BY <1>2, <1>3, <1>4, <1>5, <1>6

-----------------------------------------------------------------------------
(* What the items of an operation are after a change of the sequence.            *)

LEMMA AddedItem ==
  ASSUME NEW s, IsSequence(s), NEW e, NEW op
  PROVE  /\ None(op, s) /\ e.op # op => None(op, Append(s, e))
         /\ None(op, s) /\ e.op = op =>
              Only(op, Len(s) + 1, Append(s, e)) /\ Append(s, e)[Len(s) + 1] = e
BY Longer DEF None, Only

LEMMA KeptItem ==
  ASSUME NEW s, IsSequence(s), NEW e, NEW op, e.op # op, NEW k, Only(op, k, s)
  PROVE  Only(op, k, Append(s, e)) /\ Append(s, e)[k] = s[k]
BY Longer DEF Only

LEMMA TakenItem ==
  ASSUME NEW s, IsSequence(s), s # << >>, NEW op
  PROVE  /\ None(op, s) => None(op, Tail(s)) /\ Head(s).op # op
         /\ \A k : Only(op, k, s) /\ Head(s).op = op => k = 1 /\ None(op, Tail(s))
         /\ \A k : Only(op, k, s) /\ Head(s).op # op =>
              Only(op, k - 1, Tail(s)) /\ Tail(s)[k - 1] = s[k]
BY Shorter DEF None, Only

LEMMA Count ==
  ASSUME NEW s, NEW op
  PROVE  /\ None(op, s) => Cardinality({i \in DOMAIN s : s[i].op = op}) = 0
         /\ \A k : Only(op, k, s) => Cardinality({i \in DOMAIN s : s[i].op = op}) = 1
<1>1. ASSUME None(op, s)
      PROVE  Cardinality({i \in DOMAIN s : s[i].op = op}) = 0
  <2>1. {i \in DOMAIN s : s[i].op = op} = {}
    BY <1>1 DEF None
  <2> QED BY <2>1, FS_EmptySet
<1>2. ASSUME NEW k, Only(op, k, s)
      PROVE  Cardinality({i \in DOMAIN s : s[i].op = op}) = 1
  <2>1. {i \in DOMAIN s : s[i].op = op} = {k}
    BY <1>2 DEF Only
  <2> QED BY <2>1, FS_Singleton
<1> QED BY <1>1, <1>2
-----------------------------------------------------------------------------
(* The server's one operation: an accept or a read, outstanding or completed.    *)

Accepting ==
  /\ accepts = 1 /\ connections = 0 /\ reads = {} /\ existingSockets = << >>
  /\ None("accept", ready) /\ None("read", ready)

Accepted ==
  /\ accepts = 0 /\ connections = 0 /\ reads = {} /\ existingSockets = << >>
  /\ None("read", ready)
  /\ \E k \in DOMAIN ready : /\ Only("accept", k, ready)
                             /\ ready[k].error # "none" => ~listening

\* A socket that CloseFunction() has closed is no longer in existingSockets.
Reading ==
  /\ accepts = 0 /\ connections = 1
  /\ None("accept", ready) /\ None("read", ready)
  /\ \E socket : reads = {socket} /\ existingSockets \in {<< >>, <<socket>>}

Read ==
  /\ accepts = 0 /\ connections = 1 /\ reads = {}
  /\ None("accept", ready)
  /\ \E k \in DOMAIN ready : /\ Only("read", k, ready)
                             /\ existingSockets \in {<< >>, <<ready[k].socket>>}

Over ==
  /\ accepts = 0 /\ connections = 0 /\ reads = {} /\ existingSockets = << >>
  /\ None("accept", ready) /\ None("read", ready)
  /\ ~listening

OneOperation ==
  IsSequence(ready) /\ (Accepting \/ Accepted \/ Reading \/ Read \/ Over)

LEMMA HandlersCounted ==
  ASSUME NEW op
  PROVE  /\ None(op, ready) => Server!Handlers(op) = 0
         /\ \A k : Only(op, k, ready) => Server!Handlers(op) = 1
<1>1. Server!Handlers(op) = Cardinality({i \in DOMAIN ready : ready[i].op = op})
  BY DEF Server!Handlers, Server!Cardinality, Cardinality
<1> QED BY <1>1, Count

LEMMA OneOperationCounts == OneOperation => Server!OneServerOperation
<1> SUFFICES ASSUME OneOperation PROVE Server!OneServerOperation
  OBVIOUS
<1> DEFINE R == Server!Handlers("read")
           A == Server!Handlers("accept")
<1>1. /\ None("read", ready) => R = 0
      /\ None("accept", ready) => A = 0
      /\ \A k : Only("read", k, ready) => R = 1
      /\ \A k : Only("accept", k, ready) => A = 1
  BY HandlersCounted
<1>2. reads = {} => Cardinality(reads) = 0
  BY FS_EmptySet
<1>3. \A socket : reads = {socket} => Cardinality(reads) = 1
  BY FS_Singleton
<1>4. SUFFICES /\ connections = Cardinality(reads) + R
               /\ connections + accepts + A <= 1
               /\ listening => connections + accepts + A = 1
  BY DEF Server!OneServerOperation, Server!Cardinality, Cardinality
<1> HIDE DEF R, A
<1>5. CASE Accepting
  BY <1>1, <1>2, <1>5 DEF Accepting
<1>6. CASE Accepted
  BY <1>1, <1>2, <1>6 DEF Accepted
<1>7. CASE Reading
  <2>1. Cardinality(reads) = 1
    BY <1>3, <1>7 DEF Reading
  <2>2. accepts = 0 /\ connections = 1 /\ R = 0 /\ A = 0
    BY <1>1, <1>7 DEF Reading
  <2> QED BY <2>1, <2>2
<1>8. CASE Read
  BY <1>1, <1>2, <1>8 DEF Read
<1>9. CASE Over
  BY <1>1, <1>2, <1>9 DEF Over
<1> QED BY <1>5, <1>6, <1>7, <1>8, <1>9 DEF OneOperation

-----------------------------------------------------------------------------
(* Starting an operation once a completed one has been taken from the sequence.  *)

LEMMA WaitsForNext ==
  ASSUME NEW rest, IsSequence(rest), None("accept", rest), None("read", rest),
         accepts = 0, Server!WaitForNewConnection(rest),
         reads' = {}, connections' = 0, existingSockets' = << >>,
         listening' = listening
  PROVE  OneOperation'
<1>1. CASE listening
  BY <1>1 DEF Server!WaitForNewConnection, OneOperation, Accepting
<1>2. CASE ~listening
  <2> DEFINE e == Server!Done("accept", "bad_descriptor", 0, << >>)
  <2>1. ready' = Append(rest, e) /\ accepts' = 0 /\ e.op = "accept"
    BY <1>2 DEF Server!WaitForNewConnection, Server!Done
  <2> HIDE DEF e
  <2>2. IsSequence(ready') /\ None("read", ready')
        /\ Only("accept", Len(rest) + 1, ready')
    BY <2>1, Longer, AddedItem
  <2>3. Accepted'
    <3>1. Len(rest) + 1 \in DOMAIN ready' /\ ~listening'
      BY <1>2, <2>2 DEF Only
    <3> QED BY <2>1, <2>2, <3>1 DEF Accepted
  <2> QED BY <2>2, <2>3 DEF OneOperation
<1> QED BY <1>1, <1>2

LEMMA ReadsNext ==
  ASSUME NEW rest, IsSequence(rest), None("accept", rest), None("read", rest),
         NEW socket, accepts' = 0, reads = {}, Server!ReadSome(socket, rest),
         connections' = 1, existingSockets' \in {<< >>, <<socket>>}
  PROVE  OneOperation'
<1>1. CASE socket \notin closed
  BY <1>1 DEF Server!ReadSome, OneOperation, Reading
<1>2. CASE socket \in closed
  <2> DEFINE e == Server!Done("read", "bad_descriptor", socket, << >>)
  <2>1. ready' = Append(rest, e) /\ reads' = {} /\ e.op = "read" /\ e.socket = socket
    BY <1>2 DEF Server!ReadSome, Server!Done
  <2> HIDE DEF e
  <2>2. /\ IsSequence(ready') /\ None("accept", ready')
        /\ Only("read", Len(rest) + 1, ready') /\ ready'[Len(rest) + 1] = e
    BY <2>1, Longer, AddedItem
  <2>3. Read'
    BY <2>1, <2>2 DEF Read, Only
  <2> QED BY <2>2, <2>3 DEF OneOperation
<1> QED BY <1>1, <1>2

LEMMA SocketRemoved ==
  ASSUME NEW socket, existingSockets \in {<< >>, <<socket>>}, Server!RemoveSocket(socket)
  PROVE  existingSockets' = << >>
<1>1. CASE existingSockets = << >>
  BY <1>1 DEF Server!RemoveSocket
<1>2. CASE existingSockets = <<socket>>
  <2>1. /\ DOMAIN existingSockets = {1} /\ existingSockets[1] = socket
        /\ Len(existingSockets) = 1
    BY <1>2
  <2>2. existingSockets' = SubSeq(existingSockets, 1, 0) \o SubSeq(existingSockets, 2, 1)
    BY <2>1 DEF Server!RemoveSocket
  <2>3. SubSeq(existingSockets, 1, 0) = << >> /\ SubSeq(existingSockets, 2, 1) = << >>
    BY SubSeqEmpty
  <2>4. << >> \o << >> = << >>
    BY EmptySeq, ConcatEmptySeq
  <2> QED BY <2>2, <2>3, <2>4
<1> QED BY <1>1, <1>2
-----------------------------------------------------------------------------
(* The server's handlers *)

LEMMA AcceptKeeps ==
  ASSUME OneOperation, Server!OnConnectionAccept
  PROVE  OneOperation'
<1> DEFINE d    == Head(ready)
           rest == Tail(ready)
<1>1. /\ IsSequence(ready) /\ ready # << >> /\ d.op = "accept"
      /\ accepts' = accepts /\ listening' = listening
  BY DEF OneOperation, Server!OnConnectionAccept, Server!Runs
<1>2. /\ Accepted /\ None("accept", rest) /\ None("read", rest) /\ IsSequence(rest)
      /\ d.error # "none" => ~listening
  BY <1>1, TakenItem, Shorter DEF OneOperation, Accepting, Accepted, Reading, Read, Over
<1>3. CASE d.error # "none"
  <2>1. UNCHANGED <<existingSockets, connections, reads>> /\ ready' = rest
    BY <1>3 DEF Server!OnConnectionAccept
  <2> HIDE DEF d, rest
  <2> QED BY <1>1, <1>2, <1>3, <2>1 DEF OneOperation, Accepted, Over
<1>4. CASE d.error = "none"
  <2>1. /\ existingSockets' = Append(existingSockets, d.socket)
        /\ connections' = connections + 1
        /\ Server!ReadSome(d.socket, rest)
    BY <1>4 DEF Server!OnConnectionAccept
  <2> DEFINE socket == d.socket
  <2> HIDE DEF d, rest, socket
  <2>2. existingSockets' = <<socket>> /\ connections' = 1 /\ accepts' = 0 /\ reads = {}
    BY <1>1, <1>2, <2>1 DEF Accepted, socket
  <2> QED BY <1>2, <2>1, <2>2, ReadsNext DEF socket
<1> QED BY <1>3, <1>4

LEMMA ReadKeeps ==
  ASSUME OneOperation, Server!HandleRead
  PROVE  OneOperation'
<1> DEFINE d    == Head(ready)
           rest == Tail(ready)
<1>1. /\ IsSequence(ready) /\ ready # << >> /\ d.op = "read" /\ d = ready[1]
      /\ listening' = listening
  BY Shorter DEF OneOperation, Server!HandleRead, Server!Runs
<1>2. Read /\ None("accept", rest) /\ None("read", rest) /\ IsSequence(rest)
  BY <1>1, TakenItem, Shorter DEF OneOperation, Accepting, Accepted, Reading, Read, Over
<1>3. existingSockets \in {<< >>, <<d.socket>>} /\ reads = {} /\ accepts = 0 /\ connections = 1
  BY <1>1, <1>2, TakenItem DEF Read
<1>4. CASE d.error # "none"
  <2>1. /\ Server!RemoveSocket(d.socket) /\ connections' = connections - 1
        /\ Server!WaitForNewConnection(rest) /\ reads' = reads
    BY <1>4 DEF Server!HandleRead
  <2> HIDE DEF d, rest
  <2>2. existingSockets' = << >>
    BY <1>3, <2>1, SocketRemoved
  <2>3. connections' = 0 /\ reads' = {}
    BY <1>3, <2>1
  <2> QED BY <1>1, <1>2, <1>3, <2>1, <2>2, <2>3, WaitsForNext
<1>5. CASE d.error = "none"
  <2>1. /\ Server!ReadSome(d.socket, rest)
        /\ accepts' = accepts /\ existingSockets' = existingSockets
        /\ connections' = connections
    BY <1>5 DEF Server!HandleRead
  <2> HIDE DEF d, rest
  <2>2. existingSockets' \in {<< >>, <<d.socket>>} /\ accepts' = 0 /\ connections' = 1
    BY <1>3, <2>1
  <2> QED BY <1>2, <1>3, <2>1, <2>2, ReadsNext
<1> QED BY <1>4, <1>5
\* What CloseFunction() finds to abort: nothing, or the one read.
LEMMA NothingToAbort ==
  ASSUME NEW busy, busy = {}
  PROVE  DOMAIN (CHOOSE place \in [1..Cardinality(busy) -> busy] :
                   \A i, j \in DOMAIN place : i < j => place[i] < place[j]) = {}
<1> DEFINE Ascending(place) == \A i, j \in DOMAIN place : i < j => place[i] < place[j]
           aborted == CHOOSE place \in [1..Cardinality(busy) -> busy] : Ascending(place)
<1>1. 1..Cardinality(busy) = {}
  BY FS_EmptySet
<1>2. [i \in {} |-> 1] \in [1..Cardinality(busy) -> busy] /\ Ascending([i \in {} |-> 1])
  BY <1>1
<1> HIDE DEF Ascending
<1>3. aborted \in [1..Cardinality(busy) -> busy]
  BY <1>2
<1>4. DOMAIN aborted = {}
  BY <1>1, <1>3
<1> QED BY <1>4 DEF Ascending

LEMMA OneToAbort ==
  ASSUME NEW busy, busy = {1}
  PROVE  \E aborted :
           /\ aborted = CHOOSE place \in [1..Cardinality(busy) -> busy] :
                          \A i, j \in DOMAIN place : i < j => place[i] < place[j]
           /\ DOMAIN aborted = 1..1 /\ aborted[1] = 1
<1> DEFINE Ascending(place) == \A i, j \in DOMAIN place : i < j => place[i] < place[j]
           aborted == CHOOSE place \in [1..Cardinality(busy) -> busy] : Ascending(place)
<1>1. Cardinality(busy) = 1
  BY FS_Singleton
<1>2. [i \in 1..1 |-> 1] \in [1..Cardinality(busy) -> busy] /\ Ascending([i \in 1..1 |-> 1])
  BY <1>1
<1> HIDE DEF Ascending
<1>3. aborted \in [1..Cardinality(busy) -> busy]
  BY <1>2
<1>4. DOMAIN aborted = 1..1 /\ aborted[1] = 1
  BY <1>1, <1>3
<1> QED BY <1>4 DEF Ascending
LEMMA OneItem == ASSUME NEW x PROVE [i \in 1..1 |-> x] = <<x>>
<1> DEFINE f == [i \in 1..1 |-> x]
<1>1. f \in Seq({x})
  BY SeqDef
<1>2. Len(f) = 1 /\ f[1] = x
  BY <1>1, LenProperties
<1>3. <<x>> \in Seq({x}) /\ Len(<<x>>) = 1 /\ <<x>>[1] = x
  OBVIOUS
<1> HIDE DEF f
<1>4. f = <<x>>
  BY <1>1, <1>2, <1>3, SeqEqual
<1> QED BY <1>4 DEF f

\* A sequence with nothing, or one item, behind it.
LEMMA Joined ==
  ASSUME NEW s, IsSequence(s), NEW f
  PROVE  /\ DOMAIN f = {} => s \o [i \in DOMAIN f |-> f[i]] = s
         /\ DOMAIN f = 1..1 => s \o [i \in DOMAIN f |-> f[i]] = Append(s, f[1])
<1> DEFINE g == [i \in DOMAIN f |-> f[i]]
<1>1. ASSUME DOMAIN f = {}
      PROVE  s \o g = s
  <2>1. g = << >>
    BY <1>1
  <2> HIDE DEF g
  <2>2. s \o << >> = s
    BY ConcatEmptySeq DEF IsSequence
  <2> QED BY <2>1, <2>2
<1>2. ASSUME DOMAIN f = 1..1
      PROVE  s \o g = Append(s, f[1])
  <2>1. g = <<f[1]>>
    <3>1. g = [i \in 1..1 |-> f[1]]
      BY <1>2
    <3> HIDE DEF g
    <3> QED BY <3>1, OneItem
  <2> HIDE DEF g
  <2> DEFINE S == {s[i] : i \in DOMAIN s} \cup {f[1]}
  <2>2. s \in Seq(S)
    <3>1. s \in Seq({s[i] : i \in DOMAIN s})
      BY DEF IsSequence
    <3>2. /\ Len(s) \in Nat /\ DOMAIN s = 1..Len(s)
          /\ s \in [1..Len(s) -> {s[i] : i \in DOMAIN s}]
      BY <3>1, LenProperties
    <3>3. s \in [1..Len(s) -> S]
      BY <3>2
    <3> QED BY <3>2, <3>3, SeqDef
  <2>3. f[1] \in S
    OBVIOUS
  <2> HIDE DEF S
  <2> QED BY <2>1, <2>2, <2>3, AppendIsConcat
<1> QED BY <1>1, <1>2

\* CloseFunction() aborts the read, if there is one on a socket it closes.
LEMMA CloseAborts ==
  ASSUME OneOperation, Server!CloseFunction
  PROVE  \/ ready' = Tail(ready) /\ reads' = reads
         \/ \E socket :
              /\ reads = {socket} /\ reads' = {} /\ existingSockets = <<socket>>
              /\ ready' = Append(Tail(ready),
                            Server!Done("read", "operation_aborted", socket, << >>))
<1> DEFINE sockets == {existingSockets[i] : i \in DOMAIN existingSockets}
           busy    == {i \in DOMAIN existingSockets : existingSockets[i] \in reads}
           aborted == CHOOSE place \in [1..Cardinality(busy) -> busy] :
                        \A i, j \in DOMAIN place : i < j => place[i] < place[j]
           rest    == Tail(ready)
           ends    == [i \in DOMAIN aborted |->
                         Server!Done("read", "operation_aborted",
                                     existingSockets[aborted[i]], << >>)]
<1>1. reads' = reads \ sockets /\ ready' = rest \o ends
  BY DEF Server!CloseFunction, Server!Cardinality, Cardinality
<1>2. IsSequence(rest)
  BY Shorter DEF OneOperation, Server!CloseFunction, Server!Runs
<1>3. ends = [i \in DOMAIN ends |-> ends[i]]
  OBVIOUS
<1>4. CASE busy = {}
  <2>1. DOMAIN ends = {}
    BY <1>4, NothingToAbort
  <2>2. reads' = reads
    BY <1>1, <1>4
  <2> HIDE DEF rest, ends, sockets, busy, aborted
  <2>3. ready' = rest
    BY <1>1, <1>2, <1>3, <2>1, Joined
  <2> QED BY <2>2, <2>3 DEF rest
<1>5. CASE busy # {}
  <2>1. PICK socket : reads = {socket} /\ existingSockets = <<socket>>
    BY <1>5 DEF OneOperation, Accepting, Accepted, Reading, Read, Over
  <2>2. busy = {1} /\ sockets = {socket} /\ existingSockets[1] = socket
    BY <2>1
  <2> DEFINE e == Server!Done("read", "operation_aborted", socket, << >>)
  <2>3. DOMAIN aborted = 1..1 /\ aborted[1] = 1
    BY <2>2, OneToAbort
  <2>4. DOMAIN ends = 1..1 /\ ends[1] = e
    BY <2>2, <2>3
  <2> HIDE DEF rest, ends, sockets, busy, aborted, e
  <2>5. ready' = Append(rest, e) /\ reads' = {}
    BY <1>1, <1>2, <1>3, <2>1, <2>2, <2>4, Joined
  <2> QED BY <2>1, <2>5 DEF rest, e
<1> QED BY <1>4, <1>5

LEMMA CloseKeeps ==
  ASSUME OneOperation, Server!CloseFunction
  PROVE  OneOperation'
<1> DEFINE rest == Tail(ready)
<1>1. /\ Head(ready).op = "close" /\ ready # << >> /\ existingSockets' = << >>
      /\ listening' = listening /\ accepts' = accepts /\ connections' = connections
  BY DEF Server!CloseFunction, Server!Runs
<1>2. /\ IsSequence(ready) /\ IsSequence(rest)
      /\ \A op : None(op, ready) => None(op, rest)
      /\ \A op \in {"accept", "read"} : \A k : Only(op, k, ready) =>
           Only(op, k - 1, rest) /\ rest[k - 1] = ready[k]
  <2>1. IsSequence(ready) /\ IsSequence(rest)
    BY <1>1, Shorter DEF OneOperation
  <2>2. \A op : None(op, ready) => None(op, rest)
    BY <1>1, <2>1, TakenItem
  <2>3. ASSUME NEW op, op # "close", NEW k, Only(op, k, ready)
        PROVE  Only(op, k - 1, rest) /\ rest[k - 1] = ready[k]
    <3>1. \A l : Only(op, l, ready) /\ Head(ready).op # op =>
            Only(op, l - 1, Tail(ready)) /\ Tail(ready)[l - 1] = ready[l]
      BY <1>1, <2>1, TakenItem, Zenon
    <3>2. Head(ready).op # op
      BY <1>1, <2>3
    <3> QED BY <2>3, <3>1, <3>2, Zenon
  <2> QED BY <2>1, <2>2, <2>3
<1>3. CASE ready' = Tail(ready) /\ reads' = reads
  <2>1. ready' = rest /\ reads' = reads
    BY <1>3
  <2> HIDE DEF rest
  <2>2. Accepting => Accepting'
    BY <1>1, <1>2, <2>1 DEF Accepting
  <2>3. Accepted => Accepted'
    BY <1>1, <1>2, <2>1 DEF Accepted, Only
  <2>4. Reading => Reading'
    BY <1>1, <1>2, <2>1 DEF Reading
  <2>5. Read => Read'
    BY <1>1, <1>2, <2>1 DEF Read, Only
  <2>6. Over => Over'
    BY <1>1, <1>2, <2>1 DEF Over
  <2> QED BY <1>2, <2>1, <2>2, <2>3, <2>4, <2>5, <2>6 DEF OneOperation
<1>4. ASSUME NEW socket, reads = {socket}, reads' = {},
             ready' = Append(Tail(ready),
                             Server!Done("read", "operation_aborted", socket, << >>))
      PROVE  OneOperation'
  <2> DEFINE e == Server!Done("read", "operation_aborted", socket, << >>)
  <2>1. ready' = Append(rest, e) /\ e.op = "read" /\ e.socket = socket
    BY <1>4 DEF Server!Done
  <2>2. Reading
    BY <1>4 DEF OneOperation, Accepting, Accepted, Read, Over
  <2>3. None("accept", rest) /\ None("read", rest)
    BY <1>2, <2>2 DEF Reading
  <2> HIDE DEF rest, e
  <2>4. /\ IsSequence(ready') /\ None("accept", ready')
        /\ Only("read", Len(rest) + 1, ready')
    BY <1>2, <2>1, <2>3, Longer, AddedItem
  <2>5. Len(rest) + 1 \in DOMAIN ready'
    BY <2>4 DEF Only
  <2>6. Read'
    BY <1>1, <1>4, <2>2, <2>4, <2>5 DEF Read, Reading
  <2> QED BY <2>4, <2>6 DEF OneOperation
<1> QED BY <1>3, <1>4, CloseAborts
-----------------------------------------------------------------------------
(* The kernel, and the calls of the test's thread                               *)

\* The operation that was started completes with item e.
LEMMA AcceptCompletes ==
  ASSUME OneOperation, accepts > 0, NEW e, e.op = "accept", ready' = Append(ready, e),
         accepts' = 0, UNCHANGED <<connections, reads, existingSockets>>,
         e.error # "none" => ~listening'
  PROVE  OneOperation'
<1>1. Accepting /\ IsSequence(ready)
  BY DEF OneOperation, Accepted, Reading, Read, Over
<1>2. /\ IsSequence(ready') /\ None("read", ready')
      /\ Only("accept", Len(ready) + 1, ready') /\ ready'[Len(ready) + 1] = e
  BY <1>1, Longer, AddedItem DEF Accepting
<1>3. Len(ready) + 1 \in DOMAIN ready'
  BY <1>2 DEF Only
<1>4. Accepted'
  BY <1>1, <1>2, <1>3 DEF Accepting, Accepted
<1> QED BY <1>2, <1>4 DEF OneOperation

LEMMA ReadCompletes ==
  ASSUME OneOperation, NEW socket \in reads, NEW e, e.op = "read", e.socket = socket,
         ready' = Append(ready, e), reads' = reads \ {socket},
         UNCHANGED <<accepts, connections, existingSockets>>
  PROVE  OneOperation'
<1>1. Reading /\ IsSequence(ready)
  BY DEF OneOperation, Accepting, Accepted, Read, Over
<1>2. /\ IsSequence(ready') /\ None("accept", ready')
      /\ Only("read", Len(ready) + 1, ready') /\ ready'[Len(ready) + 1] = e
  BY <1>1, Longer, AddedItem DEF Reading
<1>3. Len(ready) + 1 \in DOMAIN ready'
  BY <1>2 DEF Only
<1>4. reads' = {} /\ existingSockets' \in {<< >>, <<socket>>}
  BY <1>1 DEF Reading
<1>5. Read'
  BY <1>1, <1>2, <1>3, <1>4 DEF Reading, Read
<1> QED BY <1>2, <1>5 DEF OneOperation

LEMMA OtherItemKeeps ==
  ASSUME OneOperation, NEW e, e.op = "close", ready' = Append(ready, e),
         UNCHANGED <<listening, accepts, connections, reads, existingSockets>>
  PROVE  OneOperation'
<1>1. IsSequence(ready) /\ IsSequence(ready')
  BY Longer DEF OneOperation
<1>2. ASSUME NEW op, op # "close"
      PROVE  /\ None(op, ready) => None(op, ready')
             /\ \A k : Only(op, k, ready) => Only(op, k, ready') /\ ready'[k] = ready[k]
  <2>1. e.op # op
    BY <1>2
  <2>2. None(op, ready) => None(op, Append(ready, e))
    BY <1>1, <2>1, AddedItem
  <2>3. \A k : Only(op, k, ready) =>
          Only(op, k, Append(ready, e)) /\ Append(ready, e)[k] = ready[k]
    BY <1>1, <2>1, KeptItem
  <2> QED BY <2>1, <2>2, <2>3
<1>3. Accepting => Accepting'
  BY <1>2 DEF Accepting
<1>4. Accepted => Accepted'
  BY <1>2 DEF Accepted, Only
<1>5. Reading => Reading'
  BY <1>2 DEF Reading
<1>6. Read => Read'
  BY <1>2 DEF Read, Only
<1>7. Over => Over'
  BY <1>2 DEF Over
<1> QED BY <1>1, <1>3, <1>4, <1>5, <1>6, <1>7 DEF OneOperation

LEMMA QuietKeeps ==
  ASSUME OneOperation,
         UNCHANGED <<listening, accepts, connections, reads, existingSockets, ready>>
  PROVE  OneOperation'
BY DEF OneOperation, Accepting, Accepted, Reading, Read, Over

LEMMA KernelKeeps ==
  ASSUME OneOperation,
         Server!AcceptDone \/ \E socket \in Server!Socket : Server!ReadDone(socket)
  PROVE  OneOperation'
<1>1. CASE Server!AcceptDone
  <2> DEFINE e == Server!Done("accept", "none", Head(backlog), << >>)
  <2>1. /\ accepts > 0 /\ accepts' = accepts - 1 /\ ready' = Append(ready, e)
        /\ UNCHANGED <<connections, reads, existingSockets>>
    BY <1>1 DEF Server!AcceptDone
  <2>2. e.op = "accept" /\ e.error = "none"
    BY DEF Server!Done
  <2> HIDE DEF e
  <2>3. accepts' = 0
    BY <2>1 DEF OneOperation, Accepting, Accepted, Reading, Read, Over
  <2> QED BY <2>1, <2>2, <2>3, AcceptCompletes
<1>2. ASSUME NEW socket \in Server!Socket, Server!ReadDone(socket)
      PROVE  OneOperation'
  <2>1. /\ socket \in reads /\ reads' = reads \ {socket}
        /\ UNCHANGED <<accepts, connections, existingSockets>>
        /\ \E error, bytes :
             ready' = Append(ready, Server!Done("read", error, socket, bytes))
    BY <1>2 DEF Server!ReadDone
  <2>2. PICK error, bytes :
          ready' = Append(ready, Server!Done("read", error, socket, bytes))
    BY <2>1
  <2> DEFINE e == Server!Done("read", error, socket, bytes)
  <2>3. ready' = Append(ready, e) /\ e.op = "read" /\ e.socket = socket
    BY <2>2 DEF Server!Done
  <2> HIDE DEF e
  <2> QED BY <2>1, <2>3, ReadCompletes
<1> QED BY <1>1, <1>2

\* Closing the acceptor aborts the accept, if there is one.
LEMMA AcceptAborts ==
  ASSUME OneOperation, Server!CloseAcceptor
  PROVE  \/ accepts = 0 /\ ready' = ready
         \/ /\ accepts = 1
            /\ ready' = Append(ready, Server!Done("accept", "operation_aborted", 0, << >>))
<1> DEFINE ends == [i \in 1..accepts |-> Server!Done("accept", "operation_aborted", 0, << >>)]
<1>1. ready' = ready \o ends
  BY DEF Server!CloseAcceptor
<1>2. IsSequence(ready) /\ ends = [i \in DOMAIN ends |-> ends[i]]
  BY DEF OneOperation
<1>3. CASE accepts = 0
  <2>1. DOMAIN ends = {}
    BY <1>3
  <2> HIDE DEF ends
  <2> QED BY <1>1, <1>2, <1>3, <2>1, Joined
<1>4. CASE accepts = 1
  <2> DEFINE e == Server!Done("accept", "operation_aborted", 0, << >>)
  <2>1. DOMAIN ends = 1..1 /\ ends[1] = e
    BY <1>4
  <2> HIDE DEF ends, e
  <2>2. ready' = Append(ready, e)
    BY <1>1, <1>2, <2>1, Joined
  <2> QED BY <1>4, <2>2 DEF e
<1> QED BY <1>3, <1>4 DEF OneOperation, Accepting, Accepted, Reading, Read, Over

LEMMA AcceptorCloses ==
  ASSUME OneOperation, Server!CloseAcceptor
  PROVE  OneOperation'
<1>1. /\ listening' = FALSE /\ accepts' = 0
      /\ UNCHANGED <<connections, reads, existingSockets>>
  BY DEF Server!CloseAcceptor
<1>2. CASE accepts = 0
  <2>1. ready' = ready
    BY <1>2, AcceptAborts
  <2> QED BY <1>1, <1>2, <2>1 DEF OneOperation, Accepting, Accepted, Reading, Read, Over
<1>3. CASE accepts = 1
  <2> DEFINE e == Server!Done("accept", "operation_aborted", 0, << >>)
  <2>1. e.op = "accept" /\ ready' = Append(ready, e)
    BY <1>3, AcceptAborts DEF Server!Done
  <2> HIDE DEF e
  <2> QED BY <1>1, <1>3, <2>1, AcceptCompletes
<1> QED BY <1>2, <1>3, AcceptAborts
-----------------------------------------------------------------------------
(* The tests' steps and the server's operation                                   *)

LEMMA ServerKeeps ==
  ASSUME OneOperation, Server!Serve
  PROVE  OneOperation'
<1>1. Server!ServiceEnds => OneOperation'
  BY QuietKeeps DEF Server!ServiceEnds, Server!asioVars
<1> QED BY <1>1, AcceptKeeps, ReadKeeps, CloseKeeps, KernelKeeps DEF Server!Serve

LEMMA CallKeeps ==
  ASSUME OneOperation, AsksServer
  PROVE  OneOperation'
<1>1. CASE Server!CloseAllConnections
  <2> DEFINE e == Server!Done("close", "none", 0, << >>)
  <2>1. /\ ready' = Append(ready, e)
        /\ UNCHANGED <<listening, accepts, connections, reads, existingSockets>>
    BY <1>1 DEF Server!CloseAllConnections
  <2>2. e.op = "close"
    BY DEF Server!Done
  <2> HIDE DEF e
  <2> QED BY <2>1, <2>2, OtherItemKeeps
<1>2. CASE Server!GetLastSocketError \/ Server!GetLatestMessage \/ Server!ClearReceivedBytes
  BY <1>2, QuietKeeps
  DEF Server!GetLastSocketError, Server!GetLatestMessage, Server!ClearReceivedBytes,
      Server!asioVars
<1> QED BY <1>1, <1>2 DEF AsksServer

\* What the client and its test do to the server's end starts and completes nothing.
LEMMA ClientKeeps ==
  ASSUME OneOperation,
         \/ UNCHANGED serverVars
         \/ \E sockets : Server!Leaves(sockets)
         \/ \E socket : Server!Connects(socket)
         \/ \E socket, byte : Server!Arrives(socket, byte)
         \/ Server!GetLatestMessage \/ Server!GetLastSocketError
  PROVE  OneOperation'
BY QuietKeeps
DEF serverVars, Server!Leaves, Server!Connects, Server!Arrives, Server!asioVars,
    Server!GetLatestMessage, Server!GetLastSocketError

LEMMA TestStep == OneOperation /\ [TestNext]_allVars => OneOperation'
<1> SUFFICES ASSUME OneOperation, [TestNext]_allVars PROVE OneOperation'
  OBVIOUS
<1>1. CASE ClientHandler
  BY <1>1, ClientKeeps DEF ClientHandler
<1>2. CASE Resolved \/ Completes
  BY <1>2, ClientKeeps DEF Resolved, Completes
<1>3. CASE Connects
  BY <1>3, ClientKeeps DEF Connects
<1>4. CASE Transmits
  BY <1>4, ClientKeeps DEF Transmits
<1>5. CASE ServerStep
  BY <1>5, ServerKeeps DEF ServerStep
<1>6. CASE Construct \/ Sends \/ Flushes \/ FlushReturns \/ Sleeps \/ Joins
  BY <1>6, ClientKeeps DEF Construct, Sends, Flushes, FlushReturns, Sleeps, Joins
<1>7. CASE Destroys
  BY <1>7, ClientKeeps DEF Destroys
<1>8. CASE AsksServer
  BY <1>8, CallKeeps
<1>9. CASE ClosesAcceptor
  BY <1>9, AcceptorCloses DEF ClosesAcceptor
<1>10. CASE Expects
  BY <1>10, ClientKeeps DEF Expects, Observes
<1>11. CASE UNCHANGED allVars
  BY <1>11, ClientKeeps DEF allVars
<1> QED BY <1>1, <1>2, <1>3, <1>4, <1>5, <1>6, <1>7, <1>8, <1>9, <1>10, <1>11
        DEF TestNext, TestThread

LEMMA TestStart == TestInit => OneOperation
<1> SUFFICES ASSUME TestInit PROVE OneOperation
  OBVIOUS
<1>1. /\ listening = HasServer(suite) /\ accepts = (IF HasServer(suite) THEN 1 ELSE 0)
      /\ reads = {} /\ ready = << >> /\ existingSockets = << >> /\ connections = 0
  BY DEF TestInit, Server!Started
<1>2. IsSequence(ready) /\ None("accept", ready) /\ None("read", ready)
  <2>1. << >> \in Seq({})
    BY EmptySeq
  <2>2. IsSequence(<< >>)
    BY <2>1, ItsItems
  <2> QED BY <1>1, <2>2 DEF None
<1> HIDE DEF HasServer
<1>3. CASE HasServer(suite)
  BY <1>1, <1>2, <1>3 DEF OneOperation, Accepting
<1>4. CASE ~HasServer(suite)
  BY <1>1, <1>2, <1>4 DEF OneOperation, Over
<1> QED BY <1>3, <1>4

\* The server of the tests has one accept or one read outstanding, whatever its
\* clients and the calls of the test's thread are: its one receiveBuffer is never
\* read into from two sockets, and GetNrOfConnections() tells which it is
\* (LogTestServer.cpp:24, 71-76, 79-107).
THEOREM ServerHasOneOperation == TestSpec => []OneServerOperation
<1>1. OneOperation => OneServerOperation
  BY OneOperationCounts DEF OneServerOperation
<1> QED BY <1>1, TestStart, TestStep, PTL DEF TestSpec
-----------------------------------------------------------------------------
(* The connection that is tested                                                 *)

\* The parts of Inv, each with the lemmas that a step of the connection keeps it.
ConnectionOK == TypeOK /\ Phases /\ DataOK /\ OrderOK /\ FlushOK

LEMMA ConnectionNext ==
  ASSUME ConnectionOK, [Next]_vars
  PROVE  ConnectionOK'
<1>1. TypeOK'
  <2>1. CASE UNCHANGED vars
    BY <2>1 DEF ConnectionOK, TypeOK, vars, clientVars, workVars, bufferVars, endpointVars,
       netVars
  <2> QED BY <2>1, HandlerType, ApplicationType, NetworkType DEF Next, ConnectionOK
<1> QED BY <1>1, NextPhase, NextData, NextOrder, NextFlush DEF ConnectionOK

\* What has not been sent, of which nothing is lost while the connection lives.
LEMMA UnsentTyped ==
  ASSUME ConnectionOK
  PROVE  Unsent \in Seq(Byte) /\ stream = sent \o Unsent
<1>1. buffer \in Seq(Byte) /\ progress \in Nat /\ progress <= Len(buffer)
  BY DEF ConnectionOK, TypeOK, DataOK, ProgressInBuffer
<1>2. \A i \in (progress + 1)..Len(buffer) : buffer[i] \in Byte
  BY <1>1, LenProperties, ElementOfSeq
<1>3. SubSeq(buffer, progress + 1, Len(buffer)) \in Seq(Byte)
  BY <1>1, <1>2, LenProperties, SubSeqProperties
<1> QED BY <1>1, <1>3 DEF Unsent, ConnectionOK, DataOK, ByteStreamExact

\* What was sent stands at the beginning of the stream.
LEMMA SentFirst ==
  ASSUME ConnectionOK
  PROVE  \A i \in DOMAIN sent : i \in DOMAIN stream /\ stream[i] = sent[i]
<1>1. /\ stream = sent \o Unsent /\ Unsent \in Seq(Byte) /\ sent \in Seq(Byte)
      /\ stream \in Seq(Byte)
  BY UnsentTyped DEF ConnectionOK, TypeOK
<1> QED BY <1>1, ConcatProperties, LenProperties

\* The server's closing the connection changes no more than the client's peer.
LEMMA PeerGoes ==
  ASSUME ConnectionOK, UNCHANGED clientVarsButPeer, peer' \in {peer, "gone"}
  PROVE  ConnectionOK'
<1> USE DEF clientVarsButPeer, outsideVars
<1>1. TypeOK'
  BY DEF ConnectionOK, TypeOK, clientVars, workVars, bufferVars, endpointVars
<1>2. Phases'
  BY PhasesKept DEF ConnectionOK
<1>3. DataOK'
  BY <1>1, DataKept DEF ConnectionOK
<1>4. OrderOK'
  BY OrderKept DEF ConnectionOK, clientVars, workVars, bufferVars
<1>5. FlushOK'
  BY DEF ConnectionOK, FlushOK, AheadOrdered, FlushBarrier, InStream, clientVars, workVars,
     bufferVars
<1> QED BY <1>1, <1>2, <1>3, <1>4, <1>5 DEF ConnectionOK

LEMMA ConnectionBegins ==
  ASSUME ConnectionOK, Construct
  PROVE  ConnectionOK'
<1>1. TypeOK'
  <2>1. io' \in [pending : [Op -> Nat], ready : Seq([op : Op, ok : BOOLEAN])]
    BY DEF Construct, Service
  <2>2. queue' \in [Thread -> Seq(Message \cup FlushCall)]
    BY DEF Construct, NoWork
  <2>3. stream' \in Seq(Byte) /\ sent' \in Seq(Byte)
    BY DEF Construct, ConnectionOK, TypeOK
  <2>4. count' \in [Thread -> 0..MaxMessage] /\ faults' \in 0..MaxFaults
    BY CountAssumption DEF Construct, ConnectionOK, TypeOK
  <2>5. /\ endpoints' \in Seq(Endpoint) /\ tried' \in Seq(Endpoint \cup {NoEndpoint})
        /\ buffer' \in Seq(Byte)
    BY EmptySeq DEF Construct
  <2>6. /\ promise' \in [FlushCall -> {"unused", "unset", "set", "broken"}]
        /\ caller' \in [FlushCall -> {"idle", "waiting", "TRUE", "FALSE"}]
        /\ ahead' \in [FlushCall -> SUBSET (Message \cup FlushCall)]
    BY DEF Construct
  <2> QED BY <2>1, <2>2, <2>3, <2>4, <2>5, <2>6 DEF Construct, TypeOK, Status
<1>2. Phases'
  BY DEF Construct, Phases, Resolving, ChainOnly, PendingIs, ReadyIs, Service
<1>3. DataOK'
  <2>1. progress' = 0 /\ buffer' = << >> /\ stream' = sent /\ sent' = sent
    BY DEF Construct
  <2>2. sent \o << >> = sent
    BY ConcatEmptySeq DEF ConnectionOK, TypeOK
  <2>3. Len(<< >>) <= MessageAdditionLimit + FrameLen
    BY CountAssumption
  <2> QED BY <1>1, <2>1, <2>2, <2>3, DataRestarted
<1>4. OrderOK'
  <2>1. \A t \in Thread : queue'[t] = << >>
    BY DEF Construct, NoWork
  <2>2. QueueOrdered'
    BY <2>1 DEF QueueOrdered
  <2>3. \A i \in DOMAIN sent : i \in DOMAIN stream /\ stream[i] = sent[i]
    BY SentFirst
  <2>4. StreamCounted'
    BY <2>3 DEF ConnectionOK, OrderOK, StreamCounted, Construct
  <2> QED BY <2>2, <2>4 DEF OrderOK
<1>5. FlushOK'
  BY DEF Construct, FlushOK, AheadOrdered, FlushBarrier, NoWork
<1> QED BY <1>1, <1>2, <1>3, <1>4, <1>5 DEF ConnectionOK

\* In the order in which it was logged and in which a message is written.
Increasing(s)  == \A i, j \in DOMAIN s : i < j => Before(s[i], s[j])

\* The connection takes the messages of the tests' one thread in order, and all the
\* characters of one before the next.
LEMMA StreamGrows ==
  ASSUME ConnectionOK, Increasing(stream), [Next]_vars
  PROVE  Increasing(stream')
<1>1. CASE stream' = stream
  BY <1>1
<1>2. ASSUME NEW m \in Message, Pipe!Take(m)
      PROVE  Increasing(stream')
  <2> DEFINE n == Len(stream)
  <2>1. /\ stream \in Seq(Byte) /\ Frame(m) \in Seq(Byte) /\ n \in Nat
        /\ DOMAIN stream = 1..n
    BY FrameType, LenProperties DEF ConnectionOK, TypeOK
  <2>2. stream' = stream \o Frame(m)
    BY <1>2 DEF Pipe!Take, Pipe!Frame, Frame
  <2>3. /\ Len(Frame(m)) = FrameLen /\ FrameLen \in Nat \ {0}
        /\ \A i \in 1..FrameLen : Frame(m)[i].msg = m /\ Frame(m)[i].pos = i
    <3>1. DOMAIN Frame(m) = 1..FrameLen /\ FrameLen \in Nat \ {0}
      BY CountAssumption DEF Frame
    <3>2. DOMAIN Frame(m) = 1..Len(Frame(m)) /\ Len(Frame(m)) \in Nat
      BY <2>1, LenProperties
    <3> QED BY <3>1, <3>2 DEF Frame
  <2>4. /\ DOMAIN stream' = 1..(n + FrameLen)
        /\ \A i \in 1..(n + FrameLen) :
             stream'[i] = IF i <= n THEN stream[i] ELSE Frame(m)[i - n]
    <3>1. /\ stream \o Frame(m) \in Seq(Byte)
          /\ Len(stream \o Frame(m)) = n + FrameLen
          /\ \A i \in 1..(n + FrameLen) :
               (stream \o Frame(m))[i] = IF i <= n THEN stream[i] ELSE Frame(m)[i - n]
      BY <2>1, <2>3, ConcatProperties
    <3> QED BY <2>2, <3>1, LenProperties
  <2>5. \A i \in 1..n : stream[i].msg \in Message /\ stream[i].msg[2] < m[2]
    <3>1. \A i \in 1..n : stream[i].msg \in Message
      BY <2>1, TypedItems DEF ConnectionOK
    <3>2. \A x, y \in Message : x[1] = y[1]
      BY MessageParts, TestThreadAssumption
    <3> QED BY <1>2, <2>1, <3>1, <3>2 DEF Pipe!Take, Pipe!Newer
  <2> HIDE DEF n
  <2>6. ASSUME NEW i \in 1..(n + FrameLen), NEW j \in 1..(n + FrameLen), i < j
        PROVE  Before(stream'[i], stream'[j])
    <3>1. CASE j <= n
      BY <2>1, <2>4, <2>6, <3>1 DEF Increasing
    <3>2. CASE i <= n /\ n < j
      <4>1. stream'[i] = stream[i] /\ stream'[j] = Frame(m)[j - n] /\ j - n \in 1..FrameLen
            /\ i \in 1..n
        BY <2>1, <2>3, <2>4, <3>2
      <4> QED BY <2>3, <2>5, <4>1 DEF Before
    <3>3. CASE n < i
      <4>1. /\ stream'[i] = Frame(m)[i - n] /\ i - n \in 1..FrameLen
            /\ stream'[j] = Frame(m)[j - n] /\ j - n \in 1..FrameLen
            /\ i - n < j - n
        BY <2>1, <2>3, <2>4, <2>6, <3>3
      <4> QED BY <2>3, <4>1 DEF Before
    <3> QED BY <2>1, <2>3, <3>1, <3>2, <3>3
  <2> QED BY <2>4, <2>6 DEF Increasing
<1>3. [Pipe!Next]_<<stream, sent>>
  BY StepOfPipe DEF ConnectionOK
<1> QED BY <1>1, <1>2, <1>3 DEF Pipe!Next, Pipe!Emit

-----------------------------------------------------------------------------
(* What is in a sequence                                                        *)

Items(s) == {s[i] : i \in DOMAIN s}

LEMMA ItemsAdded ==
  ASSUME NEW s, IsSequence(s), NEW e
  PROVE  Items(Append(s, e)) = Items(s) \cup {e}
<1>1. /\ Len(s) \in Nat /\ DOMAIN s = 1..Len(s) /\ DOMAIN Append(s, e) = 1..(Len(s) + 1)
      /\ \A i \in DOMAIN s : Append(s, e)[i] = s[i]
      /\ Append(s, e)[Len(s) + 1] = e
  BY Longer
<1> QED BY <1>1 DEF Items

LEMMA ItemsTaken ==
  ASSUME NEW s, IsSequence(s), s # << >>
  PROVE  Items(s) = {Head(s)} \cup Items(Tail(s))
<1>1. /\ Head(s) = s[1] /\ 1 \in DOMAIN s
      /\ Len(s) \in Nat /\ DOMAIN s = 1..Len(s) /\ DOMAIN Tail(s) = 1..(Len(s) - 1)
      /\ \A i \in DOMAIN Tail(s) : Tail(s)[i] = s[i + 1]
  BY Shorter
<1>2. \A i \in DOMAIN s \ {1} : i - 1 \in DOMAIN Tail(s) /\ s[i] = Tail(s)[i - 1]
  BY <1>1
<1>3. \A i \in DOMAIN Tail(s) : i + 1 \in DOMAIN s /\ Tail(s)[i] = s[i + 1]
  BY <1>1
<1>4. Items(s) \subseteq {Head(s)} \cup Items(Tail(s))
  BY <1>1, <1>2 DEF Items
<1>5. {Head(s)} \cup Items(Tail(s)) \subseteq Items(s)
  BY <1>1, <1>3 DEF Items
<1> QED BY <1>4, <1>5

LEMMA ItemsOfOp ==
  ASSUME NEW s, NEW op
  PROVE  /\ None(op, s) <=> \A d \in Items(s) : d.op # op
         /\ \A k : Only(op, k, s) =>
              s[k] \in Items(s) /\ s[k].op = op /\ \A d \in Items(s) : d.op = op => d = s[k]
BY DEF None, Only, Items
-----------------------------------------------------------------------------
(* The connection the client has, or has just been given                         *)

\* Not only once connectHandler() has run: the server may have accepted it before.
Linked == \/ status = "SEND_LOOP" /\ open
          \/ Completed("connect", TRUE) \in Items(io.ready)

LEMMA GivenWhileConnecting ==
  ASSUME ConnectionOK, alive, Completed("connect", TRUE) \in Items(io.ready)
  PROVE  status = "CONNECT" /\ open
<1>1. \E i \in DOMAIN io.ready : io.ready[i].op = "connect"
  BY DEF Items, Completed
<1>2. io.ready \in Seq([op : Op, ok : BOOLEAN])
  BY DEF ConnectionOK, TypeOK
<1>3. DOMAIN io.ready = 1..Len(io.ready)
  BY <1>2, LenProperties
<1>4. \A S : ~Shape(io, S, << >>)
  BY <1>1, <1>3 DEF Shape
<1>5. \A S : \A p : Shape(io, S, <<p>>) => p = "connect"
  BY <1>1, <1>3 DEF Shape
<1>6. \A S : \A p, q : Shape(io, S, <<p, q>>) => p = "connect" \/ q = "connect"
  BY <1>1, <1>3 DEF Shape
<1> QED BY <1>4, <1>5, <1>6, PhaseOf DEF Ph, SendOp, ConnectionOK

LEMMA NothingReady ==
  ASSUME NEW a, NEW S, Shape(a, S, << >>), NEW op
  PROVE  Items(Start(a, op).ready) = {}
<1>1. a.ready \in Seq([op : Op, ok : BOOLEAN]) /\ Len(a.ready) = 0
  BY DEF Shape, IoType
<1>2. a.ready = << >>
  BY <1>1, EmptySeq
<1> QED BY <1>2 DEF Start, Service, Items

\* A handler does not make a link: it uses the one connect gave it, or drops it.
LEMMA HandlerLinks ==
  ASSUME ConnectionOK, ConnectionOK', RunHandler, Linked'
  PROVE  Linked /\ open'
<1>1. alive /\ alive'
  BY DEF RunHandler, ResolverHandler, ConnectHandlerOk, ConnectHandlerError, TimerHandler,
         ReceiveHandler, PostedSend, SentMessageHandler, Runs
<1>2. open' /\ (status' = "SEND_LOOP" \/ (status' = "CONNECT" /\ Items(io'.ready) # {}))
  <2>1. CASE (status = "SEND_LOOP" /\ open)'
    BY <2>1
  <2>2. CASE (Completed("connect", TRUE) \in Items(io.ready))'
    <3>1. (ConnectionOK /\ alive /\ Completed("connect", TRUE) \in Items(io.ready)
           => status = "CONNECT" /\ open)'
      BY GivenWhileConnecting, PTL
    <3> QED BY <1>1, <2>2, <3>1
  <2> QED BY <2>1, <2>2 DEF Linked
<1>3. TypeOK /\ Phases
  BY DEF ConnectionOK
<1> USE NamesOfOps, OpSequences
<1>4. CASE ResolverHandler
  <2>1. Shape(io, {}, <<"resolve">>)
    BY <1>3, <1>4, PhaseOfHandler DEF ResolverHandler, Ph
  <2>2. Shape(Rest, {}, << >>)
    BY <2>1, RestOf
  <2> QED BY <1>2, <1>4, <2>2, NothingReady DEF ResolverHandler, ReConnect, TryConnect
<1>5. CASE ConnectHandlerOk
  <2>1. io.ready # << >> /\ Head(io.ready).op = "connect" /\ Head(io.ready).ok
        /\ io.ready \in Seq([op : Op, ok : BOOLEAN])
    BY <1>3, <1>5 DEF ConnectHandlerOk, Runs, Error, TypeOK
  <2>2. Head(io.ready) = io.ready[1] /\ 1 \in DOMAIN io.ready
        /\ io.ready[1] \in [op : Op, ok : BOOLEAN]
    <3>1. IsSequence(io.ready)
      BY <2>1, ItsItems
    <3>2. Head(io.ready) = io.ready[1] /\ 1 \in DOMAIN io.ready
      BY <2>1, <3>1, Shorter
    <3> QED BY <2>1, <3>2, ElementOfSeq, LenProperties
  <2>3. io.ready[1] = Completed("connect", TRUE)
    BY <2>1, <2>2 DEF Completed
  <2> QED BY <1>2, <2>2, <2>3 DEF Linked, Items
<1>6. CASE ConnectHandlerError
  <2>1. Shape(io, {}, <<"connect">>)
    BY <1>3, <1>6, PhaseOfHandler DEF ConnectHandlerError, Ph
  <2>2. Shape(Rest, {}, << >>)
    BY <2>1, RestOf
  <2>3. Shape(Close(Rest), {}, << >>)
    BY <2>2, CloseShape
  <2> QED BY <1>2, <1>6, <2>3, NothingReady DEF ConnectHandlerError, ReConnect, TryConnect
<1>7. CASE TimerHandler
  BY <1>2, <1>7 DEF TimerHandler, DoAddressQuery
<1>8. CASE ReceiveHandler
  <2>1. status = "SEND_LOOP"
    BY <1>3, <1>8, PhaseOfHandler DEF ReceiveHandler, Ph
  <2> QED BY <1>2, <1>8, <2>1 DEF ReceiveHandler, ReConnect, Linked
<1>9. CASE PostedSend \/ SentMessageHandler
  <2>1. status \in {"SEND_LOOP", "ADDR_RETRY_WAIT"} /\ status' = status
    BY <1>3, <1>9, PhaseOfHandler DEF PostedSend, SentMessageHandler, Ph
  <2>2. open' = open \/ ~open'
    BY <1>9 DEF PostedSend, SentMessageHandler
  <2> QED BY <1>2, <2>1, <2>2 DEF Linked
<1> QED BY <1>4, <1>5, <1>6, <1>7, <1>8, <1>9 DEF RunHandler

\* An operation that completes makes no link either, unless it is a connect.
LEMMA CompletionLinks ==
  ASSUME ConnectionOK, NEW op, NEW ok, Completed(op, ok) # Completed("connect", TRUE),
         io' = Complete(io, op, ok), UNCHANGED <<status, open>>, Linked'
  PROVE  Linked
<1>1. IsSequence(io.ready)
  BY ItsItems DEF ConnectionOK, TypeOK
<1>2. Items(io'.ready) = Items(io.ready) \cup {Completed(op, ok)}
  BY <1>1, ItemsAdded DEF Complete, Service
<1> QED BY <1>2 DEF Linked

-----------------------------------------------------------------------------
(* The socket that is in use, and what becomes of the others                     *)

\* The handlers that will read from their socket again, or end what was read from it.
Serves(d) == (d.op = "accept" /\ d.error = "none") \/ d.op = "read"

\* The server reads from it or is about to: there is at most one.
Used(s) == s \in reads \/ \E d \in Items(ready) : Serves(d) /\ d.socket = s

\* One end has closed it and nothing is left to be read.
Gone(s) == s \in closed \cup left /\ (s \in Server!Socket => inbox[s] = << >>)

LEMMA InUse ==
  ASSUME OneOperation
  PROVE  /\ IsSequence(ready)
         /\ \A s, t : Used(s) /\ Used(t) => s = t
         /\ accepts # 0 => \A s : ~Used(s)
         /\ reads # {} => \A d \in Items(ready) : d.op \notin {"accept", "read"}
<1>1. CASE Accepting
  BY <1>1, ItemsOfOp DEF OneOperation, Accepting, Used, Serves
<1>2. CASE Accepted
  <2>1. PICK k \in DOMAIN ready : Only("accept", k, ready)
    BY <1>2 DEF Accepted
  <2>2. accepts = 0 /\ reads = {} /\ \A d \in Items(ready) : Serves(d) => d = ready[k]
    BY <1>2, <2>1, ItemsOfOp DEF Accepted, Serves
  <2> QED BY <2>2 DEF OneOperation, Used
<1>3. CASE Reading
  BY <1>3, ItemsOfOp DEF OneOperation, Reading, Used, Serves
<1>4. CASE Read
  <2>1. PICK k \in DOMAIN ready : Only("read", k, ready)
    BY <1>4 DEF Read
  <2>2. accepts = 0 /\ reads = {} /\ \A d \in Items(ready) : Serves(d) => d = ready[k]
    BY <1>4, <2>1, ItemsOfOp DEF Read, Serves
  <2> QED BY <2>2 DEF OneOperation, Used
<1>5. CASE Over
  BY <1>5, ItemsOfOp DEF OneOperation, Over, Used, Serves
<1> QED BY <1>1, <1>2, <1>3, <1>4, <1>5 DEF OneOperation

\* When a handler of the server's operation runs, nothing else is under way.
LEMMA HeadInUse ==
  ASSUME OneOperation, ready # << >>, Head(ready).op \in {"accept", "read"}
  PROVE  /\ accepts = 0 /\ reads = {}
         /\ IsSequence(Tail(ready))
         /\ \A d \in Items(Tail(ready)) : d.op \notin {"accept", "read"}
         /\ Items(ready) = {Head(ready)} \cup Items(Tail(ready))
<1>1. IsSequence(ready) /\ IsSequence(Tail(ready))
      /\ Items(ready) = {Head(ready)} \cup Items(Tail(ready))
  BY Shorter, ItemsTaken DEF OneOperation
<1>2. accepts = 0 /\ reads = {} /\ None("accept", Tail(ready)) /\ None("read", Tail(ready))
  BY <1>1, TakenItem DEF OneOperation, Accepting, Accepted, Reading, Read, Over
<1> QED BY <1>1, <1>2, ItemsOfOp

\* A socket is used, waits to be accepted, is gone or is still to come.  The backlog is
\* in the order in which the client connected, and what is used came before all of it.
SocketsOK ==
  /\ conns \in Nat /\ left \subseteq 1..conns
  /\ \A s \in closed \cap Server!Socket : inbox[s] = << >>
  /\ IsSequence(backlog) /\ Items(backlog) \subseteq 1..conns
  /\ \A i, j \in DOMAIN backlog : i < j => backlog[i] < backlog[j]
  /\ \A s : Used(s) => s \in 1..conns /\ \A t \in Items(backlog) : s < t
  /\ \A s \in Server!Socket :
       Used(s) \/ s \in Items(backlog) \/ Gone(s) \/ (conns < s /\ inbox[s] = << >>)
  /\ \A d \in Items(ready) : d.op = "read" /\ d.error # "none" => Gone(d.socket)

\* Nobody connects and nothing arrives.
LEMMA SocketsKept ==
  ASSUME SocketsOK, UNCHANGED conns,
         closed \subseteq closed', left \subseteq left', left' \subseteq 1..conns,
         \A s \in Server!Socket : inbox[s] = << >> => inbox'[s] = << >>,
         \A s \in closed' \cap Server!Socket : inbox'[s] = << >>,
         IsSequence(backlog'), Items(backlog') \subseteq Items(backlog),
         \A i, j \in DOMAIN backlog' : i < j => backlog'[i] < backlog'[j],
         \A s : Used(s)' => s \in 1..conns /\ \A t \in Items(backlog') : s < t,
         \A s \in Server!Socket : Used(s) \/ s \in Items(backlog) =>
           Used(s)' \/ s \in Items(backlog') \/ Gone(s)',
         \A d \in Items(ready') : d.op = "read" /\ d.error # "none" =>
           d \in Items(ready) \/ Gone(d.socket)'
  PROVE  SocketsOK'
<1>1. \A s : Gone(s) => Gone(s)'
  BY DEF Gone
<1>2. conns' \in Nat /\ left' \subseteq 1..conns' /\ Items(backlog') \subseteq 1..conns'
  BY DEF SocketsOK
<1>3. \A s \in Server!Socket :
        Used(s)' \/ s \in Items(backlog') \/ Gone(s)' \/ (conns' < s /\ inbox'[s] = << >>)
  BY <1>1 DEF SocketsOK
<1>4. \A d \in Items(ready') : d.op = "read" /\ d.error # "none" => Gone(d.socket)'
  BY <1>1 DEF SocketsOK
<1> QED BY <1>2, <1>3, <1>4 DEF SocketsOK

\* Nothing but the operation under way, or the client's leaving.
LEMMA UseKept ==
  ASSUME SocketsOK, UNCHANGED <<conns, backlog, closed, inbox>>,
         left \subseteq left', left' \subseteq 1..conns,
         \A s : Used(s)' => Used(s),
         \A s : Used(s) => Used(s)' \/ Gone(s),
         \A d \in Items(ready') : d.op = "read" /\ d.error # "none" =>
           d \in Items(ready) \/ Gone(d.socket)
  PROVE  SocketsOK'
<1>1. \A s : Gone(s) => Gone(s)'
  BY DEF Gone
<1> QED BY <1>1, SocketsKept DEF SocketsOK

-----------------------------------------------------------------------------
(* The server's handlers and the sockets                                         *)

LEMMA ReadSomeUses ==
  ASSUME NEW rest, IsSequence(rest),
         \A d \in Items(rest) : d.op \notin {"accept", "read"},
         reads = {}, NEW socket, Server!ReadSome(socket, rest)
  PROVE  /\ \A s : Used(s)' <=> s = socket
         /\ \A d \in Items(ready') :
              \/ d \in Items(rest)
              \/ d.op = "read" /\ d.socket = socket /\ d.bytes = << >> /\ socket \in closed
<1>1. CASE socket \notin closed
  BY <1>1 DEF Server!ReadSome, Used, Serves
<1>2. CASE socket \in closed
  <2> DEFINE e == Server!Done("read", "bad_descriptor", socket, << >>)
  <2>1. ready' = Append(rest, e) /\ reads' = {}
    BY <1>2 DEF Server!ReadSome
  <2>2. e.op = "read" /\ e.socket = socket /\ e.bytes = << >>
    BY DEF Server!Done
  <2> HIDE DEF e
  <2>3. Items(ready') = Items(rest) \cup {e}
    BY <2>1, ItemsAdded
  <2> QED BY <1>2, <2>1, <2>2, <2>3 DEF Used, Serves
<1> QED BY <1>1, <1>2

LEMMA WaitUses ==
  ASSUME NEW rest, IsSequence(rest),
         \A d \in Items(rest) : d.op \notin {"accept", "read"},
         reads' = {}, Server!WaitForNewConnection(rest)
  PROVE  /\ \A s : ~Used(s)'
         /\ \A d \in Items(ready') : d.op # "read"
<1>1. CASE listening
  BY <1>1 DEF Server!WaitForNewConnection, Used, Serves
<1>2. CASE ~listening
  <2> DEFINE e == Server!Done("accept", "bad_descriptor", 0, << >>)
  <2>1. ready' = Append(rest, e)
    BY <1>2 DEF Server!WaitForNewConnection
  <2>2. e.op = "accept" /\ e.error # "none"
    BY DEF Server!Done
  <2> HIDE DEF e
  <2>3. Items(ready') = Items(rest) \cup {e}
    BY <2>1, ItemsAdded
  <2> QED BY <2>2, <2>3 DEF Used, Serves
<1> QED BY <1>1, <1>2

LEMMA AcceptSockets ==
  ASSUME OneOperation, SocketsOK, UNCHANGED conns, Server!OnConnectionAccept
  PROVE  SocketsOK'
<1> DEFINE d    == Head(ready)
           rest == Tail(ready)
<1>1. /\ ready # << >> /\ d.op = "accept" /\ UNCHANGED <<closed, backlog, left, inbox>>
  BY DEF Server!OnConnectionAccept, Server!Runs, Server!netVars
<1>2. /\ reads = {} /\ IsSequence(rest)
      /\ \A e \in Items(rest) : e.op \notin {"accept", "read"}
      /\ Items(ready) = {d} \cup Items(rest)
  BY <1>1, HeadInUse
<1>3. CASE d.error # "none"
  <2>1. ready' = rest /\ reads' = reads
    BY <1>3 DEF Server!OnConnectionAccept
  <2> HIDE DEF d, rest
  <2>2. \A s : ~Used(s) /\ ~Used(s)'
    BY <1>1, <1>2, <1>3, <2>1 DEF Used, Serves
  <2> QED BY <1>1, <1>2, <2>1, <2>2, UseKept DEF SocketsOK
<1>4. CASE d.error = "none"
  <2>1. Server!ReadSome(d.socket, rest)
    BY <1>4 DEF Server!OnConnectionAccept
  <2> HIDE DEF d, rest
  <2>2. /\ \A s : Used(s)' <=> s = d.socket
        /\ \A e \in Items(ready') :
             \/ e \in Items(rest)
             \/ e.op = "read" /\ e.socket = d.socket /\ d.socket \in closed
    BY <1>2, <2>1, ReadSomeUses
  <2>3. \A s : Used(s) <=> s = d.socket
    BY <1>1, <1>2, <1>4 DEF Used, Serves
  <2>4. d.socket \in closed => Gone(d.socket)
    BY DEF Gone, SocketsOK
  <2> QED BY <1>1, <1>2, <2>2, <2>3, <2>4, UseKept DEF SocketsOK
<1> QED BY <1>3, <1>4

LEMMA ReadSockets ==
  ASSUME OneOperation, SocketsOK, UNCHANGED conns, Server!HandleRead
  PROVE  SocketsOK'
<1> DEFINE d    == Head(ready)
           rest == Tail(ready)
<1>1. /\ ready # << >> /\ d.op = "read" /\ UNCHANGED <<closed, backlog, left, inbox>>
  BY DEF Server!HandleRead, Server!Runs, Server!netVars
<1>2. /\ reads = {} /\ IsSequence(rest)
      /\ \A e \in Items(rest) : e.op \notin {"accept", "read"}
      /\ Items(ready) = {d} \cup Items(rest)
  BY <1>1, HeadInUse
<1>3. \A s : Used(s) <=> s = d.socket
  <2> HIDE DEF d, rest
  <2> QED BY <1>1, <1>2 DEF Used, Serves
<1>4. CASE d.error # "none"
  <2>1. Server!WaitForNewConnection(rest) /\ reads' = reads
    BY <1>4 DEF Server!HandleRead
  <2> HIDE DEF d, rest
  <2>2. (\A s : ~Used(s)') /\ \A e \in Items(ready') : e.op # "read"
    BY <1>2, <2>1, WaitUses
  <2>3. Gone(d.socket)
    BY <1>1, <1>2, <1>4 DEF SocketsOK
  <2> QED BY <1>1, <1>3, <2>2, <2>3, UseKept DEF SocketsOK
<1>5. CASE d.error = "none"
  <2>1. Server!ReadSome(d.socket, rest)
    BY <1>5 DEF Server!HandleRead
  <2> HIDE DEF d, rest
  <2>2. /\ \A s : Used(s)' <=> s = d.socket
        /\ \A e \in Items(ready') :
             \/ e \in Items(rest)
             \/ e.op = "read" /\ e.socket = d.socket /\ d.socket \in closed
    BY <1>2, <2>1, ReadSomeUses
  <2>3. d.socket \in closed => Gone(d.socket)
    BY DEF Gone, SocketsOK
  <2> QED BY <1>1, <1>2, <1>3, <2>2, <2>3, UseKept DEF SocketsOK
<1> QED BY <1>4, <1>5

LEMMA CloseSockets ==
  ASSUME OneOperation, SocketsOK, UNCHANGED conns, Server!CloseFunction
  PROVE  SocketsOK'
<1> DEFINE sockets == {existingSockets[i] : i \in DOMAIN existingSockets}
           rest    == Tail(ready)
<1>1. /\ ready # << >> /\ Head(ready).op = "close" /\ UNCHANGED <<backlog, left>>
      /\ closed' = closed \cup sockets
      /\ inbox' = [s \in Server!Socket |-> IF s \in sockets THEN << >> ELSE inbox[s]]
  BY DEF Server!CloseFunction, Server!Runs
<1>2. IsSequence(rest) /\ Items(ready) = {Head(ready)} \cup Items(rest)
  BY <1>1, Shorter, ItemsTaken DEF OneOperation
<1>3. /\ \A s \in Server!Socket : inbox[s] = << >> => inbox'[s] = << >>
      /\ \A s \in closed' \cap Server!Socket : inbox'[s] = << >>
  BY <1>1 DEF SocketsOK
<1>4. CASE ready' = rest /\ reads' = reads
  <2> HIDE DEF rest, sockets
  <2>1. \A s : Used(s)' <=> Used(s)
    BY <1>1, <1>2, <1>4 DEF Used, Serves
  <2>2. \A d \in Items(ready') : d \in Items(ready)
    BY <1>2, <1>4
  <2> QED BY <1>1, <1>3, <2>1, <2>2, SocketsKept DEF SocketsOK
<1>5. ASSUME NEW socket, reads = {socket}, reads' = {}, existingSockets = <<socket>>,
             ready' = Append(rest,
                             Server!Done("read", "operation_aborted", socket, << >>))
      PROVE  SocketsOK'
  <2> DEFINE e == Server!Done("read", "operation_aborted", socket, << >>)
  <2>1. e.op = "read" /\ e.socket = socket
    BY DEF Server!Done
  <2>2. socket \in sockets
    BY <1>5
  <2> HIDE DEF rest, sockets, e
  <2>3. Items(ready') = Items(rest) \cup {e}
    BY <1>2, <1>5, ItemsAdded DEF e
  <2>4. \A s : Used(s)' <=> Used(s)
    BY <1>1, <1>2, <1>5, <2>1, <2>3 DEF Used, Serves
  <2>5. Gone(socket)'
    BY <1>1, <1>3, <2>2 DEF Gone
  <2> QED BY <1>1, <1>2, <1>3, <2>1, <2>3, <2>4, <2>5, SocketsKept DEF SocketsOK
<1> QED BY <1>4, <1>5, CloseAborts

-----------------------------------------------------------------------------
(* The kernel, the acceptor, the client and the sockets                          *)

LEMMA AcceptedSocket ==
  ASSUME OneOperation, SocketsOK, UNCHANGED conns, Server!AcceptDone
  PROVE  SocketsOK'
<1> DEFINE s == Head(backlog)
           e == Server!Done("accept", "none", s, << >>)
<1>1. /\ accepts > 0 /\ backlog # << >> /\ backlog' = Tail(backlog)
      /\ ready' = Append(ready, e) /\ UNCHANGED <<reads, left, inbox, closed>>
  BY DEF Server!AcceptDone
<1>2. e.op = "accept" /\ e.error = "none" /\ e.socket = s
  BY DEF Server!Done
<1>3. \A t : ~Used(t)
  BY <1>1, InUse DEF OneOperation, Accepting, Accepted, Reading, Read, Over
<1>4. /\ IsSequence(Tail(backlog)) /\ s = backlog[1] /\ 1 \in DOMAIN backlog
      /\ Len(backlog) \in Nat /\ DOMAIN backlog = 1..Len(backlog)
      /\ DOMAIN Tail(backlog) = 1..(Len(backlog) - 1)
      /\ \A i \in DOMAIN Tail(backlog) : Tail(backlog)[i] = backlog[i + 1]
      /\ Items(backlog) = {s} \cup Items(Tail(backlog))
  BY <1>1, Shorter, ItemsTaken DEF SocketsOK
<1> HIDE DEF e, s
<1>5. Items(ready') = Items(ready) \cup {e}
  BY <1>1, InUse, ItemsAdded
<1>6. \A t : Used(t)' <=> t = s
  BY <1>1, <1>2, <1>3, <1>5 DEF Used, Serves
<1>7. \A i, j \in DOMAIN backlog' : i < j => backlog'[i] < backlog'[j]
  BY <1>1, <1>4 DEF SocketsOK
<1>8. \A t \in Items(backlog') : s < t
  BY <1>1, <1>4 DEF SocketsOK, Items
<1>9. s \in 1..conns
  BY <1>4 DEF SocketsOK
<1> QED BY <1>1, <1>2, <1>3, <1>4, <1>5, <1>6, <1>7, <1>8, <1>9, SocketsKept
        DEF SocketsOK

LEMMA ReadSocket ==
  ASSUME OneOperation, SocketsOK, UNCHANGED conns,
         inbox \in [Server!Socket -> Seq(Byte)],
         NEW socket \in Server!Socket, Server!ReadDone(socket)
  PROVE  SocketsOK'
<1>1. /\ socket \in reads /\ reads' = reads \ {socket}
      /\ UNCHANGED <<backlog, left, closed>>
      /\ \E error, bytes :
           /\ ready' = Append(ready, Server!Done("read", error, socket, bytes))
           /\ error # "none" => inbox[socket] = << >> /\ socket \in left
      /\ \A s \in Server!Socket \ {socket} : inbox'[s] = inbox[s]
      /\ inbox[socket] = << >> => inbox'[socket] = << >>
  <2>1. CASE inbox[socket] = << >> /\ UNCHANGED inbox /\ socket \in left
             /\ ready' = Append(ready, Server!Done("read", "eof", socket, << >>))
    BY <2>1 DEF Server!ReadDone
  <2>2. ASSUME NEW n \in 1..BufferSize, n <= Len(inbox[socket]),
               ready' = Append(ready, Server!Done("read", "none", socket,
                                                  SubSeq(inbox[socket], 1, n))),
               inbox' = [inbox EXCEPT ![socket] = SubSeq(@, n + 1, Len(@))]
        PROVE  /\ \E error, bytes :
                    /\ ready' = Append(ready, Server!Done("read", error, socket, bytes))
                    /\ error # "none" => inbox[socket] = << >> /\ socket \in left
               /\ \A s \in Server!Socket \ {socket} : inbox'[s] = inbox[s]
               /\ inbox[socket] = << >> => inbox'[socket] = << >>
    <3>1. Len(inbox[socket]) # 0
      BY <2>2, BoundAssumption
    <3>2. inbox[socket] # << >>
      BY <3>1
    <3> QED BY <2>2, <3>2
  <2> QED BY <2>1, <2>2 DEF Server!ReadDone
<1>2. PICK error, bytes :
        /\ ready' = Append(ready, Server!Done("read", error, socket, bytes))
        /\ error # "none" => inbox[socket] = << >> /\ socket \in left
  BY <1>1
<1> DEFINE e == Server!Done("read", error, socket, bytes)
<1>3. e.op = "read" /\ e.socket = socket /\ e.error = error
  BY DEF Server!Done
<1> HIDE DEF e
<1>4. Items(ready') = Items(ready) \cup {e}
  BY <1>2, InUse, ItemsAdded DEF e
<1>5. \A s : Used(s)' <=> Used(s)
  BY <1>1, <1>3, <1>4 DEF Used, Serves
<1>6. e.error # "none" => Gone(e.socket)'
  BY <1>1, <1>2, <1>3 DEF Gone
<1>7. \A s \in Server!Socket : inbox[s] = << >> => inbox'[s] = << >>
  BY <1>1
<1> QED BY <1>1, <1>4, <1>5, <1>6, <1>7, SocketsKept DEF SocketsOK

LEMMA AcceptorSockets ==
  ASSUME OneOperation, SocketsOK, UNCHANGED conns, Server!CloseAcceptor
  PROVE  SocketsOK'
<1> DEFINE sockets == {backlog[i] : i \in DOMAIN backlog}
<1>1. /\ UNCHANGED <<reads, left>> /\ closed' = closed \cup sockets /\ backlog' = << >>
      /\ inbox' = [s \in Server!Socket |-> IF s \in sockets THEN << >> ELSE inbox[s]]
  BY DEF Server!CloseAcceptor
<1>2. sockets = Items(backlog)
  BY DEF Items
<1> HIDE DEF sockets
<1>3. IsSequence(backlog') /\ Items(backlog') = {} /\ DOMAIN backlog' = {}
  <2>1. << >> \in Seq({})
    BY EmptySeq
  <2>2. IsSequence(<< >>)
    BY <2>1, ItsItems
  <2>3. DOMAIN << >> = {}
    OBVIOUS
  <2>4. Items(<< >>) = {}
    BY <2>3 DEF Items
  <2> QED BY <1>1, <2>2, <2>3, <2>4
<1>4. /\ \A s : Used(s)' <=> Used(s)
      /\ \A d \in Items(ready') : d.op = "read" => d \in Items(ready)
  <2>1. CASE ready' = ready
    BY <1>1, <2>1 DEF Used
  <2>2. CASE ready' = Append(ready, Server!Done("accept", "operation_aborted", 0, << >>))
    <3> DEFINE e == Server!Done("accept", "operation_aborted", 0, << >>)
    <3>1. e.op = "accept" /\ e.error # "none"
      BY DEF Server!Done
    <3> HIDE DEF e
    <3>2. Items(ready') = Items(ready) \cup {e}
      BY <2>2, InUse, ItemsAdded DEF e
    <3> QED BY <1>1, <3>1, <3>2 DEF Used, Serves
  <2> QED BY <2>1, <2>2, AcceptAborts
<1>5. /\ \A s \in Server!Socket : inbox[s] = << >> => inbox'[s] = << >>
      /\ \A s \in closed' \cap Server!Socket : inbox'[s] = << >>
  BY <1>1 DEF SocketsOK
<1>6. \A s \in Items(backlog) : Gone(s)'
  BY <1>1, <1>2, <1>5 DEF Gone
<1> QED BY <1>1, <1>3, <1>4, <1>5, <1>6, SocketsKept DEF SocketsOK

\* A call of CloseAllConnections() is an item that is about no socket.
LEMMA CallSockets ==
  ASSUME OneOperation, SocketsOK, UNCHANGED conns, AsksServer
  PROVE  SocketsOK'
<1>1. UNCHANGED <<backlog, closed, inbox, left, reads>>
  BY DEF AsksServer, Server!CloseAllConnections, Server!GetLastSocketError,
     Server!GetLatestMessage, Server!ClearReceivedBytes, Server!netVars, Server!asioVars
<1>2. /\ \A s : Used(s)' <=> Used(s)
      /\ \A d \in Items(ready') : d.op = "read" => d \in Items(ready)
  <2>1. CASE ready' = ready
    BY <1>1, <2>1 DEF Used
  <2>2. CASE ready' = Append(ready, Server!Done("close", "none", 0, << >>))
    <3> DEFINE e == Server!Done("close", "none", 0, << >>)
    <3>1. e.op = "close"
      BY DEF Server!Done
    <3> HIDE DEF e
    <3>2. Items(ready') = Items(ready) \cup {e}
      BY <2>2, InUse, ItemsAdded DEF e
    <3> QED BY <1>1, <3>1, <3>2 DEF Used, Serves
  <2> QED BY <2>1, <2>2 DEF AsksServer, Server!CloseAllConnections,
          Server!GetLastSocketError, Server!GetLatestMessage, Server!ClearReceivedBytes,
          Server!asioVars
<1> QED BY <1>1, <1>2, UseKept DEF SocketsOK

\* What leaves the server's end alone, but that the client's sockets may be closed.
LEMMA QuietSockets ==
  ASSUME SocketsOK, UNCHANGED <<conns, backlog, closed, inbox, ready, reads>>,
         left \subseteq left', left' \subseteq 1..conns
  PROVE  SocketsOK'
BY UseKept DEF Used

LEMMA ClientConnects ==
  ASSUME SocketsOK, conns' = conns + 1, Server!Connects(conns + 1)
  PROVE  SocketsOK'
<1>1. /\ UNCHANGED <<reads, ready, left, inbox, closed>>
      /\ backlog' = Append(backlog, conns + 1)
  BY DEF Server!Connects, Server!asioVars
<1>2. /\ IsSequence(backlog') /\ Items(backlog') = Items(backlog) \cup {conns + 1}
      /\ Len(backlog) \in Nat /\ DOMAIN backlog = 1..Len(backlog)
      /\ DOMAIN backlog' = 1..(Len(backlog) + 1)
      /\ \A i \in DOMAIN backlog : backlog'[i] = backlog[i]
      /\ backlog'[Len(backlog) + 1] = conns + 1
  BY <1>1, Longer, ItemsAdded DEF SocketsOK
<1>3. /\ \A s : Used(s)' <=> Used(s)
      /\ \A s : Gone(s)' <=> Gone(s)
  BY <1>1 DEF Used, Gone
<1>4. conns \in Nat /\ \A s \in 1..conns : s \in 1..conns' /\ s < conns + 1
  BY DEF SocketsOK
<1>5. \A i, j \in DOMAIN backlog' : i < j => backlog'[i] < backlog'[j]
  <2>1. \A i \in DOMAIN backlog : backlog[i] < conns + 1
    BY <1>4 DEF SocketsOK, Items
  <2> QED BY <1>2, <2>1 DEF SocketsOK
<1>6. \A s \in Server!Socket :
        Used(s)' \/ s \in Items(backlog') \/ Gone(s)' \/ (conns' < s /\ inbox'[s] = << >>)
  <2>1. \A s \in Server!Socket : s \in Nat
    BY BoundAssumption DEF Server!Socket
  <2>2. \A s \in Server!Socket : conns < s => s = conns + 1 \/ conns' < s
    BY <1>4, <2>1
  <2> QED BY <1>1, <1>2, <1>3, <2>2 DEF SocketsOK
<1>7. conns' \in Nat /\ left' \subseteq 1..conns'
      /\ \A s \in closed' \cap Server!Socket : inbox'[s] = << >>
  BY <1>1, <1>4 DEF SocketsOK
<1>8. Items(backlog') \subseteq 1..conns'
  BY <1>2, <1>4 DEF SocketsOK
<1>9. \A s : Used(s)' => s \in 1..conns' /\ \A t \in Items(backlog') : s < t
  BY <1>2, <1>3, <1>4 DEF SocketsOK
<1>10. \A d \in Items(ready') : d.op = "read" /\ d.error # "none" => Gone(d.socket)'
  BY <1>1, <1>3 DEF SocketsOK
<1> QED BY <1>2, <1>5, <1>6, <1>7, <1>8, <1>9, <1>10 DEF SocketsOK

\* What the client writes arrives on the last connection, which it has not closed.
LEMMA CharacterArrives ==
  ASSUME SocketsOK, UNCHANGED conns, inbox \in [Server!Socket -> Seq(Byte)],
         conns \notin left, NEW byte, Server!Arrives(conns, byte)
  PROVE  SocketsOK'
<1>1. /\ UNCHANGED <<reads, ready, left, closed, backlog>>
      /\ inbox' = IF conns \in closed THEN inbox
                  ELSE [inbox EXCEPT ![conns] = Append(@, byte)]
  BY DEF Server!Arrives, Server!asioVars
<1>2. CASE conns \in closed
  BY <1>1, <1>2, QuietSockets DEF SocketsOK
<1>3. CASE conns \notin closed
  <2>1. \A s \in Server!Socket \ {conns} : inbox'[s] = inbox[s]
    BY <1>1
  <2>2. \A s : Used(s)' <=> Used(s)
    BY <1>1 DEF Used
  <2>3. \A s : Gone(s) => Gone(s)'
    <3>1. ~Gone(conns)
      BY <1>3 DEF Gone
    <3> QED BY <1>1, <2>1, <3>1 DEF Gone
  <2>4. \A s \in Server!Socket : conns < s => s # conns
    BY BoundAssumption DEF Server!Socket, SocketsOK
  <2>5. \A s \in Server!Socket :
          Used(s)' \/ s \in Items(backlog') \/ Gone(s)' \/ (conns' < s /\ inbox'[s] = << >>)
    BY <1>1, <2>1, <2>2, <2>3, <2>4 DEF SocketsOK
  <2>6. \A s \in closed' \cap Server!Socket : inbox'[s] = << >>
    BY <1>1, <1>3, <2>1 DEF SocketsOK
  <2> QED BY <1>1, <2>2, <2>3, <2>5, <2>6 DEF SocketsOK
<1> QED BY <1>2, <1>3

-----------------------------------------------------------------------------
(* The order of what is on its way                                               *)

Precedes(s, t) == \A b \in Items(s), c \in Items(t) : Before(b, c)

LEMMA OneMore ==
  ASSUME NEW s \in Seq(Byte), Increasing(s),
         NEW b \in Byte, \A c \in Items(s) : Before(c, b)
  PROVE  Append(s, b) \in Seq(Byte) /\ Increasing(Append(s, b))
<1>1. IsSequence(s)
  BY ItsItems
<1>2. /\ Len(s) \in Nat /\ DOMAIN s = 1..Len(s) /\ DOMAIN Append(s, b) = 1..(Len(s) + 1)
      /\ \A i \in DOMAIN s : Append(s, b)[i] = s[i]
      /\ Append(s, b)[Len(s) + 1] = b
  BY <1>1, Longer
<1>3. \A i \in DOMAIN s : Before(s[i], b)
  BY DEF Items
<1>4. ASSUME NEW i \in DOMAIN Append(s, b), NEW j \in DOMAIN Append(s, b), i < j
      PROVE  Before(Append(s, b)[i], Append(s, b)[j])
  <2>1. i \in DOMAIN s
    BY <1>2, <1>4
  <2>2. CASE j \in DOMAIN s
    BY <1>2, <1>4, <2>1, <2>2 DEF Increasing
  <2>3. CASE j = Len(s) + 1
    BY <1>2, <1>3, <2>1, <2>3
  <2> QED BY <1>2, <2>2, <2>3
<1>5. Append(s, b) \in Seq(Byte)
  BY AppendProperties
<1> QED BY <1>4, <1>5 DEF Increasing

LEMMA OneAfterTheOther ==
  ASSUME NEW s \in Seq(Byte), NEW t \in Seq(Byte),
         Increasing(s), Increasing(t), Precedes(s, t)
  PROVE  /\ s \o t \in Seq(Byte) /\ Increasing(s \o t)
         /\ Items(s \o t) \subseteq Items(s) \cup Items(t)
<1>1. /\ Len(s) \in Nat /\ DOMAIN s = 1..Len(s) /\ Len(t) \in Nat /\ DOMAIN t = 1..Len(t)
      /\ s \o t \in Seq(Byte) /\ Len(s \o t) = Len(s) + Len(t)
      /\ DOMAIN (s \o t) = 1..(Len(s) + Len(t))
      /\ \A i \in 1..(Len(s) + Len(t)) :
           (s \o t)[i] = IF i <= Len(s) THEN s[i] ELSE t[i - Len(s)]
  BY ConcatProperties, LenProperties
<1>2. \A i \in DOMAIN (s \o t) :
        \/ i \in DOMAIN s /\ (s \o t)[i] = s[i]
        \/ i - Len(s) \in DOMAIN t /\ i > Len(s) /\ (s \o t)[i] = t[i - Len(s)]
  BY <1>1
<1>3. Items(s \o t) \subseteq Items(s) \cup Items(t)
  BY <1>2 DEF Items
<1>4. ASSUME NEW i \in DOMAIN (s \o t), NEW j \in DOMAIN (s \o t), i < j
      PROVE  Before((s \o t)[i], (s \o t)[j])
  <2>1. CASE j \in DOMAIN s
    BY <1>1, <1>2, <1>4, <2>1 DEF Increasing
  <2>2. CASE i \in DOMAIN s /\ j \notin DOMAIN s
    <3>1. (s \o t)[i] = s[i] /\ j - Len(s) \in DOMAIN t /\ (s \o t)[j] = t[j - Len(s)]
      BY <1>1, <1>2, <2>2
    <3> QED BY <2>2, <3>1 DEF Precedes, Items
  <2>3. CASE i \notin DOMAIN s
    <3>1. /\ (s \o t)[i] = t[i - Len(s)] /\ i - Len(s) \in DOMAIN t
          /\ (s \o t)[j] = t[j - Len(s)] /\ j - Len(s) \in DOMAIN t
          /\ i - Len(s) < j - Len(s)
      BY <1>1, <1>2, <1>4, <2>3
    <3> QED BY <3>1 DEF Increasing
  <2> QED BY <2>1, <2>2, <2>3
<1> QED BY <1>1, <1>3, <1>4 DEF Increasing

LEMMA SplitInTwo ==
  ASSUME NEW s \in Seq(Byte), Increasing(s), NEW n \in Nat, n <= Len(s)
  PROVE  LET h == SubSeq(s, 1, n)
             t == SubSeq(s, n + 1, Len(s))
         IN /\ h \in Seq(Byte) /\ t \in Seq(Byte)
            /\ Items(h) \subseteq Items(s) /\ Items(t) \subseteq Items(s)
            /\ Increasing(h) /\ Increasing(t) /\ Precedes(h, t)
<1> DEFINE h == SubSeq(s, 1, n)
           t == SubSeq(s, n + 1, Len(s))
<1>1. Len(s) \in Nat /\ DOMAIN s = 1..Len(s) /\ \A i \in 1..Len(s) : s[i] \in Byte
  BY LenProperties, ElementOfSeq
<1>2. /\ h \in Seq(Byte) /\ DOMAIN h = 1..n /\ \A i \in 1..n : h[i] = s[i]
  <2>1. /\ h \in Seq(Byte) /\ Len(h) = (IF 1 <= n THEN n - 1 + 1 ELSE 0)
        /\ \A i \in 1..(n - 1 + 1) : h[i] = s[1 + i - 1]
    BY <1>1, SubSeqProperties
  <2> HIDE DEF h
  <2>2. Len(h) = n
    BY <2>1
  <2> QED BY <2>1, <2>2, LenProperties
<1>3. /\ t \in Seq(Byte) /\ DOMAIN t = 1..(Len(s) - n)
      /\ \A i \in 1..(Len(s) - n) : t[i] = s[n + i]
  <2>1. /\ t \in Seq(Byte)
        /\ Len(t) = (IF n + 1 <= Len(s) THEN Len(s) - (n + 1) + 1 ELSE 0)
        /\ \A i \in 1..(Len(s) - (n + 1) + 1) : t[i] = s[n + 1 + i - 1]
    BY <1>1, SubSeqProperties
  <2> HIDE DEF t
  <2>2. Len(t) = Len(s) - n
    <3>1. \A L \in Nat : n <= L => (IF n + 1 <= L THEN L - (n + 1) + 1 ELSE 0) = L - n
      OBVIOUS
    <3>2. n <= Len(s) /\ Len(s) \in Nat
      BY <1>1
    <3>3. (IF n + 1 <= Len(s) THEN Len(s) - (n + 1) + 1 ELSE 0) = Len(s) - n
      BY <3>1, <3>2
    <3> QED BY <2>1, <3>3
  <2>3. \A i \in 1..(Len(s) - n) : t[i] = s[n + i]
    <3>1. \A i \in 1..(Len(s) - n) : i \in 1..(Len(s) - (n + 1) + 1) /\ n + 1 + i - 1 = n + i
      BY <1>1
    <3> QED BY <2>1, <3>1
  <2>4. DOMAIN t = 1..Len(t)
    BY <2>1, LenProperties
  <2> QED BY <2>1, <2>2, <2>3, <2>4
<1> HIDE DEF h, t
<1>4. Items(h) \subseteq Items(s) /\ Increasing(h)
  BY <1>1, <1>2 DEF Items, Increasing
<1>5. \A i \in DOMAIN t : n + i \in DOMAIN s /\ t[i] = s[n + i]
  BY <1>1, <1>3
<1>6. Items(t) \subseteq Items(s)
  BY <1>5 DEF Items
<1>7. Increasing(t)
  <2>1. \A i, j \in DOMAIN t : i < j => n + i < n + j
    BY <1>1, <1>3
  <2> QED BY <1>5, <2>1 DEF Increasing
<1>8. Precedes(h, t)
  <2>1. ASSUME NEW i \in DOMAIN h, NEW j \in DOMAIN t PROVE Before(h[i], t[j])
    <3>1. i \in DOMAIN s /\ n + j \in DOMAIN s /\ i < n + j /\ h[i] = s[i] /\ t[j] = s[n + j]
      BY <1>1, <1>2, <1>3, <1>5
    <3> QED BY <3>1 DEF Increasing
  <2> QED BY <2>1 DEF Precedes, Items
<1> QED BY <1>2, <1>3, <1>4, <1>6, <1>7, <1>8 DEF h, t

\* What HandleRead() has been given, what it is about to be given and what is at the
\* sockets stand in the order of the connections, each in the order it was logged,
\* and all of it has been sent.
Flight(S, r, h, box) ==
  /\ r \in Seq(Byte) /\ h \in Seq(Byte) /\ box \in [Server!Socket -> Seq(Byte)]
  /\ Items(r) \subseteq S /\ Items(h) \subseteq S
  /\ \A s \in Server!Socket : Items(box[s]) \subseteq S
  /\ Increasing(r) /\ Increasing(h) /\ Precedes(r, h)
  /\ \A s \in Server!Socket :
       Increasing(box[s]) /\ Precedes(r, box[s]) /\ Precedes(h, box[s])
  /\ \A s, t \in Server!Socket : s < t => Precedes(box[s], box[t])

InFlight ==
  /\ Flight(Items(sent), received, << >>, inbox)
  /\ \A d \in Items(ready) :
       d.op = "read" => Flight(Items(sent), received, d.bytes, inbox)

LEMMA NothingInIt ==
  /\ << >> \in Seq(Byte) /\ Items(<< >>) = {} /\ Increasing(<< >>)
  /\ \A s : Precedes(<< >>, s) /\ Precedes(s, << >>)
<1>1. DOMAIN << >> = {}
  OBVIOUS
<1> QED BY <1>1, EmptySeq DEF Items, Increasing, Precedes

LEMMA LessInFlight ==
  ASSUME NEW S, NEW T, S \subseteq T, NEW r, NEW h, NEW box, Flight(S, r, h, box),
         NEW less \in [Server!Socket -> Seq(Byte)],
         \A s \in Server!Socket : less[s] \in {box[s], << >>}
  PROVE  Flight(T, r, h, less) /\ Flight(T, r, << >>, less)
<1>1. \A s \in Server!Socket :
        /\ Items(less[s]) \subseteq T /\ Increasing(less[s])
        /\ Precedes(r, less[s]) /\ Precedes(h, less[s]) /\ Precedes(<< >>, less[s])
  BY NothingInIt DEF Flight
<1>2. \A s, t \in Server!Socket : s < t => Precedes(less[s], less[t])
  BY NothingInIt DEF Flight
<1> QED BY <1>1, <1>2, NothingInIt DEF Flight

\* Nothing new is read, although more may be sent and what has arrived may be lost.
LEMMA FlightKept ==
  ASSUME InFlight, received' = received, Items(sent) \subseteq Items(sent'),
         inbox' \in [Server!Socket -> Seq(Byte)],
         \A s \in Server!Socket : inbox'[s] \in {inbox[s], << >>},
         \A d \in Items(ready') : d.op = "read" =>
           d.bytes = << >> \/ \E e \in Items(ready) : e.op = "read" /\ e.bytes = d.bytes
  PROVE  InFlight'
<1>1. Flight(Items(sent'), received', << >>, inbox')
  BY LessInFlight DEF InFlight
<1>2. ASSUME NEW d \in Items(ready'), d.op = "read"
      PROVE  Flight(Items(sent'), received', d.bytes, inbox')
  <2>1. CASE d.bytes = << >>
    BY <1>1, <2>1
  <2>2. ASSUME NEW e \in Items(ready), e.op = "read", e.bytes = d.bytes
        PROVE  Flight(Items(sent'), received', d.bytes, inbox')
    BY <2>2, LessInFlight DEF InFlight
  <2> QED BY <1>2, <2>1, <2>2
<1> QED BY <1>1, <1>2 DEF InFlight

-----------------------------------------------------------------------------
(* What changes what is on its way                                               *)

\* A read is given the beginning of what is at the one socket that is used: nothing is
\* left at the sockets of earlier connections.
LEMMA SomeIsRead ==
  ASSUME OneOperation, SocketsOK, InFlight, NEW socket \in Server!Socket, socket \in reads,
         NEW n \in Nat, n <= Len(inbox[socket]), UNCHANGED <<received, sent>>,
         ready' = Append(ready, Server!Done("read", "none", socket,
                                            SubSeq(inbox[socket], 1, n))),
         inbox' = [inbox EXCEPT ![socket] = SubSeq(@, n + 1, Len(@))]
  PROVE  InFlight'
<1> DEFINE h == SubSeq(inbox[socket], 1, n)
           t == SubSeq(inbox[socket], n + 1, Len(inbox[socket]))
           e == Server!Done("read", "none", socket, h)
           S == Items(sent)
<1>1. inbox[socket] \in Seq(Byte) /\ Increasing(inbox[socket])
  BY DEF InFlight, Flight
<1>2. /\ h \in Seq(Byte) /\ t \in Seq(Byte)
      /\ Items(h) \subseteq Items(inbox[socket]) /\ Items(t) \subseteq Items(inbox[socket])
      /\ Increasing(h) /\ Increasing(t) /\ Precedes(h, t)
  BY <1>1, SplitInTwo
<1>3. inbox' = [inbox EXCEPT ![socket] = t] /\ ready' = Append(ready, e)
  OBVIOUS
<1>4. e.op = "read" /\ e.bytes = h
  BY DEF Server!Done
<1> HIDE DEF h, t, e, S
<1>5. /\ inbox \in [Server!Socket -> Seq(Byte)] /\ inbox' \in [Server!Socket -> Seq(Byte)]
      /\ inbox'[socket] = t /\ \A s \in Server!Socket \ {socket} : inbox'[s] = inbox[s]
  BY <1>2, <1>3 DEF InFlight, Flight
<1>6. \A s \in Server!Socket : s < socket => inbox[s] = << >>
  <2>1. Used(socket) /\ \A s : Used(s) => s = socket
    BY InUse DEF Used
  <2>2. socket \in 1..conns /\ conns \in Nat /\ \A s \in Items(backlog) : socket < s
    BY <2>1 DEF SocketsOK
  <2>3. \A s \in Server!Socket : s < socket =>
          ~Used(s) /\ s \notin Items(backlog) /\ ~(conns < s)
    BY <2>1, <2>2, BoundAssumption DEF Server!Socket
  <2> QED BY <2>3 DEF SocketsOK, Gone
<1>7. \A s \in Server!Socket : Items(inbox'[s]) \subseteq Items(inbox[s])
  BY <1>2, <1>5
<1>8. \A s \in Server!Socket : Items(inbox'[s]) \subseteq S /\ Increasing(inbox'[s])
                               /\ Precedes(received, inbox'[s])
  BY <1>2, <1>5, <1>7 DEF InFlight, Flight, Precedes, S
<1>9. \A s, u \in Server!Socket : s < u => Precedes(inbox'[s], inbox'[u])
  BY <1>7 DEF InFlight, Flight, Precedes
<1>10. \A s \in Server!Socket : Precedes(h, inbox'[s])
  <2>1. Precedes(h, inbox'[socket])
    BY <1>2, <1>5
  <2>2. ASSUME NEW s \in Server!Socket, s < socket
        PROVE  Precedes(h, inbox'[s])
    <3>1. inbox'[s] = << >>
      BY <1>5, <1>6, <2>2, BoundAssumption DEF Server!Socket
    <3> QED BY <3>1, NothingInIt
  <2>3. ASSUME NEW s \in Server!Socket, socket < s
        PROVE  Precedes(h, inbox'[s])
    BY <1>2, <1>7, <2>3 DEF InFlight, Flight, Precedes
  <2> QED BY <2>1, <2>2, <2>3, BoundAssumption DEF Server!Socket
<1>11. Items(h) \subseteq S /\ Precedes(received, h)
  BY <1>2 DEF InFlight, Flight, Precedes, S
<1>12. Flight(S, received, h, inbox')
  <2>1. received \in Seq(Byte) /\ Items(received) \subseteq S /\ Increasing(received)
    BY DEF InFlight, Flight, S
  <2> QED BY <1>2, <1>5, <1>8, <1>9, <1>10, <1>11, <2>1 DEF Flight
<1>13. Flight(S, received, << >>, inbox')
  BY <1>5, <1>12, LessInFlight
<1>14. \A d \in Items(ready') : d.op = "read" => d = e
  BY <1>3, InUse, ItemsAdded
<1> QED BY <1>4, <1>12, <1>13, <1>14 DEF InFlight, S

LEMMA ReadFlight ==
  ASSUME OneOperation, SocketsOK, InFlight, UNCHANGED sent,
         NEW socket \in Server!Socket, Server!ReadDone(socket)
  PROVE  InFlight'
<1>1. socket \in reads /\ UNCHANGED received
  BY DEF Server!ReadDone, Server!readVars
<1>2. ASSUME NEW n \in 1..BufferSize, n <= Len(inbox[socket]),
             ready' = Append(ready, Server!Done("read", "none", socket,
                                                SubSeq(inbox[socket], 1, n))),
             inbox' = [inbox EXCEPT ![socket] = SubSeq(@, n + 1, Len(@))]
      PROVE  InFlight'
  <2>1. n \in Nat
    BY BoundAssumption
  <2> QED BY <1>1, <1>2, <2>1, SomeIsRead
<1>3. CASE /\ UNCHANGED inbox
           /\ ready' = Append(ready, Server!Done("read", "eof", socket, << >>))
  <2> DEFINE e == Server!Done("read", "eof", socket, << >>)
  <2>1. e.bytes = << >> /\ ready' = Append(ready, e)
    BY <1>3 DEF Server!Done
  <2> HIDE DEF e
  <2>2. Items(ready') = Items(ready) \cup {e}
    BY <2>1, InUse, ItemsAdded
  <2>3. inbox \in [Server!Socket -> Seq(Byte)]
    BY DEF InFlight, Flight
  <2> QED BY <1>1, <1>3, <2>1, <2>2, <2>3, FlightKept
<1> QED BY <1>2, <1>3 DEF Server!ReadDone

\* HandleRead() appends what the read was given, and nothing else is on the way then.
LEMMA HandledFlight ==
  ASSUME OneOperation, SocketsOK, InFlight, UNCHANGED sent, Server!HandleRead
  PROVE  InFlight'
<1> DEFINE d    == Head(ready)
           rest == Tail(ready)
<1>1. ready # << >> /\ d.op = "read" /\ UNCHANGED inbox
  BY DEF Server!HandleRead, Server!Runs, Server!netVars
<1>2. /\ reads = {} /\ IsSequence(rest)
      /\ \A e \in Items(rest) : e.op \notin {"accept", "read"}
      /\ Items(ready) = {d} \cup Items(rest)
  BY <1>1, HeadInUse
<1>3. inbox \in [Server!Socket -> Seq(Byte)]
  BY DEF InFlight, Flight
<1>4. CASE d.error # "none"
  <2>1. Server!WaitForNewConnection(rest) /\ reads' = reads /\ UNCHANGED received
    BY <1>4 DEF Server!HandleRead, Server!readVars
  <2> HIDE DEF d, rest
  <2>2. \A e \in Items(ready') : e.op # "read"
    BY <1>2, <2>1, WaitUses
  <2> QED BY <1>1, <1>3, <2>1, <2>2, FlightKept
<1>5. CASE d.error = "none"
  <2>1. Server!ReadSome(d.socket, rest) /\ received' = received \o d.bytes
    BY <1>5 DEF Server!HandleRead
  <2> HIDE DEF d, rest
  <2>2. Flight(Items(sent), received, d.bytes, inbox)
    BY <1>1, <1>2 DEF InFlight
  <2>3. /\ received' \in Seq(Byte) /\ Increasing(received')
        /\ Items(received') \subseteq Items(received) \cup Items(d.bytes)
    BY <2>1, <2>2, OneAfterTheOther DEF Flight
  <2>4. \A s \in Server!Socket : Precedes(received', inbox[s])
    BY <2>2, <2>3 DEF Flight, Precedes
  <2>5. Flight(Items(sent), received', << >>, inbox)
    BY <2>2, <2>3, <2>4, NothingInIt DEF Flight
  <2>6. \A e \in Items(ready') : e.op = "read" => e.bytes = << >>
    BY <1>2, <2>1, ReadSomeUses
  <2> QED BY <1>1, <2>5, <2>6 DEF InFlight
<1> QED BY <1>4, <1>5

\* What the client writes is the newest of all and arrives at the last socket.
LEMMA FlightOfCharacter ==
  ASSUME SocketsOK, conns \notin closed,
         NEW S, NEW b \in Byte, \A c \in S : Before(c, b),
         NEW r, NEW h, Flight(S, r, h, inbox),
         NEW box, box = [inbox EXCEPT ![conns] = Append(@, b)]
  PROVE  Flight(S \cup {b}, r, h, box)
<1>1. CASE conns \in Server!Socket
  <2>1. /\ Append(inbox[conns], b) \in Seq(Byte) /\ Increasing(Append(inbox[conns], b))
        /\ Items(Append(inbox[conns], b)) = Items(inbox[conns]) \cup {b}
    BY <1>1, OneMore, ItsItems, ItemsAdded DEF Flight
  <2>2. /\ box \in [Server!Socket -> Seq(Byte)] /\ box[conns] = Append(inbox[conns], b)
        /\ \A s \in Server!Socket \ {conns} : box[s] = inbox[s]
    BY <1>1, <2>1 DEF Flight
  <2>3. \A s \in Server!Socket : /\ Items(box[s]) \subseteq S \cup {b} /\ Increasing(box[s])
                                 /\ Precedes(r, box[s]) /\ Precedes(h, box[s])
    BY <2>1, <2>2 DEF Flight, Precedes
  <2>4. ASSUME NEW s \in Server!Socket, NEW t \in Server!Socket, s < t
        PROVE  Precedes(box[s], box[t])
    <3>1. CASE t = conns
      BY <1>1, <2>1, <2>2, <2>4, <3>1, BoundAssumption DEF Flight, Precedes, Server!Socket
    <3>2. CASE s = conns
      <4>1. conns \in Nat /\ t # conns /\ ~Used(t) /\ t \notin Items(backlog)
        BY <2>4, <3>2, BoundAssumption DEF SocketsOK, Server!Socket
      <4>2. box[t] = << >>
        BY <2>2, <4>1 DEF SocketsOK, Gone
      <4> QED BY <4>2, NothingInIt
    <3>3. CASE s # conns /\ t # conns
      BY <2>2, <2>4, <3>3 DEF Flight
    <3> QED BY <3>1, <3>2, <3>3
  <2> QED BY <2>2, <2>3, <2>4 DEF Flight
<1>2. CASE conns \notin Server!Socket
  <2>1. box = inbox
    BY <1>2 DEF Flight
  <2> QED BY <2>1, LessInFlight DEF Flight
<1> QED BY <1>1, <1>2

LEMMA ArrivedFlight ==
  ASSUME SocketsOK, InFlight, IsSequence(sent), NEW b \in Byte, sent' = Append(sent, b),
         \A c \in Items(sent) : Before(c, b), UNCHANGED conns, Server!Arrives(conns, b)
  PROVE  InFlight'
<1>1. /\ UNCHANGED <<ready, received>> /\ Items(sent') = Items(sent) \cup {b}
      /\ inbox' = IF conns \in closed THEN inbox
                  ELSE [inbox EXCEPT ![conns] = Append(@, b)]
  BY ItemsAdded DEF Server!Arrives, Server!asioVars, Server!readVars
<1>2. CASE conns \in closed
  BY <1>1, <1>2, FlightKept DEF InFlight, Flight
<1>3. CASE conns \notin closed
  <2>1. inbox' = [inbox EXCEPT ![conns] = Append(@, b)]
    BY <1>1, <1>3
  <2>2. ASSUME NEW r, NEW h, Flight(Items(sent), r, h, inbox)
        PROVE  Flight(Items(sent'), r, h, inbox')
    <3> DEFINE box == [inbox EXCEPT ![conns] = Append(@, b)]
               S   == Items(sent)
    <3>1. Flight(S \cup {b}, r, h, box)
      BY <1>3, <2>2, FlightOfCharacter
    <3> QED BY <1>1, <2>1, <3>1
  <2> QED BY <1>1, <2>2 DEF InFlight
<1> QED BY <1>2, <1>3

-----------------------------------------------------------------------------
(* The tests' steps and the connection                                           *)

\* A step of the test is one of the connection's, or the server closes it, or the test
\* constructs another.
LEMMA StepOfConnection ==
  ASSUME TestNext
  PROVE  \/ [Next]_vars
         \/ UNCHANGED clientVarsButPeer /\ peer' \in {peer, "gone"}
         \/ Construct
<1>1. CASE ClientHandler
  BY <1>1 DEF ClientHandler, Next
<1>2. CASE Resolved \/ Connects \/ Transmits \/ Completes
  <2>1. (target # "no_host") \in BOOLEAN
    OBVIOUS
  <2>2. Network
    BY <1>2, <2>1 DEF Resolved, Connects, Transmits, Completes, Network
  <2> QED BY <2>2 DEF Next
<1>3. CASE ServerStep \/ ClosesAcceptor
  BY <1>3 DEF ServerStep, ClosesAcceptor, PeerFollows
<1>4. CASE Sends \/ Destroys \/ Flushes \/ FlushReturns
  <2>1. Application
    BY <1>4 DEF Sends, Destroys, Flushes, FlushReturns, Application
  <2> QED BY <2>1 DEF Next
<1>5. CASE Sleeps \/ AsksServer \/ Joins \/ Expects
  BY <1>5 DEF Sleeps, AsksServer, Joins, Expects
<1> QED BY <1>1, <1>2, <1>3, <1>4, <1>5 DEF TestNext, TestThread

LEMMA ConnectionKept ==
  ASSUME ConnectionOK, Increasing(stream), TestNext
  PROVE  ConnectionOK' /\ Increasing(stream')
<1>1. CASE [Next]_vars
  BY <1>1, ConnectionNext, StreamGrows
<1>2. CASE UNCHANGED clientVarsButPeer /\ peer' \in {peer, "gone"}
  BY <1>2, PeerGoes DEF clientVarsButPeer, outsideVars, bufferVars
<1>3. CASE Construct
  <2>1. Increasing(sent)
    BY SentFirst DEF Increasing
  <2> QED BY <1>3, <2>1, ConnectionBegins DEF Construct
<1> QED BY <1>1, <1>2, <1>3, StepOfConnection

\* The client has not closed the socket of the connection it uses, or is about to.
Link == alive /\ Linked => conns \notin left

LEMMA LinkUntouched ==
  ASSUME Link, UNCHANGED <<io, status, open, alive, conns, left>>
  PROVE  Link'
BY DEF Link, Linked

LEMMA LinkOfHandler ==
  ASSUME ConnectionOK, ConnectionOK', Link, ClientHandler
  PROVE  Link'
<1>1. UNCHANGED conns /\ alive' = alive
  BY DEF ClientHandler, testVars, RunHandler, ResolverHandler, ConnectHandlerOk,
         ConnectHandlerError, TimerHandler, ReceiveHandler, PostedSend, SentMessageHandler
<1>2. ASSUME alive', Linked' PROVE conns' \notin left'
  <2>1. Linked /\ open'
    BY <1>2, HandlerLinks DEF ClientHandler
  <2>2. left' = left
    BY <2>1 DEF ClientHandler, serverVars
  <2> QED BY <1>1, <1>2, <2>1, <2>2 DEF Link
<1> QED BY <1>2 DEF Link

LEMMA LinkOfCompletion ==
  ASSUME ConnectionOK, Link, Resolved \/ Completes \/ Connects, SocketsOK
  PROVE  Link'
<1> USE DEF outsideVars, testVars, serverVars
<1>1. ASSUME NEW op, NEW ok, Completed(op, ok) # Completed("connect", TRUE),
             io' = Complete(io, op, ok), UNCHANGED <<status, open, alive, conns, left>>
      PROVE  Link'
  BY <1>1, CompletionLinks DEF Link
<1>2. CASE Resolved
  BY <1>1, <1>2 DEF Resolved, ResolveDone, Completed
<1>3. CASE Completes
  <2>1. CASE TimerFires
    BY <1>1, <1>3, <2>1 DEF Completes, TimerFires, Completed
  <2>2. CASE WriteDone \/ WriteFails
    BY <1>1, <1>3, <2>2 DEF Completes, WriteDone, WriteFails, Completed
  <2>3. CASE ReceiveFails
    BY <1>1, <1>3, <2>3 DEF Completes, ReceiveFails, Completed
  <2> QED BY <1>3, <2>1, <2>2, <2>3 DEF Completes
<1>4. CASE ConnectDone(FALSE) /\ UNCHANGED <<testVars, serverVars>>
  BY <1>1, <1>4 DEF ConnectDone, Completed
<1>5. CASE conns' = conns + 1 /\ Server!Connects(conns + 1)
  BY <1>5 DEF Server!Connects, SocketsOK, Link
<1> QED BY <1>2, <1>3, <1>4, <1>5 DEF Connects

LEMMA LinkKept ==
  ASSUME ConnectionOK, ConnectionOK', Link, SocketsOK, TestNext
  PROVE  Link'
<1> USE DEF outsideVars, testVars, serverVars
<1>1. CASE Transmits
  BY <1>1, LinkUntouched DEF Transmits, KernelAccepts, Server!Arrives
<1>2. CASE ServerStep
  <2>1. UNCHANGED left
    BY <1>2 DEF ServerStep, Server!Serve, Server!OnConnectionAccept, Server!HandleRead,
       Server!CloseFunction, Server!ServiceEnds, Server!AcceptDone, Server!ReadDone,
       Server!netVars
  <2> QED BY <1>2, <2>1, LinkUntouched DEF ServerStep, clientVarsButPeer
<1>3. CASE Construct
  <2>1. io'.ready = << >> /\ status' = "ADDR_LOOKUP"
    BY <1>3 DEF Construct, Service
  <2>2. Items(io'.ready) = {}
    BY <2>1, NothingInIt
  <2> QED BY <2>1, <2>2 DEF Link, Linked
<1>4. CASE Destroys
  BY <1>4 DEF Destroys, Destroy, Link
<1>5. CASE Sends \/ Flushes
  BY <1>5, LinkUntouched DEF Sends, SendMessage, Flushes, FlushBegin
<1>6. CASE FlushReturns \/ Sleeps \/ Joins
  BY <1>6, LinkUntouched DEF FlushReturns, FlushReady, FlushTimeOut, Sleeps, Joins, vars
<1>7. CASE AsksServer \/ ClosesAcceptor
  BY <1>7, LinkUntouched DEF AsksServer, ClosesAcceptor, Server!CloseAllConnections,
     Server!GetLastSocketError, Server!GetLatestMessage, Server!ClearReceivedBytes,
     Server!CloseAcceptor, Server!netVars, vars, clientVarsButPeer
<1>8. CASE Expects
  BY <1>8, LinkUntouched DEF Expects, Observes, Server!GetLatestMessage,
     Server!GetLastSocketError, Server!netVars, vars
<1> QED BY <1>1, <1>2, <1>3, <1>4, <1>5, <1>6, <1>7, <1>8, LinkOfHandler, LinkOfCompletion
        DEF TestNext, TestThread

-----------------------------------------------------------------------------
(* The tests' steps, the sockets and what is on its way                          *)

FlightOK == SocketsOK /\ InFlight

\* Everything but what connects, arrives, is accepted, read or aborted.
LEMMA QuietFlight ==
  ASSUME FlightOK, left \subseteq left', left' \subseteq 1..conns,
         UNCHANGED <<conns, backlog, closed, inbox, ready, reads, received, sent>>
  PROVE  FlightOK'
<1>1. SocketsOK'
  BY QuietSockets DEF FlightOK
<1>2. InFlight'
  BY FlightKept DEF FlightOK, InFlight, Flight
<1> QED BY <1>1, <1>2 DEF FlightOK

\* The client connects, or fails to, and its other steps but sending.
LEMMA ClientFlight ==
  ASSUME FlightOK, ClientHandler \/ Resolved \/ Connects \/ Completes
  PROVE  FlightOK'
<1> USE DEF testVars, serverVars, outsideVars, netVars
<1>1. left \subseteq 1..conns
  BY DEF FlightOK, SocketsOK
<1>2. CASE ClientHandler
  <2>1. UNCHANGED sent
    BY <1>2 DEF ClientHandler, RunHandler, ResolverHandler, ConnectHandlerOk,
       ConnectHandlerError, TimerHandler, ReceiveHandler, PostedSend, SentMessageHandler
  <2>2. CASE UNCHANGED serverVars
    BY <1>1, <1>2, <2>1, <2>2, QuietFlight DEF ClientHandler
  <2>3. CASE Server!Leaves(1..conns)
    BY <1>1, <1>2, <2>1, <2>3, QuietFlight
    DEF ClientHandler, Server!Leaves, Server!asioVars, Server!readVars
  <2> QED BY <1>2, <2>2, <2>3 DEF ClientHandler
<1>3. CASE Resolved
  BY <1>1, <1>3, QuietFlight DEF Resolved, ResolveDone
<1>4. CASE Completes
  BY <1>1, <1>4, QuietFlight DEF Completes, TimerFires, WriteDone, WriteFails, ReceiveFails
<1>5. CASE ConnectDone(FALSE) /\ UNCHANGED <<testVars, serverVars>>
  BY <1>1, <1>5, QuietFlight DEF ConnectDone
<1>6. CASE ConnectDone(TRUE) /\ conns' = conns + 1 /\ Server!Connects(conns + 1)
  <2>1. UNCHANGED <<received, ready, inbox, sent>>
    BY <1>6 DEF ConnectDone, Server!Connects, Server!asioVars, Server!readVars
  <2>2. InFlight'
    BY <2>1, FlightKept DEF FlightOK, InFlight, Flight
  <2> QED BY <1>6, <2>2, ClientConnects DEF FlightOK
<1> QED BY <1>2, <1>3, <1>4, <1>5, <1>6 DEF Connects

\* What is sent is the newest of all: sent is the beginning of the stream, in which
\* nothing is older than what stands before it.
LEMMA SentFlight ==
  ASSUME ConnectionOK, ConnectionOK', Increasing(stream'), Link, FlightOK, Transmits
  PROVE  FlightOK'
<1> DEFINE b == buffer[progress + 1]
<1>1. /\ Pending("write") /\ progress < Len(buffer) /\ sent' = Append(sent, b)
      /\ Server!Arrives(conns, sent'[Len(sent')]) /\ UNCHANGED conns
  BY DEF Transmits, KernelAccepts, testVars
<1>2. b \in Byte
  <2>1. buffer \in Seq(Byte) /\ progress \in Nat
    BY DEF ConnectionOK, TypeOK
  <2>2. progress + 1 \in 1..Len(buffer)
    BY <1>1, <2>1, LenProperties
  <2> QED BY <2>1, <2>2, ElementOfSeq
<1> HIDE DEF b
<1>3. sent \in Seq(Byte) /\ IsSequence(sent)
  BY ItsItems DEF ConnectionOK, TypeOK
<1>4. /\ Len(sent) \in Nat /\ DOMAIN sent = 1..Len(sent) /\ DOMAIN sent' = 1..(Len(sent) + 1)
      /\ \A i \in DOMAIN sent : sent'[i] = sent[i]
      /\ sent'[Len(sent) + 1] = b
  BY <1>1, <1>3, Longer
<1>5. Len(sent') = Len(sent) + 1
  BY <1>1, <1>2, <1>3, AppendProperties
<1>6. \A c \in Items(sent) : Before(c, b)
  <2>1. \A i \in DOMAIN sent' : i \in DOMAIN stream' /\ stream'[i] = sent'[i]
    <3>1. (ConnectionOK => \A i \in DOMAIN sent : i \in DOMAIN stream /\ stream[i] = sent[i])'
      BY SentFirst, PTL
    <3> QED BY <3>1
  <2>2. ASSUME NEW i \in DOMAIN sent PROVE Before(sent[i], b)
    <3>1. i \in DOMAIN sent' /\ Len(sent) + 1 \in DOMAIN sent' /\ i < Len(sent) + 1
      BY <1>4
    <3> QED BY <1>4, <2>1, <3>1 DEF Increasing
  <2> QED BY <2>2 DEF Items
<1>7. Server!Arrives(conns, b)
  BY <1>1, <1>4, <1>5
<1>8. conns \notin left
  <2>1. TypeOK /\ Phases
    BY DEF ConnectionOK
  <2>2. "write" \in Op
    BY NamesOfOps
  <2>3. status = "SEND_LOOP" /\ open = TRUE
    BY <1>1, <2>1, <2>2, PhaseOfOperation DEF Ph
  <2> QED BY <1>1, <2>3 DEF Link, Linked, Pending
<1>9. SocketsOK'
  BY <1>1, <1>2, <1>7, <1>8, CharacterArrives DEF FlightOK, InFlight, Flight
<1>10. InFlight'
  BY <1>1, <1>2, <1>3, <1>6, <1>7, ArrivedFlight DEF FlightOK
<1> QED BY <1>9, <1>10 DEF FlightOK

LEMMA ServerFlight ==
  ASSUME OneOperation, FlightOK, ServerStep
  PROVE  FlightOK'
<1>1. UNCHANGED <<conns, sent>> /\ SocketsOK /\ InFlight
  BY DEF ServerStep, testVars, clientVarsButPeer, FlightOK
<1>2. inbox \in [Server!Socket -> Seq(Byte)]
  BY <1>1 DEF InFlight, Flight
<1>3. CASE Server!OnConnectionAccept
  <2> DEFINE d    == Head(ready)
             rest == Tail(ready)
  <2>1. /\ ready # << >> /\ d.op = "accept" /\ UNCHANGED <<inbox, received>>
        /\ \/ ready' = rest
           \/ Server!ReadSome(d.socket, rest)
    BY <1>3 DEF Server!OnConnectionAccept, Server!Runs, Server!netVars, Server!readVars
  <2>2. /\ reads = {} /\ IsSequence(rest)
        /\ \A e \in Items(rest) : e.op \notin {"accept", "read"}
    BY <2>1, HeadInUse
  <2> HIDE DEF d, rest
  <2>3. \A e \in Items(ready') : e.op = "read" => e.bytes = << >>
    BY <2>1, <2>2, ReadSomeUses
  <2>4. InFlight'
    BY <1>1, <1>2, <2>1, <2>3, FlightKept
  <2> QED BY <1>1, <1>3, <2>4, AcceptSockets DEF FlightOK
<1>4. CASE Server!HandleRead
  BY <1>1, <1>4, ReadSockets, HandledFlight DEF FlightOK
<1>5. CASE Server!CloseFunction
  <2>1. /\ ready # << >> /\ UNCHANGED received
        /\ inbox' \in [Server!Socket -> Seq(Byte)]
        /\ \A s \in Server!Socket : inbox'[s] \in {inbox[s], << >>}
    BY <1>2, <1>5, NothingInIt DEF Server!CloseFunction, Server!Runs, Server!readVars
  <2>2. IsSequence(Tail(ready)) /\ Items(Tail(ready)) \subseteq Items(ready)
    BY <2>1, InUse, Shorter, ItemsTaken
  <2>3. \A d \in Items(ready') : d.op = "read" => d.bytes = << >> \/ d \in Items(ready)
    <3>1. CASE ready' = Tail(ready)
      BY <2>2, <3>1
    <3>2. ASSUME NEW socket, ready' = Append(Tail(ready),
                   Server!Done("read", "operation_aborted", socket, << >>))
          PROVE  \A d \in Items(ready') :
                   d.op = "read" => d.bytes = << >> \/ d \in Items(ready)
      <4> DEFINE e == Server!Done("read", "operation_aborted", socket, << >>)
      <4>1. e.bytes = << >> /\ ready' = Append(Tail(ready), e)
        BY <3>2 DEF Server!Done
      <4> HIDE DEF e
      <4> QED BY <2>2, <4>1, ItemsAdded
    <3> QED BY <1>5, <3>1, <3>2, CloseAborts
  <2>4. InFlight'
    BY <1>1, <2>1, <2>3, FlightKept
  <2> QED BY <1>1, <1>5, <2>4, CloseSockets DEF FlightOK
<1>6. CASE Server!ServiceEnds
  BY <1>1, <1>6, QuietFlight
  DEF Server!ServiceEnds, Server!asioVars, Server!netVars, Server!readVars, SocketsOK
<1>7. CASE Server!AcceptDone
  <2> DEFINE e == Server!Done("accept", "none", Head(backlog), << >>)
  <2>1. ready' = Append(ready, e) /\ UNCHANGED <<inbox, received>>
    BY <1>7 DEF Server!AcceptDone, Server!readVars
  <2>2. e.bytes = << >>
    BY DEF Server!Done
  <2> HIDE DEF e
  <2>3. Items(ready') = Items(ready) \cup {e}
    BY <2>1, InUse, ItemsAdded
  <2>4. InFlight'
    BY <1>1, <1>2, <2>1, <2>2, <2>3, FlightKept
  <2> QED BY <1>1, <1>7, <2>4, AcceptedSocket DEF FlightOK
<1>8. ASSUME NEW socket \in Server!Socket, Server!ReadDone(socket)
      PROVE  FlightOK'
  BY <1>1, <1>2, <1>8, ReadSocket, ReadFlight DEF FlightOK
<1> QED BY <1>3, <1>4, <1>5, <1>6, <1>7, <1>8 DEF ServerStep, Server!Serve

\* The calls of the test's thread that reach the server.
LEMMA CallFlight ==
  ASSUME OneOperation, FlightOK, AsksServer \/ ClosesAcceptor
  PROVE  FlightOK'
<1>1. /\ UNCHANGED <<conns, sent, received>> /\ SocketsOK /\ InFlight
      /\ inbox \in [Server!Socket -> Seq(Byte)]
  BY DEF AsksServer, ClosesAcceptor, clientVarsButPeer, FlightOK, vars, netVars,
     InFlight, Flight, Server!CloseAllConnections, Server!GetLastSocketError,
     Server!GetLatestMessage, Server!ClearReceivedBytes, Server!CloseAcceptor,
     Server!readVars
<1>2. /\ inbox' \in [Server!Socket -> Seq(Byte)]
      /\ \A s \in Server!Socket : inbox'[s] \in {inbox[s], << >>}
  <2>1. CASE AsksServer
    BY <1>1, <2>1 DEF AsksServer, Server!CloseAllConnections, Server!GetLastSocketError,
       Server!GetLatestMessage, Server!ClearReceivedBytes, Server!netVars
  <2>2. CASE ClosesAcceptor
    BY <1>1, <2>2, NothingInIt DEF ClosesAcceptor, Server!CloseAcceptor
  <2> QED BY <2>1, <2>2
<1>3. \A d \in Items(ready') : d.bytes = << >> \/ d \in Items(ready)
  <2>1. ASSUME NEW op, NEW error,
               ready' = Append(ready, Server!Done(op, error, 0, << >>))
        PROVE  \A d \in Items(ready') : d.bytes = << >> \/ d \in Items(ready)
    <3> DEFINE e == Server!Done(op, error, 0, << >>)
    <3>1. e.bytes = << >> /\ ready' = Append(ready, e)
      BY <2>1 DEF Server!Done
    <3> HIDE DEF e
    <3> QED BY <3>1, InUse, ItemsAdded
  <2>2. CASE ready' = ready
    BY <2>2
  <2>3. CASE AsksServer
    BY <2>1, <2>2, <2>3 DEF AsksServer, Server!CloseAllConnections,
       Server!GetLastSocketError, Server!GetLatestMessage, Server!ClearReceivedBytes,
       Server!asioVars
  <2>4. CASE ClosesAcceptor
    BY <2>1, <2>2, <2>4, AcceptAborts DEF ClosesAcceptor
  <2> QED BY <2>3, <2>4
<1>4. InFlight'
  BY <1>1, <1>2, <1>3, FlightKept
<1>5. SocketsOK'
  BY <1>1, CallSockets, AcceptorSockets DEF ClosesAcceptor
<1> QED BY <1>4, <1>5 DEF FlightOK

\* What the test's thread does to the connection, and what it looks at.
LEMMA ScriptFlight ==
  ASSUME FlightOK,
         \/ Construct \/ Sends \/ Destroys \/ Flushes \/ FlushReturns \/ Sleeps
         \/ Joins \/ Expects \/ UNCHANGED allVars
  PROVE  FlightOK'
<1> USE DEF testVars, serverVars, netVars, vars
<1>1. left \subseteq 1..conns
  BY DEF FlightOK, SocketsOK
<1>2. CASE Construct \/ Sleeps \/ Joins \/ UNCHANGED allVars
  BY <1>1, <1>2, QuietFlight DEF Construct, Sleeps, Joins, allVars
<1>3. CASE Sends \/ Flushes \/ FlushReturns
  BY <1>1, <1>3, QuietFlight
  DEF Sends, SendMessage, Flushes, FlushBegin, FlushReturns, FlushReady, FlushTimeOut
<1>4. CASE Destroys
  BY <1>1, <1>4, QuietFlight
  DEF Destroys, Destroy, Server!Leaves, Server!asioVars, Server!readVars
<1>5. CASE Expects
  BY <1>1, <1>5, QuietFlight
  DEF Expects, Observes, Server!GetLatestMessage, Server!GetLastSocketError,
      Server!asioVars, Server!netVars, Server!readVars
<1> QED BY <1>2, <1>3, <1>4, <1>5

-----------------------------------------------------------------------------
(* The theorems                                                                  *)

\* Of the server, of the connection, and of what is between them.
TestInv ==
  OneOperation /\ ConnectionOK /\ Increasing(stream) /\ Link /\ FlightOK

LEMMA TestInvInit == TestInit => TestInv
<1> SUFFICES ASSUME TestInit PROVE TestInv
  OBVIOUS
<1>1. Init /\ OneOperation
  BY TestStart DEF TestInit
<1>2. ConnectionOK
  BY <1>1, InitType, InitPhase, InitData, InitOrder, InitFlush DEF ConnectionOK
<1>3. /\ stream = << >> /\ sent = << >> /\ io.ready = << >> /\ status = "ADDR_LOOKUP"
  BY <1>1 DEF Init, Service
<1>4. /\ conns = 0 /\ reads = {} /\ ready = << >> /\ backlog = << >>
      /\ closed = {} /\ left = {}
      /\ inbox = [socket \in Server!Socket |-> << >>] /\ received = << >>
  BY DEF TestInit, Server!Started
<1>5. Increasing(stream) /\ Link
  BY <1>3, NothingInIt DEF Link, Linked
<1>6. IsSequence(<< >>) /\ DOMAIN << >> = {}
  <2>1. << >> \in Seq({})
    BY EmptySeq
  <2>2. IsSequence(<< >>)
    BY <2>1, ItsItems
  <2> QED BY <2>2
<1>7. SocketsOK
  <2>1. \A s : ~Used(s)
    BY <1>4, NothingInIt DEF Used
  <2> QED BY <1>4, <1>6, <2>1, NothingInIt, BoundAssumption DEF SocketsOK, Server!Socket
<1>8. InFlight
  BY <1>3, <1>4, NothingInIt DEF InFlight, Flight
<1> QED BY <1>1, <1>2, <1>5, <1>7, <1>8 DEF TestInv, FlightOK

LEMMA TestInvNext == TestInv /\ [TestNext]_allVars => TestInv'
<1> SUFFICES ASSUME TestInv, [TestNext]_allVars PROVE TestInv'
  OBVIOUS
<1>1. OneOperation'
  BY TestStep DEF TestInv
<1>2. CASE TestNext
  <2>1. ConnectionOK' /\ Increasing(stream')
    BY <1>2, ConnectionKept DEF TestInv
  <2>2. Link'
    BY <1>2, <2>1, LinkKept DEF TestInv, FlightOK
  <2>3. FlightOK'
    BY <1>2, <2>1, ClientFlight, SentFlight, ServerFlight, CallFlight, ScriptFlight
    DEF TestInv, TestNext, TestThread
  <2> QED BY <1>1, <2>1, <2>2, <2>3 DEF TestInv
<1>3. CASE UNCHANGED allVars
  <2>1. [Next]_vars /\ UNCHANGED <<stream, io, status, open, alive, conns, left>>
    BY <1>3 DEF allVars, vars, testVars, serverVars, bufferVars
  <2>2. ConnectionOK' /\ Increasing(stream')
    BY <2>1, ConnectionNext DEF TestInv
  <2>3. Link'
    BY <2>1, LinkUntouched DEF TestInv
  <2>4. FlightOK'
    BY <1>3, ScriptFlight DEF TestInv
  <2> QED BY <1>1, <2>2, <2>3, <2>4 DEF TestInv
<1> QED BY <1>2, <1>3

\* What the server's HandleRead() is given (LogTestServer.cpp:79-107) is in the order in
\* which the test logged it, each character at most once: over the connections a test
\* constructs one after the other, reconnections, partial writes and connections the
\* server closes, for any number of messages, connections and addresses.
THEOREM ArrivesInOrder == TestSpec => []ReceivedInOrder
<1>1. TestInv => ReceivedInOrder
  BY DEF TestInv, FlightOK, InFlight, Flight, Increasing, ReceivedInOrder
<1> QED BY <1>1, TestInvInit, TestInvNext, PTL DEF TestSpec

\* The invariant of GraylogConnection holds of every connection a test constructs
\* (GraylogInterfaceTest.cpp): with a server that reads, closes and stops listening as
\* LogTestServer does, and after the connections that went before.
THEOREM TestedConnections == TestSpec => []Inv
<1>1. TestInv => Inv
  BY DEF TestInv, ConnectionOK, DataOK, OrderOK, FlushOK, Inv
<1> QED BY <1>1, TestInvInit, TestInvNext, PTL DEF TestSpec
=============================================================================
