----------------------------- MODULE MessagePipe -----------------------------
(* What a Graylog connection promises, whatever happens to its sockets: a pipe  *)
(* that takes whole messages in the order in which each thread sent them, none   *)
(* twice, only while little is left in it, and that gives their characters to    *)
(* the network once and in order.                                               *)
EXTENDS Naturals, Sequences

CONSTANTS Message, FrameLen, MessageAdditionLimit

VARIABLES stream, sent

Frame(m) == [i \in 1..FrameLen |-> [msg |-> m, pos |-> i]]

\* A message is the pair of its thread and of its number in that thread.
Newer(m, s) == \A i \in DOMAIN s : s[i].msg[1] = m[1] => s[i].msg[2] < m[2]

Init == stream = << >> /\ sent = << >>

Take(m) ==
  /\ Len(stream) - Len(sent) <= MessageAdditionLimit
  /\ Newer(m, stream)
  /\ stream' = stream \o Frame(m)
  /\ UNCHANGED sent

Emit ==
  /\ Len(sent) < Len(stream)
  /\ sent' = Append(sent, stream[Len(sent) + 1])
  /\ UNCHANGED stream

Next == Emit \/ \E m \in Message : Take(m)

Spec == Init /\ [][Next]_<<stream, sent>>
=============================================================================
