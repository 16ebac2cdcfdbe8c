------------------------------ MODULE Completion ------------------------------
(* What a blocking call of LoggingBase promises its caller: it returns after the  *)
(* worker has done its work, and only then.                                      *)
CONSTANTS Thread

VARIABLE call  \* of each thread: idle, waiting, released

Init == call = [t \in Thread |-> "idle"]

Begin(t)   == call[t] = "idle"     /\ call' = [call EXCEPT ![t] = "waiting"]
Release(t) == call[t] = "waiting"  /\ call' = [call EXCEPT ![t] = "released"]
Return(t)  == call[t] = "released" /\ call' = [call EXCEPT ![t] = "idle"]

Next == \E t \in Thread : Begin(t) \/ Release(t) \/ Return(t)

Spec == /\ Init /\ [][Next]_call
        /\ \A t \in Thread : WF_call(Release(t)) /\ WF_call(Return(t))
=============================================================================
