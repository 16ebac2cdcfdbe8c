------------------------------- MODULE MCLogger -------------------------------
(* Instances of Logger for TLC.                                                 *)
EXTENDS Logger

TwoEach   == [t \in Thread |-> 2]
ThreeEach == [t \in Thread |-> 3]

ConsoleCalls ==
  {"log", "addLogHandler", "removeAllHandlers", "getHandlers", "flush", "release",
   "destroy"}
FormatCalls  == {"log", "addLogHandler", "setCreator"}
FlushCalls   == {"log", "flush"}
LookupCalls  == {"addLogHandler", "getHandlers"}
=============================================================================
