---------------------------- MODULE MCLoggingBase ----------------------------
(* Instances of LoggingBase for TLC.                                            *)
EXTENDS LoggingBase

TwoEach == [t \in Thread |-> 2]

\* Every call but the release of a pointer, which is among those of MCLogger.
AllCalls ==
  {"log", "addLogHandler", "removeAllHandlers", "getHandlers", "destroy",
   "addField", "setMinSeverity", "flush", "setCreator"}
=============================================================================
