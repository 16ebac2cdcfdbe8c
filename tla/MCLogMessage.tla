----------------------------- MODULE MCLogMessage -----------------------------
(* Instances of LogMessage for TLC.                                             *)
EXTENDS LogMessage

MCKey == {"process_id", "some_key", "another_key"}
MCReserved == {"process_id"}
MCValue == {"1", "2"}
=============================================================================
