------------------------- MODULE MCGraylogConnection -------------------------
(* Instances of GraylogConnection for TLC.                                      *)
EXTENDS GraylogConnection
LOCAL T == INSTANCE TLC

\* One IPv4 and one IPv6 address.
MCEndpoint == {"127.0.0.1", "::1"}
MCV6 == {"::1"}

\* The threads do the same: nothing tells them apart.
Exchanges == T!Permutations(Thread)
=============================================================================
