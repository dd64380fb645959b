---------------------------- MODULE MCProbeBatch ----------------------------
(* Instantiates ProbeBatch for TLC: three documents, two permits, a port   *)
(* pool of PoolSize ports and a counter that may start at the last port of *)
(* the pool, so the modulo wrap of _next_port happens inside the batch.    *)
EXTENDS ProbeBatch

MCTests == {"d1", "d2", "d3"}
MCLatencies == {0, 120}
MCSpeeds == {8}
=============================================================================
