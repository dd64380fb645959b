------------------------------ MODULE BatchSpec ------------------------------
(***************************************************************************)
(* What run_batch (src/tools/scanner/tester.py) promises its callers in    *)
(* grid_search.py: every document handed to it comes back exactly once, as *)
(* a TestResult that obeys the result contract, in some completion order,  *)
(* and the call eventually returns.  ProbeBatch is shown to implement this *)
(* specification; GridSearch relies on it instead of the detailed model.  *)
(***************************************************************************)
EXTENDS Integers, Sequences, FiniteSets

CONSTANTS
    Docs,        \* the documents (xray JSON dicts) of one batch
    Latencies,   \* latency_ms values a successful probe may report
    Speeds,      \* speed_mbps values a speed test may report
    Errors,      \* the classified error values of a failed probe
    NoError      \* the empty error string of TestResult

VARIABLES pending, results

vars == <<pending, results>>

(* The TestResult contract: a success carries a measured latency and no   *)
(* error, a failure carries the -1 sentinels and a classified error.       *)
Outcomes ==
    [success : {TRUE}, latency : Latencies, speed : Speeds \cup {-1},
     error : {NoError}]
    \cup
    [success : {FALSE}, latency : {-1}, speed : {-1}, error : Errors]

Init ==
    /\ pending = Docs
    /\ results = <<>>

Complete(d, o) ==
    /\ d \in pending
    /\ pending' = pending \ {d}
    /\ results' = Append(results, [doc |-> d, out |-> o])

Next == \E d \in pending, o \in Outcomes : Complete(d, o)

Spec == Init /\ [][Next]_vars /\ WF_vars(Next)

=============================================================================
