----------------------------- MODULE CleanIpScan -----------------------------
(***************************************************************************)
(* src/tools/scanner/clean_ip.py: scan_cloudflare reads the subnets      *)
(* (load_subnets), expands them to addresses, sampling each subnet         *)
(* (expand_subnets), and runs scan_ips over the list.  Each entry of the   *)
(* list is an asyncio task (_test) that waits on the semaphore, runs       *)
(* _test_ip (a TLS handshake under wait_for, then writer.close and        *)
(* wait_closed) and appends its IPResult under the lock.  Once gather     *)
(* returns, the results are ranked: successes by latency, then failures,  *)
(* and cmd_clean_ip writes the first top_n working ones to clean_ips.txt   *)
(* (export_clean_ips).                                                      *)
(*                                                                         *)
(* _test_ip catches every Exception, so no task raises and gather always  *)
(* returns.  Tasks interleave at the awaits of open_connection and        *)
(* wait_closed; everything between two awaits is one action.  A task is    *)
(* a position of the address list: an address listed twice is two tasks.  *)
(* Subnets are names with a small set of hosts each; random.sample is any  *)
(* subset of the sample size, and the list order, which only decides the   *)
(* order the tasks are created in, is fixed.                               *)
(***************************************************************************)
EXTENDS Integers, Sequences, FiniteSets, SequencesExt

CONSTANTS
    Hosts,           \* net.hosts() of each subnet: [subnet -> set of addresses]
    DefaultSubnets,  \* DEFAULT_SUBNETS, a sequence of subnets
    SubnetFiles,     \* subnets files the user may pass: sequences of lines
    Blank, Comment,  \* a line that strips to "" and one starting with "#"
    Samples,         \* sample_per_subnet values (0: every host)
    Concurrency,  \* asyncio.Semaphore(concurrency)
    Latencies,    \* latency_ms values int(elapsed * 1000) may take
    TopN,         \* top_n of export_clean_ips (50 in the code)
    NoError, TimeoutErr, SslErr, OsErr, OtherErr

ASSUME Concurrency \in Nat \ {0} /\ Latencies \subseteq Nat /\ TopN \in Nat
ASSUME Samples \subseteq Nat

VARIABLES
    ips,       \* the address list expand_subnets returned
    pc,        \* where each task is suspended
    sem,       \* free permits of the semaphore
    res,       \* the IPResult each task is filling in
    results,   \* the shared results list, in completion order
    out,       \* the ranked list scan_ips returns
    returned,  \* gather returned and the ranking is done
    file,      \* the lines of clean_ips.txt: [ip, latency]
    written    \* export_clean_ips has run

vars == <<ips, pc, sem, res, results, out, returned, file, written>>

Errors == {TimeoutErr, SslErr, OsErr, OtherErr}

(* Mutant: an IPResult whose latency default is 0 instead of -1. *)
FreshZeroLatency(ip) == [ip |-> ip, latency |-> 0, success |-> FALSE, error |-> NoError]

(* IPResult(ip=ip). *)
Fresh(ip) == [ip |-> ip, latency |-> -1, success |-> FALSE, error |-> NoError]

(* Mutant: a later result is put before earlier ones of equal latency. *)
RECURSIVE InsertUnstable(_, _)
InsertUnstable(x, s) ==
    IF s = <<>> THEN <<x>>
    ELSE IF Head(s).latency < x.latency THEN <<Head(s)>> \o InsertUnstable(x, Tail(s))
         ELSE <<x>> \o s

(* Insertion step of sorted(key=latency_ms), which is stable. *)
RECURSIVE InsertStable(_, _)
InsertStable(x, s) ==
    IF s = <<>> THEN <<x>>
    ELSE IF Head(s).latency <= x.latency THEN <<Head(s)>> \o InsertStable(x, Tail(s))
         ELSE <<x>> \o s

RECURSIVE SortByLatency(_)
SortByLatency(s) ==
    IF s = <<>> THEN s ELSE InsertStable(Last(s), SortByLatency(Front(s)))

(* working + failed, as scan_ips returns it. *)
Ranked(rs) ==
    SortByLatency(SelectSeq(rs, LAMBDA r : r.success))
    \o SelectSeq(rs, LAMBDA r : ~r.success)

-----------------------------------------------------------------------------

(* load_subnets: the file's stripped lines that are neither blank nor a   *)
(* comment, or DEFAULT_SUBNETS when no file is given.                     *)
LoadSubnets(lines) == SelectSeq(lines, LAMBDA l : l \notin {Blank, Comment})

IPs == UNION {Hosts[n] : n \in DOMAIN Hosts}

(* The hosts expand_subnets may keep of one subnet: all of them, or       *)
(* random.sample(hosts, k) when 0 < k < len(hosts).                        *)
Picks(n, k) ==
    IF k > 0 /\ Cardinality(Hosts[n]) > k THEN kSubset(k, Hosts[n]) ELSE {Hosts[n]}

(* expand_subnets: every list it may return, subnet by subnet. *)
ExpandSubnets(subnets, k) ==
    {FlattenSeq([i \in DOMAIN subnets |-> SetToSeq(pick[i])]) :
        pick \in {f \in [DOMAIN subnets -> SUBSET IPs] :
                    \A i \in DOMAIN subnets : f[i] \in Picks(subnets[i], k)}}

(* scan_cloudflare: the subnets, the sample size and the expansion, then  *)
(* scan_ips creates one task per listed address.                          *)
Init ==
    /\ \E subnets \in {DefaultSubnets} \cup {LoadSubnets(f) : f \in SubnetFiles},
         k \in Samples :
          ips \in ExpandSubnets(subnets, k)
    /\ pc = [i \in DOMAIN ips |-> "sem"]
    /\ sem = Concurrency
    /\ res = [i \in DOMAIN ips |-> Fresh(ips[i])]
    /\ results = <<>>
    /\ out = <<>>
    /\ returned = FALSE
    /\ file = <<>>
    /\ written = FALSE

(* async with sem, then await wait_for(open_connection(...)). *)
Acquire(t) ==
    /\ pc[t] = "sem"
    /\ sem > 0
    /\ sem' = sem - 1
    /\ pc' = [pc EXCEPT ![t] = "connect"]
    /\ UNCHANGED <<ips, res, results, out, returned, file, written>>

(* Mutant: the permit is kept when the close step fails. *)
RecordCloseFailed(t, r) ==
    /\ results' = Append(results, r)
    /\ res' = [res EXCEPT ![t] = r]
    /\ sem' = IF r.error = NoError THEN sem + 1 ELSE sem
    /\ pc' = [pc EXCEPT ![t] = "done"]
    /\ UNCHANGED <<ips, out, returned, file, written>>

(* _test_ip returns r: the rest of _test, under the lock without an await, *)
(* then the permit is released.                                            *)
Record(t, r) ==
    /\ results' = Append(results, r)
    /\ res' = [res EXCEPT ![t] = r]
    /\ sem' = sem + 1
    /\ pc' = [pc EXCEPT ![t] = "done"]
    /\ UNCHANGED <<ips, out, returned, file, written>>

(* The handshake completes: success and latency are set, then             *)
(* writer.close() and await writer.wait_closed().  Or it fails: timeout,  *)
(* SSL error, OS error or any other exception, each classified.           *)
Connect(t) ==
    /\ pc[t] = "connect"
    /\ \/ \E l \in Latencies :
             /\ res' = [res EXCEPT ![t].success = TRUE, ![t].latency = l]
             /\ pc' = [pc EXCEPT ![t] = "closing"]
             /\ UNCHANGED <<ips, sem, results, out, returned, file, written>>
       \/ \E e \in Errors : Record(t, [res[t] EXCEPT !.error = e])

(* Mutant: a close error after the handshake marks the address failed. *)
CloseFailMarksFailed(t) ==
    /\ pc[t] = "closing"
    /\ \E e \in {NoError, SslErr, OsErr} :
          Record(t, [res[t] EXCEPT !.error = e, !.success = (e = NoError)])

(* wait_closed returns, or raises an SSL or OS error after success was    *)
(* already set: the handlers record the error and success stays TRUE.     *)
Close(t) ==
    /\ pc[t] = "closing"
    /\ \E e \in {NoError, SslErr, OsErr} : Record(t, [res[t] EXCEPT !.error = e])

(* await gather(tasks) returns; the working/failed ranking follows it     *)
(* with no await in between.                                               *)
Gathered ==
    /\ ~returned
    /\ \A i \in DOMAIN ips : pc[i] = "done"
    /\ out' = Ranked(results)
    /\ returned' = TRUE
    /\ UNCHANGED <<ips, pc, sem, res, results, file, written>>

(* export_clean_ips(results): the working results of the ranked list, cut *)
(* at top_n, one "ip  # latency" line each.                                *)
Export ==
    /\ returned /\ ~written
    /\ file' = [i \in 1..Min({TopN, Len(SelectSeq(out, LAMBDA r : r.success))}) |->
                  [ip |-> SelectSeq(out, LAMBDA r : r.success)[i].ip,
                   latency |-> SelectSeq(out, LAMBDA r : r.success)[i].latency]]
    /\ written' = TRUE
    /\ UNCHANGED <<ips, pc, sem, res, results, out, returned>>

Stopped == written /\ UNCHANGED vars

Next ==
    \/ \E i \in DOMAIN ips : Acquire(i) \/ Connect(i) \/ Close(i)
    \/ Gathered
    \/ Export
    \/ Stopped

(* The event loop runs a ready task whenever there is one; a handshake    *)
(* ends by the timeout of wait_for at the latest.                          *)
Fairness ==
    /\ WF_vars(\E t \in DOMAIN ips : Acquire(t) \/ Connect(t) \/ Close(t))
    /\ WF_vars(Gathered)
    /\ WF_vars(Export)

Spec == Init /\ [][Next]_vars /\ Fairness

-----------------------------------------------------------------------------
(* Properties *)

IPResults == [ip : IPs, latency : Latencies \cup {-1}, success : BOOLEAN,
              error : Errors \cup {NoError}]

TypeOK ==
    /\ ips \in Seq(IPs)
    /\ pc \in [DOMAIN ips -> {"sem", "connect", "closing", "done"}]
    /\ sem \in Int
    /\ res \in [DOMAIN ips -> IPResults]
    /\ results \in Seq(IPResults) /\ out \in Seq(IPResults)
    /\ returned \in BOOLEAN
    /\ written \in BOOLEAN
    /\ file \in Seq([ip : IPs, latency : Latencies])

(* Position of an address in the completion-ordered results list. *)
Pos(s, ip) == CHOOSE i \in DOMAIN s : s[i].ip = ip

(* scan_ips returns every listed address once, working ones first in      *)
(* ascending latency, then the failed ones; addresses that tie keep the   *)
(* order in which their handshakes completed (sorted is stable).  This is  *)
(* the reference definition of the ranking, checked against the code's.  *)
RankedReport ==
    returned =>
      /\ ToBag(out) = ToBag(results)
      /\ Len(out) = Len(ips) /\ {out[i].ip : i \in DOMAIN out} = Range(ips)
      /\ IsSorted(out, LAMBDA a, b : a.success \/ ~b.success)
      /\ IsSorted(SelectSeq(out, LAMBDA r : r.success), LAMBDA a, b : a.latency <= b.latency)
      /\ \A i, j \in DOMAIN out :
            (i < j /\ out[i].success = out[j].success /\ out[i].latency = out[j].latency)
                => Pos(results, out[i].ip) < Pos(results, out[j].ip)

(* The addresses whose TLS handshake completed: _test_ip sets latency_ms  *)
(* only after open_connection returned.                                   *)
Handshaken == {ips[t] : t \in {t \in DOMAIN ips : res[t].latency >= 0}}

(* The latency measured for an address by some task that scanned it. *)
Measured(ip, l) == \E t \in DOMAIN ips : ips[t] = ip /\ res[t].latency = l

(* clean_ips.txt lists the top_n fastest addresses whose handshake        *)
(* completed, each once, fastest first, with its measured latency: an     *)
(* address is left out only when top_n faster-or-equal ones are listed,   *)
(* including one whose wait_closed raised an SSL or OS error after the    *)
(* handshake.                                                              *)
CleanIpsFile ==
    written =>
      /\ Len(file) = Min({TopN, Cardinality(Handshaken)})
      /\ \A i \in DOMAIN file : Measured(file[i].ip, file[i].latency)
      /\ IsSorted(file, LAMBDA a, b : a.latency <= b.latency)
      /\ \A t \in DOMAIN ips :
            (res[t].latency >= 0 /\ \A i \in DOMAIN file : file[i].ip # ips[t]) =>
                Len(file) = TopN /\ res[t].latency >= file[Len(file)].latency

(* The scan ends: every listed address is tested, scan_ips returns and    *)
(* clean_ips.txt is written, whatever the handshakes and closes do; no     *)
(* task waits forever on a permit another one never gave back.             *)
ScanTerminates == <>written

=============================================================================
