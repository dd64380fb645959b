---------------------------- MODULE MCCleanIpScan ----------------------------
(* Two default subnets, one of two hosts and one of a single host, and a  *)
(* subnets file with a comment, a blank line and one subnet; sampling one *)
(* host per subnet or all of them.  Up to three tasks under two permits   *)
(* and two latencies, so that a queued task, equal latencies and mixed    *)
(* outcomes all occur in one scan.                                        *)
EXTENDS CleanIpScan

MCHosts == [n1 |-> {"ip1", "ip2"}, n2 |-> {"ip3"}]
MCDefaultSubnets == <<"n1", "n2">>
MCSubnetFiles == {<<Comment, "n2", Blank>>}
MCLatencies == {5, 9}
=============================================================================
