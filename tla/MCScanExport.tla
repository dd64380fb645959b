----------------------------- MODULE MCScanExport -----------------------------
(* URIs of each protocol and security mode in the forms the clients share *)
(* them, a configs file with a comment and a line that does not parse, and *)
(* every result list of up to three results over the overrides the export *)
(* treats differently (none, fingerprint, alpn, a fragment), with tied and *)
(* distinct latencies and failures.                                        *)
EXTENDS ScanExport

MCUnquote == ("/" :> "/") @@ ("%2F" :> "/") @@ ("/ws" :> "/ws") @@ ("%2Fws" :> "/ws")
             @@ ("svc" :> "svc") @@ ("/h2" :> "/h2") @@ ("%2Fh2" :> "/h2") @@ ("" :> "")
MCQuote == ("/" :> "%2F") @@ ("/ws" :> "%2Fws") @@ ("svc" :> "svc") @@ ("/h2" :> "%2Fh2")
           @@ ("" :> "")
MCPortInt == ("443" :> 443) @@ ("8443" :> 8443)
MCAlpnSplit == ("h2" :> <<"h2">>) @@ ("http/1.1" :> <<"http/1.1">>)
               @@ ("h2,http/1.1" :> <<"h2", "http/1.1">>)

(* vless+tls over ws behind a CDN host, with fp, alpn and a fragment. *)
VlessTls == [scheme |-> "vless", host |-> "srv", port |-> "443",
             query |-> << <<"security", "tls">>, <<"type", "ws">>, <<"host", "cdn">>,
                          <<"sni", "cdn">>, <<"path", "%2Fws">>, <<"fp", "chrome">>,
                          <<"alpn", "h2">>, <<"fragment", <<"10-20", "10-20", "tlshello">> >> >>]
(* vless+reality over tcp. *)
VlessReality == [scheme |-> "vless", host |-> "srv", port |-> "8443",
                 query |-> << <<"security", "reality">>, <<"pbk", "key">>, <<"sid", "ab">>,
                              <<"sni", "dest">>, <<"fp", "chrome">>, <<"type", "tcp">>,
                              <<"flow", "xtls-rprx-vision">> >>]
(* vless without TLS over grpc. *)
VlessPlain == [scheme |-> "vless", host |-> "srv", port |-> "443",
               query |-> << <<"encryption", "none">>, <<"type", "grpc">>, <<"path", "svc">> >>]
(* vless+tls to a self-signed server. *)
VlessInsecure == [scheme |-> "vless", host |-> "srv", port |-> "443",
                  query |-> << <<"security", "tls">>, <<"type", "ws">>, <<"sni", "srv">>,
                               <<"allowInsecure", "true">> >>]
VmessTls == [scheme |-> "vmess",
             obj |-> ("add" :> "srv") @@ ("port" :> "443") @@ ("net" :> "ws")
                     @@ ("tls" :> "tls") @@ ("sni" :> "cdn") @@ ("host" :> "cdn")
                     @@ ("path" :> "/ws") @@ ("scy" :> "auto")]
TrojanH2 == [scheme |-> "trojan", host |-> "srv", port |-> "443",
             query |-> << <<"sni", "cdn">>, <<"type", "h2">>, <<"host", "cdn">>,
                          <<"path", "/h2">>, <<"fp", "firefox">> >>]
SsLegacy == [scheme |-> "ss", host |-> "srv", port |-> "8443", sip002 |-> FALSE]
BadPort == [scheme |-> "vless", host |-> "srv", port |-> "x", query |-> << >>]
Comment == [scheme |-> "comment"]

Uri(u) == [kind |-> "uri", uri |-> u, lines |-> << >>]
File(ls) == [kind |-> "file", uri |-> Comment, lines |-> ls]

MCSources ==
    { Uri(VlessTls), Uri(VlessReality), Uri(VlessPlain), Uri(VlessInsecure), Uri(VmessTls),
      Uri(TrojanH2), Uri(SsLegacy), Uri(BadPort),
      File(<< Comment, BadPort, TrojanH2, VlessTls >>), File(<< Comment >>) }

(* The vless bases whose export does not reproduce the probed document: *)
(* a fragment winner, no TLS, and a self-signed server.                  *)
MCSourcesDivergent == { Uri(VlessTls), Uri(VlessPlain), Uri(VlessInsecure) }

Outcomes == { [success |-> TRUE, latency |-> 5], [success |-> TRUE, latency |-> 9],
              [success |-> FALSE, latency |-> -1] }
MCParams == { Empty, "fingerprint" :> "safari", "alpn" :> <<"h2", "http/1.1">>,
              "fragment_length" :> "1-1" }
MCResults == { [params |-> p, success |-> o.success, latency |-> o.latency] :
                 p \in MCParams, o \in Outcomes }
MCResultSeqs == UNION { [1..n -> MCResults] : n \in 0..3 }
=============================================================================
