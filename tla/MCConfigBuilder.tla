--------------------------- MODULE MCConfigBuilder ---------------------------
(* BaseConfigs of the shapes parse_uri returns for each protocol and       *)
(* security mode, and every override dict over one or two candidate values *)
(* of the keys the builder reads, as generate_full_grid produces them for  *)
(* raw key names.  A candidate value is a token of PARAM_SPACE.            *)
EXTENDS ConfigBuilder

(* vless+tls over ws with host, fp, alpn, allowInsecure and the URI's     *)
(* fragment; vless+reality; vless without security over grpc; vmess with *)
(* and without tls; trojan+tls over h2; shadowsocks; an unknown scheme.   *)
(* The server every BaseConfig names. *)
Addr == ("address" :> "srv") @@ ("port" :> 443)

MCBases ==
  { ("protocol" :> "vless") @@ Addr @@ ("security" :> "tls") @@ ("transport" :> "ws")
      @@ ("host" :> "cdn") @@ ("fingerprint" :> "chrome") @@ ("alpn" :> "h2,http/1.1")
      @@ ("allow_insecure" :> TRUE) @@ ("fragment_length" :> "10-20")
      @@ ("fragment_interval" :> "10-20") @@ ("fragment_packets" :> "tlshello"),
    ("protocol" :> "vless") @@ Addr @@ ("security" :> "reality") @@ ("transport" :> "tcp")
      @@ ("fingerprint" :> "chrome") @@ ("flow" :> "xtls-rprx-vision"),
    ("protocol" :> "vless") @@ Addr @@ ("security" :> "none") @@ ("transport" :> "grpc")
      @@ ("fingerprint" :> "") @@ ("alpn" :> ""),
    ("protocol" :> "vmess") @@ Addr @@ ("tls" :> "tls") @@ ("transport" :> "ws")
      @@ ("fingerprint" :> "") @@ ("alpn" :> "h2"),
    ("protocol" :> "vmess") @@ Addr @@ ("tls" :> "") @@ ("transport" :> "tcp")
      @@ ("fingerprint" :> "") @@ ("alpn" :> ""),
    ("protocol" :> "trojan") @@ Addr @@ ("tls" :> "tls") @@ ("transport" :> "h2")
      @@ ("host" :> "cdn") @@ ("fingerprint" :> "firefox") @@ ("allow_insecure" :> FALSE),
    ("protocol" :> "shadowsocks") @@ Addr,
    ("protocol" :> "socks") }

MCAlpnSplit == ("h2" :> <<"h2">>) @@ ("h2,http/1.1" :> <<"h2", "http/1.1">>)

(* Candidate values per key. *)
MCSpace ==
    ("fragment_length" :> <<"1-1">>) @@ ("fragment_packets" :> <<"1-3">>)
    @@ ("fingerprint" :> <<"safari">>) @@ ("alpn" :> << <<"http/1.1">> >>)
    @@ ("ech_enabled" :> <<TRUE, FALSE>>) @@ ("ech_dns" :> <<TRUE>>)
    @@ ("tcp_keep_alive" :> <<0>>)
    @@ ("transport" :> <<"ws", "xhttp">>) @@ ("xhttp_mode" :> <<"packet-up">>)

(* Every dict over a subset of the keys, a value picked by index. *)
MCOverrideSets ==
    UNION { { [k \in S |-> MCSpace[k][ix[k]]] :
                ix \in {f \in [S -> 1..2] : \A k \in S : f[k] <= Len(MCSpace[k])} }
            : S \in SUBSET DOMAIN MCSpace }
=============================================================================
