---------------------------- MODULE ConfigBuilder ----------------------------
(***************************************************************************)
(* build_xray_json of src/tools/scanner/config_generator.py and the       *)
(* builders it calls: the protocol dispatch, the four outbound builders,  *)
(* _build_stream_settings and _apply_sockopt.  The function is pure; the  *)
(* model takes a BaseConfig and an override set the search can produce,  *)
(* builds the document in one step and checks it against the precedence  *)
(* rules of the specification.                                             *)
(*                                                                         *)
(* Dicts are TLA+ functions.  The document is flattened to the fields the *)
(* overrides and the BaseConfig can reach, named by their path (for        *)
(* example "tls.alpn" for streamSettings.tlsSettings.alpn); the fixed     *)
(* inbound and the credentials are left out.  Python's None              *)
(* and "" are both "" here, which every test of the code treats alike.    *)
(***************************************************************************)
EXTENDS Integers, Sequences, FiniteSets, TLC

CONSTANTS
    Bases,         \* BaseConfigs, as parse_uri produces them
    OverrideSets,  \* override dicts the generators can produce
    AlpnSplit      \* str.split(",") on the alpn strings of Bases

VARIABLES base, ov, doc

vars == <<base, ov, doc>>

Empty == [k \in {} |-> k]
NoDoc == Empty  \* no document built yet

(* d.get(k, dflt) *)
Get(d, k, dflt) == IF k \in DOMAIN d THEN d[k] ELSE dflt

(* Mutant: the BaseConfig's value wins over the explicit override. *)
PickConfigFirst(o, cfg, k, dflt) == Get(cfg, k, Get(o, k, dflt))

(* overrides.get(k, config.get(k, dflt)): override > config > default. *)
Pick(o, cfg, k, dflt) == Get(o, k, Get(cfg, k, dflt))

(* A field written only under a condition of the code. *)
Opt(cond, path, v) == IF cond THEN (path :> v) ELSE Empty

(* The sockopt field each TCP option override is written to. *)
SockoptKey ==
    ("tcp_no_delay" :> "sockopt.tcpNoDelay") @@ ("tcp_fast_open" :> "sockopt.tcpFastOpen")
    @@ ("mptcp" :> "sockopt.tcpMptcp") @@ ("tcp_keep_alive" :> "sockopt.tcpKeepAliveInterval")
    @@ ("domain_strategy" :> "sockopt.domainStrategy")

(* Mutant: the fragment block is also written when only a TCP option is set. *)
ApplySockoptEager(o, cfg) ==
    LET len == Pick(o, cfg, "fragment_length", "")
        int == Pick(o, cfg, "fragment_interval", "")
        pkt == Pick(o, cfg, "fragment_packets", "")
        frag == len # "" \/ int # "" \/ pkt # "" \/ DOMAIN o \cap DOMAIN SockoptKey # {}
    IN  Opt(frag, "frag.packets", IF pkt # "" THEN pkt ELSE "tlshello")
        @@ Opt(frag, "frag.length", IF len # "" THEN len ELSE "100-200")
        @@ Opt(frag, "frag.interval", IF int # "" THEN int ELSE "10-20")
        @@ [p \in {SockoptKey[k] : k \in DOMAIN o \cap DOMAIN SockoptKey} |->
               o[CHOOSE k \in DOMAIN SockoptKey : SockoptKey[k] = p]]

(* _apply_sockopt: the fragment triple when any of its parts is set by    *)
(* an override or the config, the others defaulted; each TCP option only  *)
(* when it is an override.                                                 *)
ApplySockopt(o, cfg) ==
    LET len == Pick(o, cfg, "fragment_length", "")
        int == Pick(o, cfg, "fragment_interval", "")
        pkt == Pick(o, cfg, "fragment_packets", "")
        frag == len # "" \/ int # "" \/ pkt # ""
    IN  Opt(frag, "frag.packets", IF pkt # "" THEN pkt ELSE "tlshello")
        @@ Opt(frag, "frag.length", IF len # "" THEN len ELSE "100-200")
        @@ Opt(frag, "frag.interval", IF int # "" THEN int ELSE "10-20")
        @@ [p \in {SockoptKey[k] : k \in DOMAIN o \cap DOMAIN SockoptKey} |->
               o[CHOOSE k \in DOMAIN SockoptKey : SockoptKey[k] = p]]

(* The transport branch of _build_stream_settings. *)
TransportSettings(cfg, o, transport) ==
    LET host == Get(cfg, "host", "")
    IN  CASE transport = "ws" ->
               ("ws.path" :> Get(cfg, "path", "/")) @@ Opt(host # "", "ws.host", host)
          [] transport = "grpc" -> ("grpc.serviceName" :> Get(cfg, "path", ""))
          [] transport = "h2" ->
               ("h2.path" :> Get(cfg, "path", "/")) @@ Opt(host # "", "h2.host", <<host>>)
          [] transport = "xhttp" ->
               ("xhttp.path" :> Get(cfg, "path", "/")) @@ Opt(host # "", "xhttp.host", host)
               @@ Opt(Get(o, "xhttp_mode", "") # "", "xhttp.mode", Get(o, "xhttp_mode", ""))
          [] OTHER -> Empty

(* The security branch of _build_stream_settings: REALITY, TLS or none. *)
SecuritySettings(cfg, o, security) ==
    CASE security = "reality" ->
           ("security" :> "reality") @@ ("reality.serverName" :> Get(cfg, "sni", ""))
           @@ ("reality.fingerprint" :> Pick(o, cfg, "fingerprint", "chrome"))
           @@ ("reality.publicKey" :> Get(cfg, "public_key", ""))
           @@ ("reality.shortId" :> Get(cfg, "short_id", ""))
      [] security = "tls" ->
           LET fp == Pick(o, cfg, "fingerprint", "")
               alpnStr == Get(cfg, "alpn", "")
               alpn == IF "alpn" \in DOMAIN o THEN o["alpn"]
                       ELSE IF alpnStr # "" THEN AlpnSplit[alpnStr] ELSE <<>>
               ech == Get(o, "ech_enabled", FALSE)
           IN  ("security" :> "tls")
               @@ ("tls.serverName" :> Get(cfg, "sni", cfg["address"]))
               @@ Opt(fp # "", "tls.fingerprint", fp)
               @@ Opt(alpn # <<>>, "tls.alpn", alpn)
               @@ Opt(ech, "tls.ech.enabled", TRUE)
               @@ Opt(ech, "tls.ech.dnsQuery", Get(o, "ech_dns", FALSE))
      [] OTHER -> ("security" :> "none")

(* _build_stream_settings, allowInsecure last. *)
StreamSettings(cfg, o, security, transport) ==
    ("network" :> transport)
    @@ TransportSettings(cfg, o, transport)
    @@ SecuritySettings(cfg, o, security)
    @@ ApplySockopt(o, cfg)
    @@ Opt(Get(cfg, "allow_insecure", FALSE) /\ security = "tls", "tls.allowInsecure", TRUE)

(* security of the vmess and trojan builders. *)
TlsOrNone(cfg) == IF Get(cfg, "tls", "tls") = "tls" THEN "tls" ELSE "none"

(* The server the outbound dials (vnext or servers). *)
Server(cfg) == "server" :> <<cfg["address"], cfg["port"]>>

(* build_xray_json with the outbound builders it dispatches to. *)
BuildXrayJson(cfg, o) ==
    LET p == cfg["protocol"]
    IN  CASE p = "vless" ->
               LET security == Get(cfg, "security", "tls")
               IN  ("protocol" :> "vless") @@ Server(cfg)
                   @@ Opt(security = "reality", "flow", Get(cfg, "flow", "xtls-rprx-vision"))
                   @@ StreamSettings(cfg, o, security, Pick(o, cfg, "transport", "tcp"))
          [] p = "vmess" ->
               ("protocol" :> "vmess") @@ Server(cfg)
               @@ ("user.security" :> Get(cfg, "security", "auto"))
               @@ StreamSettings(cfg, o, TlsOrNone(cfg), Pick(o, cfg, "transport", "ws"))
          [] p = "trojan" ->
               ("protocol" :> "trojan") @@ Server(cfg)
               @@ StreamSettings(cfg, o, TlsOrNone(cfg), Pick(o, cfg, "transport", "tcp"))
          [] p = "shadowsocks" ->
               ("protocol" :> "shadowsocks") @@ Server(cfg) @@ ("network" :> "tcp") @@ ApplySockopt(o, Empty)
          [] OTHER -> ("error" :> "Unsupported protocol")

-----------------------------------------------------------------------------

Init ==
    /\ base \in Bases
    /\ ov \in OverrideSets
    /\ doc = NoDoc

(* smart_search / full_search call build_xray_json(config, overrides, ...). *)
Build ==
    /\ doc = NoDoc
    /\ doc' = BuildXrayJson(base, ov)
    /\ UNCHANGED <<base, ov>>

Built == doc # NoDoc /\ UNCHANGED vars

Next == Build \/ Built

Spec == Init /\ [][Next]_vars /\ WF_vars(Build)

-----------------------------------------------------------------------------
(* Properties *)

(* The document fields each override key is meant to set. *)
FieldsOf(k) ==
    CASE k = "fingerprint" -> {"tls.fingerprint", "reality.fingerprint"}
      [] k = "alpn" -> {"tls.alpn"}
      [] k \in {"ech_enabled", "ech_dns"} -> {"tls.ech.enabled", "tls.ech.dnsQuery"}
      [] k \in {"fragment_length", "fragment_interval", "fragment_packets"} ->
           {"frag.packets", "frag.length", "frag.interval"}
      [] k \in DOMAIN SockoptKey -> {SockoptKey[k]}
      [] k = "transport" ->
           {"network", "ws.path", "ws.host", "grpc.serviceName", "h2.path", "h2.host",
            "xhttp.path", "xhttp.host", "xhttp.mode"}
      [] k = "xhttp_mode" -> {"xhttp.mode"}
      [] OTHER -> {}

(* The field written from a key's chosen value, and the BaseConfig value   *)
(* converted as the document holds it (alpn: the comma-joined string as a  *)
(* list).                                                                  *)
ValueField == ("fingerprint" :> {"tls.fingerprint", "reality.fingerprint"})
              @@ ("alpn" :> {"tls.alpn"}) @@ ("transport" :> {"network"})
              @@ ("fragment_length" :> {"frag.length"})
              @@ ("fragment_interval" :> {"frag.interval"})
              @@ ("fragment_packets" :> {"frag.packets"})
AsDoc(k, v) == IF k = "alpn" THEN AlpnSplit[v] ELSE v

Produced == doc # NoDoc /\ "error" \notin DOMAIN doc

(* Override precedence is strict (an explicit override beats the          *)
(* BaseConfig's own value, which beats the compiled-in default): whenever *)
(* the document carries the field of a parameter, it holds the override   *)
(* if there is one, else the BaseConfig's value if there is one, for      *)
(* every combination of overrides and every protocol and security mode.   *)
(* Shadowsocks has no transport choice and is left out of that clause.    *)
OverridePrecedence ==
    Produced =>
      \A k \in DOMAIN ValueField : \A p \in ValueField[k] \cap DOMAIN doc :
         ~(k = "transport" /\ doc["protocol"] = "shadowsocks") =>
           /\ k \in DOMAIN ov => doc[p] = ov[k]
           /\ (k \notin DOMAIN ov /\ Get(base, k, "") # "") => doc[p] = AsDoc(k, base[k])

(* A single override K=V changes the document built from the same         *)
(* BaseConfig without overrides only in the fields of K (the fixed port   *)
(* aside): no override leaks into another dimension's fields.              *)
SingletonTouchesOnlyItsField ==
    (Produced /\ Cardinality(DOMAIN ov) = 1) =>
      LET k == CHOOSE x \in DOMAIN ov : TRUE
          d0 == BuildXrayJson(base, Empty)
      IN  \A p \in DOMAIN doc \cup DOMAIN d0 :
             (p \notin DOMAIN doc \/ p \notin DOMAIN d0 \/ doc[p] # d0[p]) => p \in FieldsOf(k)

=============================================================================
