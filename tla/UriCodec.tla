------------------------------ MODULE UriCodec ------------------------------
(***************************************************************************)
(* src/tools/scanner/uri_parser.py: parse_uri, build_uri and parse_multi,  *)
(* the translation between proxy URIs and the BaseConfig dicts the rest of *)
(* the scanner consumes.  The operators are pure; ScanExport uses them.    *)
(*                                                                         *)
(* A URI is kept as the pieces the parser splits it into, not as text:     *)
(*   vless / trojan  [scheme, host, port, query]  for                      *)
(*                   scheme://user@host:port?k=v&...#name                  *)
(*   vmess           [scheme, obj]   the JSON object inside the base64     *)
(*   ss              [scheme, host, port, sip002]                          *)
(* query is the sequence of <<key, value>> items between the "&"s.  The    *)
(* value of "fragment" is the sequence of its ","-separated parts.  Tokens *)
(* contain none of the separators, so splitting the text the builders     *)
(* write gives these pieces back; base64 and JSON round-trip exactly.      *)
(* What is not the identity is given by tables over the tokens used:       *)
(* Unquote and Quote (urllib.parse) on paths, PortInt (int()) on ports.   *)
(* Names, credentials (uuid, password, method) and the #fragment name are *)
(* passed through unchanged by every function here and are left out.      *)
(***************************************************************************)
EXTENDS Integers, Sequences, SequencesExt

CONSTANTS
    Unquote,   \* urllib.parse.unquote on the path tokens
    Quote,     \* urllib.parse.quote(_, safe="") on the path tokens
    PortInt    \* int() on the port strings it accepts

Empty == [k \in {} |-> k]
NoConfig == Empty                  \* parse_uri returned None
ErrLine == [scheme |-> "comment"]  \* a "# ..." line

(* d.get(k, dflt) *)
Get(d, k, dflt) == IF k \in DOMAIN d THEN d[k] ELSE dflt

(* The text f"{port}" of a port number. *)
PortStr(n) == CHOOSE s \in DOMAIN PortInt : PortInt[s] = n

(* One query item, appended only when the code's condition holds. *)
Item(cond, k, v) == IF cond THEN << <<k, v>> >> ELSE << >>

(* _parse_query: items with a non-empty key, a later key overriding. *)
ParseQuery(q) ==
    FoldLeft(LAMBDA acc, kv : (kv[1] :> kv[2]) @@ acc, Empty,
             SelectSeq(q, LAMBDA kv : kv[1] # ""))

(* The fragment=length,interval,packets parameter of a vless URI. *)
FragmentOf(p) ==
    LET parts == Get(p, "fragment", << >>)
    IN  IF Len(parts) = 3
        THEN ("fragment_length" :> parts[1]) @@ ("fragment_interval" :> parts[2])
             @@ ("fragment_packets" :> parts[3])
        ELSE Empty

(* _parse_vless: the three security branches, then the fragment. *)
ParseVless(u) ==
    LET p == ParseQuery(u.query)
        host == u.host
        security == Get(p, "security", "")
        sec ==
          CASE security = "reality" ->
                 ("security" :> "reality") @@ ("sni" :> Get(p, "sni", ""))
                 @@ ("public_key" :> Get(p, "pbk", "")) @@ ("short_id" :> Get(p, "sid", ""))
                 @@ ("fingerprint" :> Get(p, "fp", "chrome"))
                 @@ ("flow" :> Get(p, "flow", "xtls-rprx-vision"))
                 @@ ("transport" :> Get(p, "type", "tcp"))
            [] security = "tls" ->
                 ("security" :> "tls") @@ ("sni" :> Get(p, "sni", host))
                 @@ ("host" :> Get(p, "host", host)) @@ ("path" :> Unquote[Get(p, "path", "/")])
                 @@ ("transport" :> Get(p, "type", "ws")) @@ ("fingerprint" :> Get(p, "fp", ""))
                 @@ ("alpn" :> Get(p, "alpn", ""))
                 @@ ("allow_insecure" :> (Get(p, "allowInsecure", "false") = "true"))
            [] OTHER ->
                 ("security" :> IF security = "" THEN "none" ELSE security)
                 @@ ("sni" :> Get(p, "sni", "")) @@ ("transport" :> Get(p, "type", "tcp"))
                 @@ ("fingerprint" :> Get(p, "fp", "")) @@ ("alpn" :> Get(p, "alpn", ""))
                 @@ ("host" :> Get(p, "host", "")) @@ ("path" :> Unquote[Get(p, "path", "/")])
    IN  IF u.port \in DOMAIN PortInt
        THEN FragmentOf(p) @@ sec
             @@ ("protocol" :> "vless") @@ ("address" :> host) @@ ("port" :> PortInt[u.port])
        ELSE NoConfig

(* _build_vless: REALITY, else a TLS query; the fragment when its length *)
(* is set, interval and packets defaulted.                               *)
BuildVless(c) ==
    LET host == c["address"]
        q == IF Get(c, "security", "tls") = "reality"
             THEN << <<"security", "reality">>, <<"encryption", "none">>,
                     <<"pbk", Get(c, "public_key", "")>>, <<"headerType", "none">>,
                     <<"fp", Get(c, "fingerprint", "chrome")>>, <<"type", Get(c, "transport", "tcp")>>,
                     <<"flow", Get(c, "flow", "xtls-rprx-vision")>>, <<"sni", Get(c, "sni", "")>>,
                     <<"sid", Get(c, "short_id", "")>> >>
             ELSE << <<"encryption", "none">>, <<"security", "tls">>,
                     <<"type", Get(c, "transport", "ws")>>, <<"host", Get(c, "host", host)>>,
                     <<"sni", Get(c, "sni", host)>>, <<"path", Quote[Get(c, "path", "/")]>> >>
                  \o Item(Get(c, "fingerprint", "") # "", "fp", Get(c, "fingerprint", ""))
                  \o Item(Get(c, "alpn", "") # "", "alpn", Get(c, "alpn", ""))
        frag == Item(Get(c, "fragment_length", "") # "", "fragment",
                     << Get(c, "fragment_length", ""), Get(c, "fragment_interval", "10-20"),
                        Get(c, "fragment_packets", "tlshello") >>)
    IN  [scheme |-> "vless", host |-> host, port |-> PortStr(c["port"]), query |-> q \o frag]

(* _parse_vmess: the fields of the decoded JSON object, with defaults. *)
ParseVmess(u) ==
    LET o == u.obj
        port == Get(o, "port", "443")
    IN  IF port \in DOMAIN PortInt
        THEN ("protocol" :> "vmess") @@ ("address" :> Get(o, "add", ""))
             @@ ("port" :> PortInt[port]) @@ ("security" :> Get(o, "scy", "auto"))
             @@ ("transport" :> Get(o, "net", "ws")) @@ ("tls" :> Get(o, "tls", ""))
             @@ ("sni" :> Get(o, "sni", "")) @@ ("host" :> Get(o, "host", ""))
             @@ ("path" :> Get(o, "path", "/")) @@ ("fingerprint" :> Get(o, "fp", ""))
             @@ ("alpn" :> Get(o, "alpn", ""))
        ELSE NoConfig

(* _build_vmess: the JSON object, every field written. *)
BuildVmess(c) ==
    [scheme |-> "vmess",
     obj |-> ("add" :> c["address"]) @@ ("port" :> PortStr(c["port"]))
             @@ ("scy" :> Get(c, "security", "auto")) @@ ("net" :> Get(c, "transport", "ws"))
             @@ ("type" :> "none") @@ ("host" :> Get(c, "host", ""))
             @@ ("path" :> Get(c, "path", "/")) @@ ("tls" :> Get(c, "tls", "tls"))
             @@ ("sni" :> Get(c, "sni", "")) @@ ("alpn" :> Get(c, "alpn", ""))
             @@ ("fp" :> Get(c, "fingerprint", ""))]

(* _parse_trojan. *)
ParseTrojan(u) ==
    LET p == ParseQuery(u.query)
    IN  IF u.port \in DOMAIN PortInt
        THEN ("protocol" :> "trojan") @@ ("address" :> u.host) @@ ("port" :> PortInt[u.port])
             @@ ("sni" :> Get(p, "sni", u.host)) @@ ("transport" :> Get(p, "type", "tcp"))
             @@ ("host" :> Get(p, "host", "")) @@ ("path" :> Unquote[Get(p, "path", "")])
             @@ ("tls" :> Get(p, "security", "tls")) @@ ("fingerprint" :> Get(p, "fp", ""))
             @@ ("alpn" :> Get(p, "alpn", ""))
        ELSE NoConfig

(* _build_trojan: each parameter only when it differs from the default. *)
BuildTrojan(c) ==
    [scheme |-> "trojan", host |-> c["address"], port |-> PortStr(c["port"]),
     query |-> Item(Get(c, "sni", "") # "", "sni", Get(c, "sni", ""))
               \o Item(Get(c, "transport", "tcp") # "tcp", "type", Get(c, "transport", "tcp"))
               \o Item(Get(c, "host", "") # "", "host", Get(c, "host", ""))
               \o Item(Get(c, "path", "") # "", "path", Quote[Get(c, "path", "")])
               \o Item(Get(c, "tls", "tls") # "tls", "security", Get(c, "tls", "tls"))
               \o Item(Get(c, "fingerprint", "") # "", "fp", Get(c, "fingerprint", ""))
               \o Item(Get(c, "alpn", "") # "", "alpn", Get(c, "alpn", ""))]

(* _parse_shadowsocks: SIP002 and the legacy form carry the same fields. *)
ParseShadowsocks(u) ==
    IF u.port \in DOMAIN PortInt
    THEN ("protocol" :> "shadowsocks") @@ ("address" :> u.host) @@ ("port" :> PortInt[u.port])
    ELSE NoConfig

(* _build_shadowsocks writes the SIP002 form. *)
BuildShadowsocks(c) ==
    [scheme |-> "ss", host |-> c["address"], port |-> PortStr(c["port"]), sip002 |-> TRUE]

(* parse_uri: dispatch on the scheme; any other text is None. *)
ParseUri(u) ==
    CASE u.scheme = "vless" -> ParseVless(u)
      [] u.scheme = "vmess" -> ParseVmess(u)
      [] u.scheme = "trojan" -> ParseTrojan(u)
      [] u.scheme = "ss" -> ParseShadowsocks(u)
      [] OTHER -> NoConfig

(* build_uri: dispatch on the protocol; any other raises ValueError, shown *)
(* here as the error line the caller writes instead.                      *)
BuildUri(c) ==
    CASE Get(c, "protocol", "") = "vless" -> BuildVless(c)
      [] Get(c, "protocol", "") = "vmess" -> BuildVmess(c)
      [] Get(c, "protocol", "") = "trojan" -> BuildTrojan(c)
      [] Get(c, "protocol", "") = "shadowsocks" -> BuildShadowsocks(c)
      [] OTHER -> ErrLine

(* parse_multi: comment lines skipped, lines that do not parse dropped. *)
ParseMulti(lines) ==
    SelectSeq([i \in DOMAIN lines |->
                 IF lines[i].scheme = "comment" THEN NoConfig ELSE ParseUri(lines[i])],
              LAMBDA c : c # NoConfig)

=============================================================================
