------------------------------- MODULE Links -------------------------------
(* collector, parsers/*.py, models.py, outbound.py: what an entry of a list *)
(* becomes.  An entry is a proxy URI or an item of a Clash file, already    *)
(* split: `ok` says that its authority, base64 or JSON is well formed,      *)
(* `upper` that its scheme is not in lower case; id and pw are the parts of *)
(* its user info; opts its query, JSON object or option blocks, the keys    *)
(* that are there.  A parser answers the set of the node it yields, empty   *)
(* when it raises.                                                          *)
(* Options no property tells apart (alpn, fingerprints, rates, congestion   *)
(* control, display names) are left out.                                    *)
EXTENDS Sequences, Sublists

CONSTANT Canonical        \* host -> host: lower case, no trailing dot

NoText == ""              \* a missing or empty string, None
Udp == {"hysteria2", "tuic"}

(* Two maps in one: the first counts where both have a key.  (The provers    *)
(* know nothing of the standard operator for it.)                            *)
Merged(f, g) ==
  [k \in DOMAIN f \cup DOMAIN g |-> IF k \in DOMAIN f THEN f[k] ELSE g[k]]

Get(opts, k, default) == IF k \in DOMAIN opts THEN opts[k] ELSE default

GetOr(opts, k, default) == IF Get(opts, k, NoText) = NoText THEN default ELSE opts[k]

(* The first of several spellings that is there and not empty. *)
First(opts, keys, default) ==
  LET there == {i \in DOMAIN keys : Get(opts, keys[i], NoText) # NoText}
  IN  IF there = {} THEN default
      ELSE opts[keys[Min(there)]]

Clean(params) == Restrict(params, {k \in DOMAIN params : params[k] # NoText})

PortOk(e) == e.port \in 1 .. 65535

Node(e, protocol, transport, auth, params) ==
  [protocol |-> protocol, transport |-> transport, host |-> e.host, port |-> e.port,
   auth |-> auth, params |-> params]

-----------------------------------------------------------------------------
(* URIs *)

NetMap ==
  [n \in {"tcp", "raw", "ws", "websocket", "grpc", "gun", "http", "h2", "httpupgrade"} |->
     CASE n \in {"tcp", "raw"} -> "tcp" [] n \in {"ws", "websocket"} -> "ws"
       [] n \in {"grpc", "gun"} -> "grpc" [] n \in {"http", "h2"} -> "h2"
       [] OTHER -> n]

VlessNet == Merged(NetMap, [n \in {"h2mux"} |-> "h2"])
TrojanNet == Merged(NetMap, [n \in {"original"} |-> "tcp"])

(* Wrong: what sing-box does not speak is taken for plain TCP. *)
NetOfLax(map, net) == {Get(map, net, "tcp")}

(* The transport of a network type, if sing-box has it. *)
NetOf(map, net) == IF net \in DOMAIN map THEN {map[net]} ELSE {}

Sni3 == <<"sni", "peer", "servername">>

ByTransport(transport, opts) ==
  CASE transport \in {"ws", "httpupgrade", "h2"} ->
         [path |-> First(opts, <<"path">>, "/"), host_header |-> First(opts, <<"host">>, NoText)]
    [] transport = "grpc" ->
         [service_name |-> First(opts, <<"serviceName", "servicename">>, NoText)]
    [] OTHER -> << >>

Vless(e) ==
  LET o   == e.opts
      sec == GetOr(o, "security", "none")
      key == IF sec = "reality" THEN First(o, <<"pbk">>, NoText) ELSE NoText
  IN  {Node(e, "vless", t, <<e.id>>,
            Clean(Merged([uuid |-> e.id, security |-> sec, flow |-> First(o, <<"flow">>, NoText),
                          sni |-> First(o, Sni3, NoText), public_key |-> key],
                         ByTransport(t, o)))) :
       t \in {t \in NetOf(VlessNet, Get(o, "type", "tcp")) :
                /\ e.id # NoText
                /\ sec = "reality" => key # NoText
                /\ t = "tcp" => Get(o, "headerType", NoText) # "http"}}

Vmess(e) ==
  LET o == e.opts
      Opts(t) == CASE t = "grpc" -> [service_name |-> First(o, <<"path", "serviceName">>, NoText)]
                   [] OTHER -> ByTransport(t, o)
  IN  {Node(e, "vmess", t, <<e.id>>,
            Clean(Merged([uuid |-> e.id, sni |-> First(o, <<"sni", "host">>, NoText),
                          security |-> IF Get(o, "tls", NoText) \in {"tls", "reality", "xtls"}
                                       THEN "tls" ELSE "none"],
                         Opts(t)))) :
       t \in {t \in NetOf(NetMap, Get(o, "net", "tcp")) :
                /\ e.host # NoText /\ e.id # NoText
                /\ t = "tcp" => Get(o, "type", NoText) # "http"}}

Trojan(e) ==
  LET o == e.opts
  IN  {Node(e, "trojan", t, <<e.id>>,
            Clean(Merged([password |-> e.id, security |-> GetOr(o, "security", "tls"),
                          sni |-> First(o, Sni3, e.host)],
                         ByTransport(t, o)))) :
       t \in {t \in NetOf(TrojanNet, GetOr(o, "type", "tcp")) : e.id # NoText}}

(* No credential is asked for, as in tuic, ss and the Clash form. *)
Hysteria2(e) ==
  LET o    == e.opts
      obfs == Get(o, "obfs", NoText) \in {"salamander", "salamanderv2"}
  IN  {Node(e, "hysteria2", "quic", <<e.id>>,
            Clean([password |-> e.id, security |-> "tls", sni |-> First(o, Sni3, NoText),
                   obfs |-> IF obfs THEN "salamander" ELSE NoText,
                   obfs_password |->
                     IF obfs THEN First(o, <<"obfs-password", "obfsParam", "obfs_password">>, NoText)
                     ELSE NoText]))}

Tuic(e) ==
  {Node(e, "tuic", "quic", <<e.id, e.pw>>,
        Clean([uuid |-> e.id, password |-> e.pw, security |-> "tls",
               sni |-> First(e.opts, Sni3, NoText)]))}

(* Nothing is cleaned here: an empty password stays. *)
Shadowsocks(e) ==
  IF Get(e.opts, "plugin", NoText) # NoText THEN {}
  ELSE {Node(e, "shadowsocks", "tcp", <<e.id, e.pw>>, [method |-> e.id, password |-> e.pw])}

SupportedSchemes == {"vless", "vmess", "trojan", "hysteria2", "hy2", "ss", "tuic"}

ParseUri(e) ==
  IF ~e.ok \/ e.upper \/ ~PortOk(e) THEN {}
  ELSE CASE e.type = "vless"               -> Vless(e)
         [] e.type = "vmess"               -> Vmess(e)
         [] e.type = "trojan"              -> Trojan(e)
         [] e.type \in {"hysteria2", "hy2"} -> Hysteria2(e)
         [] e.type = "ss"                  -> Shadowsocks(e)
         [] e.type = "tuic"                -> Tuic(e)

-----------------------------------------------------------------------------
(* Clash *)

ClashType ==
  [t \in {"ss", "shadowsocks", "hysteria2", "hy2", "vless", "vmess", "trojan", "tuic"} |->
     CASE t \in {"ss", "shadowsocks"} -> "shadowsocks" [] t \in {"hysteria2", "hy2"} -> "hysteria2"
       [] OTHER -> t]

(* Any other network counts as TCP. *)
ClashNet(net) ==
  CASE net \in {"ws", "grpc", "h2", "httpupgrade"} -> net
    [] net = "http" -> "h2"
    [] OTHER -> "tcp"

ClashAuth(protocol, e) ==
  CASE protocol \in {"vless", "vmess"}      -> [uuid |-> e.id]
    [] protocol \in {"trojan", "hysteria2"} -> [password |-> e.id]
    [] protocol = "shadowsocks"             -> [method |-> e.id, password |-> e.pw]
    [] protocol = "tuic"                    -> [uuid |-> e.id, password |-> e.pw]

ClashTransport(transport, opts) ==
  CASE transport = "ws" ->
         [path |-> Get(opts, "path", "/"), host_header |-> Get(opts, "host", NoText)]
    [] transport = "grpc" -> [service_name |-> Get(opts, "serviceName", NoText)]
    [] OTHER -> << >>

Clash(e) ==
  LET protocol == ClashType[e.type]
      o        == e.opts
      network  == IF protocol \in Udp THEN "quic" ELSE ClashNet(Get(o, "network", "tcp"))
      tls      == Get(o, "tls", NoText) # NoText \/ protocol \in Udp \cup {"trojan"}
      reality  == Get(o, "reality-opts", NoText) # NoText
      obfs     == protocol = "hysteria2" /\ Get(o, "obfs", NoText) # NoText
      params   == [security |-> IF reality THEN "reality" ELSE IF tls THEN "tls" ELSE "none",
                   sni |-> First(o, <<"sni", "servername">>, NoText),
                   flow |-> IF protocol = "vless" THEN Get(o, "flow", NoText) ELSE NoText,
                   public_key |-> IF reality THEN Get(o, "pbk", NoText) ELSE NoText,
                   obfs |-> IF obfs THEN "salamander" ELSE NoText,
                   obfs_password |->
                     IF obfs THEN First(o, <<"obfs-password", "obfs-param">>, NoText)
                     ELSE NoText]
  IN  {Node(e, protocol, network,
            IF protocol \in {"shadowsocks", "tuic"} THEN <<e.id, e.pw>> ELSE <<e.id>>,
            Clean(Merged(params, Merged(ClashTransport(network, o), ClashAuth(protocol, e)))))}

ParseProxy(e) ==
  IF e.ok /\ e.type \in DOMAIN ClashType /\ e.host # NoText /\ PortOk(e) THEN Clash(e) ELSE {}

-----------------------------------------------------------------------------
(* Nodes *)

Sni(n) == First(n.params, <<"sni", "host_header">>, NoText)

Security(n) ==
  LET sec == Get(n.params, "security", NoText)
  IN  IF sec = "reality" \/ Get(n.params, "public_key", NoText) # NoText THEN "reality"
      ELSE IF sec \in {"tls", "xtls"} \/ n.protocol \in Udp THEN "tls" ELSE "none"

(* Also the stable id, which is its hash. *)
DedupKey(n) == <<n.protocol, Canonical[n.host], n.port, n.auth, n.transport, Sni(n)>>

-----------------------------------------------------------------------------
(* Outbounds *)

NoBlock == << >>

TlsBlock(n) ==
  IF Security(n) = "none" THEN NoBlock
  ELSE Merged([server_name |-> Get(n.params, "sni", NoText)],
              IF Security(n) = "reality" THEN [public_key |-> Get(n.params, "public_key", NoText)]
              ELSE NoBlock)

TransportBlock(n) ==
  CASE n.transport \in {"ws", "httpupgrade", "h2"} ->
         [type |-> IF n.transport = "h2" THEN "http" ELSE n.transport,
          path |-> Get(n.params, "path", "/"),
          host |-> Get(n.params, "host_header", NoText)]
    [] n.transport = "grpc" ->
         [type |-> "grpc", service_name |-> Get(n.params, "service_name", NoText)]
    [] OTHER -> NoBlock

ObfsBlock(n) ==
  IF n.protocol = "hysteria2" /\ Get(n.params, "obfs", NoText) = "salamander"
  THEN [password |-> Get(n.params, "obfs_password", NoText)] ELSE NoBlock

(* The params an outbound is built from with p[...], which raises KeyError. *)
Needs(n) ==
  CASE n.protocol \in {"vless", "vmess"}      -> {"uuid"}
    [] n.protocol \in {"trojan", "hysteria2"} -> {"password"}
    [] n.protocol = "shadowsocks"             -> {"method", "password"}
    [] n.protocol = "tuic"                    -> {"uuid", "password"}

(* The outbound, or none when building it raises. *)
BuildOutbound(n) ==
  IF ~(Needs(n) \subseteq DOMAIN n.params) THEN {}
  ELSE {[type |-> n.protocol, server |-> n.host, server_port |-> n.port,
         auth |-> Restrict(n.params, Needs(n)), flow |-> Get(n.params, "flow", NoText),
         tls |-> TlsBlock(n),
         transport |-> TransportBlock(n), obfs |-> ObfsBlock(n)]}

(* Wrong: Reality is not TLS. *)
PingTargetNoReality(n) ==
  LET udp == n.protocol \in Udp
  IN  [host |-> n.host, port |-> n.port, sni |-> Sni(n), udp |-> udp,
       want_tls |-> ~udp /\ Security(n) = "tls",
       obfs |-> IF Get(n.params, "obfs", NoText) = "salamander"
                THEN Get(n.params, "obfs_password", NoText) ELSE NoText]

(* Wrong: the obfuscation is forgotten. *)
PingTargetPlain(n) ==
  LET udp == n.protocol \in Udp
  IN  [host |-> n.host, port |-> n.port, sni |-> Sni(n), udp |-> udp,
       want_tls |-> ~udp /\ Security(n) \in {"tls", "reality"}, obfs |-> NoText]

(* What the reachability check is told of a node. *)
PingTarget(n) ==
  LET udp == n.protocol \in Udp
  IN  [host |-> n.host, port |-> n.port, sni |-> Sni(n), udp |-> udp,
       want_tls |-> ~udp /\ Security(n) \in {"tls", "reality"},
       obfs |-> IF Get(n.params, "obfs", NoText) = "salamander"
                THEN Get(n.params, "obfs_password", NoText) ELSE NoText]
=============================================================================
