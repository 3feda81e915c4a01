---------------------------- MODULE MCCollectRun ----------------------------
(* Every shape of a single entry in a plain run, and pairs of entries and of *)
(* files in every run.                                                       *)
EXTENDS CollectRun

MCCanonical == [h \in {"a", "b", "p", "x..y", "sni", "s..i", ""} |-> h] @@ [h \in {"A"} |-> "a"]
MCEncodable == {"a", "A", "b", "p", "sni"}
MCAnswers ==
  [h \in {"a", "A", "b", "p", "x..y"} |->
     CASE h = "a" -> {"ip1", NoAddress} [] h = "p" -> {"lan"} [] OTHER -> {"ip2"}]
MCGlobal == {"ip1", "ip2"}
MCCountry == [ip \in {"ip1", "ip2"} |-> "NL"] @@ [ip \in {"lan"} |-> "??"]
MCRtt == {1, 2, 3}

Link(type, host, id, pw, opts) ==
  [type |-> type, upper |-> FALSE, ok |-> TRUE, host |-> host, port |-> 443, id |-> id,
   pw |-> pw, opts |-> opts]

File(suffix, shape, es) ==
  [blob |-> TRUE, big |-> FALSE, suffix |-> suffix, named64 |-> FALSE, served |-> TRUE,
   shape |-> shape, entries |-> es]

Lines(es) == File(".txt", "lines", es)
Proxies(es) == File(".yaml", "early", es)

(* Options: each key there or not, with the values that matter. *)
Opt(k, values) == {<< >>} \cup {[x \in {k} |-> v] : v \in values}
Both(A, B) == {a @@ b : a \in A, b \in B}

Nets == {"", "raw", "ws", "grpc", "h2mux", "http", "httpupgrade", "original", "xhttp"}
UriOpts ==
  Both(Opt("type", Nets), Both(Opt("security", {"tls", "reality", "none"}),
       Opt("sni", {"sni"}) \cup Opt("pbk", {"key"}) \cup Opt("host", {"sni"})
       \cup Opt("headerType", {"http"})))
VmessOpts == Both(Opt("net", Nets), Both(Opt("tls", {"tls", "none"}),
                  Opt("host", {"sni"}) \cup Opt("type", {"http"})))
QuicOpts == Both(Opt("obfs", {"salamander", "other"}),
                 Opt("obfs-password", {"secret"}) \cup Opt("sni", {"sni"}))
ClashOpts ==
  Both(Opt("network", {"ws", "grpc", "http", "xhttp"}),
       Both(Opt("tls", {"true"}) \cup {[r \in {"reality-opts"} |-> "yes"],
                                       [r \in {"reality-opts", "pbk"} |-> "key"]},
            Opt("servername", {"sni"}) \cup Opt("obfs", {"any"})))

BroadUris ==
  {Link(t, "b", "u", "", o) : t \in {"vless", "trojan"}, o \in UriOpts}
  \cup {Link("vmess", "b", "u", "", o) : o \in VmessOpts}
  \cup {Link("hy2", "b", "u", "", o) : o \in QuicOpts}
  \cup {Link(t, "b", "u", "w", o) : t \in {"ss", "tuic"}, o \in Opt("plugin", {"obfs"})}
  \cup {Link("ss", "b", "m", "", << >>), Link("vless", "b", "", "", << >>)}
BroadProxies ==
  {Link(t, "b", "u", "w", o) : t \in {"vless", "trojan", "ss", "hysteria2", "tuic"},
                               o \in ClashOpts}
  \cup {Link("vmess", "b", "u", "", << >>), Link("socks5", "b", "u", "", << >>)}

NoSeen == [readable |-> FALSE, seen |-> EmptySeen]
PlainArgs == [offline |-> FALSE, keep_dead |-> FALSE, allow_private |-> FALSE]

Broad ==
  [feed : {<<Lines(<<e>>)>> : e \in BroadUris} \cup {<<Proxies(<<e>>)>> : e \in BroadProxies},
   args : {PlainArgs}, seen : {NoSeen}]

(* Entries that meet: another spelling of a host, the same key twice, an      *)
(* address that is private, a form that fails.                               *)
A == Link("vless", "a", "u", "", [security |-> "tls"])
V == Link("vmess", "a", "u", "", [tls |-> "tls"])
Vupper == Link("vmess", "A", "u", "", << >>)
B == Link("hy2", "b", "w", "", << >>)
C == Link("ss", "b", "m", "w", << >>)
P == Link("ss", "p", "m", "w", << >>)
Bad == [Link("trojan", "a", "w", "", << >>) EXCEPT !.ok = FALSE]
BadPort == [Link("ss", "a", "m", "w", << >>) EXCEPT !.port = 70000]
Upper == [Link("vless", "a", "u", "", << >>) EXCEPT !.upper = TRUE]

Mixed == {A, B, P}

(* Files around one good entry. *)
Around ==
  LET good == Lines(<<B>>)
  IN  {<<File(".yaml", "broken", << >>), good>>, <<File(".txt", "blank", << >>), good>>,
       <<File(".txt", "other", << >>), good>>, <<File(".md", "lines", <<A>>), good>>,
       <<File(".b64", "base64", <<A>>), good>>, <<File("", "base64", <<B>>)>>,
       <<File(".txt", "late", <<A>>), good>>, <<File(".yaml", "late", <<B>>)>>,
       <<[good EXCEPT !.big = TRUE]>>, <<[good EXCEPT !.served = FALSE], good>>,
       <<Proxies(<<Bad, [B EXCEPT !.type = "hysteria2"]>>)>>,
       <<Lines(<<Bad, BadPort, Upper, B>>)>>, <<Lines(<<Upper>>)>>}

SeenOnce ==
  [readable |-> TRUE,
   seen |-> [runs_total |-> 2,
             nodes |-> [k \in {DedupKey(CHOOSE n \in ParseUri(B) : TRUE)} |->
                          [first_seen |-> 0, last_seen |-> 1, seen_runs |-> 1, first_run |-> 1]]]]

AllArgs == [offline : BOOLEAN, keep_dead : BOOLEAN, allow_private : BOOLEAN]

Narrow ==
  [feed : {<<Lines(<<e, f>>)>> : e \in Mixed, f \in Mixed \ {A}} \cup {<<Lines(<<V, Vupper>>)>>},
   args : [offline : {FALSE}, keep_dead : BOOLEAN, allow_private : BOOLEAN],
   seen : {NoSeen, SeenOnce}]
  \cup [feed : Around, args : AllArgs, seen : {NoSeen}]
  \cup [feed : {<<Lines(<<B, C, A>>)>>}, args : {PlainArgs}, seen : {SeenOnce}]

(* What the parsers let through and later steps do not expect. *)
Unexpected ==
  {Link("ss", "x..y", "m", "w", << >>), Link("trojan", "b", "w", "", [sni |-> "s..i"]),
   Link("hy2", "b", "", "", << >>)}
MCUnexpectedWorlds ==
  [feed : {<<Lines(<<B, e>>)>> : e \in Unexpected}, args : {PlainArgs}, seen : {NoSeen}]

MCWorlds == Broad \cup Narrow \cup MCUnexpectedWorlds
=============================================================================
