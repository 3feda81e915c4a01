--------------------------- MODULE HarvestProofs ----------------------------
(* From the entries of a source to the list of unique nodes: what reaches    *)
(* the list, and that nothing that parses is lost on the way.                *)
EXTENDS Harvest, SublistProofs

(* A map with another's keys added.                                          *)
LEMMA Merges ==
  ASSUME NEW f, NEW g
  PROVE  /\ DOMAIN Merged(f, g) = DOMAIN f \cup DOMAIN g
         /\ \A k \in DOMAIN f : Merged(f, g)[k] = f[k]
         /\ \A k \in DOMAIN g \ DOMAIN f : Merged(f, g)[k] = g[k]
BY DEF Merged

(* A list of a set has its members.                                          *)
LEMMA SetListed ==
  ASSUME NEW S, IsFiniteSet(S)
  PROVE  SetToSeq(S) \in Seq(S) /\ Range(SetToSeq(S)) = S
<1> DEFINE n == Cardinality(S)
           f == SetToSeq(S)
<1>1. n \in Nat /\ ExistsBijection(1 .. n, S)
  BY FS_CardinalityType
<1>2. f \in [1 .. n -> S] /\ IsInjective(f)
  <2>1. \E g \in [1 .. n -> S] : IsInjective(g)
    BY <1>1 DEF ExistsBijection, Bijection, Injection
  <2>2. f = CHOOSE g \in [1 .. n -> S] : IsInjective(g)
    BY DEF SetToSeq
  <2> HIDE DEF f, n
  <2> QED BY <2>1, <2>2
<1> HIDE DEF f
<1>3. f \in Injection(1 .. n, S)
  BY <1>2 DEF Injection
<1>4. IsFiniteSet(1 .. n) /\ Cardinality(1 .. n) = n
  BY <1>1, FS_Interval
<1>5. f \in Surjection(1 .. n, S)
  BY <1>3, <1>4, FS_Injection
<1>6. f \in Seq(S) /\ DOMAIN f = 1 .. n
  BY <1>1, <1>2
<1>7. \A x \in S : \E i \in 1 .. n : f[i] = x
  BY <1>5 DEF Surjection
<1>8. Range(f) = S
  BY <1>2, <1>6, <1>7 DEF Range
<1> QED BY <1>6, <1>8 DEF f

(* The members of two lists on end.                                          *)
LEMMA Joins ==
  ASSUME NEW V, NEW s \in Seq(V), NEW t \in Seq(V)
  PROVE  s \o t \in Seq(V) /\ Range(s \o t) = Range(s) \cup Range(t)
<1>1. /\ s \o t \in Seq(V) /\ DOMAIN (s \o t) = 1 .. Len(s) + Len(t)
      /\ Len(s) \in Nat /\ Len(t) \in Nat /\ DOMAIN s = 1 .. Len(s) /\ DOMAIN t = 1 .. Len(t)
      /\ \A i \in 1 .. Len(s) : (s \o t)[i] = s[i]
      /\ \A i \in 1 .. Len(t) : (s \o t)[Len(s) + i] = t[i]
  OBVIOUS
<1> DEFINE u == s \o t
<1> HIDE DEF u
<1>2. \A i \in DOMAIN u : u[i] \in Range(s) \cup Range(t)
  <2> SUFFICES ASSUME NEW i \in 1 .. Len(s) + Len(t)
               PROVE  u[i] \in Range(s) \cup Range(t)
    BY <1>1 DEF u
  <2>1. CASE i \in 1 .. Len(s)
    BY <1>1, <2>1 DEF u, Range
  <2>2. CASE i \notin 1 .. Len(s)
    <3>1. i - Len(s) \in 1 .. Len(t) /\ i = Len(s) + (i - Len(s))
      BY <1>1, <2>2
    <3>2. u[i] = t[i - Len(s)]
      BY <1>1, <3>1 DEF u
    <3> QED BY <1>1, <3>1, <3>2 DEF Range
  <2> QED BY <2>1, <2>2
<1>3. \A i \in 1 .. Len(s) : s[i] \in Range(u)
  <2>1. \A i \in 1 .. Len(s) : i \in DOMAIN u /\ u[i] = s[i]
    BY <1>1 DEF u
  <2> QED BY <2>1 DEF Range
<1>4. \A i \in 1 .. Len(t) : t[i] \in Range(u)
  <2>1. \A i \in 1 .. Len(t) : Len(s) + i \in DOMAIN u /\ u[Len(s) + i] = t[i]
    BY <1>1 DEF u
  <2> QED BY <2>1 DEF Range
<1>5. Range(u) = Range(s) \cup Range(t)
  <2>1. Range(u) = {u[i] : i \in DOMAIN u}
    BY DEF Range
  <2>2. Range(s) = {s[i] : i \in 1 .. Len(s)} /\ Range(t) = {t[i] : i \in 1 .. Len(t)}
    BY <1>1 DEF Range
  <2> QED BY <1>2, <1>3, <1>4, <2>1, <2>2
<1> QED BY <1>1, <1>5 DEF u

(* The lists of a list, on end.                                              *)
LEMMA Flattens ==
  ASSUME NEW V, NEW seqs \in Seq(Seq(V))
  PROVE  /\ FlattenSeq(seqs) \in Seq(V)
         /\ Range(FlattenSeq(seqs)) = UNION {Range(seqs[i]) : i \in DOMAIN seqs}
<1> DEFINE n == Len(seqs)
<1>1. n \in Nat /\ DOMAIN seqs = 1 .. n /\ \A i \in 1 .. n : seqs[i] \in Seq(V)
  OBVIOUS
<1>2. CASE n = 0
  <2>1. FlattenSeq(seqs) = seqs /\ seqs = << >> /\ DOMAIN seqs = {}
    BY <1>1, <1>2 DEF FlattenSeq
  <2>2. Range(seqs) = {}
    BY <2>1 DEF Range
  <2> QED BY <2>1, <2>2
<1>3. CASE n # 0
  <2> DEFINE F(i, s) == IF i = 1 THEN seqs[i] ELSE s \o seqs[i]
             Is(f) == f = [i \in 1 .. n |-> IF i = 1 THEN seqs[i] ELSE f[i - 1] \o seqs[i]]
             step == [z \in (1 .. n) \X Seq(V) |-> F(z[1], z[2])]
             flatten == CHOOSE f : Is(f)
  <2>1. ASSUME NEW i \in 1 .. n, NEW s \in Seq(V)
        PROVE  step[<<i, s>>] = F(i, s) /\ F(i, s) \in Seq(V)
    <3>1. <<i, s>> \in (1 .. n) \X Seq(V) /\ <<i, s>>[1] = i /\ <<i, s>>[2] = s
      OBVIOUS
    <3>2. F(i, s) \in Seq(V)
      BY <1>1
    <3> HIDE DEF F
    <3> QED BY <3>1, <3>2
  <2>2. IsStep(n, Seq(V), step)
    <3>1. \A z \in (1 .. n) \X Seq(V) : F(z[1], z[2]) \in Seq(V)
      <4>1. \A z \in (1 .. n) \X Seq(V) : z[1] \in 1 .. n /\ z[2] \in Seq(V)
        OBVIOUS
      <4> HIDE DEF F, n
      <4> QED BY <4>1, <2>1
    <3> HIDE DEF F
    <3> QED BY <3>1 DEF IsStep
  <2> HIDE DEF step
  <2>3. PICK f : Iterated(f, n, Seq(V), << >>, step)
    <3>1. n \in Nat /\ << >> \in Seq(V)
      BY <1>1
    <3> HIDE DEF n
    <3> QED BY <2>2, <3>1, Iterates
  <2>4. \A i \in 1 .. n : f[i] = F(i, f[i - 1]) /\ f[i] \in Seq(V)
    <3>1. ASSUME NEW i \in 1 .. n PROVE f[i] = F(i, f[i - 1]) /\ f[i] \in Seq(V)
      <4>1. i - 1 \in 0 .. n
        BY <1>1
      <4>2. f[i - 1] \in Seq(V) /\ f[i] = step[<<i, f[i - 1]>>]
        BY <2>3, <4>1 DEF Iterated
      <4> HIDE DEF F
      <4> QED BY <2>1, <4>2
    <3> QED BY <3>1
  <2> DEFINE g == [i \in 1 .. n |-> f[i]]
  <2>5. Is(g)
    <3> DEFINE G(i) == IF i = 1 THEN seqs[i] ELSE g[i - 1] \o seqs[i]
    <3>1. ASSUME NEW i \in 1 .. n PROVE f[i] = G(i)
      <4>1. CASE i = 1
        BY <2>4, <4>1
      <4>2. CASE i # 1
        <5>1. i - 1 \in 1 .. n
          BY <1>1, <4>2
        <5>2. g[i - 1] = f[i - 1]
          BY <5>1
        <5> QED BY <2>4, <4>2, <5>2
      <4> QED BY <4>1, <4>2
    <3> HIDE DEF G
    <3>2. g = [i \in 1 .. n |-> G(i)]
      BY <3>1
    <3> QED BY <3>2 DEF G
  <2>6. Is(flatten)
    <3> HIDE DEF g
    <3> QED BY <2>5
  <2>7. FlattenSeq(seqs) = flatten[n]
    BY <1>3 DEF FlattenSeq
  <2> HIDE DEF flatten
  <2> DEFINE Members(i) == UNION {Range(seqs[j]) : j \in 1 .. i}
             good == {i \in 0 .. n : i = 0 \/ (flatten[i] \in Seq(V) /\ Range(flatten[i]) = Members(i))}
  <2>8. 0 \in good
    BY <1>1
  <2>9. ASSUME NEW i \in 1 .. n, i - 1 \in good PROVE i \in good
    <3>1. i \in Nat \ {0} /\ i \in 0 .. n /\ seqs[i] \in Seq(V)
      BY <1>1
    <3>2. flatten[i] = IF i = 1 THEN seqs[i] ELSE flatten[i - 1] \o seqs[i]
      BY <2>6
    <3>3. CASE i = 1
      <4>1. Members(1) = Range(seqs[1])
        OBVIOUS
      <4> HIDE DEF Members
      <4> QED BY <3>1, <3>2, <3>3, <4>1
    <3>4. CASE i # 1
      <4>1. flatten[i - 1] \in Seq(V) /\ Range(flatten[i - 1]) = Members(i - 1)
        <5> HIDE DEF Members
        <5> QED BY <2>9, <3>1, <3>4
      <4>2. flatten[i] \in Seq(V) /\ Range(flatten[i]) = Members(i - 1) \cup Range(seqs[i])
        <5> HIDE DEF Members
        <5> QED BY <3>1, <3>2, <3>4, <4>1, Joins
      <4>3. Members(i) = Members(i - 1) \cup Range(seqs[i])
        <5>1. i \in 1 .. i /\ \A j : j \in 1 .. i <=> j \in 1 .. i - 1 \/ j = i
          BY <3>1
        <5> QED BY <5>1
      <4> HIDE DEF Members
      <4> QED BY <3>1, <4>2, <4>3
    <3> QED BY <3>3, <3>4
  <2>10. n \in good
    <3>1. n \in Nat /\ n \in 0 .. n
      BY <1>1
    <3> HIDE DEF good, n
    <3> QED BY <3>1, <2>8, <2>9, Induction
  <2>11. flatten[n] \in Seq(V) /\ Range(flatten[n]) = Members(n)
    <3> HIDE DEF Members
    <3> QED BY <1>3, <2>10
  <2> QED BY <1>1, <2>7, <2>11
<1> QED BY <1>2, <1>3

(* What a parser made of each entry.                                         *)
LEMMA Yields ==
  ASSUME NEW n \in Nat, NEW answers, DOMAIN answers = 1 .. n,
         \A i \in 1 .. n : IsFiniteSet(answers[i])
  PROVE  LET made == UNION {answers[i] : i \in 1 .. n}
         IN  Yield(answers) \in Seq(made) /\ Range(Yield(answers)) = made
<1> DEFINE made == UNION {answers[i] : i \in 1 .. n}
           lists == [i \in 1 .. n |-> SetToSeq(answers[i])]
<1>1. ASSUME NEW i \in 1 .. n
      PROVE  SetToSeq(answers[i]) \in Seq(made) /\ Range(SetToSeq(answers[i])) = answers[i]
  <2> DEFINE s == SetToSeq(answers[i])
  <2>1. s \in Seq(answers[i]) /\ Range(s) = answers[i]
    BY SetListed
  <2>2. answers[i] \subseteq made
    OBVIOUS
  <2> HIDE DEF s, made
  <2>3. s \in Seq(made)
    <3>1. s = [j \in 1 .. Len(s) |-> s[j]] /\ Len(s) \in Nat /\ \A j \in 1 .. Len(s) : s[j] \in made
      BY <2>1, <2>2
    <3> QED BY <3>1
  <2> QED BY <2>1, <2>3 DEF s
<1>2. lists \in Seq(Seq(made)) /\ DOMAIN lists = 1 .. n
  <2> HIDE DEF made
  <2>1. \A i \in 1 .. n : SetToSeq(answers[i]) \in Seq(made)
    BY <1>1
  <2> QED BY <2>1
<1>3. Yield(answers) = FlattenSeq(lists)
  BY DEF Yield
<1> DEFINE flat == UNION {Range(lists[i]) : i \in DOMAIN lists}
<1>4. FlattenSeq(lists) \in Seq(made) /\ Range(FlattenSeq(lists)) = flat
  <2> HIDE DEF made, lists
  <2> QED BY <1>2, Flattens DEF flat
<1>5. flat = made
  <2>1. \A i \in 1 .. n : Range(lists[i]) = answers[i]
    BY <1>1
  <2> HIDE DEF lists
  <2> QED BY <1>2, <2>1
<1> QED BY <1>3, <1>4, <1>5

(* A list is one of its own members.                                         *)
LEMMA OwnMembers ==
  ASSUME NEW V, NEW s \in Seq(V), NEW W, Range(s) \subseteq W
  PROVE  s \in Seq(W)
<1>1. s = [i \in 1 .. Len(s) |-> s[i]] /\ Len(s) \in Nat /\ \A i \in 1 .. Len(s) : s[i] \in W
  BY DEF Range
<1> QED BY <1>1

(* Of the nodes of each key one is kept.                                     *)
LEMMA DedupKeeps ==
  ASSUME NEW V, NEW list \in Seq(V)
  PROVE  /\ Dedup(list) \in Seq(V) /\ Range(Dedup(list)) \subseteq Range(list)
         /\ \A n \in Range(list) : \E k \in Range(Dedup(list)) : DedupKey(k) = DedupKey(n)
<1> DEFINE places == {i \in DOMAIN list :
                        \A j \in 1 .. i - 1 : DedupKey(list[j]) # DedupKey(list[i])}
<1>1. /\ Dedup(list) \in Seq(V)
      /\ Range(Dedup(list)) = {list[i] : i \in places \cap DOMAIN list}
  BY SublistMembers DEF Dedup
<1>2. Range(Dedup(list)) \subseteq Range(list)
  BY <1>1 DEF Range
<1>3. ASSUME NEW n \in Range(list)
      PROVE  \E k \in Range(Dedup(list)) : DedupKey(k) = DedupKey(n)
  <2> DEFINE S == {i \in DOMAIN list : DedupKey(list[i]) = DedupKey(n)}
  <2>1. PICK m \in DOMAIN list : list[m] = n
    BY DEF Range
  <2>2. S \in SUBSET Nat /\ m \in S
    BY <2>1
  <2>3. Min(S) \in S /\ \A j \in S : Min(S) <= j
    <3> HIDE DEF S
    <3> QED BY <2>2, Least
  <2>4. PICK i \in DOMAIN list : DedupKey(list[i]) = DedupKey(n) /\ \A j \in S : i <= j
    BY <2>3
  <2>5. \A j \in 1 .. i - 1 : j \in DOMAIN list /\ ~(i <= j)
    BY <2>4
  <2>6. i \in places
    BY <2>4, <2>5
  <2> HIDE DEF places
  <2> QED BY <1>1, <2>4, <2>6
<1> QED BY <1>1, <1>2, <1>3

-----------------------------------------------------------------------------
(* What the parsers yield: at most one node, of the entry's address and      *)
(* credential, over a transport that sing-box has, and obfuscated only if it *)
(* speaks Hysteria2.                                                         *)
Spoken == DOMAIN VlessNet \cup DOMAIN TrojanNet \cup {NoText}

Address(x) == <<x.host, x.port>>

Plain(n) == Get(n.params, "obfs", NoText) = NoText

Yielded(S, e) ==
  /\ \A m, n \in S : m = n
  /\ \A n \in S : /\ Address(n) = Address(e) /\ n.auth[1] = e.id
                  /\ n.protocol # "hysteria2" => Plain(n)

LEMMA SpokenNames ==
  Spoken = {"tcp", "raw", "ws", "websocket", "grpc", "gun", "http", "h2", "httpupgrade",
            "h2mux", "original", NoText}
<1> DEFINE more == [n \in {"h2mux"} |-> "h2"]
           other == [n \in {"original"} |-> "tcp"]
<1>1. VlessNet = Merged(NetMap, more) /\ TrojanNet = Merged(NetMap, other)
  BY DEF VlessNet, TrojanNet
<1>2. DOMAIN more = {"h2mux"} /\ DOMAIN other = {"original"}
  OBVIOUS
<1> HIDE DEF more, other
<1>3. DOMAIN VlessNet = DOMAIN NetMap \cup {"h2mux"}
  BY <1>1, <1>2, Merges
<1>4. DOMAIN TrojanNet = DOMAIN NetMap \cup {"original"}
  BY <1>1, <1>2, Merges
<1>5. DOMAIN NetMap = {"tcp", "raw", "ws", "websocket", "grpc", "gun", "http", "h2", "httpupgrade"}
  BY DEF NetMap
<1> QED BY <1>3, <1>4, <1>5 DEF Spoken

LEMMA OneTransport ==
  ASSUME NEW map, NEW net
  PROVE  /\ \A t, u \in NetOf(map, net) : t = u
         /\ \A t \in NetOf(map, net) : net \in DOMAIN map
BY DEF NetOf

LEMMA Cleaned ==
  ASSUME NEW f, NEW g, "obfs" \notin DOMAIN f, "obfs" \notin DOMAIN g
  PROVE  Get(Clean(Merged(f, g)), "obfs", NoText) = NoText
<1>1. "obfs" \notin DOMAIN Merged(f, g)
  BY Merges
<1> DEFINE h == Merged(f, g)
<1> HIDE DEF h
<1>2. "obfs" \notin DOMAIN Clean(h)
  BY <1>1 DEF h, Clean, Restrict
<1> QED BY <1>2 DEF h, Get

LEMMA TransportKeys ==
  ASSUME NEW t, NEW o
  PROVE  "obfs" \notin DOMAIN ByTransport(t, o) /\ "obfs" \notin DOMAIN ClashTransport(t, o)
<1>1. DOMAIN ByTransport(t, o) \subseteq {"path", "host_header", "service_name"}
  BY DEF ByTransport
<1>2. DOMAIN ClashTransport(t, o) \subseteq {"path", "host_header", "service_name"}
  BY DEF ClashTransport
<1> QED BY <1>1, <1>2

LEMMA VlessYields ==
  ASSUME NEW e
  PROVE  /\ Yielded(Vless(e), e)
         /\ Vless(e) # {} => Get(e.opts, "type", "tcp") \in Spoken
<1> DEFINE o == e.opts
           sec == GetOr(o, "security", "none")
           key == IF sec = "reality" THEN First(o, <<"pbk">>, NoText) ELSE NoText
           own == [uuid |-> e.id, security |-> sec, flow |-> First(o, <<"flow">>, NoText),
                   sni |-> First(o, Sni3, NoText), public_key |-> key]
           M(t) == Node(e, "vless", t, <<e.id>>, Clean(Merged(own, ByTransport(t, o))))
           T == {t \in NetOf(VlessNet, Get(o, "type", "tcp")) :
                   /\ e.id # NoText
                   /\ sec = "reality" => key # NoText
                   /\ t = "tcp" => Get(o, "headerType", NoText) # "http"}
<1>1. Vless(e) = {M(t) : t \in T}
  BY DEF Vless
<1>2. "obfs" \notin DOMAIN own
  OBVIOUS
<1> HIDE DEF own
<1>3. \A t : Plain(M(t)) /\ Address(M(t)) = Address(e) /\ M(t).auth[1] = e.id
  BY <1>2, Cleaned, TransportKeys DEF Node, Plain, Address
<1>4. \A t, u \in T : t = u
  BY OneTransport
<1>5. T # {} => Get(o, "type", "tcp") \in Spoken
  BY OneTransport DEF Spoken
<1> HIDE DEF M, T
<1> QED BY <1>1, <1>3, <1>4, <1>5 DEF Yielded

LEMMA VmessYields ==
  ASSUME NEW e
  PROVE  /\ Yielded(Vmess(e), e)
         /\ Vmess(e) # {} => Get(e.opts, "net", "tcp") \in Spoken
<1> DEFINE o == e.opts
           Opts(t) == CASE t = "grpc" -> [service_name |-> First(o, <<"path", "serviceName">>, NoText)]
                        [] OTHER -> ByTransport(t, o)
           own == [uuid |-> e.id, sni |-> First(o, <<"sni", "host">>, NoText),
                   security |-> IF Get(o, "tls", NoText) \in {"tls", "reality", "xtls"}
                                THEN "tls" ELSE "none"]
           M(t) == Node(e, "vmess", t, <<e.id>>, Clean(Merged(own, Opts(t))))
           T == {t \in NetOf(NetMap, Get(o, "net", "tcp")) :
                   /\ e.host # NoText /\ e.id # NoText
                   /\ t = "tcp" => Get(o, "type", NoText) # "http"}
<1>1. Vmess(e) = {M(t) : t \in T}
  BY DEF Vmess
<1>2. "obfs" \notin DOMAIN own /\ \A t : "obfs" \notin DOMAIN Opts(t)
  BY TransportKeys
<1> HIDE DEF own, Opts
<1>3. \A t : Plain(M(t)) /\ Address(M(t)) = Address(e) /\ M(t).auth[1] = e.id
  BY <1>2, Cleaned DEF Node, Plain, Address
<1>4. \A t, u \in T : t = u
  BY OneTransport
<1>5. T # {} => Get(o, "net", "tcp") \in Spoken
  <2> DEFINE more == [n \in {"h2mux"} |-> "h2"]
  <2>1. VlessNet = Merged(NetMap, more)
    BY DEF VlessNet
  <2> HIDE DEF more
  <2>2. DOMAIN NetMap \subseteq DOMAIN VlessNet
    BY <2>1, Merges
  <2> QED BY <2>2, OneTransport DEF Spoken
<1> HIDE DEF M, T
<1> QED BY <1>1, <1>3, <1>4, <1>5 DEF Yielded

LEMMA TrojanYields ==
  ASSUME NEW e
  PROVE  /\ Yielded(Trojan(e), e)
         /\ Trojan(e) # {} => Get(e.opts, "type", "tcp") \in Spoken
<1> DEFINE o == e.opts
           own == [password |-> e.id, security |-> GetOr(o, "security", "tls"),
                   sni |-> First(o, Sni3, e.host)]
           M(t) == Node(e, "trojan", t, <<e.id>>, Clean(Merged(own, ByTransport(t, o))))
           T == {t \in NetOf(TrojanNet, GetOr(o, "type", "tcp")) : e.id # NoText}
<1>1. Trojan(e) = {M(t) : t \in T}
  BY DEF Trojan
<1>2. "obfs" \notin DOMAIN own
  OBVIOUS
<1> HIDE DEF own
<1>3. \A t : Plain(M(t)) /\ Address(M(t)) = Address(e) /\ M(t).auth[1] = e.id
  BY <1>2, Cleaned, TransportKeys DEF Node, Plain, Address
<1>4. \A t, u \in T : t = u
  BY OneTransport
<1>5. T # {} => Get(o, "type", "tcp") \in Spoken
  <2>1. T # {} => GetOr(o, "type", "tcp") \in DOMAIN TrojanNet
    BY OneTransport
  <2>2. GetOr(o, "type", "tcp") = Get(o, "type", "tcp") \/ Get(o, "type", "tcp") = NoText
    BY DEF GetOr, Get
  <2> QED BY <2>1, <2>2 DEF Spoken
<1> HIDE DEF M, T
<1> QED BY <1>1, <1>3, <1>4, <1>5 DEF Yielded

LEMMA Hysteria2Yields ==
  ASSUME NEW e
  PROVE  Yielded(Hysteria2(e), e)
<1>1. PICK params : Hysteria2(e) = {Node(e, "hysteria2", "quic", <<e.id>>, params)}
  BY DEF Hysteria2
<1> QED BY <1>1 DEF Yielded, Node, Address

LEMMA TuicYields ==
  ASSUME NEW e
  PROVE  Yielded(Tuic(e), e)
<1> DEFINE own == [uuid |-> e.id, password |-> e.pw, security |-> "tls",
                   sni |-> First(e.opts, Sni3, NoText)]
           n == Node(e, "tuic", "quic", <<e.id, e.pw>>, Clean(own))
<1>1. Tuic(e) = {n}
  BY DEF Tuic
<1>2. "obfs" \notin DOMAIN own
  OBVIOUS
<1> HIDE DEF own
<1>3. Get(Clean(own), "obfs", NoText) = NoText
  BY <1>2 DEF Get, Clean, Restrict
<1>4. Plain(n) /\ Address(n) = Address(e) /\ n.auth[1] = e.id
  BY <1>3 DEF Plain, Address, Node
<1> HIDE DEF n
<1> QED BY <1>1, <1>4 DEF Yielded

LEMMA ShadowsocksYields ==
  ASSUME NEW e
  PROVE  Yielded(Shadowsocks(e), e)
<1> DEFINE own == [method |-> e.id, password |-> e.pw]
           n == Node(e, "shadowsocks", "tcp", <<e.id, e.pw>>, own)
<1>1. Shadowsocks(e) \subseteq {n}
  BY DEF Shadowsocks
<1>2. "obfs" \notin DOMAIN own
  OBVIOUS
<1> HIDE DEF own
<1>3. Plain(n) /\ Address(n) = Address(e) /\ n.auth[1] = e.id
  BY <1>2 DEF Plain, Address, Node, Get
<1> HIDE DEF n
<1> QED BY <1>1, <1>3 DEF Yielded

(* Of a URI with a scheme that a parser is there for.                        *)
LEMMA UriYields ==
  ASSUME NEW e, e.type \in SupportedSchemes
  PROVE  /\ Yielded(ParseUri(e), e)
         /\ ParseUri(e) # {} =>
              /\ ~e.upper
              /\ e.type \in {"vless", "trojan"} => Get(e.opts, "type", "tcp") \in Spoken
              /\ e.type = "vmess" => Get(e.opts, "net", "tcp") \in Spoken
<1>1. CASE ~e.ok \/ e.upper \/ ~PortOk(e)
  BY <1>1 DEF ParseUri, Yielded
<1>2. CASE ~(~e.ok \/ e.upper \/ ~PortOk(e))
  <2>1. CASE e.type = "vless"
    <3>1. ParseUri(e) = Vless(e)
      BY <1>2, <2>1 DEF ParseUri
    <3> QED BY <1>2, <2>1, <3>1, VlessYields
  <2>2. CASE e.type = "vmess"
    <3>1. ParseUri(e) = Vmess(e)
      BY <1>2, <2>2 DEF ParseUri
    <3> QED BY <1>2, <2>2, <3>1, VmessYields
  <2>3. CASE e.type = "trojan"
    <3>1. ParseUri(e) = Trojan(e)
      BY <1>2, <2>3 DEF ParseUri
    <3> QED BY <1>2, <2>3, <3>1, TrojanYields
  <2>4. CASE e.type \in {"hysteria2", "hy2"}
    <3>1. ParseUri(e) = Hysteria2(e)
      BY <1>2, <2>4 DEF ParseUri
    <3> QED BY <1>2, <2>4, <3>1, Hysteria2Yields
  <2>5. CASE e.type = "ss"
    <3>1. ParseUri(e) = Shadowsocks(e)
      BY <1>2, <2>5 DEF ParseUri
    <3> QED BY <1>2, <2>5, <3>1, ShadowsocksYields
  <2>6. CASE e.type = "tuic"
    <3>1. ParseUri(e) = Tuic(e)
      BY <1>2, <2>6 DEF ParseUri
    <3> QED BY <1>2, <2>6, <3>1, TuicYields
  <2> QED BY <2>1, <2>2, <2>3, <2>4, <2>5, <2>6 DEF SupportedSchemes
<1> QED BY <1>1, <1>2

(* Of an item of a Clash file.                                               *)
LEMMA ProxyYields ==
  ASSUME NEW e
  PROVE  Yielded(ParseProxy(e), e)
<1> DEFINE protocol == ClashType[e.type]
           o        == e.opts
           network  == IF protocol \in Udp THEN "quic" ELSE ClashNet(Get(o, "network", "tcp"))
           tls      == Get(o, "tls", NoText) # NoText \/ protocol \in Udp \cup {"trojan"}
           reality  == Get(o, "reality-opts", NoText) # NoText
           obfs     == protocol = "hysteria2" /\ Get(o, "obfs", NoText) # NoText
           own      == [security |-> IF reality THEN "reality" ELSE IF tls THEN "tls" ELSE "none",
                        sni |-> First(o, <<"sni", "servername">>, NoText),
                        flow |-> IF protocol = "vless" THEN Get(o, "flow", NoText) ELSE NoText,
                        public_key |-> IF reality THEN Get(o, "pbk", NoText) ELSE NoText,
                        obfs |-> IF obfs THEN "salamander" ELSE NoText,
                        obfs_password |->
                          IF obfs THEN First(o, <<"obfs-password", "obfs-param">>, NoText)
                          ELSE NoText]
           rest     == Merged(ClashTransport(network, o), ClashAuth(protocol, e))
           all      == Merged(own, rest)
           auth     == IF protocol \in {"shadowsocks", "tuic"} THEN <<e.id, e.pw>> ELSE <<e.id>>
           n        == Node(e, protocol, network, auth, Clean(all))
<1>1. ParseProxy(e) \subseteq {n}
  <2>1. Clash(e) = {n}
    BY DEF Clash
  <2> HIDE DEF n
  <2> QED BY <2>1 DEF ParseProxy
<1>2. protocol # "hysteria2" => Get(Clean(all), "obfs", NoText) = NoText
  <2>1. "obfs" \in DOMAIN own /\ (protocol # "hysteria2" => own["obfs"] = NoText)
    OBVIOUS
  <2> HIDE DEF own, rest
  <2>2. protocol # "hysteria2" => all["obfs"] = NoText
    BY <2>1, Merges
  <2> HIDE DEF all
  <2> QED BY <2>2 DEF Get, Clean, Restrict
<1>3. auth[1] = e.id
  OBVIOUS
<1> HIDE DEF all, auth, network, protocol
<1>4. Address(n) = Address(e) /\ n.auth[1] = e.id /\ (n.protocol # "hysteria2" => Plain(n))
  BY <1>2, <1>3 DEF Plain, Address, Node
<1> HIDE DEF n
<1> QED BY <1>1, <1>4 DEF Yielded

LEMMA YieldsFinite ==
  ASSUME NEW S, NEW e, Yielded(S, e)
  PROVE  IsFiniteSet(S)
<1>1. CASE S = {}
  BY <1>1, FS_EmptySet
<1>2. CASE S # {}
  <2>1. PICK n \in S : S = {n}
    BY <1>2 DEF Yielded
  <2> QED BY <2>1, FS_Singleton
<1> QED BY <1>1, <1>2

-----------------------------------------------------------------------------
(* What a file yields: every node that one of its entries does, and no other. *)
MadeOfUris(es) == UNION {ParseUri(e) : e \in {x \in Range(es) : x.type \in SupportedSchemes}}
MadeOfProxies(es) == UNION {ParseProxy(e) : e \in Range(es)}

Made(d) ==
  IF DetectKind(d) \in {"uri_list", "base64"} THEN MadeOfUris(d.entries)
  ELSE IF DetectKind(d) = "clash" /\ d.shape # "broken" THEN MadeOfProxies(d.entries) ELSE {}

Lists(s, V) == s \in Seq(V) /\ Range(s) = V

LEMMA UrisYield ==
  ASSUME NEW E, NEW es \in Seq(E)
  PROVE  Lists(Yield(ParsedUris(es)), MadeOfUris(es))
<1> DEFINE uris == IterUris(es)
           supported == {x \in Range(es) : x.type \in SupportedSchemes}
           places == {i \in DOMAIN es : es[i].type \in SupportedSchemes}
<1>1. uris \in Seq(E) /\ Range(uris) = {es[i] : i \in places \cap DOMAIN es}
  BY SublistMembers DEF IterUris
<1>2. Range(uris) = supported
  BY <1>1 DEF Range
<1> HIDE DEF uris, supported
<1>3. Len(uris) \in Nat /\ DOMAIN uris = 1 .. Len(uris)
  BY <1>1
<1> DEFINE n == Len(uris)
           answers == [i \in 1 .. n |-> ParseUri(uris[i])]
<1>4. ParsedUris(es) = answers
  BY <1>3 DEF ParsedUris, uris
<1>5. \A i \in 1 .. n : uris[i] \in supported
  BY <1>2, <1>3 DEF Range
<1>6. \A i \in 1 .. n : IsFiniteSet(answers[i])
  BY <1>5, UriYields, YieldsFinite DEF supported
<1> DEFINE made == UNION {answers[i] : i \in 1 .. n}
<1>7. made = UNION {ParseUri(e) : e \in Range(uris)}
  BY <1>3 DEF Range
<1>8. Yield(answers) \in Seq(made) /\ Range(Yield(answers)) = made
  <2>1. n \in Nat /\ DOMAIN answers = 1 .. n
    BY <1>3
  <2> HIDE DEF answers, n
  <2> QED BY <1>6, <2>1, Yields
<1>9. made = MadeOfUris(es)
  BY <1>2, <1>7 DEF MadeOfUris, supported
<1> QED BY <1>4, <1>8, <1>9 DEF Lists

LEMMA ProxiesYield ==
  ASSUME NEW E, NEW d, d.entries \in Seq(E)
  PROVE  Lists(Yield(ParsedProxies(d)), MadeOfProxies(d.entries))
<1> DEFINE es == d.entries
           n == Len(es)
           answers == [i \in 1 .. n |-> ParseProxy(es[i])]
           made == UNION {answers[i] : i \in 1 .. n}
<1>1. n \in Nat /\ DOMAIN es = 1 .. n
  OBVIOUS
<1>2. ParsedProxies(d) = answers
  BY <1>1 DEF ParsedProxies
<1>3. \A i \in 1 .. n : IsFiniteSet(answers[i])
  BY ProxyYields, YieldsFinite
<1>4. made = MadeOfProxies(es)
  BY <1>1 DEF Range, MadeOfProxies
<1>5. Yield(answers) \in Seq(made) /\ Range(Yield(answers)) = made
  <2>1. n \in Nat /\ DOMAIN answers = 1 .. n
    BY <1>1
  <2> HIDE DEF answers, n
  <2> QED BY <1>3, <2>1, Yields
<1> QED BY <1>2, <1>4, <1>5 DEF Lists

LEMMA EmptyLists == Lists(<< >>, {})
BY DEF Lists, Range

LEMMA DocYields ==
  ASSUME NEW E, NEW d, d.entries \in Seq(E)
  PROVE  Lists(HarvestDoc(d).nodes, Made(d))
<1>1. CASE DetectKind(d) \in {"uri_list", "base64"}
  <2>1. HarvestDoc(d) = HarvestUris(d.entries)
    BY <1>1 DEF HarvestDoc
  <2>2. HarvestDoc(d).nodes = Yield(ParsedUris(d.entries))
    BY <2>1 DEF HarvestUris
  <2> QED BY <1>1, <2>2, UrisYield DEF Made
<1>2. CASE DetectKind(d) = "clash"
  <2>1. HarvestDoc(d) = HarvestClash(d)
    BY <1>2 DEF HarvestDoc
  <2>2. CASE d.shape = "broken"
    BY <1>2, <2>1, <2>2, EmptyLists DEF HarvestClash, Unread, Made
  <2>3. CASE d.shape # "broken"
    <3>1. HarvestDoc(d).nodes = Yield(ParsedProxies(d))
      BY <2>1, <2>3 DEF HarvestClash
    <3> QED BY <1>2, <2>3, <3>1, ProxiesYield DEF Made
  <2> QED BY <2>2, <2>3
<1>3. CASE DetectKind(d) \notin {"uri_list", "base64", "clash"}
  <2>1. HarvestDoc(d).nodes = << >>
    BY <1>3 DEF HarvestDoc
  <2> QED BY <1>3, <2>1, EmptyLists DEF Made
<1> QED BY <1>1, <1>2, <1>3

(* All files together.                                                       *)
LEMMA HarvestYields ==
  ASSUME NEW D, NEW docs \in Seq(D), \A d \in D : d.entries \in Seq(Range(d.entries))
  PROVE  Lists(Harvested(docs).nodes, UNION {Made(docs[i]) : i \in DOMAIN docs})
<1> DEFINE n == Len(docs)
           made == UNION {Made(docs[i]) : i \in 1 .. n}
           lists == [i \in 1 .. n |-> HarvestDoc(docs[i]).nodes]
<1>1. n \in Nat /\ DOMAIN docs = 1 .. n /\ \A i \in 1 .. n : docs[i] \in D
  OBVIOUS
<1>2. ASSUME NEW i \in 1 .. n
      PROVE  HarvestDoc(docs[i]).nodes \in Seq(made) /\ Range(HarvestDoc(docs[i]).nodes) = Made(docs[i])
  <2> DEFINE s == HarvestDoc(docs[i]).nodes
  <2>1. Lists(s, Made(docs[i]))
    BY <1>1, DocYields
  <2>2. Made(docs[i]) \subseteq made
    OBVIOUS
  <2> HIDE DEF s, made
  <2> QED BY <2>1, <2>2, OwnMembers DEF Lists, s
<1>3. Harvested(docs).nodes = FlattenSeq(lists)
  <2>1. \A i \in 1 .. n : [j \in DOMAIN docs |-> HarvestDoc(docs[j])][i] = HarvestDoc(docs[i])
    BY <1>1
  <2>2. [i \in DOMAIN docs |-> [j \in DOMAIN docs |-> HarvestDoc(docs[j])][i].nodes] = lists
    BY <1>1, <2>1
  <2> QED BY <2>2 DEF Harvested
<1>4. lists \in Seq(Seq(made)) /\ DOMAIN lists = 1 .. n
  <2>1. \A i \in 1 .. n : HarvestDoc(docs[i]).nodes \in Seq(made)
    BY <1>2
  <2> HIDE DEF made
  <2> QED BY <1>1, <2>1
<1>5. FlattenSeq(lists) \in Seq(made)
      /\ Range(FlattenSeq(lists)) = UNION {Range(lists[i]) : i \in DOMAIN lists}
  <2> HIDE DEF lists, made
  <2> QED BY <1>4, Flattens
<1>6. UNION {Range(lists[i]) : i \in DOMAIN lists} = made
  <2>1. \A i \in 1 .. n : Range(lists[i]) = Made(docs[i])
    BY <1>2
  <2> HIDE DEF lists
  <2> QED BY <1>4, <2>1
<1> QED BY <1>1, <1>3, <1>5, <1>6 DEF Lists

-----------------------------------------------------------------------------
(* A URI that parses is not lost for its file's kind, which is told from     *)
(* the whole text.                                                           *)
LEMMA UriMade ==
  ASSUME NEW d, d.shape \in {"lines", "base64"}, NEW e \in Range(d.entries),
         e.type \in SupportedSchemes, NEW n \in ParseUri(e)
  PROVE  n \in Made(d)
<1>1. ~e.upper
  BY UriYields
<1>2. DetectKind(d) \in {"uri_list", "base64"}
  <2>1. ~HasProxies(d)
    BY DEF HasProxies
  <2>2. CASE d.shape = "lines"
    <3>1. HasSchemes(d)
      BY <1>1, <2>2 DEF HasSchemes
    <3> QED BY <2>1, <2>2, <3>1 DEF DetectKind
  <2>3. CASE d.shape = "base64"
    <3>1. d.entries # << >>
      BY DEF Range
    <3>2. LooksBase64(d) /\ ~HasSchemes(d)
      BY <2>3, <3>1 DEF LooksBase64, HasSchemes
    <3> QED BY <2>1, <2>3, <3>2 DEF DetectKind
  <2> QED BY <2>2, <2>3
<1> QED BY <1>2 DEF Made, MadeOfUris

LEMMA ProxyMade ==
  ASSUME NEW d, d.shape = "early", NEW e \in Range(d.entries), NEW n \in ParseProxy(e)
  PROVE  n \in Made(d)
<1>1. DetectKind(d) = "clash"
  BY DEF DetectKind
<1> QED BY <1>1 DEF Made, MadeOfProxies

(* Where a node comes from.                                                  *)
LEMMA MadeOf ==
  ASSUME NEW d, NEW n \in Made(d)
  PROVE  \E e \in Range(d.entries) :
           \/ e.type \in SupportedSchemes /\ n \in ParseUri(e)
           \/ d.shape \notin {"lines", "base64"} /\ n \in ParseProxy(e)
<1>1. CASE DetectKind(d) \in {"uri_list", "base64"}
  BY <1>1 DEF Made, MadeOfUris
<1>2. CASE DetectKind(d) \notin {"uri_list", "base64"}
  <2>1. DetectKind(d) = "clash" /\ n \in MadeOfProxies(d.entries)
    BY <1>2 DEF Made
  <2>2. d.shape \notin {"lines", "base64"}
    BY <2>1 DEF DetectKind, HasProxies
  <2> QED BY <2>1, <2>2 DEF MadeOfProxies
<1> QED BY <1>1, <1>2

(* The files that are read are files of the source.                          *)
LEMMA FilesRead ==
  ASSUME NEW V, NEW files \in Seq(V)
  PROVE  LoadOffline(files) \in Seq(V) /\ Fetch(files) \in Seq(V)
BY SublistMembers DEF LoadOffline, Fetch, ListBlobs

(* The check speaks to a node as its outbound will.                          *)
LEMMA SpeaksAlike ==
  ASSUME NEW n, n.protocol # "hysteria2" => Plain(n), NEW ob \in BuildOutbound(n)
  PROVE  LET t == PingTarget(n)
         IN  /\ <<t.host, t.port>> = <<ob.server, ob.server_port>>
             /\ t.udp <=> ob.type \in {"hysteria2", "tuic"}
             /\ ~t.udp => (t.want_tls <=> DOMAIN ob.tls # {})
             /\ DOMAIN ob.obfs = {} => t.obfs = NoText
             /\ DOMAIN ob.obfs # {} => ob.obfs.password \in {NoText, t.obfs}
<1> DEFINE t == PingTarget(n)
<1>1. /\ ob.type = n.protocol /\ ob.server = n.host /\ ob.server_port = n.port
      /\ ob.tls = TlsBlock(n) /\ ob.obfs = ObfsBlock(n)
  BY DEF BuildOutbound
<1>2. /\ t.host = n.host /\ t.port = n.port /\ (t.udp <=> n.protocol \in Udp)
      /\ (t.want_tls <=> n.protocol \notin Udp /\ Security(n) \in {"tls", "reality"})
      /\ t.obfs = IF Get(n.params, "obfs", NoText) = "salamander"
                  THEN Get(n.params, "obfs_password", NoText) ELSE NoText
  BY DEF PingTarget
<1> HIDE DEF t
<1>3. Security(n) \in {"tls", "reality", "none"}
  BY DEF Security
<1>4. DOMAIN TlsBlock(n) # {} <=> Security(n) # "none"
  <2>1. CASE Security(n) = "none"
    BY <2>1 DEF TlsBlock, NoBlock
  <2>2. CASE Security(n) # "none"
    <3> DEFINE f == [server_name |-> Get(n.params, "sni", NoText)]
    <3>1. PICK g : TlsBlock(n) = Merged(f, g)
      BY <2>2 DEF TlsBlock
    <3>2. "server_name" \in DOMAIN f
      OBVIOUS
    <3> HIDE DEF f
    <3>3. "server_name" \in DOMAIN Merged(f, g)
      BY <3>2, Merges
    <3> QED BY <2>2, <3>1, <3>3
  <2> QED BY <2>1, <2>2
<1>5. /\ DOMAIN ob.obfs = {} => t.obfs = NoText
      /\ DOMAIN ob.obfs # {} => ob.obfs.password \in {NoText, t.obfs}
  <2>1. CASE Get(n.params, "obfs", NoText) = "salamander"
    <3>1. n.protocol = "hysteria2"
      BY <2>1 DEF Plain, NoText
    <3>2. ob.obfs = [password |-> Get(n.params, "obfs_password", NoText)]
      BY <1>1, <2>1, <3>1 DEF ObfsBlock
    <3>3. "password" \in DOMAIN ob.obfs /\ ob.obfs.password = t.obfs
      BY <1>2, <2>1, <3>2
    <3> QED BY <3>3
  <2>2. CASE Get(n.params, "obfs", NoText) # "salamander"
    <3>1. ob.obfs = << >>
      BY <1>1, <2>2 DEF ObfsBlock, NoBlock
    <3> QED BY <1>2, <2>2, <3>1
  <2> QED BY <2>1, <2>2
<1> QED BY <1>1, <1>2, <1>3, <1>4, <1>5 DEF t, Udp
=============================================================================
