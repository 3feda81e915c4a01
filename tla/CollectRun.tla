----------------------------- MODULE CollectRun -----------------------------
(* One `weronity-collector run`: __main__.cmd_run and pipeline/build.py over *)
(* Harvest, Ping and Seen.                                                   *)
EXTENDS Harvest, Ping, Seen

CONSTANTS Worlds,         \* what a run may meet: the files of its source (feed),
                          \* its options (args), seen.json as it is (seen)
          Answers,        \* host -> what the resolver may say of it at one moment
          Global,         \* addresses that are public
          Country,        \* address -> country
          PerCountry,     \* --recommend-per-country
          MinNodes,       \* --min-nodes
          Now

NoAddress == "none"       \* resolve_ip's None

ASSUME RunAssumption ==
  /\ NoAddress \notin Global
  /\ PerCountry \in Nat /\ MinNodes \in Nat /\ Now \in Nat

(* A source is a list of files, and a file a list of entries. *)
ASSUME FeedAssumption ==
  \A w \in Worlds :
    /\ w.feed \in Seq(Range(w.feed))
    /\ \A d \in Range(w.feed) : d.entries \in Seq(Range(d.entries))

VARIABLES pc, code,
          feed, args,     \* the source; the options
          parsed,         \* what harvest returned
          nodes,          \* what dedup left of it
          dns,            \* GeoResolver._dns_cache
          candidates,     \* the nodes that were probed
          entries,        \* the nodes of the pool, published or about to be
          seen,           \* seen.json: absent or unreadable, or a state
          out             \* nodes_pool.json: "old", "torn" or "new"

runVars == <<pc, code, feed, args, parsed, nodes, dns, candidates, entries, seen, out>>
vars == <<runVars, pingVars>>

Init ==
  /\ pc = "fetch" /\ code = "running"
  /\ \E w \in Worlds : feed = w.feed /\ args = w.args /\ seen = w.seen
  /\ parsed = << >> /\ nodes = << >> /\ dns = << >>
  /\ candidates = << >> /\ entries = << >>
  /\ out = "old"
  /\ PingInit

Exit(with) == pc' = "exit" /\ code' = with

Docs == IF args.offline THEN LoadOffline(feed) ELSE Fetch(feed)

(* The network is down, the listing is refused: an exception nobody catches. *)
FetchRaises ==
  /\ pc = "fetch" /\ ~args.offline
  /\ Exit("network")
  /\ UNCHANGED <<feed, args, parsed, nodes, dns, candidates, entries, seen, out, pingVars>>

Collect ==
  /\ pc = "fetch"
  /\ \E docs \in {Docs} : \E got \in {Harvested(docs).nodes} :
       /\ parsed' = got
       /\ nodes' = Dedup(got)
       /\ IF got = << >> THEN Exit("nothing") ELSE pc' = "resolve" /\ UNCHANGED code
  /\ UNCHANGED <<feed, args, dns, candidates, entries, seen, out, pingVars>>

Hosts == {n.host : n \in Range(nodes)}

(* The worker threads resolve the unique hosts, in any order; the cache keeps *)
(* the answer for the rest of the run.                                       *)
Resolve(h) ==
  /\ pc = "resolve" /\ h \in Hosts \ DOMAIN dns
  /\ h \in Encodable
  /\ \E ip \in Answers[h] : dns' = Merged(dns, [x \in {h} |-> ip])
  /\ UNCHANGED <<pc, code, feed, args, parsed, nodes, candidates, entries, seen, out, pingVars>>

(* UnicodeError is none of the exceptions resolve_ip expects.                *)
ResolveRaises(h) ==
  /\ pc = "resolve" /\ h \in Hosts \ DOMAIN dns
  /\ h \notin Encodable
  /\ Exit("raised")
  /\ UNCHANGED <<feed, args, parsed, nodes, dns, candidates, entries, seen, out, pingVars>>

(* Wrong: only what is known to be private is dropped, not the rest. *)
IsPublicLax(ip) == TRUE

(* An unresolved host is left to the reachability check. *)
IsPublic(ip) == ip = NoAddress \/ ip \in Global

StartPing ==
  /\ pc = "resolve" /\ Hosts \subseteq DOMAIN dns
  /\ LET them == Sublist(nodes, {i \in DOMAIN nodes :
                                   args.allow_private \/ IsPublic(dns[nodes[i].host])})
     IN  /\ candidates' = them
         /\ PingMany([i \in DOMAIN them |-> PingTarget(them[i])])
  /\ pc' = "ping"
  /\ UNCHANGED <<code, feed, args, parsed, nodes, dns, entries, seen, out>>

PingStep ==
  /\ pc = "ping"
  /\ PingNext
  /\ UNCHANGED runVars

(* gather passes the first exception on, and the run ends.                   *)
PingRaises ==
  /\ pc = "ping" /\ \E i \in DOMAIN probes : probes[i].pc = "raised"
  /\ Exit("raised")
  /\ UNCHANGED <<feed, args, parsed, nodes, dns, candidates, entries, seen, out, pingVars>>

(* Wrong: the results are read against the nodes before the filter. *)
OfProbeUnfiltered(i) == nodes[i]

(* zip(candidates, pings). *)
OfProbe(i) == candidates[i]

InTime(probe) == probe.tcp_ok /\ probe.rtt # NoRtt /\ probe.rtt <= Timeout

Alive == {i \in DOMAIN probes : InTime(probes[i]) \/ args.keep_dead}

(* The national groups' order: stability first, then the round trip.         *)
Rank(e) == IF e.rtt = NoRtt THEN 9999 ELSE e.rtt

Before(a, b) ==
  LET sa == a.lifetime.stability
      sb == b.lifetime.stability
  IN  sa > sb \/ (sa = sb /\ Rank(a) < Rank(b))

(* The sort is stable. *)
MarkRecommended(them) ==
  LET Ahead(i) == {j \in DOMAIN them :
                     /\ them[j].country = them[i].country
                     /\ Before(them[j], them[i])
                        \/ (~Before(them[i], them[j]) /\ j < i)}
  IN  [i \in DOMAIN them |->
         Merged(them[i], [recommended |-> Cardinality(Ahead(i)) < PerCountry])]

(* GeoResolver.lookup. *)
Lookup(ip) == IF ip # NoAddress /\ ip \in DOMAIN Country THEN Country[ip] ELSE "??"

Entry(i, state) ==
  LET n  == OfProbe(i)
      ip == dns[n.host]
  IN  [id |-> DedupKey(n), node |-> n, resolved_ip |-> ip,
       country |-> Lookup(ip),
       tcp_ok |-> probes[i].tcp_ok, tls_ok |-> probes[i].tls_ok, rtt |-> probes[i].rtt,
       lifetime |-> LifetimeFor(state, DedupKey(n), Now),
       outbound |-> BuildOutbound(n)]

Observed == Observe(Load(seen), {DedupKey(OfProbe(i)) : i \in Alive}, Now)

Buildable == \A i \in Alive : BuildOutbound(OfProbe(i)) # {}

(* Wrong: the state is saved as soon as it is observed. *)
SavedEarly(on_disk) == on_disk

(* Wrong: the state is left to be saved once the pool is written. *)
SavedAfterwards(on_disk) == FALSE

(* seen.save comes last.  It writes a file of its own and renames it: when   *)
(* the disk fails it, seen.json is what it was.                              *)
Saved(on_disk) == Buildable /\ on_disk

(* build_pool after the probes. *)
Build ==
  /\ pc = "ping" /\ PingDone
  /\ \E observed \in {Observed}, on_disk \in BOOLEAN :
       /\ IF Saved(on_disk) THEN seen' = [readable |-> TRUE, seen |-> observed]
          ELSE UNCHANGED seen
       /\ IF Buildable /\ on_disk
          THEN \E them \in {[k \in 1 .. Cardinality(Alive) |->
                              Entry(Ascending(Alive)[k], observed)]} :
                 /\ entries' = MarkRecommended(them)
                 /\ pc' = "write" /\ UNCHANGED code
          ELSE /\ Exit(IF Buildable THEN "disk" ELSE "raised")
               /\ UNCHANGED entries
  /\ UNCHANGED <<feed, args, parsed, nodes, dns, candidates, out, pingVars>>

(* The threshold, and write_text, which empties the file before it fills it.  *)
Refuse ==
  /\ pc = "write" /\ Len(entries) < AtLeastOne(MinNodes)
  /\ Exit("too few")
  /\ UNCHANGED <<feed, args, parsed, nodes, dns, candidates, entries, seen, out, pingVars>>

OpenOut ==
  /\ pc = "write" /\ Len(entries) >= AtLeastOne(MinNodes)
  /\ out' = "torn" /\ pc' = "writing"
  /\ UNCHANGED <<code, feed, args, parsed, nodes, dns, candidates, entries, seen, pingVars>>

CloseOut ==
  /\ pc = "writing"
  /\ out' = "new" /\ Exit("ok")
  /\ UNCHANGED <<feed, args, parsed, nodes, dns, candidates, entries, seen, pingVars>>

(* mkdir, json.dumps or write_text raises, also while the file is torn.      *)
WriteFails ==
  /\ \/ pc = "write" /\ Len(entries) >= AtLeastOne(MinNodes)
     \/ pc = "writing"
  /\ Exit("disk")
  /\ UNCHANGED <<feed, args, parsed, nodes, dns, candidates, entries, seen, out, pingVars>>

(* The machine or the job dies. *)
Killed ==
  /\ pc # "exit"
  /\ Exit("killed")
  /\ UNCHANGED <<feed, args, parsed, nodes, dns, candidates, entries, seen, out, pingVars>>

Step ==
  \/ FetchRaises \/ Collect
  \/ \E h \in Hosts : Resolve(h) \/ ResolveRaises(h)
  \/ StartPing \/ PingStep \/ PingRaises \/ Build \/ Refuse \/ OpenOut \/ CloseOut
  \/ WriteFails

Next == Step \/ Killed

Spec == Init /\ [][Next]_vars

(* Every await ends: the resolver answers, a wait has its timeout.           *)
FairSpec == Spec /\ WF_vars(Step)

-----------------------------------------------------------------------------
(* Properties *)

TypeOK ==
  /\ pc \in {"fetch", "resolve", "ping", "write", "writing", "exit"}
  /\ code \in {"running", "network", "nothing", "raised", "disk", "too few", "ok", "killed"}
  /\ (pc = "exit") = (code # "running")
  /\ PingTypeOK
  /\ DOMAIN dns \subseteq Hosts
  /\ Len(entries) <= Len(candidates) /\ Len(candidates) <= Len(nodes)
  /\ out \in {"old", "torn", "new"}

Collected == pc = "resolve" \/ code = "nothing"

Uris(d) == d.shape \in {"lines", "base64"}

OnItsOwn(d, e) ==
  CASE Uris(d) /\ e.type \in SupportedSchemes -> ParseUri(e)
    [] d.shape = "early"                       -> ParseProxy(e)
    [] OTHER                                   -> {}

(* An entry that parses on its own is among the candidates, or another of    *)
(* its key is, whatever stands beside it in its file or in the others ("a    *)
(* parser bug or an unexpected shape costs that one entry (or that one       *)
(* file)", harvest.py).                                                      *)
HarvestIsLocal ==
  Collected =>
    \A d \in Range(Docs) : \A e \in Range(d.entries) : \A n \in OnItsOwn(d, e) :
      \E k \in Range(nodes) : DedupKey(k) = DedupKey(n)

XrayOnly == {"xhttp", "splithttp", "kcp", "mkcp", "quic"}

NetworkOf(e) == Get(e.opts, IF e.type = "vmess" THEN "net" ELSE "type", "tcp")

(* Every node comes from an entry of its address and credential, and never   *)
(* from a URI over a transport that sing-box does not have ("such a node     *)
(* would pass the reachability check and then never carry traffic",          *)
(* vless.py).                                                                *)
XrayOnlyStaysOut ==
  \A n \in Range(parsed) :
    \E d \in Range(Docs) : \E e \in Range(d.entries) :
      /\ <<n.host, n.port, n.auth[1]>> = <<e.host, e.port, e.id>>
      /\ ~(Uris(d) /\ e.type \in {"vless", "vmess", "trojan"} /\ NetworkOf(e) \in XrayOnly)

(* The check speaks to a node as its outbound will: the same transport       *)
(* layer, TLS or none, the same obfuscation.  Left out is the obfuscation of *)
(* an outbound whose block has no password: the check is then sent plain.    *)
ProbeSpeaksOutbound ==
  \A i \in DOMAIN candidates : \A ob \in BuildOutbound(candidates[i]) :
    LET t == targets[i]
    IN  /\ <<t.host, t.port>> = <<ob.server, ob.server_port>>
        /\ t.udp <=> ob.type \in {"hysteria2", "tuic"}
        /\ ~t.udp => (t.want_tls <=> DOMAIN ob.tls # {})
        /\ DOMAIN ob.obfs = {} => t.obfs = NoText
        /\ DOMAIN ob.obfs # {} => ob.obfs.password \in {NoText, t.obfs}

(* Without --keep-dead a node of the pool is one whose own server answered   *)
(* within the timeout: no result goes to another node over the filter, the   *)
(* semaphore and the order in which the probes end.                          *)
AliveInTime ==
  ~args.keep_dead =>
    \A e \in Range(entries) :
      \E i \in DOMAIN probes :
        /\ <<targets[i].host, targets[i].port>> = <<e.node.host, e.node.port>>
        /\ probes[i].heard \in {"answer", "late"} /\ probes[i].rtt \in 0 .. Timeout

(* The pool shows for every node the address that was checked, public or     *)
(* unknown unless the option says otherwise, and that address's country; all *)
(* nodes of a host show the same.                                            *)
PublishedPlace ==
  \A e \in Range(entries) :
    /\ args.allow_private \/ e.resolved_ip \in Global \cup {NoAddress}
    /\ e.country = Lookup(e.resolved_ip)
    /\ \A f \in Range(entries) :
         f.node.host = e.node.host => f.resolved_ip = e.resolved_ip

(* A run that ends without a pool, for want of nodes or in an exception of   *)
(* fetching, checking or building, leaves the observation state and the pool *)
(* as they were; and the pool's file is touched only when the state on disk  *)
(* is the one whose lifetimes it shows.  A run that cannot write its pool is *)
(* counted all the same.                                                     *)
NoTraceOfFailure ==
  /\ code \in {"network", "nothing", "raised"} =>
       out = "old" /\ \E w \in Worlds : <<feed, args, seen>> = <<w.feed, w.args, w.seen>>
  /\ out # "old" =>
       /\ seen.readable
       /\ \A e \in Range(entries) : e.lifetime = LifetimeFor(seen.seen, e.id, Now)

(* Every run ends, whatever its probes meet and however many wait for a slot. *)
RunEnds == <>(pc = "exit")

(* No entry of a source ends the run: "costs that one entry (or that one     *)
(* file), never the whole run" (harvest.py).                                 *)
OneEntryNeverTheRun == code # "raised"
=============================================================================
