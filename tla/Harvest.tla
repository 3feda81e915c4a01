------------------------------- MODULE Harvest -------------------------------
(* collector, sources/*.py, harvest.py, pipeline/dedup.py: from the files of *)
(* a source to the list of unique nodes.  A file is what a reader of it can  *)
(* tell: its suffix, whether it is too big, how it is served, its shape, its *)
(* entries.                                                                  *)
EXTENDS Links, SequencesExt

(* "lines" of URIs and comments; the same in "base64"; a Clash file whose    *)
(* proxies come "early" (the first 2000 characters) or "late"; one that is   *)
(* "broken": no YAML, or no list of proxies; "blank"; "other" text.          *)
Shape == {"lines", "base64", "early", "late", "broken", "blank", "other"}

TextSuffixes == {".txt", ".yaml", ".yml", ".json", ".conf", ".list", ".ini", ""}
OfflineSuffixes == {".txt", ".yaml", ".yml", ".json", ".b64"}

(* The files the tree API lists that are worth a download. *)
ListBlobs(files) ==
  Sublist(files, {i \in DOMAIN files :
                    /\ files[i].blob /\ ~files[i].big
                    /\ files[i].suffix \in TextSuffixes \/ files[i].named64})

(* GitHubRepoSource.fetch: a file that is not served, or is blank, is left   *)
(* out.                                                                      *)
Fetch(files) ==
  LET listed == ListBlobs(files)
  IN  Sublist(listed, {i \in DOMAIN listed : listed[i].served /\ listed[i].shape # "blank"})

LoadOffline(files) ==
  Sublist(files, {i \in DOMAIN files : files[i].blob /\ files[i].suffix \in OfflineSuffixes})

(* RawDocument.detect_kind. *)
HasProxies(d) == d.shape \in {"early", "late", "broken"}
HasSchemes(d) ==
  d.shape = "lines" /\ \E e \in Range(d.entries) : e.type \in SupportedSchemes /\ ~e.upper
LooksBase64(d) == d.shape = "base64" /\ d.entries # << >>

DetectKind(d) ==
  IF d.shape = "blank" THEN "unknown"
  ELSE IF d.suffix \in {".yaml", ".yml"} /\ HasProxies(d) THEN "clash"
  ELSE IF d.shape \in {"early", "broken"} THEN "clash"
  ELSE IF HasSchemes(d) THEN "uri_list"
  ELSE IF LooksBase64(d) THEN "base64" ELSE "unknown"

(* iter_uris: the lines with a scheme there is a parser for, in any case.    *)
IterUris(entries) ==
  Sublist(entries, {i \in DOMAIN entries : entries[i].type \in SupportedSchemes})

(* Of what the parser made of each entry. *)
Failed(answers) == Cardinality({i \in DOMAIN answers : answers[i] = {}})

(* The nodes among it, in their order. *)
Yield(answers) == FlattenSeq([i \in DOMAIN answers |-> SetToSeq(answers[i])])

ParsedUris(entries) ==
  LET uris == IterUris(entries)
  IN  [i \in DOMAIN uris |-> ParseUri(uris[i])]

HarvestUris(entries) ==
  [nodes |-> Yield(ParsedUris(entries)), failed |-> Failed(ParsedUris(entries))]

ParsedProxies(d) == [i \in DOMAIN d.entries |-> ParseProxy(d.entries[i])]

Unread == [nodes |-> << >>, failed |-> 1]

(* Wrong: a malformed proxy costs its file. *)
HarvestClashStrict(d) ==
  IF d.shape = "broken" \/ Failed(ParsedProxies(d)) > 0 THEN Unread
  ELSE [nodes |-> Yield(ParsedProxies(d)), failed |-> 0]

(* A malformed proxy is passed over, and not counted. *)
HarvestClash(d) ==
  IF d.shape = "broken" THEN Unread
  ELSE [nodes |-> Yield(ParsedProxies(d)), failed |-> 0]

HarvestDoc(d) ==
  CASE DetectKind(d) \in {"uri_list", "base64"} -> HarvestUris(d.entries)
    [] DetectKind(d) = "clash"                  -> HarvestClash(d)
    [] OTHER                                    -> [nodes |-> << >>, failed |-> 0]

Harvested(docs) ==
  LET each == [i \in DOMAIN docs |-> HarvestDoc(docs[i])]
  IN  [documents |-> Len(docs),
       nodes     |-> FlattenSeq([i \in DOMAIN docs |-> each[i].nodes]),
       failed    |-> SumFunction([i \in DOMAIN docs |-> each[i].failed])]

(* The first node of each key, in their order. *)
Dedup(nodes) ==
  Sublist(nodes, {i \in DOMAIN nodes :
                    \A j \in 1 .. i - 1 : DedupKey(nodes[j]) # DedupKey(nodes[i])})
=============================================================================
