---------------------------- MODULE EngineProofs ----------------------------
(* engine.go keeps its session in one piece, leaks nothing and implements   *)
(* the atomic contract of Core.                                             *)
EXTENDS Engine, TLAPS

(* The labels under engMu, by what they have acquired. *)
Opening == {"boxStart", "relay", "commit"}
Publishing == {"gen", "tags", "ping0", "self0", "run"}
Closing == {"closeBox", "tags0"}
Swapping == {"setTag", "swapPing0"}
Working == {"validate", "clear", "unlock"} \cup Opening \cup Publishing \cup Closing \cup Swapping

StartRequest == [list : Lists, mode : Mode]

Relays(mode) == IF mode = "proxy" THEN 1 ELSE 0

NoTags == activeTags = << >> /\ acceptedIdx = << >> /\ activeTag = Nil

(* Where a candidate stands that can be sanitised and constructed. *)
Usable(list) == {i \in 1 .. Len(list) : i <= CoreCap /\ list[i] \notin Rejected}

Distinct(idx) == \A p, q \in 1 .. Len(idx) : idx[p] = idx[q] => p = q

(* idx lists all of them, once, the wanted node first. *)
Listed(list, idx) ==
  /\ idx \in Seq(Usable(list)) /\ Distinct(idx)
  /\ Len(idx) >= 1 /\ idx[1] = 1
  /\ \A i \in Usable(list) : \E p \in 1 .. Len(idx) : idx[p] = i

TagsFor(n) == [k \in 1 .. n |-> IF n > 1 THEN k ELSE proxyTag]

OutsFor(list, idx) ==
  {[tag |-> TagsFor(Len(idx))[p], node |-> list[idx[p]]] : p \in 1 .. Len(idx)}

BoxFor(r, idx) ==
  [list |-> r.list, mode |-> r.mode, outs |-> OutsFor(r.list, idx), sel |-> TagsFor(Len(idx))[1]]

(* The locals of startEngine's loop: untouched, in the loop, after it. *)
Fresh == next = 1 /\ cleans = << >> /\ accepted = << >>

Alike(list) ==
  /\ cleans \in Seq(Node) /\ Len(cleans) = Len(accepted)
  /\ \A p \in 1 .. Len(accepted) : cleans[p] = list[accepted[p]]

LoopOK(list) ==
  /\ next \in Nat /\ next >= 1
  /\ accepted \in Seq(Usable(list)) /\ Distinct(accepted)
  /\ Alike(list)
  /\ \A p \in 1 .. Len(accepted) : accepted[p] < next
  /\ \A i \in Usable(list) : i < next => \E p \in 1 .. Len(accepted) : accepted[p] = i
  /\ next > 1 => Len(accepted) >= 1 /\ accepted[1] = 1

Collected(list) == Listed(list, accepted) /\ Alike(list)

(* The last session is over, or there was none. *)
Over == sessionGen = 0 \/ sessionGen \in closed

Current == sessionGen \in Gen \ closed

Ended == ~running /\ instance = Nil /\ NoTags /\ boxes = 0 /\ relays = 0 /\ Over

(* Outbounds, tags and indices of a list belong together. *)
Tagged(list) ==
  /\ Listed(list, acceptedIdx)
  /\ activeTags = TagsFor(Len(acceptedIdx))
  /\ instance.outs = OutsFor(list, acceptedIdx)

Selected(p) == instance.sel = TagsFor(Len(acceptedIdx))[p]

(* All that a session consists of but the flag and the tag shown. *)
Live ==
  /\ instance \in Box
  /\ Tagged(instance.list)
  /\ \E p \in 1 .. Len(acceptedIdx) : Selected(p)
  /\ Current
  /\ boxes = 1 /\ relays = Relays(instance.mode)

Whole == running /\ Live /\ activeTag = instance.sel

Free == Ended \/ Whole

(* What the caller under engMu has done so far. *)
OpeningOK(l, r) ==
  /\ ~running /\ instance = Nil /\ NoTags /\ Over
  /\ sessionGen < MaxGen
  /\ boxes = 1 /\ relays = IF l = "commit" THEN Relays(r.mode) ELSE 0
  /\ l = "relay" => r.mode = "proxy"

PublishingOK(l, r) ==
  /\ ~running
  /\ boxes = 1 /\ relays = Relays(r.mode)
  /\ IF l = "gen" THEN Over /\ sessionGen < MaxGen ELSE Current
  /\ IF l \in {"gen", "tags"}
     THEN NoTags /\ instance = BoxFor(r, accepted)
     ELSE /\ instance = BoxFor(r, acceptedIdx) /\ Tagged(r.list)
          /\ activeTag = instance.sel

ClosingOK(l) ==
  /\ ~running /\ instance = Nil /\ Over
  /\ boxes = (IF l = "closeBox" THEN 1 ELSE 0) /\ relays = 0

SwappingOK(l, r) ==
  /\ running /\ Live
  /\ \E p \in 1 .. Len(acceptedIdx) : Selected(p) /\ acceptedIdx[p] = r.idx
  /\ l = "swapPing0" => activeTag = instance.sel

(* The labels at which the loop's outcome is still to be used. *)
Holding == Opening \cup {"gen", "tags"}

Under(l, r) ==
  /\ l = "validate" => Ended /\ LoopOK(r.list)
  /\ l \in Holding => Collected(r.list)
  /\ l \notin Holding \cup {"validate"} => Fresh
  /\ l \in Opening => OpeningOK(l, r)
  /\ l \in Publishing => PublishingOK(l, r)
  /\ l = "clear" => ~running /\ Live
  /\ l \in Closing => ClosingOK(l)
  /\ l \in Swapping => SwappingOK(l, r)
  /\ l = "unlock" => Free

Typed ==
  /\ running \in BOOLEAN
  /\ sessionGen \in 0 .. MaxGen
  /\ closed \subseteq 1 .. sessionGen
  /\ engMu \in Caller \cup {Nil}
  /\ pc \in [Caller -> Labels]
  /\ req = [c \in Caller |-> req[c]]

Exclusive == \A c \in Caller : pc[c] \in Working <=> engMu = c

Requested ==
  \A c \in Caller :
    pc[c] \in {"start", "validate"} \cup Opening \cup Publishing => req[c] \in StartRequest

Guarded == IF engMu = Nil THEN Free /\ Fresh ELSE Under(pc[engMu], req[engMu])

IInv == Typed /\ Exclusive /\ Requested /\ Guarded

-----------------------------------------------------------------------------
(* Tags and indices. *)

LEMMA Constants ==
  /\ CoreCap \in Nat \ {0} /\ MaxGen \in Nat
  /\ Lists \subseteq Seq(Node) /\ \A l \in Lists : l # << >>
  /\ Mode \subseteq {"proxy", "vpn"}
  /\ Nil \notin Caller /\ Nil \notin Box /\ Nil \notin Nat
BY EngineAssumption DEF Box

(* No two outbounds have a tag in common. *)
LEMMA TagsDiffer ==
  ASSUME NEW n \in Nat, NEW p \in 1 .. n, NEW q \in 1 .. n, TagsFor(n)[p] = TagsFor(n)[q]
  PROVE  p = q
BY DEF TagsFor

LEMMA TagsAreNumbers ==
  ASSUME NEW n \in Nat, NEW p \in 1 .. n
  PROVE  TagsFor(n)[p] \in Nat
BY DEF TagsFor, proxyTag

(* A box built over a list is one. *)
LEMMA BoxesFor ==
  ASSUME NEW l \in Lists, NEW m \in Mode, NEW idx, Listed(l, idx), NEW p \in 1 .. Len(idx)
  PROVE  /\ OutsFor(l, idx) \in SUBSET [tag : Nat, node : Node]
         /\ [list |-> l, mode |-> m, outs |-> OutsFor(l, idx), sel |-> TagsFor(Len(idx))[p]] \in Box
<1>1. Len(idx) \in Nat /\ l \in Seq(Node)
  BY Constants DEF Listed
<1>2. ASSUME NEW q \in 1 .. Len(idx)
      PROVE  [tag |-> TagsFor(Len(idx))[q], node |-> l[idx[q]]] \in [tag : Nat, node : Node]
  <2>1. idx[q] \in 1 .. Len(l)
    BY <1>1 DEF Listed, Usable
  <2>2. l[idx[q]] \in Node
    BY <1>1, <2>1
  <2> QED BY <1>1, <2>2, TagsAreNumbers
<1>3. OutsFor(l, idx) \in SUBSET [tag : Nat, node : Node]
  BY <1>2 DEF OutsFor
<1> QED BY <1>1, <1>3, TagsAreNumbers DEF Box

(* The outbound and the index that the selector's tag stands for. *)
LEMMA SelectedIs ==
  ASSUME Listed(instance.list, acceptedIdx), NEW p \in 1 .. Len(acceptedIdx), Selected(p)
  PROVE  /\ instance.outs = OutsFor(instance.list, acceptedIdx)
              => ActiveNode = instance.list[acceptedIdx[p]]
         /\ activeTags = TagsFor(Len(acceptedIdx)) => IndexOf(instance.sel) = acceptedIdx[p]
<1> DEFINE n == Len(acceptedIdx)
           out(q) == [tag |-> TagsFor(n)[q], node |-> instance.list[acceptedIdx[q]]]
<1>1. n \in Nat /\ p \in 1 .. n /\ instance.sel = TagsFor(n)[p]
  BY DEF Listed, Selected
<1>2. ASSUME NEW q \in 1 .. n, TagsFor(n)[q] = instance.sel PROVE q = p
  BY <1>1, <1>2, TagsDiffer
<1>3. ASSUME instance.outs = OutsFor(instance.list, acceptedIdx)
      PROVE  ActiveNode = instance.list[acceptedIdx[p]]
  <2>1. out(p) \in instance.outs /\ out(p).tag = instance.sel
    BY <1>1, <1>3 DEF OutsFor
  <2>2. \A o \in instance.outs : o.tag = instance.sel => o = out(p)
    <3> SUFFICES ASSUME NEW o \in instance.outs, o.tag = instance.sel PROVE o = out(p)
      OBVIOUS
    <3>1. PICK q \in 1 .. n : o = out(q)
      BY <1>3 DEF OutsFor
    <3>2. q = p
      BY <1>2, <3>1
    <3> QED BY <3>1, <3>2
  <2>3. (CHOOSE o \in instance.outs : o.tag = instance.sel) = out(p)
    BY <2>1, <2>2
  <2>4. out(p).node = instance.list[acceptedIdx[p]]
    OBVIOUS
  <2> QED BY <2>3, <2>4 DEF ActiveNode
<1>4. ASSUME activeTags = TagsFor(n) PROVE IndexOf(instance.sel) = acceptedIdx[p]
  <2>1. DOMAIN activeTags = 1 .. n /\ activeTags[p] = instance.sel
    BY <1>1, <1>4 DEF TagsFor
  <2>2. (CHOOSE q \in DOMAIN activeTags : activeTags[q] = instance.sel) = p
    BY <1>1, <1>2, <1>4, <2>1
  <2> QED BY <2>2 DEF IndexOf
<1> QED BY <1>3, <1>4

-----------------------------------------------------------------------------
(* One step of a caller. *)

LEMMA Serves ==
  ASSUME IInv, NEW c \in Caller, pc[c] \in Working
  PROVE  engMu = c /\ engMu # Nil /\ Under(pc[c], req[c])
<1>1. engMu = c
  BY DEF IInv, Exclusive
<1>2. c # Nil
  BY Constants
<1> QED BY <1>1, <1>2 DEF IInv, Guarded

(* The caller under engMu goes on to another label. *)
LEMMA GoesOn ==
  ASSUME IInv, NEW c \in Caller, pc[c] \in Working, NEW l \in Working,
         pc' = [pc EXCEPT ![c] = l], UNCHANGED <<engMu, req>>,
         l \in {"validate"} \cup Opening \cup Publishing
           => pc[c] \in {"validate"} \cup Opening \cup Publishing,
         running' \in BOOLEAN, sessionGen' \in 0 .. MaxGen, closed' \subseteq 1 .. sessionGen',
         Under(l, req[c])'
  PROVE  IInv'
<1>1. engMu = c /\ engMu # Nil
  BY Serves
<1>2. pc'[c] = l /\ \A d \in Caller : d # c => pc'[d] = pc[d]
  BY DEF IInv, Typed
<1>3. Typed'
  BY <1>2 DEF IInv, Typed, Working, Labels, Opening, Publishing, Closing, Swapping
<1>4. Exclusive'
  BY <1>1, <1>2 DEF IInv, Exclusive
<1>5. Requested'
  <2>1. l # "start"
    BY DEF Working, Opening, Publishing, Closing, Swapping
  <2>2. ASSUME NEW d \in Caller, pc'[d] \in {"start", "validate"} \cup Opening \cup Publishing
        PROVE  pc[d] \in {"start", "validate"} \cup Opening \cup Publishing
    BY <1>2, <2>1, <2>2
  <2> QED BY <2>2 DEF IInv, Requested
<1>6. Guarded'
  BY <1>1, <1>2 DEF Guarded
<1> QED BY <1>3, <1>4, <1>5, <1>6 DEF IInv

(* A label is of one kind. *)
LEMMA LabelsDiffer ==
  /\ \A l \in Opening :
       l \notin {"validate", "clear", "unlock"} \cup Publishing \cup Closing \cup Swapping
  /\ \A l \in Publishing : l \notin {"validate", "clear", "unlock"} \cup Closing \cup Swapping
  /\ \A l \in Closing \cup Swapping : l \notin {"validate", "clear", "unlock"}
  /\ \A l \in Closing : l \notin Swapping
BY DEF Opening, Publishing, Closing, Swapping

(* What the loop has gathered stays until the tags are set. *)
LEMMA HoldingKeeps ==
  ASSUME IInv, NEW c \in Caller, pc[c] \in Holding, UNCHANGED <<loopVars, req>>
  PROVE  Collected(req[c].list) /\ Collected(req[c].list)'
<1>1. pc[c] \in Working
  BY DEF Working, Holding, Publishing
<1>2. Collected(req[c].list)
  BY <1>1, Serves DEF Under
<1> QED BY <1>2 DEF Collected, Alike, loopVars

LEMMA FreshKeeps ==
  ASSUME IInv, NEW c \in Caller, pc[c] \in Working, pc[c] \notin Holding \cup {"validate"},
         UNCHANGED loopVars
  PROVE  Fresh'
BY Serves DEF Under, Fresh, loopVars

(* Tags and box are built of what the loop has gathered. *)
LEMMA NewBoxIs ==
  ASSUME NEW c \in Caller, Collected(req[c].list)
  PROVE  tags = TagsFor(Len(accepted)) /\ NewBox(c) = BoxFor(req[c], accepted)
<1>1. DOMAIN cleans = 1 .. Len(accepted) /\ Len(cleans) = Len(accepted)
  BY DEF Collected, Alike
<1>2. tags = TagsFor(Len(accepted))
  BY <1>1 DEF tags, TagsFor
<1>3. \A p \in 1 .. Len(accepted) :
        [tag |-> tags[p], node |-> cleans[p]]
          = [tag |-> TagsFor(Len(accepted))[p], node |-> req[c].list[accepted[p]]]
  BY <1>2 DEF Collected, Alike
<1>4. {[tag |-> tags[k], node |-> cleans[k]] : k \in DOMAIN cleans}
        = OutsFor(req[c].list, accepted)
  BY <1>1, <1>3 DEF OutsFor
<1> QED BY <1>2, <1>4 DEF NewBox, BoxFor

(* The candidates before the one the loop is at are sorted out. *)
LEMMA LoopKeeps ==
  ASSUME IInv, NEW c \in Caller, Accept(c) \/ Drop(c)
  PROVE  IInv'
<1> USE DEF KeepsValidating, Accept, Drop, At, Looping
<1> DEFINE list == req[c].list
<1>1. pc[c] \in Working /\ pc[c] = "validate"
  BY DEF Working
<1>2. Ended /\ LoopOK(list) /\ list \in Lists
  BY <1>1, Serves DEF Under, IInv, Requested, StartRequest
<1>3. list \in Seq(Node) /\ next \in 1 .. Len(list) /\ next <= CoreCap
  BY <1>2, Constants DEF LoopOK
<1>4. LoopOK(list)'
  <2>1. CASE Accept(c)
    <3>1. next \in Usable(list) /\ list[next] \in Node
      BY <1>3, <2>1 DEF Usable
    <3>2. /\ next' = next + 1 /\ UNCHANGED list
          /\ accepted' = Append(accepted, next) /\ cleans' = Append(cleans, list[next])
      BY <2>1
    <3> HIDE DEF list, Accept, Drop
    <3>0. \A p \in 1 .. Len(accepted) :
            accepted[p] \in Nat /\ accepted[p] >= 1 /\ accepted[p] < next
      <4>1. \A p \in 1 .. Len(accepted) : accepted[p] \in Usable(list) /\ accepted[p] < next
        BY <1>2 DEF LoopOK
      <4>2. Len(list) \in Nat
        BY <1>3
      <4> QED BY <4>1, <4>2 DEF Usable
    <3>3. /\ accepted' \in Seq(Usable(list)) /\ cleans' \in Seq(Node)
          /\ Len(accepted') = Len(accepted) + 1 /\ Len(cleans') = Len(accepted')
          /\ accepted'[Len(accepted')] = next /\ cleans'[Len(accepted')] = list[next]
          /\ \A p \in 1 .. Len(accepted) : accepted'[p] = accepted[p] /\ cleans'[p] = cleans[p]
      BY <1>2, <3>1, <3>2 DEF LoopOK, Alike
    <3>4. Len(accepted) \in Nat /\ 1 .. Len(accepted') = 1 .. Len(accepted) \cup {Len(accepted')}
      BY <1>2, <3>3 DEF LoopOK
    <3>5. Distinct(accepted')
      <4>1. \A p \in 1 .. Len(accepted) : accepted'[p] # next
        BY <1>3, <3>0, <3>3
      <4> QED BY <1>2, <3>3, <3>4, <4>1 DEF LoopOK, Distinct
    <3>6. \A p \in 1 .. Len(accepted') : cleans'[p] = list[accepted'[p]]
      BY <1>2, <3>3, <3>4 DEF LoopOK, Alike
    <3>7. \A p \in 1 .. Len(accepted') : accepted'[p] < next'
      BY <1>2, <3>2, <3>3, <3>4 DEF LoopOK, Usable
    <3>8. ASSUME NEW i \in Usable(list), i < next'
          PROVE  \E p \in 1 .. Len(accepted') : accepted'[p] = i
      <4>1. CASE i = next
        BY <3>3, <3>4, <4>1
      <4>2. CASE i # next
        <5>1. i < next
          BY <1>3, <3>2, <3>8, <4>2 DEF Usable
        <5>2. PICK p \in 1 .. Len(accepted) : accepted[p] = i
          BY <1>2, <5>1 DEF LoopOK
        <5> QED BY <3>3, <3>4, <5>2
      <4> QED BY <4>1, <4>2
    <3>9. Len(accepted') >= 1 /\ accepted'[1] = 1
      <4>1. CASE next = 1
        <5>1. 1 \notin 1 .. Len(accepted)
          BY <3>0, <4>1
        <5>2. Len(accepted) = 0
          BY <3>4, <5>1
        <5> QED BY <3>3, <4>1, <5>2
      <4>2. CASE next # 1
        BY <1>2, <1>3, <3>3, <3>4, <4>2 DEF LoopOK
      <4> QED BY <4>1, <4>2
    <3>10. next' \in Nat /\ next' >= 1
      BY <1>3, <3>2
    <3>11. Alike(list)'
      BY <3>2, <3>3, <3>6 DEF Alike
    <3> QED BY <3>2, <3>3, <3>5, <3>7, <3>8, <3>9, <3>10, <3>11 DEF LoopOK, Distinct
  <2>2. CASE Drop(c)
    <3>1. next \notin Usable(list) /\ next # 1
      BY <2>2 DEF Usable
    <3>2. next' = next + 1 /\ UNCHANGED <<list, cleans, accepted>>
      BY <2>2
    <3> HIDE DEF list, Accept, Drop
    <3>3. \A p \in 1 .. Len(accepted) : accepted[p] < next'
      BY <1>2, <1>3, <3>2 DEF LoopOK, Usable
    <3>4. \A i \in Usable(list) : i < next' => i < next
      BY <1>3, <3>1, <3>2 DEF Usable
    <3>5. Len(accepted) >= 1 /\ accepted[1] = 1
      BY <1>2, <1>3, <3>1 DEF LoopOK
    <3> QED BY <1>2, <1>3, <3>2, <3>3, <3>4, <3>5 DEF LoopOK, Alike
  <2> QED BY <2>1, <2>2
<1>5. UNCHANGED <<engMu, pc, req, sessionVars, resourceVars>>
  OBVIOUS
<1>6. Ended'
  BY <1>2, <1>5 DEF Ended, NoTags, Over, sessionVars, tagVars, resourceVars
<1>7. Under("validate", req[c])'
  BY <1>4, <1>6 DEF Under, Holding, Opening, Publishing, Closing, Swapping
<1> HIDE DEF Accept, Drop, KeepsValidating
<1>8. pc' = [pc EXCEPT ![c] = "validate"]
  BY <1>1, <1>5 DEF IInv, Typed
<1> QED BY <1>1, <1>5, <1>7, <1>8, GoesOn DEF IInv, Typed, Working, sessionVars, resourceVars

(* After the loop the survivors are known. *)
LEMMA ConstructKeeps ==
  ASSUME IInv, NEW c \in Caller, Construct(c)
  PROVE  IInv'
<1> USE DEF sessionVars, tagVars, loopVars, Construct, At, Goto
<1>1. pc[c] \in Working /\ pc[c] = "validate"
  BY DEF Working
<1>2. Ended /\ LoopOK(req[c].list) /\ req[c] \in StartRequest
  BY <1>1, Serves DEF Under, IInv, Requested
<1>3. Collected(req[c].list)
  <2>1. req[c].list \in Lists /\ Len(req[c].list) \in Nat /\ Len(req[c].list) >= 1
    BY <1>2, Constants DEF StartRequest
  <2>2. next > 1 /\ \A i \in Usable(req[c].list) : i < next
    BY <1>2, <2>1, Constants DEF LoopOK, Looping, Usable
  <2> QED BY <1>2, <2>2 DEF LoopOK, Collected, Listed
<1>4. OpeningOK("boxStart", req[c])'
  BY <1>2 DEF OpeningOK, Ended, NoTags, Over, IInv, Typed
<1>5. Collected(req[c].list)'
  BY <1>3 DEF Collected, Alike
<1>6. Under("boxStart", req[c])'
  BY <1>4, <1>5 DEF Under, Holding, Opening, Publishing, Closing, Swapping
<1> QED BY <1>1, <1>6, GoesOn DEF IInv, Typed, Working, Opening

LEMMA BoxStartKeeps ==
  ASSUME IInv, NEW c \in Caller, BoxStart(c)
  PROVE  IInv'
<1> USE DEF sessionVars, tagVars, loopVars, resourceVars, BoxStart, At, Goto
<1>1. pc[c] \in Working /\ pc[c] = "boxStart" /\ pc[c] \in Opening
      /\ pc[c] \in Holding
  BY DEF Working, Holding, Opening
<1>2. OpeningOK("boxStart", req[c]) /\ req[c] \in StartRequest
  BY <1>1, Serves DEF Under, IInv, Requested
<1>3. req[c].mode \in {"proxy", "vpn"}
  BY <1>2, Constants DEF StartRequest
<1>4. PICK l \in {"commit", "relay"} :
        pc' = [pc EXCEPT ![c] = l] /\ (l = "commit" <=> req[c].mode = "vpn")
  OBVIOUS
<1>5. OpeningOK(l, req[c])'
  BY <1>2, <1>3, <1>4 DEF OpeningOK, NoTags, Over, Relays
<1>6. Under(l, req[c])'
  BY <1>1, <1>5, HoldingKeeps DEF Under, Holding, Opening, Publishing, Closing, Swapping
<1> QED BY <1>1, <1>4, <1>6, GoesOn DEF IInv, Typed, Working, Opening

LEMMA RelayKeeps ==
  ASSUME IInv, NEW c \in Caller, StartRelay(c)
  PROVE  IInv'
<1> USE DEF sessionVars, tagVars, loopVars, StartRelay, At, Goto
<1>1. pc[c] \in Working /\ pc[c] = "relay" /\ pc[c] \in Opening
      /\ pc[c] \in Holding
  BY DEF Working, Holding, Opening
<1>2. OpeningOK("relay", req[c])
  BY <1>1, Serves DEF Under
<1>3. OpeningOK("commit", req[c])'
  BY <1>2 DEF OpeningOK, NoTags, Over, Relays
<1>4. Under("commit", req[c])'
  BY <1>1, <1>3, HoldingKeeps DEF Under, Holding, Opening, Publishing, Closing, Swapping
<1> QED BY <1>1, <1>4, GoesOn DEF IInv, Typed, Working, Opening

LEMMA FailKeeps ==
  ASSUME IInv, NEW c \in Caller, FailStart(c)
  PROVE  IInv'
<1> USE DEF sessionVars, tagVars, loopVars, FailStart, Goto, Released
<1>1. pc[c] \in Working
      /\ (pc[c] = "validate" \/ (pc[c] \in Opening /\ pc[c] # "commit" /\ pc[c] # "validate"))
  BY DEF Working, Opening
<1>2. Ended'
  <2>1. CASE pc[c] = "validate"
    BY <1>1, <2>1, Serves DEF Under, Ended, NoTags, Over
  <2>2. CASE pc[c] # "validate"
    <3>1. OpeningOK(pc[c], req[c])
      BY <1>1, <2>2, Serves DEF Under
    <3> QED BY <1>1, <2>2, <3>1 DEF OpeningOK, Ended, NoTags, Over
  <2> QED BY <2>1, <2>2
<1>3. Under("unlock", req[c])'
  BY <1>2 DEF Under, Free, Fresh, Holding, Opening, Publishing, Closing, Swapping
<1>4. /\ pc' = [pc EXCEPT ![c] = "unlock"]
      /\ UNCHANGED <<engMu, req, running, sessionGen, closed>>
  OBVIOUS
<1>5. pc[c] \in Working /\ "unlock" \in Working
      /\ "unlock" \notin {"validate"} \cup Opening \cup Publishing
  BY <1>1 DEF Working, Opening, Publishing
<1>6. running' \in BOOLEAN /\ sessionGen' \in 0 .. MaxGen /\ closed' \subseteq 1 .. sessionGen'
  BY <1>4 DEF IInv, Typed
<1> HIDE DEF FailStart, Released
<1> QED BY <1>3, <1>4, <1>5, <1>6, GoesOn

LEMMA CommitKeeps ==
  ASSUME IInv, NEW c \in Caller, CommitState(c)
  PROVE  IInv'
<1> USE DEF resourceVars, tagVars, CommitState, At, Goto
<1>1. pc[c] \in Working /\ pc[c] = "commit" /\ pc[c] \in Opening /\ pc[c] \in Holding
  BY DEF Working, Opening, Holding
<1>2. OpeningOK("commit", req[c])
  BY <1>1, Serves DEF Under
<1>3. Collected(req[c].list) /\ Collected(req[c].list)'
  BY <1>1, HoldingKeeps
<1>4. instance' = BoxFor(req[c], accepted) /\ UNCHANGED accepted
  BY <1>3, NewBoxIs DEF loopVars
<1>5. PublishingOK("gen", req[c])'
  BY <1>2, <1>4 DEF OpeningOK, PublishingOK, BoxFor, NoTags, Over
<1>6. Under("gen", req[c])'
  BY <1>3, <1>5 DEF Under, Holding, Opening, Publishing, Closing, Swapping
<1> QED BY <1>1, <1>6, GoesOn DEF IInv, Typed, Working, Publishing

LEMMA GenKeeps ==
  ASSUME IInv, NEW c \in Caller, NextGen(c)
  PROVE  IInv'
<1> USE DEF resourceVars, tagVars, NextGen, At, Goto
<1>1. pc[c] \in Working /\ pc[c] = "gen" /\ pc[c] \in Publishing /\ pc[c] \in Holding
  BY DEF Working, Publishing, Holding
<1>2. PublishingOK("gen", req[c])
  BY <1>1, Serves DEF Under
<1>3. sessionGen' \in 0 .. MaxGen /\ closed' \subseteq 1 .. sessionGen' /\ Current'
  BY <1>2, Constants DEF PublishingOK, IInv, Typed, Current, Gen
<1>4. PublishingOK("tags", req[c])'
  BY <1>2, <1>3 DEF PublishingOK, NoTags, BoxFor, loopVars
<1>5. Under("tags", req[c])'
  BY <1>1, <1>4, HoldingKeeps DEF Under, Holding, Opening, Publishing, Closing, Swapping
<1> QED BY <1>1, <1>3, <1>5, GoesOn DEF IInv, Typed, Working, Publishing

(* The tags published are those the box was built with. *)
LEMMA SetTagsKeeps ==
  ASSUME IInv, NEW c \in Caller, SetTags(c)
  PROVE  IInv'
<1> USE DEF resourceVars, SetTags, At, Goto
<1>1. pc[c] \in Working /\ pc[c] = "tags" /\ pc[c] \in Publishing /\ pc[c] \in Holding
  BY DEF Working, Publishing, Holding
<1>2. PublishingOK("tags", req[c]) /\ Collected(req[c].list)
  BY <1>1, Serves DEF Under
<1>3. tags = TagsFor(Len(accepted)) /\ instance = BoxFor(req[c], accepted)
  BY <1>2, NewBoxIs DEF PublishingOK
<1>4. /\ acceptedIdx' = accepted /\ activeTags' = TagsFor(Len(accepted))
      /\ activeTag' = instance.sel /\ UNCHANGED <<instance, req>>
  BY <1>3 DEF BoxFor
<1>5. instance.outs = OutsFor(req[c].list, accepted) /\ Listed(req[c].list, accepted)
  BY <1>2, <1>3 DEF BoxFor, Collected
<1>6. Tagged(req[c].list)'
  BY <1>4, <1>5 DEF Tagged
<1>7. PublishingOK("ping0", req[c])'
  BY <1>2, <1>3, <1>4, <1>6 DEF PublishingOK, Current, BoxFor
<1>8. Under("ping0", req[c])'
  BY <1>7 DEF Under, Fresh, Holding, Opening, Publishing, Closing, Swapping
<1> QED BY <1>1, <1>8, GoesOn DEF IInv, Typed, Working, Publishing

LEMMA PublishingKeeps ==
  ASSUME IInv, NEW c \in Caller, ResetPing(c) \/ ResetSelfTest(c)
  PROVE  IInv'
<1> USE DEF sessionVars, tagVars, resourceVars, ResetPing, ResetSelfTest, At, Goto
<1>1. pc[c] \in Working /\ pc[c] \in {"ping0", "self0"} /\ pc[c] \in Publishing
      /\ pc[c] \notin Holding \cup {"validate"}
  BY DEF Working, Publishing, Holding, Opening
<1>2. PublishingOK(pc[c], req[c])
  BY <1>1, Serves DEF Under
<1>3. UNCHANGED <<engMu, req, loopVars, sessionVars, resourceVars>>
  OBVIOUS
<1>4. PICK l \in {"self0", "run"} : pc' = [pc EXCEPT ![c] = l]
  OBVIOUS
<1> HIDE DEF ResetPing, ResetSelfTest
<1>5. PublishingOK(l, req[c])'
  BY <1>1, <1>2, <1>3, <1>4 DEF PublishingOK, BoxFor, Tagged, Current
<1>6. Under(l, req[c])'
  BY <1>1, <1>3, <1>5, FreshKeeps DEF Under, Holding, Opening, Publishing, Closing, Swapping
<1> QED BY <1>1, <1>3, <1>4, <1>6, GoesOn DEF IInv, Typed, Working, Publishing

LEMMA RunKeeps ==
  ASSUME IInv, NEW c \in Caller, Run(c)
  PROVE  IInv'
<1> USE DEF resourceVars, tagVars, Run, At, Goto
<1>1. pc[c] \in Working /\ pc[c] = "run" /\ pc[c] \in Publishing
      /\ pc[c] \notin Holding \cup {"validate"}
  BY DEF Working, Publishing, Holding, Opening
<1>2. PublishingOK("run", req[c]) /\ req[c] \in StartRequest
  BY <1>1, Serves DEF Under, IInv, Requested
<1>3. /\ instance = BoxFor(req[c], acceptedIdx) /\ Tagged(req[c].list)
      /\ activeTag = instance.sel
  BY <1>2 DEF PublishingOK
<1>4. req[c].list \in Lists /\ req[c].mode \in Mode
  BY <1>2 DEF StartRequest
<1>5. Len(acceptedIdx) \in Nat /\ 1 \in 1 .. Len(acceptedIdx)
  BY <1>3 DEF Tagged, Listed
<1>6. instance \in Box /\ instance.list = req[c].list /\ instance.mode = req[c].mode /\ Selected(1)
  BY <1>3, <1>4, <1>5, BoxesFor DEF BoxFor, Tagged, Selected
<1>7. Live /\ ~running
  BY <1>2, <1>3, <1>5, <1>6 DEF Live, PublishingOK
<1>8. Whole'
  BY <1>3, <1>7 DEF Whole, Live, Tagged, Selected, Current
<1>9. Under("unlock", req[c])'
  BY <1>1, <1>8, FreshKeeps DEF Under, Free, Holding, Opening, Publishing, Closing, Swapping
<1> QED BY <1>1, <1>9, GoesOn DEF IInv, Typed, Working, Opening, Publishing

LEMMA ClearKeeps ==
  ASSUME IInv, NEW c \in Caller, ClearState(c)
  PROVE  IInv'
<1> USE DEF tagVars, loopVars, ClearState, At, Goto
<1>1. pc[c] \in Working /\ pc[c] = "clear" /\ pc[c] \notin Holding \cup {"validate"}
  BY DEF Working, Holding, Opening
<1>2. ~running /\ Live
  BY <1>1, Serves DEF Under
<1>3. closed' \subseteq 1 .. sessionGen' /\ Over'
  BY <1>2 DEF Live, Tagged, Selected, Current, Gen, Over, IInv, Typed
<1>4. ClosingOK("closeBox")'
  BY <1>2, <1>3 DEF ClosingOK, Live, Relays
<1>5. Under("closeBox", req[c])'
  BY <1>1, <1>4, FreshKeeps DEF Under, Holding, Opening, Publishing, Closing, Swapping
<1> QED BY <1>1, <1>3, <1>5, GoesOn DEF IInv, Typed, Working, Opening, Publishing, Closing

LEMMA CloseKeeps ==
  ASSUME IInv, NEW c \in Caller, CloseBox(c)
  PROVE  IInv'
<1> USE DEF sessionVars, tagVars, loopVars, CloseBox, At, Goto
<1>1. pc[c] \in Working /\ pc[c] = "closeBox" /\ pc[c] \in Closing
      /\ pc[c] \notin Holding \cup {"validate"}
  BY DEF Working, Closing, Holding, Opening
<1>2. ClosingOK("closeBox")
  BY <1>1, Serves DEF Under
<1>3. ClosingOK("tags0")'
  BY <1>2 DEF ClosingOK, Over
<1>4. Under("tags0", req[c])'
  BY <1>1, <1>3, FreshKeeps DEF Under, Holding, Opening, Publishing, Closing, Swapping
<1> QED BY <1>1, <1>4, GoesOn DEF IInv, Typed, Working, Opening, Publishing, Closing

LEMMA ClearTagsKeeps ==
  ASSUME IInv, NEW c \in Caller, ClearTags(c)
  PROVE  IInv'
<1> USE DEF resourceVars, tagVars, loopVars, ClearTags, At, Goto
<1>1. pc[c] \in Working /\ pc[c] = "tags0" /\ pc[c] \in Closing
      /\ pc[c] \notin Holding \cup {"validate"}
  BY DEF Working, Closing, Holding, Opening
<1>2. ClosingOK("tags0")
  BY <1>1, Serves DEF Under
<1>3. Ended'
  BY <1>2 DEF ClosingOK, Ended, NoTags, Over
<1>4. Under("unlock", req[c])'
  BY <1>1, <1>3, FreshKeeps DEF Under, Free, Holding, Opening, Publishing, Closing, Swapping
<1> QED BY <1>1, <1>4, GoesOn DEF IInv, Typed, Working, Opening, Publishing

LEMMA SwapKeeps ==
  ASSUME IInv, NEW c \in Caller, SetActiveTag(c) \/ SwapResetPing(c)
  PROVE  IInv'
<1> USE DEF sessionVars, tagVars, loopVars, resourceVars, SetActiveTag, SwapResetPing, At, Goto
<1>1. pc[c] \in Working /\ pc[c] \in Swapping
      /\ pc[c] \notin Holding \cup {"validate"}
  BY DEF Working, Swapping, Holding, Opening
<1>2. SwappingOK(pc[c], req[c])
  BY <1>1, Serves DEF Under
<1>3. CASE SetActiveTag(c)
  <2>1. PICK p \in Position(req[c].idx) : activeTag' = activeTags[p]
    BY <1>3
  <2>2. PICK q \in 1 .. Len(acceptedIdx) : Selected(q) /\ acceptedIdx[q] = req[c].idx
    BY <1>2 DEF SwappingOK
  <2>3. /\ DOMAIN acceptedIdx = 1 .. Len(acceptedIdx) /\ Distinct(acceptedIdx)
        /\ activeTags = TagsFor(Len(acceptedIdx))
    BY <1>2 DEF SwappingOK, Live, Tagged, Listed
  <2>7. p = q
    BY <2>2, <2>3 DEF Position, Distinct
  <2>4. activeTag' = instance.sel
    BY <2>1, <2>2, <2>3, <2>7 DEF Selected
  <2>5. SwappingOK("swapPing0", req[c])'
    BY <1>2, <1>3, <2>4 DEF SwappingOK, Live, Tagged, Selected, Current
  <2>6. Under("swapPing0", req[c])'
    BY <1>1, <1>3, <2>5, FreshKeeps DEF Under, Holding, Opening, Publishing, Closing, Swapping
  <2> QED BY <1>1, <1>3, <2>6, GoesOn DEF IInv, Typed, Working, Opening, Publishing, Swapping
<1>4. CASE SwapResetPing(c)
  <2>1. Whole'
    BY <1>2, <1>4 DEF SwappingOK, Whole, Live, Tagged, Selected, Current
  <2>2. Under("unlock", req[c])'
    BY <1>1, <2>1, FreshKeeps DEF Under, Free, Holding, Opening, Publishing, Closing, Swapping
  <2> QED BY <1>1, <1>4, <2>2, GoesOn DEF IInv, Typed, Working, Opening, Publishing
<1> QED BY <1>3, <1>4

(* A call begins, and waits for engMu. *)
LEMMA EnterKeeps ==
  ASSUME IInv, NEW c \in Caller, Enter(c)
  PROVE  IInv'
<1> USE DEF sessionVars, tagVars, loopVars, resourceVars, Enter,
        WrnStart, WrnStop, WrnSelect, Call, Goto
<1>1. PICK l \in {"start", "stop", "select"}, r \in Request :
        /\ pc[c] = "idle" /\ pc' = [pc EXCEPT ![c] = l] /\ req' = [req EXCEPT ![c] = r]
        /\ l = "start" => r \in StartRequest
        /\ UNCHANGED <<engMu, loopVars, running, sessionGen, instance, tagVars,
                       boxes, relays, closed>>
  BY DEF StartRequest, Request
<1> HIDE DEF Enter, WrnStart, WrnStop, WrnSelect
<1>2. /\ pc'[c] = l /\ req'[c] = r
      /\ \A d \in Caller : d # c => pc'[d] = pc[d] /\ req'[d] = req[d]
  BY <1>1 DEF IInv, Typed
<1>3. l \notin Working /\ pc[c] \notin Working
  BY <1>1 DEF Working, Opening, Publishing, Closing, Swapping
<1>4. Typed'
  BY <1>1 DEF IInv, Typed, Labels
<1>5. Exclusive' /\ engMu # c
  BY <1>1, <1>2, <1>3 DEF IInv, Exclusive
<1>6. Requested'
  <2>1. ASSUME NEW d \in Caller, pc'[d] \in {"start", "validate"} \cup Opening \cup Publishing
        PROVE  req'[d] \in StartRequest
    <3>1. CASE d = c
      <4>1. l = "start"
        BY <1>1, <1>2, <1>3, <2>1, <3>1 DEF Working
      <4> QED BY <1>1, <1>2, <3>1, <4>1
    <3>2. CASE d # c
      BY <1>2, <2>1, <3>2 DEF IInv, Requested
    <3> QED BY <3>1, <3>2
  <2> QED BY <2>1 DEF Requested
<1>7. Guarded'
  <2>1. CASE engMu = Nil
    BY <1>1, <2>1 DEF IInv, Guarded, Free, Fresh, Ended, Whole, Live, Tagged, Selected,
       Current, NoTags, Over
  <2>2. CASE engMu # Nil
    <3>1. engMu \in Caller /\ engMu # c /\ Under(pc[engMu], req[engMu])
      BY <1>5, <2>2 DEF IInv, Typed, Guarded
    <3>2. pc'[engMu] = pc[engMu] /\ req'[engMu] = req[engMu] /\ engMu' = engMu
      BY <1>1, <1>2, <3>1
    <3>3. Under(pc[engMu], req[engMu])'
      BY <1>1, <3>1, <3>2 DEF Under, LoopOK, Collected, Alike, Fresh, OpeningOK,
         PublishingOK, BoxFor, ClosingOK, SwappingOK, Free, Ended,
         Whole, Live, Tagged, Selected, Current, NoTags, Over
    <3> QED BY <1>1, <2>2, <3>3 DEF Guarded
  <2> QED BY <2>1, <2>2
<1> QED BY <1>4, <1>5, <1>6, <1>7 DEF IInv

(* A hot-swap that is carried out. *)
LEMMA Swaps ==
  ASSUME IInv, engMu = Nil, NEW c \in Caller, NEW t \in Selectable(req[c].idx),
         instance' = [instance EXCEPT !.sel = t]
  PROVE  /\ Whole /\ Len(activeTags) >= 2
         /\ instance' \in Box /\ instance'.sel = t
         /\ UNCHANGED <<instance.list, instance.mode, instance.outs>>
         /\ \E p \in 1 .. Len(acceptedIdx) :
              t = TagsFor(Len(acceptedIdx))[p] /\ acceptedIdx[p] = req[c].idx
<1>1. /\ running /\ Len(activeTags) >= 2
      /\ \E p \in Position(req[c].idx) : t = activeTags[p]
  BY DEF Selectable
<1>2. PICK p \in Position(req[c].idx) : t = activeTags[p]
  BY <1>1
<1>3. Whole
  BY <1>1 DEF IInv, Guarded, Free, Ended
<1>4. /\ instance \in Box /\ activeTags = TagsFor(Len(acceptedIdx)) /\ Len(acceptedIdx) \in Nat
      /\ DOMAIN acceptedIdx = 1 .. Len(acceptedIdx)
  BY <1>3 DEF Whole, Live, Tagged, Listed
<1>5. p \in 1 .. Len(acceptedIdx) /\ acceptedIdx[p] = req[c].idx
  BY <1>4 DEF Position
<1>6. t \in Nat
  BY <1>2, <1>4, <1>5, TagsAreNumbers
<1>7. /\ instance' \in Box /\ instance'.sel = t
      /\ UNCHANGED <<instance.list, instance.mode, instance.outs>>
  BY <1>4, <1>6 DEF Box
<1> QED BY <1>1, <1>2, <1>3, <1>4, <1>5, <1>7

LEMMA LockKeeps ==
  ASSUME IInv, NEW c \in Caller, Lock(c)
  PROVE  IInv'
<1> USE DEF resourceVars, tagVars, loopVars, Lock, Goto
<1>1. Free /\ Fresh /\ engMu = Nil /\ engMu' = c /\ c # Nil
  BY Constants DEF IInv, Guarded
<1>2. PICK l \in {"validate", "clear", "setTag", "unlock"} :
        /\ pc' = [pc EXCEPT ![c] = l] /\ UNCHANGED req
        /\ l = "validate" => pc[c] = "start"
  OBVIOUS
<1>3. pc'[c] = l /\ \A d \in Caller : d # c => pc'[d] = pc[d]
  BY <1>2 DEF IInv, Typed
<1>4. /\ UNCHANGED <<sessionGen, activeTags, acceptedIdx, activeTag, boxes, relays, closed>>
      /\ running' \in BOOLEAN /\ Fresh'
  BY <1>1 DEF IInv, Typed, Fresh
<1>5. Under(l, req[c])'
  <2>1. CASE pc[c] = "start"
    <3>1. UNCHANGED <<running, instance>> /\ l = IF running THEN "unlock" ELSE "validate"
      BY <1>2, <1>3, <2>1 DEF IInv, Typed
    <3> HIDE DEF Lock
    <3>2. CASE running
      <4>1. Free'
        BY <1>1, <1>4, <3>1 DEF Free, Ended, Whole, Live, Tagged, Selected, Current, NoTags, Over
      <4> QED BY <1>4, <3>1, <3>2, <4>1 DEF Under, Holding, Opening, Publishing, Closing, Swapping
    <3>3. CASE ~running
      <4>1. Ended'
        BY <1>1, <1>4, <3>1, <3>3 DEF Free, Ended, Whole, NoTags, Over
      <4>2. LoopOK(req[c].list)'
        <5>1. next' = 1 /\ cleans' = << >> /\ accepted' = << >>
          BY <1>4 DEF Fresh
        <5>2. Len(<< >>) = 0 /\ 1 .. 0 = {}
          OBVIOUS
        <5>3. Alike(req[c].list)'
          BY <5>1, <5>2 DEF Alike
        <5>4. \A i \in Usable(req'[c].list) : ~(i < 1)
          BY DEF Usable
        <5> QED BY <5>1, <5>2, <5>3, <5>4 DEF LoopOK, Distinct
      <4> QED BY <1>4, <3>1, <3>3, <4>1, <4>2
            DEF Under, Holding, Opening, Publishing, Closing, Swapping
    <3> QED BY <3>2, <3>3
  <2>2. CASE pc[c] = "stop"
    <3>1. UNCHANGED instance /\ ~running' /\ l = IF running THEN "clear" ELSE "unlock"
      BY <1>2, <1>3, <2>2 DEF IInv, Typed
    <3> HIDE DEF Lock
    <3>2. CASE running
      <4>1. ~running' /\ Live'
        BY <1>1, <1>4, <3>1, <3>2 DEF Free, Ended, Whole, Live, Tagged, Selected, Current
      <4> QED BY <1>4, <3>1, <3>2, <4>1 DEF Under, Holding, Opening, Publishing, Closing, Swapping
    <3>3. CASE ~running
      <4>1. Ended'
        BY <1>1, <1>4, <3>1, <3>3 DEF Free, Ended, Whole, NoTags, Over
      <4> QED BY <1>4, <3>1, <3>3, <4>1
            DEF Under, Free, Holding, Opening, Publishing, Closing, Swapping
    <3> QED BY <3>2, <3>3
  <2>3. CASE pc[c] = "select" /\ l = "setTag"
    <3>1. PICK t \in Selectable(req[c].idx) : instance' = [instance EXCEPT !.sel = t]
      BY <1>2, <1>3, <2>3 DEF IInv, Typed
    <3>2. UNCHANGED running
      BY <1>2, <1>3, <2>3 DEF IInv, Typed
    <3> HIDE DEF Lock
    <3>3. /\ Whole /\ instance' \in Box /\ instance'.sel = t
          /\ UNCHANGED <<instance.list, instance.mode, instance.outs>>
      BY <1>1, <3>1, Swaps
    <3>4. PICK p \in 1 .. Len(acceptedIdx) :
            t = TagsFor(Len(acceptedIdx))[p] /\ acceptedIdx[p] = req[c].idx
      BY <1>1, <3>1, Swaps
    <3>5. (Selected(p) /\ acceptedIdx[p] = req[c].idx)' /\ p \in 1 .. Len(acceptedIdx')
      BY <1>2, <1>4, <3>3, <3>4 DEF Selected
    <3>6. Live'
      BY <1>4, <3>3, <3>5 DEF Whole, Live, Tagged, Current
    <3>7. SwappingOK("setTag", req[c])'
      BY <1>2, <3>2, <3>3, <3>5, <3>6 DEF SwappingOK, Whole
    <3> QED BY <1>4, <2>3, <3>7 DEF Under, Holding, Opening, Publishing, Closing, Swapping
  <2>4. CASE pc[c] = "select" /\ l # "setTag"
    <3>1. UNCHANGED <<running, instance>> /\ l = "unlock"
      BY <1>2, <1>3, <2>4 DEF IInv, Typed
    <3> HIDE DEF Lock
    <3>2. Free'
      BY <1>1, <1>4, <3>1 DEF Free, Ended, Whole, Live, Tagged, Selected, Current, NoTags, Over
    <3> QED BY <1>4, <3>1, <3>2 DEF Under, Holding, Opening, Publishing, Closing, Swapping
  <2>5. pc[c] \in {"start", "stop", "select"}
    OBVIOUS
  <2> QED BY <2>1, <2>2, <2>3, <2>4, <2>5
<1>6. \A d \in Caller : pc[d] \notin Working
  BY <1>1, Constants DEF IInv, Exclusive
<1> HIDE DEF Lock
<1>7. l \in Working /\ l \in Labels
  BY DEF Working, Swapping, Labels
<1>8. Typed'
  BY <1>1, <1>2, <1>4, <1>7 DEF IInv, Typed
<1>9. Exclusive'
  BY <1>1, <1>3, <1>6, <1>7 DEF Exclusive
<1>10. Requested'
  <2>1. ASSUME NEW d \in Caller, pc'[d] \in {"start", "validate"} \cup Opening \cup Publishing
        PROVE  pc[d] \in {"start", "validate"} \cup Opening \cup Publishing
    <3>1. CASE d = c
      BY <1>2, <1>3, <2>1, <3>1 DEF Opening, Publishing
    <3>2. CASE d # c
      BY <1>3, <2>1, <3>2
    <3> QED BY <3>1, <3>2
  <2> QED BY <1>2, <2>1 DEF IInv, Requested
<1>11. Guarded'
  BY <1>1, <1>3, <1>5 DEF Guarded
<1> QED BY <1>8, <1>9, <1>10, <1>11 DEF IInv

LEMMA UnlockKeeps ==
  ASSUME IInv, NEW c \in Caller, Unlock(c)
  PROVE  IInv'
<1> USE DEF sessionVars, tagVars, loopVars, resourceVars, Unlock, Goto
<1>1. pc[c] \in Working
  BY DEF Working
<1>2. engMu = c /\ Free /\ Fresh'
  BY <1>1, Serves, FreshKeeps DEF Under, Holding, Opening, Fresh
<1>3. /\ pc'[c] = "idle"
      /\ \A d \in Caller : d # c => pc'[d] = pc[d] /\ req'[d] = req[d]
  BY DEF IInv, Typed
<1>4. "idle" \notin Working \cup {"start", "validate"} \cup Opening \cup Publishing
  BY DEF Working, Opening, Publishing, Closing, Swapping
<1>5. Typed'
  BY DEF IInv, Typed, Labels
<1>6. Exclusive'
  BY <1>2, <1>3, <1>4, Constants DEF IInv, Exclusive
<1>7. Requested'
  BY <1>3, <1>4 DEF IInv, Requested
<1>8. Guarded'
  BY <1>2 DEF Guarded, Free, Ended, Whole, Live, Tagged, Selected, Current, NoTags, Over
<1> QED BY <1>5, <1>6, <1>7, <1>8 DEF IInv

(* The goroutines touch nothing of the session. *)
LEMMA GoroutinesKeep ==
  ASSUME IInv, UNCHANGED <<lockVars, loopVars, sessionVars, resourceVars>>
  PROVE  IInv'
<1> USE DEF lockVars, loopVars, sessionVars, tagVars, resourceVars
<1>1. Typed' /\ Exclusive' /\ Requested'
  BY DEF IInv, Typed, Exclusive, Requested
<1>2. Guarded'
  BY DEF IInv, Guarded, Under, LoopOK, Collected, Alike, Fresh, OpeningOK, PublishingOK, BoxFor,
     ClosingOK, SwappingOK, Free, Ended,
         Whole, Live, Tagged, Selected, Current, NoTags, Over
<1> QED BY <1>1, <1>2 DEF IInv

LEMMA LoopsTouchNothing ==
  ASSUME NEW g \in Gen, Loop(g) \/ Test(g)
  PROVE  UNCHANGED <<lockVars, loopVars, sessionVars, resourceVars>>
BY DEF Loop, Test, PingMeasure, PingCheck, PingStore, PingEnd, SelfTestCheck, SelfTestStore

LEMMA InitInv == Init => IInv
<1> SUFFICES ASSUME Init PROVE IInv
  OBVIOUS
<1> USE DEF Init
<1>1. \A c \in Caller : pc[c] = "idle"
  OBVIOUS
<1>2. "idle" \notin Working \cup {"start", "validate"} \cup Opening \cup Publishing
  BY DEF Working, Opening, Publishing, Closing, Swapping
<1>3. Typed
  <2>1. sessionGen \in 0 .. MaxGen /\ closed \subseteq 1 .. sessionGen
    BY Constants
  <2>2. pc \in [Caller -> Labels] /\ req = [c \in Caller |-> req[c]]
    BY DEF Labels
  <2> QED BY <2>1, <2>2 DEF Typed
<1>4. Exclusive /\ Requested
  BY <1>1, <1>2, Constants DEF Exclusive, Requested
<1>5. Guarded
  BY DEF Guarded, Free, Fresh, Ended, NoTags, Over
<1> QED BY <1>3, <1>4, <1>5 DEF IInv

LEMMA StepKeeps ==
  ASSUME IInv, NEW c \in Caller, Step(c)
  PROVE  IInv'
BY LoopKeeps, ConstructKeeps, BoxStartKeeps, RelayKeeps, FailKeeps, CommitKeeps, GenKeeps,
   SetTagsKeeps, PublishingKeeps, RunKeeps, ClearKeeps, CloseKeeps, ClearTagsKeeps,
   SwapKeeps, UnlockKeeps DEF Step

LEMMA NextInv == IInv /\ [Next]_vars => IInv'
<1> SUFFICES ASSUME IInv, [Next]_vars PROVE IInv'
  OBVIOUS
<1>1. CASE UNCHANGED vars
  BY <1>1, GoroutinesKeep DEF vars
<1>2. CASE \E c \in Caller : Enter(c) \/ Lock(c) \/ Step(c)
  BY <1>2, EnterKeeps, LockKeeps, StepKeeps
<1>3. CASE \E g \in Gen : Loop(g) \/ Test(g)
  BY <1>3, LoopsTouchNothing, GoroutinesKeep
<1> QED BY <1>1, <1>2, <1>3 DEF Next

(* IInv is an inductive invariant of engine.go, for any number of callers    *)
(* and of sessions, every list, cap and refused node.                       *)
THEOREM Inductive == Spec => []IInv
BY InitInv, NextInv, PTL DEF Spec

(* No box and no relay outlives its session or a failed start: engine.go,    *)
(* the deferred release of startEngine, and stopEngine.                     *)
THEOREM LeaksNothing == Spec => []NoLeak
<1>1. IInv => NoLeak
  BY DEF IInv, Guarded, Free, Ended, Whole, Live, Relays, NoLeak
<1> QED BY <1>1, Inductive, PTL

(* The snapshot, the tags, the selector and running agree whenever engMu is  *)
(* free: engine.go publishes a session in pieces, but only under engMu.     *)
THEOREM Agrees == Spec => []SessionAgrees
<1>1. IInv => SessionAgrees
  <2> SUFFICES ASSUME IInv, engMu = Nil PROVE SessionAgrees
    BY DEF SessionAgrees
  <2>1. CASE Ended
    BY <2>1 DEF SessionAgrees, Ended, NoTags, Over, IInv, Typed
  <2>2. CASE Whole
    <3>1. instance # Nil /\ running
      BY <2>2, Constants DEF Whole, Live
    <3>2. /\ Len(acceptedIdx) \in Nat /\ Len(acceptedIdx) >= 1
          /\ activeTags = TagsFor(Len(acceptedIdx))
          /\ instance.outs = OutsFor(instance.list, acceptedIdx)
      BY <2>2 DEF Whole, Live, Tagged, Listed
    <3>3. acceptedIdx # << >>
      BY <3>2
    <3>4. Len(activeTags) = Len(acceptedIdx) /\ DOMAIN activeTags = 1 .. Len(acceptedIdx)
      BY <3>2 DEF TagsFor
    <3>5. {o.tag : o \in instance.outs} = {activeTags[p] : p \in DOMAIN activeTags}
      <4>1. ASSUME NEW p \in 1 .. Len(acceptedIdx)
            PROVE  activeTags[p] \in {o.tag : o \in instance.outs}
        <5>1. [tag |-> TagsFor(Len(acceptedIdx))[p], node |-> instance.list[acceptedIdx[p]]]
                \in instance.outs
          BY <3>2 DEF OutsFor
        <5> QED BY <3>2, <5>1
      <4>2. ASSUME NEW o \in instance.outs
            PROVE  \E p \in 1 .. Len(acceptedIdx) : o.tag = activeTags[p]
        BY <3>2 DEF OutsFor
      <4> QED BY <3>4, <4>1, <4>2
    <3>6. sessionGen > 0 /\ sessionGen \notin closed
      BY <2>2, Constants DEF Whole, Live, Tagged, Selected, Current, Gen
    <3>7. activeTag = instance.sel
      BY <2>2 DEF Whole
    <3> QED BY <3>1, <3>3, <3>4, <3>5, <3>6, <3>7 DEF SessionAgrees
  <2> QED BY <2>1, <2>2 DEF IInv, Guarded, Free
<1> QED BY <1>1, Inductive, PTL

(* A hot-swap goes to the node that had the caller's index in its own list:  *)
(* engine.go, the loop and the tags of startEngine against selectCandidate. *)
THEOREM HonoursIndex == Spec => []SwapHonoursIndex
<1>1. IInv => SwapHonoursIndex
  <2> SUFFICES ASSUME IInv, NEW c \in Caller, pc[c] \in Swapping
               PROVE  ActiveNode = instance.list[req[c].idx]
    BY DEF SwapHonoursIndex, Swapping
  <2>1. SwappingOK(pc[c], req[c])
    BY Serves DEF Under, Working
  <2>2. PICK p \in 1 .. Len(acceptedIdx) : Selected(p) /\ acceptedIdx[p] = req[c].idx
    BY <2>1 DEF SwappingOK
  <2>3. Listed(instance.list, acceptedIdx) /\ instance.outs = OutsFor(instance.list, acceptedIdx)
    BY <2>1 DEF SwappingOK, Live, Tagged
  <2> QED BY <2>2, <2>3, SelectedIs
<1> QED BY <1>1, Inductive, PTL

-----------------------------------------------------------------------------
(* Visible from outside, a session is there while running is set. *)

Shown == [list |-> instance.list,
          accepted |-> {acceptedIdx[p] : p \in DOMAIN acceptedIdx},
          active |-> IndexOf(instance.sel),
          mode |-> instance.mode]

Visible == IF ~running THEN Nil ELSE Shown

LEMMA StaysVisible ==
  ASSUME UNCHANGED running, running => UNCHANGED <<instance, activeTags, acceptedIdx>>
  PROVE  UNCHANGED Visible
BY DEF Visible, Shown, IndexOf

(* What is seen of a session. *)
LEMMA SeenAs ==
  ASSUME Listed(instance.list, acceptedIdx), activeTags = TagsFor(Len(acceptedIdx)),
         NEW p \in 1 .. Len(acceptedIdx), Selected(p)
  PROVE  Shown = [list |-> instance.list, accepted |-> Usable(instance.list),
                  active |-> acceptedIdx[p], mode |-> instance.mode]
<1>1. DOMAIN acceptedIdx = 1 .. Len(acceptedIdx)
  BY DEF Listed
<1>2. \A q \in 1 .. Len(acceptedIdx) : acceptedIdx[q] \in Usable(instance.list)
  BY DEF Listed
<1>3. {acceptedIdx[q] : q \in DOMAIN acceptedIdx} = Usable(instance.list)
  BY <1>1, <1>2 DEF Listed
<1>4. IndexOf(instance.sel) = acceptedIdx[p]
  BY SelectedIs
<1> QED BY <1>3, <1>4 DEF Shown

LEMMA WholeVisible ==
  ASSUME Whole, NEW p \in 1 .. Len(acceptedIdx), Selected(p)
  PROVE  /\ Visible = [list |-> instance.list, accepted |-> Usable(instance.list),
                       active |-> acceptedIdx[p], mode |-> instance.mode]
         /\ Visible # Nil
<1>1. Visible = [list |-> instance.list, accepted |-> Usable(instance.list),
                 active |-> acceptedIdx[p], mode |-> instance.mode]
  BY SeenAs DEF Visible, Whole, Live, Tagged
<1>2. instance.list \in Lists /\ instance.mode \in Mode /\ Len(instance.list) \in Nat
  BY Constants DEF Whole, Live, Box
<1>3. Usable(instance.list) \subseteq Nat /\ acceptedIdx[p] \in Nat
  BY <1>2 DEF Usable, Whole, Live, Tagged, Listed
<1>4. Visible \in [list : Lists, accepted : SUBSET Nat, active : Nat, mode : Mode]
  BY <1>1, <1>2, <1>3
<1> QED BY <1>1, <1>4, EngineAssumption

LEMMA RunStarts ==
  ASSUME IInv, NEW c \in Caller, Run(c)
  PROVE  \E l \in Lists, m \in Mode : Abstract!CoreStart(l, m, 0)
<1> DEFINE r == req[c]
<1>1. pc[c] \in Working /\ pc[c] = "run" /\ pc[c] \in Publishing
  BY DEF Working, Publishing, Run, At
<1>2. PublishingOK("run", r) /\ r \in StartRequest
  BY <1>1, Serves DEF Under, IInv, Requested
<1>3. r.list \in Lists /\ r.mode \in Mode
  BY <1>2 DEF StartRequest
<1>4. ~running /\ instance = BoxFor(r, acceptedIdx) /\ Tagged(r.list)
  BY <1>2 DEF PublishingOK
<1>5. /\ Len(acceptedIdx) \in Nat /\ 1 \in 1 .. Len(acceptedIdx) /\ acceptedIdx[1] = 1
      /\ 1 \in Usable(r.list)
  BY <1>4 DEF Tagged, Listed
<1>6. running' /\ UNCHANGED <<instance, activeTags, acceptedIdx>>
  BY DEF Run, tagVars
<1>7. Visible = Nil
  BY <1>4 DEF Visible
<1> HIDE DEF r
<1>8. Visible' = [list |-> r.list, accepted |-> Usable(r.list), active |-> 1, mode |-> r.mode]
  <2>1. instance.list = r.list /\ instance.mode = r.mode /\ Selected(1)
    BY <1>4 DEF BoxFor, Selected
  <2>2. Shown = [list |-> r.list, accepted |-> Usable(r.list), active |-> 1, mode |-> r.mode]
    BY <1>4, <1>5, <2>1, SeenAs DEF Tagged
  <2>3. Visible' = Shown
    BY <1>6 DEF Visible, Shown, IndexOf
  <2> QED BY <2>2, <2>3
<1>9. Usable(r.list) = Abstract!Accepted(r.list)
  BY DEF Usable, Abstract!Accepted
<1>10. Abstract!CoreStart(r.list, r.mode, 0)
  BY <1>5, <1>7, <1>8, <1>9 DEF Abstract!CoreStart, Abstract!isRunning, Abstract!NewSession,
     Visible, Shown
<1> QED BY <1>3, <1>10

LEMMA LockStops ==
  ASSUME NEW c \in Caller, Lock(c), pc[c] = "stop"
  PROVE  Abstract!CoreStop
<1>1. Visible' = Nil
  BY DEF Lock, Visible
<1> QED BY <1>1 DEF Abstract!CoreStop, Visible, Shown

LEMMA LockSelects ==
  ASSUME IInv, NEW c \in Caller, Lock(c), pc[c] = "select", ~UNCHANGED Visible
  PROVE  \E i \in 1 .. CoreCap : Abstract!CoreSelect(i)
<1>0. PICK i : i = req[c].idx
  OBVIOUS
<1>1. engMu = Nil /\ UNCHANGED <<running, activeTags, acceptedIdx>>
  BY DEF Lock, tagVars
<1>2. ~UNCHANGED instance
  BY <1>1, StaysVisible
<1>3. PICK t \in Selectable(i) : instance' = [instance EXCEPT !.sel = t]
  BY <1>0, <1>2 DEF Lock
<1>4. /\ Whole /\ Len(activeTags) >= 2 /\ instance'.sel = t
      /\ UNCHANGED <<instance.list, instance.mode>>
  BY <1>0, <1>1, <1>3, Swaps
<1>5. PICK p \in 1 .. Len(acceptedIdx) :
        t = TagsFor(Len(acceptedIdx))[p] /\ acceptedIdx[p] = i
  BY <1>0, <1>1, <1>3, Swaps
<1>6. PICK q \in 1 .. Len(acceptedIdx) : Selected(q)
  BY <1>4 DEF Whole, Live
<1>7. /\ Listed(instance.list, acceptedIdx) /\ activeTags = TagsFor(Len(acceptedIdx)) /\ running
      /\ instance.list \in Lists
  BY <1>4 DEF Whole, Live, Tagged, Box
<1>8. i \in Usable(instance.list) /\ i \in 1 .. CoreCap
  <2>1. i \in Usable(instance.list)
    BY <1>5, <1>7 DEF Listed
  <2> QED BY <2>1, <1>7, Constants DEF Usable
<1>9. /\ 1 \in 1 .. Len(acceptedIdx) /\ 2 \in 1 .. Len(acceptedIdx)
      /\ acceptedIdx[1] \in Usable(instance.list) /\ acceptedIdx[2] \in Usable(instance.list)
      /\ acceptedIdx[1] # acceptedIdx[2]
  <2>1. Len(acceptedIdx) \in Nat /\ Len(acceptedIdx) >= 2
    BY <1>4, <1>7 DEF TagsFor, Listed
  <2>2. 1 \in 1 .. Len(acceptedIdx) /\ 2 \in 1 .. Len(acceptedIdx)
    BY <2>1
  <2>3. \A k, m \in 1 .. Len(acceptedIdx) : acceptedIdx[k] = acceptedIdx[m] => k = m
    BY <1>7 DEF Listed, Distinct
  <2>4. acceptedIdx[1] = acceptedIdx[2] => 1 = 2
    BY <2>2, <2>3
  <2>5. acceptedIdx[1] # acceptedIdx[2]
    BY <2>4
  <2>6. acceptedIdx \in Seq(Usable(instance.list))
    BY <1>7 DEF Listed
  <2> QED BY <2>2, <2>5, <2>6
<1>10. /\ Visible = [list |-> instance.list, accepted |-> Usable(instance.list),
                     active |-> acceptedIdx[q], mode |-> instance.mode]
       /\ Visible # Nil
  <2>1. Whole /\ q \in 1 .. Len(acceptedIdx) /\ Selected(q)
    BY <1>4, <1>6
  <2> QED BY <2>1, WholeVisible
<1>11. Visible' = [list |-> instance.list, accepted |-> Usable(instance.list),
                   active |-> i, mode |-> instance.mode]
  <2>1. /\ {acceptedIdx[k] : k \in DOMAIN acceptedIdx} = Usable(instance.list)
    BY <1>7, <1>10 DEF Visible, Shown
  <2>2. IndexOf(instance.sel)' = i
    <3>1. /\ DOMAIN activeTags = 1 .. Len(acceptedIdx) /\ Len(acceptedIdx) \in Nat
          /\ activeTags[p] = t
      BY <1>5, <1>7 DEF TagsFor, Listed
    <3>2. \A k \in 1 .. Len(acceptedIdx) : activeTags[k] = t => k = p
      BY <1>7, <3>1, TagsDiffer
    <3>3. (CHOOSE k \in DOMAIN activeTags : activeTags[k] = t) = p
      BY <3>1, <3>2
    <3> QED BY <1>1, <1>4, <1>5, <3>3 DEF IndexOf
  <2> QED BY <1>1, <1>4, <1>7, <2>1, <2>2 DEF Visible, Shown
<1>12. Visible' = [Visible EXCEPT !.active = i]
  BY <1>10, <1>11
<1>13. Abstract!CanSelect(i)
  BY <1>8, <1>9, <1>10 DEF Abstract!CanSelect, Abstract!isRunning, Visible, Shown
<1>14. Abstract!CoreSelect(i)
  BY <1>12, <1>13 DEF Abstract!CoreSelect, Visible, Shown
<1> QED BY <1>8, <1>14

(* Every step is a step of Core, or changes nothing one can see of a session. *)
LEMMA StepImplements == IInv /\ [Next]_vars => [Abstract!CoreNext]_Visible
<1> SUFFICES ASSUME IInv, [Next]_vars PROVE Abstract!CoreNext \/ UNCHANGED Visible
  OBVIOUS
<1>1. CASE UNCHANGED <<running, instance, activeTags, acceptedIdx>>
  BY <1>1, StaysVisible
<1>2. ASSUME NEW c \in Caller, Enter(c)
      PROVE  UNCHANGED <<running, instance, activeTags, acceptedIdx>>
  BY <1>2 DEF Enter, WrnStart, WrnStop, WrnSelect, Call, sessionVars, tagVars
<1>3. ASSUME NEW c \in Caller, Lock(c) PROVE Abstract!CoreNext \/ UNCHANGED Visible
  <2>1. CASE pc[c] = "start"
    <3>1. UNCHANGED <<running, instance, activeTags, acceptedIdx>>
      BY <1>3, <2>1 DEF Lock, tagVars
    <3> QED BY <3>1, StaysVisible
  <2>2. CASE pc[c] = "stop"
    BY <1>3, <2>2, LockStops DEF Abstract!CoreNext
  <2>3. CASE pc[c] = "select"
    BY <1>3, <2>3, LockSelects DEF Abstract!CoreNext
  <2> QED BY <1>3, <2>1, <2>2, <2>3 DEF Lock
<1>4. ASSUME NEW c \in Caller, Run(c) PROVE Abstract!CoreNext
  BY <1>4, RunStarts DEF Abstract!CoreNext
<1>5. ASSUME NEW c \in Caller, Accept(c) \/ Drop(c) \/ Construct(c) \/ BoxStart(c)
                               \/ StartRelay(c) \/ FailStart(c) \/ NextGen(c)
                               \/ ResetPing(c) \/ ResetSelfTest(c) \/ CloseBox(c)
                               \/ SetActiveTag(c) \/ SwapResetPing(c) \/ Unlock(c)
      PROVE  UNCHANGED <<running, instance, activeTags, acceptedIdx>>
  BY <1>5 DEF KeepsValidating, Accept, Drop, Construct, BoxStart, StartRelay, FailStart, NextGen,
     ResetPing, ResetSelfTest,
     CloseBox, SetActiveTag, SwapResetPing, Unlock, sessionVars, tagVars
<1>6. ASSUME NEW c \in Caller, CommitState(c) \/ SetTags(c) \/ ClearState(c) \/ ClearTags(c)
      PROVE  UNCHANGED Visible
  <2>1. UNCHANGED running
    BY <1>6 DEF CommitState, SetTags, ClearState, ClearTags
  <2>2. pc[c] \in {"commit", "tags", "clear", "tags0"}
    BY <1>6 DEF CommitState, SetTags, ClearState, ClearTags, At
  <2>3. pc[c] \in Working /\ (pc[c] \in Opening \/ pc[c] \in Publishing \/ pc[c] \in Closing
                              \/ pc[c] = "clear")
    BY <2>2 DEF Working, Opening, Publishing, Closing
  <2>4. ~running
    BY <2>3, Serves DEF Under, OpeningOK, PublishingOK, ClosingOK
  <2> QED BY <2>1, <2>4, StaysVisible
<1>7. ASSUME NEW g \in Gen, Loop(g) \/ Test(g)
      PROVE  UNCHANGED <<running, instance, activeTags, acceptedIdx>>
  BY <1>7, LoopsTouchNothing DEF sessionVars, tagVars
<1> QED BY <1>1, <1>2, <1>3, <1>4, <1>5, <1>6, <1>7 DEF Next, Step, vars, sessionVars, tagVars

(* engine.go implements the atomic contract that the bridge builds on: each  *)
(* start, stop and hot-swap takes effect at one instant.                    *)
THEOREM Implements == Spec => ImplementsCore
<1>1. Init => Visible = Nil
  BY DEF Init, Visible
<1>2. Init => Abstract!CoreInit
  BY <1>1 DEF Abstract!CoreInit, Visible, Shown
<1> QED BY <1>2, Inductive, StepImplements, PTL
        DEF Spec, ImplementsCore, Abstract!CoreSpec, Visible, Shown
=============================================================================
