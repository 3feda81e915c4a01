------------------------------- MODULE Engine -------------------------------
(***************************************************************************)
(* native/weronity_core/engine.go step by step.  Callers (the UI thread    *)
(* and the helper isolates) start, stop and hot-swap the one engine under  *)
(* engMu; every session leaves behind a latency loop and, in proxy mode, a *)
(* self-test goroutine, which run without that lock and publish into       *)
(* shared fields.  A label stands for the next access to shared state, so  *)
(* a goroutine or another caller may run between any two of them.          *)
(***************************************************************************)
EXTENDS Integers, Sequences, FiniteSets

CONSTANTS
  Node, Mode, Rejected, CoreCap, Lists,   \* as in Core
  Caller,   \* threads that call into the library
  MaxGen,   \* bound: sessions started
  Nil       \* Go's nil

ASSUME EngineAssumption ==
  /\ Rejected \subseteq Node
  /\ CoreCap \in Nat \ {0}
  /\ MaxGen \in Nat
  /\ \A l \in Lists : l \in Seq(Node) /\ l # << >>
  /\ Mode \subseteq {"proxy", "vpn"}
  /\ Nil \notin Caller
  /\ Nil \notin Nat
  /\ Nil \notin [list : Lists, mode : Mode, outs : SUBSET [tag : Nat, node : Node],
                 sel : Nat]
  /\ Nil \notin [list : Lists, accepted : SUBSET Nat, active : Nat, mode : Mode]

VARIABLES
  engMu,        \* the caller holding engMu, or Nil
  pc,           \* where each caller is
  req,          \* the arguments of each caller's call
  running, sessionGen,
  next,         \* startEngine's loop: the candidate it is at,
  cleans,       \* the nodes of the outbounds it has sanitised
  accepted,     \* and their indices in the caller's list
  instance,     \* the box of the session snapshot (stateMu), or Nil
  activeTags,   \* the tags of the session's outbounds (tagsMu),
  acceptedIdx,  \* the list index of each
  activeTag,    \* and the one selected, Nil for ""
  boxes,        \* sing-box instances constructed and not closed
  relays,       \* counting relays listening
  closed,       \* sessions whose stop channel is closed
  pingMs,       \* the published latency: Nil (0) or what it was measured on
  selfTest,     \* the session the published self-test was measured for, 0 none
  pinger,       \* latency loop of each session: its label
  sample,       \* and the node its last measurement went through, Nil if it failed
  tester        \* self-test goroutine of each session: its label

lockVars == <<engMu, pc, req>>
loopVars == <<next, cleans, accepted>>
tagVars == <<activeTags, acceptedIdx, activeTag>>
sessionVars == <<running, sessionGen, instance, tagVars>>
resourceVars == <<boxes, relays, closed>>
probeVars == <<pinger, sample, tester>>
vars == <<lockVars, loopVars, sessionVars, resourceVars, pingMs, selfTest, probeVars>>

Gen == 1 .. MaxGen

(* "proxy", and nodeTag(k) for k > 0.                                       *)
proxyTag == 0
Tag == 0 .. CoreCap

(***************************************************************************)
(* A sing-box instance: its tagged outbounds and what its selector is set  *)
(* to.  Beside it, for the properties, the caller's list and the mode.     *)
(***************************************************************************)
Box == [list : Lists, mode : Mode, outs : SUBSET [tag : Nat, node : Node], sel : Nat]
Request == [list : Lists, mode : Mode] \cup [idx : 1 .. CoreCap + 1] \cup {Nil}

Labels ==
  {"idle", "start", "validate", "boxStart", "relay", "commit", "gen", "tags",
   "ping0", "self0", "run", "stop", "clear", "closeBox", "tags0", "select",
   "setTag", "swapPing0", "unlock"}

TypeOK ==
  /\ engMu \in Caller \cup {Nil}
  /\ pc \in [Caller -> Labels]
  /\ req \in [Caller -> Request]
  /\ running \in BOOLEAN
  /\ sessionGen \in 0 .. MaxGen
  /\ instance \in Box \cup {Nil}
  /\ next \in 1 .. CoreCap + 1 /\ cleans \in Seq(Node) /\ accepted \in Seq(1 .. CoreCap)
  /\ activeTags \in Seq(Tag) /\ acceptedIdx \in Seq(1 .. CoreCap)
  /\ activeTag \in Tag \cup {Nil}
  /\ boxes \in Nat /\ relays \in Nat
  /\ closed \in SUBSET Gen
  /\ pingMs \in Node \cup {Nil} /\ selfTest \in 0 .. MaxGen
  /\ pinger \in [Gen -> {"none", "wait", "measured", "store", "ended"}]
  /\ sample \in [Gen -> Node \cup {Nil}]
  /\ tester \in [Gen -> {"none", "measuring", "store", "ended"}]

Init ==
  /\ engMu = Nil
  /\ pc = [c \in Caller |-> "idle"]
  /\ req = [c \in Caller |-> Nil]
  /\ running = FALSE /\ sessionGen = 0
  /\ next = 1 /\ cleans = << >> /\ accepted = << >>
  /\ instance = Nil
  /\ activeTags = << >> /\ acceptedIdx = << >> /\ activeTag = Nil
  /\ boxes = 0 /\ relays = 0 /\ closed = {}
  /\ pingMs = Nil /\ selfTest = 0
  /\ pinger = [g \in Gen |-> "none"]
  /\ sample = [g \in Gen |-> Nil]
  /\ tester = [g \in Gen |-> "none"]

-----------------------------------------------------------------------------
(* The callers.  A call waits for engMu, works under it and releases it.    *)

Goto(c, label) == pc' = [pc EXCEPT ![c] = label]

At(c, label) == pc[c] = label /\ UNCHANGED <<engMu, req>>

Call(c, label, args) ==
  /\ pc[c] = "idle"
  /\ Goto(c, label)
  /\ req' = [req EXCEPT ![c] = args]
  /\ UNCHANGED <<engMu, loopVars, sessionVars, resourceVars, pingMs, selfTest,
                 probeVars>>

WrnStart(c) == \E l \in Lists, m \in Mode : Call(c, "start", [list |-> l, mode |-> m])
WrnStop(c) == Call(c, "stop", Nil)
WrnSelect(c) == \E i \in 1 .. CoreCap + 1 : Call(c, "select", [idx |-> i])

(* The first tag position of the candidate with the caller's index i.       *)
Position(i) ==
  {p \in DOMAIN acceptedIdx :
     acceptedIdx[p] = i /\ \A q \in DOMAIN acceptedIdx : q < p => acceptedIdx[q] # i}

(***************************************************************************)
(* The tag a hot-swap to index i selects: it needs a selector group, a     *)
(* candidate that was not dropped, and a selector that knows its tag.      *)
(***************************************************************************)
Selectable(i) ==
  IF running /\ instance # Nil /\ Len(activeTags) >= 2
  THEN {activeTags[p] : p \in Position(i)} \cap {o.tag : o \in instance.outs}
  ELSE {}

(***************************************************************************)
(* engMu.Lock, and the first checks under it: a start on a running engine  *)
(* and a stop of a stopped one return at once, as does a hot-swap to a     *)
(* candidate that cannot be selected.                                      *)
(***************************************************************************)
Lock(c) ==
  /\ engMu = Nil
  /\ engMu' = c
  /\ \/ /\ pc[c] = "start"
        /\ Goto(c, IF running THEN "unlock" ELSE "validate")
        /\ UNCHANGED <<running, instance>>
     \/ /\ pc[c] = "stop"
        /\ Goto(c, IF running THEN "clear" ELSE "unlock")
        /\ running' = FALSE
        /\ UNCHANGED instance
     \/ /\ pc[c] = "select"
        /\ \/ /\ \E t \in Selectable(req[c].idx) : instance' = [instance EXCEPT !.sel = t]
              /\ Goto(c, "setTag")
           \/ /\ Selectable(req[c].idx) = {}
              /\ Goto(c, "unlock")
              /\ UNCHANGED instance
        /\ UNCHANGED running
  /\ UNCHANGED <<req, loopVars, sessionGen, tagVars, resourceVars, pingMs, selfTest,
                 probeVars>>

(* A wrong variant: a return path without the unlock.                       *)
UnlockForgotten(c) ==
  /\ pc[c] = "unlock"
  /\ Goto(c, "idle")
  /\ req' = [req EXCEPT ![c] = Nil]
  /\ UNCHANGED <<engMu, loopVars, sessionVars, resourceVars, pingMs, selfTest,
                 probeVars>>

Unlock(c) ==
  /\ pc[c] = "unlock"
  /\ engMu' = Nil
  /\ Goto(c, "idle")
  /\ req' = [req EXCEPT ![c] = Nil]
  /\ UNCHANGED <<loopVars, sessionVars, resourceVars, pingMs, selfTest, probeVars>>

-----------------------------------------------------------------------------
(* startEngine                                                              *)

(* The candidates the loop goes through: the list, cut at the cap.          *)
Looping(c) == next <= Len(req[c].list) /\ next <= CoreCap

KeepsValidating(c) ==
  /\ At(c, "validate")
  /\ Looping(c)
  /\ next' = next + 1
  /\ UNCHANGED <<pc, sessionVars, resourceVars, pingMs, selfTest, probeVars>>

(* A wrong variant: accepted numbers the survivors.                         *)
AcceptRenumbered(c) ==
  /\ KeepsValidating(c)
  /\ req[c].list[next] \notin Rejected
  /\ cleans' = Append(cleans, req[c].list[next])
  /\ accepted' = Append(accepted, Len(cleans) + 1)

(* Sanitising and constructing it succeeded.                                *)
Accept(c) ==
  /\ KeepsValidating(c)
  /\ req[c].list[next] \notin Rejected
  /\ cleans' = Append(cleans, req[c].list[next])
  /\ accepted' = Append(accepted, next)

(* A wrong variant: a refused wanted node is left out like any other.       *)
DropAny(c) ==
  /\ KeepsValidating(c)
  /\ req[c].list[next] \in Rejected
  /\ UNCHANGED <<cleans, accepted>>

(* It was refused: left out, unless it is the wanted node (see FailStart).  *)
Drop(c) ==
  /\ KeepsValidating(c)
  /\ req[c].list[next] \in Rejected
  /\ next # 1
  /\ UNCHANGED <<cleans, accepted>>

(* The tag of each survivor: a single one needs no selector.                *)
tags == [k \in DOMAIN cleans |-> IF Len(cleans) > 1 THEN k ELSE proxyTag]

(* The box built of them, its selector at the default.                      *)
NewBox(c) ==
  [list |-> req[c].list, mode |-> req[c].mode,
   outs |-> {[tag |-> tags[k], node |-> cleans[k]] : k \in DOMAIN cleans},
   sel |-> tags[1]]

(* The configuration was generated and newBox constructed the instance.     *)
Construct(c) ==
  /\ At(c, "validate")
  /\ ~Looping(c)
  /\ sessionGen < MaxGen
  /\ boxes' = boxes + 1
  /\ Goto(c, "boxStart")
  /\ UNCHANGED <<loopVars, sessionVars, relays, closed, pingMs, selfTest,
                 probeVars>>

(* b.Start succeeded; only proxy mode puts a relay in front of it.          *)
BoxStart(c) ==
  /\ At(c, "boxStart")
  /\ Goto(c, IF req[c].mode = "vpn" THEN "commit" ELSE "relay")
  /\ UNCHANGED <<loopVars, sessionVars, resourceVars, pingMs, selfTest, probeVars>>

(* The relay listens, on the wanted port or on a free one.                  *)
StartRelay(c) ==
  /\ At(c, "relay")
  /\ relays' = relays + 1
  /\ Goto(c, "commit")
  /\ UNCHANGED <<loopVars, sessionVars, boxes, closed, pingMs, selfTest, probeVars>>

(* What the deferred function leaves open; the wrong variant never closes.  *)
ReleasedNever(c) == boxes
Released(c) == IF pc[c] = "validate" THEN boxes ELSE boxes - 1

(***************************************************************************)
(* Any step before the commit may return an error or panic inside          *)
(* sing-box; the deferred function closes what this start had acquired.    *)
(***************************************************************************)
FailStart(c) ==
  /\ pc[c] \in {"validate", "boxStart", "relay"}
  /\ UNCHANGED <<engMu, req>>
  /\ boxes' = Released(c)
  /\ next' = 1 /\ cleans' = << >> /\ accepted' = << >>
  /\ Goto(c, "unlock")
  /\ UNCHANGED <<sessionVars, relays, closed, pingMs, selfTest, probeVars>>

CommitState(c) ==
  /\ At(c, "commit")
  /\ instance' = NewBox(c)
  /\ Goto(c, "gen")
  /\ UNCHANGED <<loopVars, running, sessionGen, tagVars, resourceVars, pingMs,
                 selfTest, probeVars>>

NextGen(c) ==
  /\ At(c, "gen")
  /\ sessionGen' = sessionGen + 1
  /\ Goto(c, "tags")
  /\ UNCHANGED <<loopVars, running, instance, tagVars, resourceVars, pingMs,
                 selfTest, probeVars>>

(* The loop's locals go to the session; their last use.                     *)
SetTags(c) ==
  /\ At(c, "tags")
  /\ activeTags' = tags /\ acceptedIdx' = accepted
  /\ activeTag' = tags[1]
  /\ next' = 1 /\ cleans' = << >> /\ accepted' = << >>
  /\ Goto(c, "ping0")
  /\ UNCHANGED <<running, sessionGen, instance, resourceVars, pingMs, selfTest,
                 probeVars>>

ResetPing(c) ==
  /\ At(c, "ping0")
  /\ pingMs' = Nil
  /\ Goto(c, "self0")
  /\ UNCHANGED <<loopVars, sessionVars, resourceVars, selfTest, probeVars>>

ResetSelfTest(c) ==
  /\ At(c, "self0")
  /\ selfTest' = 0
  /\ Goto(c, "run")
  /\ UNCHANGED <<loopVars, sessionVars, resourceVars, pingMs, probeVars>>

(* running.Store(true), then the session's goroutines are spawned.          *)
Run(c) ==
  /\ At(c, "run")
  /\ running' = TRUE
  /\ pinger' = [pinger EXCEPT ![sessionGen] = "wait"]
  /\ tester' = IF req[c].mode = "proxy"
               THEN [tester EXCEPT ![sessionGen] = "measuring"] ELSE tester
  /\ Goto(c, "unlock")
  /\ UNCHANGED <<loopVars, sessionGen, instance, tagVars, resourceVars, pingMs,
                 selfTest, sample>>

-----------------------------------------------------------------------------
(* stopEngine, after running.Store(false)                                   *)

(* A wrong variant: the stop channel stays open.                            *)
ClearStateQuietly(c) ==
  /\ At(c, "clear")
  /\ instance' = Nil
  /\ relays' = IF instance.mode = "proxy" THEN relays - 1 ELSE relays
  /\ Goto(c, "closeBox")
  /\ UNCHANGED <<loopVars, running, sessionGen, tagVars, boxes, closed, pingMs,
                 selfTest, probeVars>>

(* The snapshot is emptied and its stop channel closed.                     *)
ClearState(c) ==
  /\ At(c, "clear")
  /\ instance' = Nil
  /\ closed' = closed \cup {sessionGen}
  /\ relays' = IF instance.mode = "proxy" THEN relays - 1 ELSE relays
  /\ Goto(c, "closeBox")
  /\ UNCHANGED <<loopVars, running, sessionGen, tagVars, boxes, pingMs, selfTest,
                 probeVars>>

CloseBox(c) ==
  /\ At(c, "closeBox")
  /\ boxes' = boxes - 1
  /\ Goto(c, "tags0")
  /\ UNCHANGED <<loopVars, sessionVars, relays, closed, pingMs, selfTest,
                 probeVars>>

(* A wrong variant: the tags outlive their session.                         *)
ClearTagsPartly(c) ==
  /\ At(c, "tags0")
  /\ activeTags' = << >> /\ activeTag' = Nil
  /\ pingMs' = Nil
  /\ Goto(c, "unlock")
  /\ UNCHANGED <<loopVars, running, sessionGen, instance, acceptedIdx, resourceVars,
                 selfTest, probeVars>>

ClearTags(c) ==
  /\ At(c, "tags0")
  /\ activeTags' = << >> /\ acceptedIdx' = << >> /\ activeTag' = Nil
  /\ pingMs' = Nil
  /\ Goto(c, "unlock")
  /\ UNCHANGED <<loopVars, running, sessionGen, instance, resourceVars, selfTest,
                 probeVars>>

-----------------------------------------------------------------------------
(* selectCandidate, after sel.SelectOutbound                                *)

SetActiveTag(c) ==
  /\ At(c, "setTag")
  /\ \E p \in Position(req[c].idx) : activeTag' = activeTags[p]
  /\ Goto(c, "swapPing0")
  /\ UNCHANGED <<loopVars, running, sessionGen, instance, activeTags, acceptedIdx,
                 resourceVars, pingMs, selfTest, probeVars>>

SwapResetPing(c) ==
  /\ At(c, "swapPing0")
  /\ pingMs' = Nil
  /\ Goto(c, "unlock")
  /\ UNCHANGED <<loopVars, sessionVars, resourceVars, selfTest, probeVars>>

-----------------------------------------------------------------------------
(* The goroutines a session leaves behind.                                  *)

(* The node traffic leaves through: the outbound the selector is set to.    *)
ActiveNode == (CHOOSE o \in instance.outs : o.tag = instance.sel).node

Serving(g) == running /\ sessionGen = g

(* measureLatency: a round trip through the node of the moment, or failure. *)
PingMeasure(g) ==
  /\ pinger[g] = "wait"
  /\ pinger' = [pinger EXCEPT ![g] = "measured"]
  /\ \/ sample' = [sample EXCEPT ![g] = Nil]
     \/ /\ sessionGen = g /\ g \notin closed /\ instance # Nil
        /\ sample' = [sample EXCEPT ![g] = ActiveNode]
  /\ UNCHANGED <<lockVars, loopVars, sessionVars, resourceVars, pingMs, selfTest,
                 tester>>

(* The select on the stop channel: "the session ended while measuring".     *)
PingCheck(g) ==
  /\ pinger[g] = "measured"
  /\ pinger' = [pinger EXCEPT ![g] = IF g \in closed THEN "ended" ELSE "store"]
  /\ UNCHANGED <<lockVars, loopVars, sessionVars, resourceVars, pingMs, selfTest,
                 sample, tester>>

PingStore(g) ==
  /\ pinger[g] = "store"
  /\ pingMs' = sample[g]
  /\ pinger' = [pinger EXCEPT ![g] = "wait"]
  /\ sample' = [sample EXCEPT ![g] = Nil]
  /\ UNCHANGED <<lockVars, loopVars, sessionVars, resourceVars, selfTest, tester>>

PingEnd(g) ==
  /\ pinger[g] = "wait" /\ g \in closed
  /\ pinger' = [pinger EXCEPT ![g] = "ended"]
  /\ UNCHANGED <<lockVars, loopVars, sessionVars, resourceVars, pingMs, selfTest,
                 sample, tester>>

(* storeSelfTest first asks whether the session is still the current one ... *)
SelfTestCheck(g) ==
  /\ tester[g] = "measuring"
  /\ tester' = [tester EXCEPT ![g] = IF Serving(g) THEN "store" ELSE "ended"]
  /\ UNCHANGED <<lockVars, loopVars, sessionVars, resourceVars, pingMs, selfTest,
                 pinger, sample>>

(* ... and only then takes selfMu and stores.                               *)
SelfTestStore(g) ==
  /\ tester[g] = "store"
  /\ selfTest' = g
  /\ tester' = [tester EXCEPT ![g] = "ended"]
  /\ UNCHANGED <<lockVars, loopVars, sessionVars, resourceVars, pingMs, pinger,
                 sample>>

-----------------------------------------------------------------------------
Enter(c) == WrnStart(c) \/ WrnStop(c) \/ WrnSelect(c)

Step(c) ==
  \/ Accept(c) \/ Drop(c) \/ Construct(c) \/ BoxStart(c) \/ StartRelay(c) \/ FailStart(c)
  \/ CommitState(c) \/ NextGen(c) \/ SetTags(c) \/ ResetPing(c) \/ ResetSelfTest(c)
  \/ Run(c)
  \/ ClearState(c) \/ CloseBox(c) \/ ClearTags(c)
  \/ SetActiveTag(c) \/ SwapResetPing(c) \/ Unlock(c)

Loop(g) == PingMeasure(g) \/ PingCheck(g) \/ PingStore(g) \/ PingEnd(g)
Test(g) == SelfTestCheck(g) \/ SelfTestStore(g)

Next ==
  \/ \E c \in Caller : Enter(c) \/ Lock(c) \/ Step(c)
  \/ \E g \in Gen : Loop(g) \/ Test(g)

Spec == Init /\ [][Next]_vars

(***************************************************************************)
(* Threads run; engMu is a sync.Mutex, which hands itself to a waiter that *)
(* has starved for a millisecond.  Nobody is obliged to call, and a timer  *)
(* that has fired may be picked before a closed channel only finitely      *)
(* often.                                                                  *)
(***************************************************************************)
FairSpec ==
  /\ Spec
  /\ \A c \in Caller : WF_vars(Step(c)) /\ SF_vars(Lock(c))
  /\ \A g \in Gen : WF_vars(PingCheck(g)) /\ WF_vars(PingStore(g)) /\ SF_vars(PingEnd(g))
  /\ \A g \in Gen : WF_vars(Test(g))

-----------------------------------------------------------------------------
(* Every box and relay ever opened is closed again: whenever no caller is   *)
(* inside the library, exactly the running session's are open, also after   *)
(* a start that failed half-way (the deferred release of startEngine).      *)
NoLeak ==
  engMu = Nil =>
    /\ boxes = IF running THEN 1 ELSE 0
    /\ relays = IF running /\ instance.mode = "proxy" THEN 1 ELSE 0

(* The four separately locked pieces of a session agree whenever engMu is   *)
(* free: running, the snapshot, the tags with their indices, the selector.  *)
SessionAgrees ==
  engMu = Nil =>
    /\ running <=> instance # Nil
    /\ running <=> acceptedIdx # << >>
    /\ Len(activeTags) = Len(acceptedIdx)
    /\ activeTag = IF running THEN instance.sel ELSE Nil
    /\ running =>
         {o.tag : o \in instance.outs} = {activeTags[p] : p \in DOMAIN activeTags}
    /\ running <=> sessionGen > 0 /\ sessionGen \notin closed

(* A hot-swap moves traffic to the node that had the caller's index in the  *)
(* list given to wrnStart, however many candidates before it were dropped:  *)
(* outbounds, tags and indices, gathered in one loop and kept in two        *)
(* places, stay aligned from the start to the swap.                         *)
SwapHonoursIndex ==
  \A c \in Caller :
    pc[c] \in {"setTag", "swapPing0"} => ActiveNode = instance.list[req[c].idx]

(* The caller's index of the candidate whose tag is t.                      *)
IndexOf(t) == acceptedIdx[CHOOSE p \in DOMAIN activeTags : activeTags[p] = t]

(* Detailed steps implement the atomic contract of module Core.             *)
Abstract ==
  INSTANCE Core WITH
    NoSession <- Nil,
    session <- IF ~running THEN Nil
               ELSE [list |-> instance.list,
                     accepted |-> {acceptedIdx[p] : p \in DOMAIN acceptedIdx},
                     active |-> IndexOf(instance.sel),
                     mode |-> instance.mode]

(* startEngine, stopEngine and selectCandidate are linearizable: seen from  *)
(* outside each one takes effect at a single instant.                       *)
ImplementsCore == Abstract!CoreSpec

(* Every call into the library returns, whatever the others do (no lost     *)
(* unlock on any return path of the three functions).                       *)
CallsReturn == \A c \in Caller : (pc[c] # "idle") ~> (pc[c] = "idle")

(* Once its session is over a latency loop ends: close(stop) reaches it     *)
(* wherever it is, so loops do not pile up over reconnects.                 *)
LoopsEnd ==
  \A g \in Gen : (pinger[g] # "none" /\ ~Serving(g)) ~> (pinger[g] = "ended")
=============================================================================
