-------------------------- MODULE CollectRunProofs --------------------------
(* What a run of the collector keeps whatever it meets: the semaphore, the   *)
(* verdicts of the probes, what a failure leaves behind; what becomes of the *)
(* entries of its source, and what the pool it builds says of its nodes.     *)
EXTENDS CollectRun, HarvestProofs

(* What a probe holds at each of its waits. *)
Nothing(p) == ~p.tcp_ok /\ p.rtt = NoRtt

(* A verdict that is right. *)
Verdict(p) ==
  /\ p.heard = "answer" => p.tcp_ok
  /\ p.tcp_ok => p.heard \in {"answer", "late"}
  /\ p.tcp_ok <=> p.rtt # NoRtt

ProbeOK(p) ==
  /\ p \in Probe
  /\ p.pc \in {"queued", "open"} => Nothing(p) /\ p.answered = "pending" /\ p.heard = "nothing"
  /\ p.pc \in {"tls", "raised"} => p.tcp_ok /\ p.rtt # NoRtt /\ p.heard = "answer"
  /\ p.pc \in {"first", "second"} =>
       /\ Nothing(p)
       /\ p.answered = "pending" => p.heard = "nothing"
       /\ p.answered = "yes" => p.heard = IF p.pc = "first" THEN "answer" ELSE "late"
       /\ p.answered = "no" => p.heard = "error"
  /\ p.pc = "done" => Verdict(p)

ProbesOK ==
  /\ probes = [i \in DOMAIN targets |-> probes[i]]
  /\ \A i \in DOMAIN targets : ProbeOK(probes[i])

Holding == {i \in DOMAIN probes : probes[i].pc \in Running}

SlotsOK ==
  /\ IsFiniteSet(Holding)
  /\ slots \in Nat
  /\ slots + Cardinality(Holding) = Concurrency

PInv == ProbesOK /\ SlotsOK

(* What a run has written. *)
Untouched ==
  out = "old" /\ \E w \in Worlds : <<feed, args, seen>> = <<w.feed, w.args, w.seen>>

(* The entries show the lifetimes of the state on disk. *)
Shown ==
  /\ seen.readable
  /\ \A e \in Range(entries) : e.lifetime = LifetimeFor(seen.seen, e.id, Now)

TraceInv ==
  /\ pc # "exit" => code = "running"
  /\ pc \in {"fetch", "resolve", "ping"} \/ code \in {"network", "nothing", "raised"} => Untouched
  /\ pc \in {"write", "writing"} \/ out # "old" => Shown
  /\ pc = "write" => out = "old"

-----------------------------------------------------------------------------
(* The probes. *)

LEMMA QueuedOK == ProbeOK(Queued)
BY DEF ProbeOK, Queued, Probe, Nothing, NoRtt

LEMMA RttKnown == \A rtt \in Rtt : rtt # NoRtt
BY PingAssumption DEF NoRtt

LEMMA Starts ==
  ASSUME NEW ts, PingMany(ts)
  PROVE  PInv'
<1>1. targets' = ts /\ probes' = [i \in DOMAIN ts |-> Queued] /\ slots' = Concurrency
  BY DEF PingMany
<1>2. ProbesOK'
  BY <1>1, QueuedOK DEF ProbesOK
<1>3. Holding' = {}
  BY <1>1 DEF Holding, Queued, Running
<1>4. SlotsOK'
  BY <1>1, <1>3, FS_EmptySet, PingAssumption DEF SlotsOK
<1> QED BY <1>2, <1>4 DEF PInv

(* One probe changes. *)
LEMMA Changes ==
  ASSUME ProbesOK, NEW i \in DOMAIN targets, NEW p, ProbeOK(p),
         probes' = [probes EXCEPT ![i] = p], UNCHANGED targets
  PROVE  ProbesOK'
BY DEF ProbesOK

(* A probe that held a slot still does. *)
LEMMA Holds ==
  ASSUME PInv, NEW i \in DOMAIN targets, NEW p, probes' = [probes EXCEPT ![i] = p],
         (p.pc \in Running) <=> (probes[i].pc \in Running),
         UNCHANGED <<targets, slots>>
  PROVE  SlotsOK'
<1>1. Holding' = Holding
  BY DEF Holding, PInv, ProbesOK
<1> QED BY <1>1 DEF SlotsOK, PInv

(* A probe gives its slot back. *)
LEMMA GivesBack ==
  ASSUME PInv, NEW i \in DOMAIN targets, NEW p, probes' = [probes EXCEPT ![i] = p],
         probes[i].pc \in Running, p.pc \notin Running,
         slots' = slots + 1, UNCHANGED targets
  PROVE  SlotsOK'
<1>1. i \in Holding /\ Holding' = Holding \ {i}
  BY DEF Holding, PInv, ProbesOK
<1>2. IsFiniteSet(Holding') /\ Cardinality(Holding') = Cardinality(Holding) - 1
  BY <1>1, FS_RemoveElement DEF PInv, SlotsOK
<1>3. Cardinality(Holding) \in Nat
  BY FS_CardinalityType DEF PInv, SlotsOK
<1> QED BY <1>2, <1>3, PingAssumption DEF PInv, SlotsOK

LEMMA Acquires ==
  ASSUME PInv, NEW i \in DOMAIN targets, Acquire(i)
  PROVE  PInv'
<1> DEFINE p == [probes[i] EXCEPT !.pc = "open"]
<1>1. /\ probes[i].pc = "queued" /\ slots > 0 /\ slots' = slots - 1
      /\ probes' = [probes EXCEPT ![i] = p] /\ UNCHANGED targets
  BY DEF Acquire
<1>2. ProbeOK(probes[i])
  BY DEF PInv, ProbesOK
<1>3. p.pc = "open" /\ ProbeOK(p)
  BY <1>1, <1>2 DEF ProbeOK, Probe, Nothing, Running
<1> HIDE DEF p
<1>4. i \notin Holding /\ Holding' = Holding \cup {i}
  BY <1>1, <1>3 DEF Holding, Running, PInv, ProbesOK
<1>5. IsFiniteSet(Holding') /\ Cardinality(Holding') = Cardinality(Holding) + 1
  BY <1>4, FS_AddElement DEF PInv, SlotsOK
<1>6. Cardinality(Holding) \in Nat
  BY FS_CardinalityType DEF PInv, SlotsOK
<1>7. SlotsOK'
  BY <1>1, <1>5, <1>6, PingAssumption DEF PInv, SlotsOK
<1> QED BY <1>1, <1>3, <1>7, Changes DEF PInv

(* A probe ends with a verdict that is right. *)
LEMMA EndsRight ==
  ASSUME PInv, NEW i \in DOMAIN targets, NEW result \in Probe, End(i, result),
         probes[i].pc \in Running,
         Verdict(result)
  PROVE  PInv'
<1> DEFINE p == [result EXCEPT !.pc = "done"]
<1>1. probes' = [probes EXCEPT ![i] = p] /\ slots' = slots + 1 /\ UNCHANGED targets
  BY DEF End, Released
<1>2. p.pc = "done" /\ p.pc \notin Running /\ ProbeOK(p)
  BY DEF ProbeOK, Probe, Running, Verdict
<1> HIDE DEF p
<1> QED BY <1>1, <1>2, Changes, GivesBack DEF PInv

LEMMA OpensNot ==
  ASSUME PInv, NEW i \in DOMAIN targets, OpenFails(i)
  PROVE  PInv'
<1>1. ProbeOK(probes[i]) /\ probes[i].pc = "open" /\ End(i, probes[i])
  BY DEF PInv, ProbesOK, OpenFails
<1> QED BY <1>1, EndsRight DEF ProbeOK, Nothing, Running, Verdict

LEMMA Connects ==
  ASSUME PInv, NEW i \in DOMAIN targets, Connected(i)
  PROVE  PInv'
<1>1. PICK rtt \in Rtt :
        LET result == [probes[i] EXCEPT !.tcp_ok = TRUE, !.rtt = rtt, !.heard = "answer"]
        IN  IF targets[i].want_tls
            THEN /\ probes' = [probes EXCEPT ![i] = [result EXCEPT !.pc = "tls"]]
                 /\ UNCHANGED <<targets, slots>>
            ELSE End(i, result)
  BY DEF Connected
<1> DEFINE result == [probes[i] EXCEPT !.tcp_ok = TRUE, !.rtt = rtt, !.heard = "answer"]
           p == [result EXCEPT !.pc = "tls"]
<1>2. ProbeOK(probes[i]) /\ probes[i].pc = "open"
  BY DEF PInv, ProbesOK, Connected
<1>3. /\ result \in Probe /\ result.tcp_ok /\ result.rtt = rtt /\ result.heard = "answer"
  BY <1>2 DEF ProbeOK, Probe
<1>4. rtt # NoRtt
  BY RttKnown
<1> HIDE DEF result
<1>5. p.pc = "tls" /\ ProbeOK(p)
  BY <1>3, <1>4 DEF ProbeOK, Probe, Running
<1>6. CASE targets[i].want_tls
  <2>1. probes' = [probes EXCEPT ![i] = p] /\ UNCHANGED <<targets, slots>>
    BY <1>1, <1>6 DEF result
  <2> HIDE DEF p
  <2> QED BY <1>2, <1>5, <2>1, Changes, Holds DEF PInv, Running
<1>7. CASE ~targets[i].want_tls
  <2>1. End(i, result)
    BY <1>1, <1>7 DEF result
  <2> QED BY <1>2, <1>3, <1>4, <2>1, EndsRight DEF Running, Verdict
<1> QED BY <1>6, <1>7

LEMMA TlsEndsOK ==
  ASSUME PInv, NEW i \in DOMAIN targets, TlsEnds(i)
  PROVE  PInv'
<1>1. PICK ok \in BOOLEAN : End(i, [probes[i] EXCEPT !.tls_ok = ok])
  BY DEF TlsEnds
<1> DEFINE result == [probes[i] EXCEPT !.tls_ok = ok]
<1>2. ProbeOK(probes[i]) /\ probes[i].pc = "tls"
  BY DEF PInv, ProbesOK, TlsEnds
<1>3. result \in Probe /\ result.tcp_ok /\ result.rtt # NoRtt /\ result.heard = "answer"
  BY <1>2 DEF ProbeOK, Probe
<1>4. End(i, result)
  BY <1>1
<1> HIDE DEF result
<1> QED BY <1>2, <1>3, <1>4, EndsRight DEF Running, Verdict

LEMMA TlsRaisesOK ==
  ASSUME PInv, NEW i \in DOMAIN targets, TlsRaises(i)
  PROVE  PInv'
<1> DEFINE p == [probes[i] EXCEPT !.pc = "raised"]
<1>1. /\ probes' = [probes EXCEPT ![i] = p] /\ slots' = slots + 1 /\ UNCHANGED targets
      /\ probes[i].pc = "tls" /\ ProbeOK(probes[i])
  BY DEF TlsRaises, PInv, ProbesOK
<1>2. p.pc = "raised" /\ ProbeOK(p)
  BY <1>1 DEF ProbeOK, Probe
<1> HIDE DEF p
<1> QED BY <1>1, <1>2, Changes, GivesBack DEF PInv, Running

(* A wait begins or goes on. *)
LEMMA Waits ==
  ASSUME PInv, NEW i \in DOMAIN targets, NEW wait \in {"first", "second"}, Send(i, wait),
         probes[i].pc \in {"open", "first"}, probes[i].answered = "pending"
  PROVE  PInv'
<1> DEFINE p == [probes[i] EXCEPT !.pc = wait]
<1>1. probes' = [probes EXCEPT ![i] = p] /\ UNCHANGED <<targets, slots>> /\ ProbeOK(probes[i])
  BY DEF Send, PInv, ProbesOK
<1>2. p.pc = wait /\ ProbeOK(p)
  BY <1>1 DEF ProbeOK, Probe, Nothing, Running
<1> HIDE DEF p
<1> QED BY <1>1, <1>2, Changes, Holds DEF PInv, Running

LEMMA HearsOK ==
  ASSUME PInv, NEW i \in DOMAIN targets,
         NEW what, NEW verdict, <<verdict, what>> \in {<<"yes", "answer">>, <<"no", "error">>},
         Hears(i, what, verdict)
  PROVE  PInv'
<1> DEFINE heard == IF probes[i].heard # "nothing" THEN probes[i].heard
                    ELSE IF what = "answer" /\ probes[i].pc = "second" THEN "late"
                    ELSE what
           p == [probes[i] EXCEPT !.answered = Settled(probes[i].answered, verdict),
                                  !.heard = heard]
<1>1. probes' = [probes EXCEPT ![i] = p] /\ UNCHANGED <<targets, slots>>
  BY DEF Hears
<1>2. ProbeOK(probes[i]) /\ probes[i].pc \in {"first", "second"}
  BY DEF Hears, Waiting, PInv, ProbesOK
<1>3. /\ p \in Probe /\ p.pc = probes[i].pc
      /\ p.tcp_ok = probes[i].tcp_ok /\ p.rtt = probes[i].rtt
      /\ p.answered = Settled(probes[i].answered, verdict)
      /\ p.heard = heard
  BY <1>2 DEF ProbeOK, Probe, Settled
<1> HIDE DEF p
<1>4. ProbeOK(p)
  BY <1>2, <1>3 DEF ProbeOK, Settled, Nothing
<1> QED BY <1>1, <1>2, <1>3, <1>4, Changes, Holds DEF PInv

LEMMA AnsweredOK ==
  ASSUME PInv, NEW i \in DOMAIN targets, Answered(i)
  PROVE  PInv'
<1>1. ProbeOK(probes[i]) /\ probes[i].pc \in {"first", "second"} /\ probes[i].answered # "pending"
  BY DEF Answered, Waiting, PInv, ProbesOK
<1>2. CASE probes[i].answered = "yes"
  <2>1. PICK rtt \in Rtt : End(i, [probes[i] EXCEPT !.tcp_ok = TRUE, !.rtt = rtt])
    BY <1>2 DEF Answered
  <2> DEFINE result == [probes[i] EXCEPT !.tcp_ok = TRUE, !.rtt = rtt]
  <2>2. /\ result \in Probe /\ result.tcp_ok /\ result.rtt = rtt
        /\ result.heard \in {"answer", "late"}
    BY <1>1, <1>2 DEF ProbeOK, Probe
  <2>3. End(i, result)
    BY <2>1
  <2> HIDE DEF result
  <2> QED BY <1>1, <2>2, <2>3, RttKnown, EndsRight DEF Running, Verdict
<1>3. CASE probes[i].answered # "yes"
  <2>1. End(i, probes[i])
    BY <1>3 DEF Answered
  <2>2. probes[i].answered = "no" /\ probes[i] \in Probe
    BY <1>1, <1>3 DEF ProbeOK, Probe
  <2> QED BY <1>1, <2>1, <2>2, EndsRight DEF ProbeOK, Nothing, Running, Verdict
<1> QED BY <1>2, <1>3

LEMMA GivesUp ==
  ASSUME PInv, NEW i \in DOMAIN targets, GiveUp(i)
  PROVE  PInv'
<1>1. ProbeOK(probes[i]) /\ probes[i].pc = "second" /\ End(i, probes[i])
  BY DEF GiveUp, PInv, ProbesOK
<1>2. probes[i].heard # "answer" /\ ~probes[i].tcp_ok /\ probes[i].rtt = NoRtt
  BY <1>1 DEF ProbeOK, Probe, Nothing
<1> QED BY <1>1, <1>2, EndsRight DEF ProbeOK, Running, Verdict

LEMMA PingSteps ==
  ASSUME PInv, PingNext
  PROVE  PInv'
<1>1. PICK i \in DOMAIN targets : Proceeds(i) \/ DatagramReceived(i) \/ ErrorReceived(i)
  BY DEF PingNext
<1>2. CASE Proceeds(i)
  <2>1. OpenUdp(i) => PInv'
    BY Waits DEF OpenUdp, PInv, ProbesOK, ProbeOK
  <2>2. SendAgain(i) => PInv'
    BY Waits DEF SendAgain
  <2> QED BY <1>2, <2>1, <2>2, Acquires, OpensNot, Connects, TlsEndsOK, TlsRaisesOK, AnsweredOK,
             GivesUp DEF Proceeds
<1>3. CASE DatagramReceived(i)
  BY <1>3, HearsOK DEF DatagramReceived
<1>4. CASE ErrorReceived(i)
  BY <1>4, HearsOK DEF ErrorReceived
<1> QED BY <1>1, <1>2, <1>3, <1>4

-----------------------------------------------------------------------------
LEMMA InitPing == Init => PInv
<1> SUFFICES ASSUME Init PROVE PInv
  OBVIOUS
<1>1. targets = << >> /\ probes = << >> /\ slots = Concurrency
  BY DEF Init, PingInit
<1>2. DOMAIN targets = {} /\ DOMAIN probes = {}
  BY <1>1
<1>3. ProbesOK
  BY <1>1, <1>2 DEF ProbesOK
<1>4. Holding = {}
  BY <1>2 DEF Holding
<1>5. SlotsOK
  BY <1>1, <1>4, FS_EmptySet, PingAssumption DEF SlotsOK
<1> QED BY <1>3, <1>5 DEF PInv

LEMMA NextPing == PInv /\ [Next]_vars => PInv'
<1> SUFFICES ASSUME PInv, [Next]_vars PROVE PInv'
  OBVIOUS
<1>1. CASE UNCHANGED pingVars
  BY <1>1 DEF pingVars, PInv, ProbesOK, SlotsOK, Holding
<1>2. CASE StartPing
  BY <1>2, Starts DEF StartPing
<1>3. CASE PingStep
  BY <1>3, PingSteps DEF PingStep
<1> QED BY <1>1, <1>2, <1>3 DEF Next, Step, vars, FetchRaises, Collect, Resolve, ResolveRaises,
           PingRaises, Build, Refuse, OpenOut, CloseOut, WriteFails, Killed

LEMMA PingInvariance == Spec => []PInv
BY InitPing, NextPing, PTL DEF Spec

(* Every slot of the semaphore is free or held by a probe that runs, for any *)
(* number of candidates and any order in which they end: ping_many.          *)
THEOREM Slots == Spec => []SlotsHeld
<1>1. PInv => SlotsHeld
  BY DEF PInv, SlotsOK, SlotsHeld, Holding
<1> QED BY <1>1, PingInvariance, PTL

(* A node counts as reachable when its server's first word was an answer, be *)
(* it to the second packet and not just as its wait ends, and only then:     *)
(* _probe_one, _quic_probe.                                                  *)
THEOREM Reachable == Spec => []ReachableIfAnswered
<1>1. PInv => ReachableIfAnswered
  BY DEF PInv, ProbesOK, ProbeOK, Verdict, ReachableIfAnswered
<1> QED BY <1>1, PingInvariance, PTL

-----------------------------------------------------------------------------
(* Failures. *)

LEMMA InitTrace == Init => TraceInv
BY DEF Init, TraceInv, Untouched

(* Between a build and the end of its run nobody touches what it shows.      *)
LEMMA ShownStays == ASSUME Shown, UNCHANGED <<seen, entries>> PROVE Shown'
BY DEF Shown

LEMMA BuildTrace ==
  ASSUME TraceInv, Build
  PROVE  TraceInv'
<1>1. pc = "ping" /\ UNCHANGED <<feed, args, out>> /\ code = "running" /\ Untouched
  BY DEF Build, TraceInv
<1>2. PICK observed \in {Observed}, on_disk \in BOOLEAN :
        /\ IF Saved(on_disk) THEN seen' = [readable |-> TRUE, seen |-> observed]
           ELSE UNCHANGED seen
        /\ IF Buildable /\ on_disk
           THEN \E them \in {[k \in 1 .. Cardinality(Alive) |->
                               Entry(Ascending(Alive)[k], observed)]} :
                  /\ entries' = MarkRecommended(them)
                  /\ pc' = "write" /\ UNCHANGED code
           ELSE Exit(IF Buildable THEN "disk" ELSE "raised")
  BY DEF Build
<1>3. CASE Buildable /\ on_disk
  <2>1. seen' = [readable |-> TRUE, seen |-> observed] /\ pc' = "write" /\ code' = code
    BY <1>2, <1>3 DEF Saved
  <2>2. PICK them :
          /\ them = [k \in 1 .. Cardinality(Alive) |-> Entry(Ascending(Alive)[k], observed)]
          /\ entries' = MarkRecommended(them)
    BY <1>2, <1>3
  <2>3. ASSUME NEW e \in Range(entries')
        PROVE  e.lifetime = LifetimeFor(observed, e.id, Now)
    <3>1. PICK k \in 1 .. Cardinality(Alive) :
            \E more : e = Merged(Entry(Ascending(Alive)[k], observed), more)
      BY <2>2 DEF MarkRecommended, Range
    <3>2. PICK i : i = Ascending(Alive)[k]
      OBVIOUS
    <3> DEFINE f == Entry(i, observed)
    <3>3. /\ f.lifetime = LifetimeFor(observed, f.id, Now)
          /\ {"id", "lifetime"} \subseteq DOMAIN f
      BY DEF Entry
    <3>4. PICK more : e = Merged(f, more)
      BY <3>1, <3>2
    <3> HIDE DEF f
    <3>5. e.id = f.id /\ e.lifetime = f.lifetime
      BY <3>3, <3>4, Merges
    <3> QED BY <3>3, <3>5
  <2>4. Shown'
    BY <2>1, <2>3 DEF Shown
  <2> QED BY <1>1, <2>1, <2>4 DEF TraceInv, Untouched
<1>4. CASE ~(Buildable /\ on_disk)
  <2>1. UNCHANGED seen /\ pc' = "exit" /\ code' \in {"disk", "raised"}
    BY <1>2, <1>4 DEF Saved, Exit
  <2> QED BY <1>1, <2>1 DEF TraceInv, Untouched
<1> QED BY <1>3, <1>4

LEMMA NextTrace == TraceInv /\ [Next]_vars => TraceInv'
<1> SUFFICES ASSUME TraceInv, [Next]_vars PROVE TraceInv'
  OBVIOUS
<1>1. CASE UNCHANGED <<pc, code, feed, args, seen, out, entries>>
  BY <1>1 DEF TraceInv, Untouched, Shown
<1>2. ASSUME NEW h \in Hosts, Resolve(h) \/ ResolveRaises(h) PROVE TraceInv'
  BY <1>2 DEF Resolve, ResolveRaises, TraceInv, Untouched, Exit
<1>3. CASE FetchRaises
  BY <1>3 DEF FetchRaises, TraceInv, Untouched, Exit
<1>4. CASE Collect
  <2>1. pc = "fetch" /\ UNCHANGED <<feed, args, seen, out>>
    BY <1>4 DEF Collect
  <2>2. \/ pc' = "exit" /\ code' = "nothing"
        \/ pc' = "resolve" /\ UNCHANGED code
    BY <1>4 DEF Collect, Exit
  <2> QED BY <2>1, <2>2 DEF TraceInv, Untouched
<1>5. CASE StartPing
  BY <1>5 DEF StartPing, TraceInv, Untouched
<1>6. CASE PingRaises
  BY <1>6 DEF PingRaises, TraceInv, Untouched, Exit
<1>7. CASE Build
  BY <1>7, BuildTrace
<1>8. CASE Refuse \/ OpenOut \/ CloseOut \/ WriteFails \/ Killed
  <2>1. UNCHANGED <<feed, args, seen, entries>>
    BY <1>8 DEF Refuse, OpenOut, CloseOut, WriteFails, Killed
  <2>2. \/ pc' = "exit" /\ code' \in {"too few", "disk", "killed"} /\ UNCHANGED out
        \/ pc = "write" /\ pc' = "writing" /\ UNCHANGED code
        \/ pc = "writing" /\ pc' = "exit" /\ code' = "ok"
    BY <1>8 DEF Refuse, OpenOut, CloseOut, WriteFails, Killed, Exit
  <2> QED BY <2>1, <2>2, ShownStays DEF TraceInv
<1>9. CASE PingStep
  BY <1>1, <1>9 DEF PingStep, runVars
<1> QED BY <1>1, <1>2, <1>3, <1>4, <1>5, <1>6, <1>7, <1>8, <1>9 DEF Next, Step, vars, runVars

(* A run that fails before it has a pool has written nothing, and no pool    *)
(* is written, or torn, before the state whose lifetimes it shows: cmd_run   *)
(* and build_pool, whose save comes last.                                    *)
THEOREM LeavesNoTrace == Spec => []NoTraceOfFailure
<1>1. TraceInv => NoTraceOfFailure
  BY DEF TraceInv, Untouched, Shown, NoTraceOfFailure
<1> QED BY <1>1, InitTrace, NextTrace, PTL DEF Spec

-----------------------------------------------------------------------------
(* What a run has read, whom it probes and what it will publish.             *)
FeedOK ==
  /\ feed \in Seq(Range(feed))
  /\ \A d \in Range(feed) : d.entries \in Seq(Range(d.entries))

HarvestOK ==
  \/ pc \in {"fetch", "exit"} /\ code # "nothing" /\ parsed = << >> /\ nodes = << >>
  \/ parsed = Harvested(Docs).nodes /\ nodes = Dedup(parsed)

CandidatesOK ==
  /\ pc \in {"fetch", "resolve"} => candidates = << >>
  /\ candidates \in Seq(Range(parsed))
  /\ DOMAIN targets = DOMAIN candidates
  /\ \A i \in DOMAIN candidates :
       /\ targets[i] = PingTarget(candidates[i])
       /\ candidates[i].host \in DOMAIN dns
       /\ args.allow_private \/ IsPublic(dns[candidates[i].host])

(* An entry is about one candidate: the same in its place, its address and   *)
(* its verdict.                                                              *)
Shows(e, i) ==
  /\ e.node = candidates[i]
  /\ e.resolved_ip = dns[candidates[i].host] /\ e.country = Lookup(e.resolved_ip)
  /\ args.keep_dead \/ (InTime(probes[i]) /\ probes[i].pc = "done")

EntriesOK ==
  /\ pc \in {"fetch", "resolve", "ping"} => entries = << >>
  /\ \A e \in Range(entries) : \E i \in DOMAIN candidates : Shows(e, i)

CInv == FeedOK /\ HarvestOK /\ CandidatesOK /\ EntriesOK

LEMMA InitListed == Init => CInv
<1> SUFFICES ASSUME Init PROVE CInv
  OBVIOUS
<1>1. FeedOK
  BY FeedAssumption DEF Init, FeedOK
<1>2. HarvestOK
  BY DEF Init, HarvestOK
<1>3. CandidatesOK
  BY DEF Init, PingInit, CandidatesOK
<1>4. EntriesOK
  BY DEF Init, EntriesOK, Range
<1> QED BY <1>1, <1>2, <1>3, <1>4 DEF CInv

(* Everything that was parsed comes from a file that was read, and of each   *)
(* key one node is left.                                                     *)
LEMMA ParsedListed ==
  ASSUME FeedOK, parsed = Harvested(Docs).nodes, nodes = Dedup(parsed)
  PROVE  /\ parsed \in Seq(Range(parsed))
         /\ nodes \in Seq(Range(parsed))
         /\ Range(parsed) = UNION {Made(d) : d \in Range(Docs)}
         /\ \A n \in Range(parsed) : \E k \in Range(nodes) : DedupKey(k) = DedupKey(n)
<1> DEFINE docs == Docs
           made == UNION {Made(docs[i]) : i \in DOMAIN docs}
<1>1. docs \in Seq(Range(feed))
  BY FilesRead DEF FeedOK, Docs
<1>2. Lists(Harvested(docs).nodes, made)
  BY <1>1, HarvestYields DEF FeedOK
<1>3. made = UNION {Made(d) : d \in Range(docs)}
  BY DEF Range
<1> HIDE DEF made, docs
<1>4. parsed \in Seq(made) /\ Range(parsed) = made
  BY <1>2 DEF Lists, docs
<1>5. nodes \in Seq(made) /\ \A n \in Range(parsed) : \E k \in Range(nodes) : DedupKey(k) = DedupKey(n)
  BY <1>4, DedupKeeps
<1> QED BY <1>3, <1>4, <1>5 DEF docs

(* Most steps touch none of this.                                            *)
Passes ==
  /\ UNCHANGED <<feed, args, parsed, nodes, dns, candidates, entries, targets, probes>>
  /\ \/ pc' = "exit" /\ code' # "nothing"
     \/ pc = "write" /\ pc' = "writing"
     \/ UNCHANGED <<pc, code>>

LEMMA Pass ==
  ASSUME CInv, Passes
  PROVE  CInv'
<1> USE DEF Passes, CInv
<1>1. FeedOK'
  BY DEF FeedOK
<1>2. HarvestOK'
  BY DEF HarvestOK, Docs
<1>3. CandidatesOK'
  BY DEF CandidatesOK
<1>4. EntriesOK'
  <2>1. pc' \in {"fetch", "resolve", "ping"} => entries' = << >>
    BY DEF EntriesOK
  <2>2. ASSUME NEW e \in Range(entries) PROVE \E i \in DOMAIN candidates : Shows(e, i)'
    BY <2>2 DEF EntriesOK, Shows
  <2> QED BY <2>1, <2>2 DEF EntriesOK
<1> QED BY <1>1, <1>2, <1>3, <1>4

LEMMA CollectListed ==
  ASSUME CInv, Collect
  PROVE  CInv'
<1>1. PICK got : /\ got = Harvested(Docs).nodes
                 /\ parsed' = got /\ nodes' = Dedup(got)
                 /\ pc' = "exit" \/ pc' = "resolve"
  BY DEF Collect, Exit
<1>2. UNCHANGED <<feed, args, dns, candidates, entries, targets, probes>> /\ pc = "fetch"
  BY DEF Collect, pingVars
<1>3. FeedOK'
  BY <1>2 DEF CInv, FeedOK
<1>4. HarvestOK'
  <2>1. Docs' = Docs
    BY <1>2 DEF Docs
  <2> QED BY <1>1, <2>1 DEF HarvestOK
<1>5. candidates = << >> /\ DOMAIN candidates = {} /\ entries = << >>
  BY <1>2 DEF CInv, CandidatesOK, EntriesOK
<1>6. CandidatesOK'
  BY <1>2, <1>5 DEF CInv, CandidatesOK
<1>7. EntriesOK'
  BY <1>2, <1>5 DEF EntriesOK, Range
<1> QED BY <1>3, <1>4, <1>6, <1>7 DEF CInv

LEMMA ResolveListed ==
  ASSUME CInv, NEW h, Resolve(h)
  PROVE  CInv'
<1>1. /\ UNCHANGED <<pc, code, feed, args, parsed, nodes, candidates, entries, targets, probes>>
      /\ pc = "resolve"
  BY DEF Resolve, pingVars
<1>2. FeedOK' /\ HarvestOK'
  BY <1>1 DEF CInv, FeedOK, HarvestOK, Docs
<1>3. candidates = << >> /\ DOMAIN candidates = {} /\ entries = << >>
  BY <1>1 DEF CInv, CandidatesOK, EntriesOK
<1>4. CandidatesOK'
  BY <1>1, <1>3 DEF CInv, CandidatesOK
<1>5. EntriesOK'
  BY <1>1, <1>3 DEF EntriesOK, Range
<1> QED BY <1>2, <1>4, <1>5 DEF CInv

LEMMA StartListed ==
  ASSUME CInv, StartPing
  PROVE  CInv'
<1> DEFINE places == {i \in DOMAIN nodes : args.allow_private \/ IsPublic(dns[nodes[i].host])}
<1>1. PICK them : /\ them = Sublist(nodes, places)
                  /\ candidates' = them
                  /\ PingMany([i \in DOMAIN them |-> PingTarget(them[i])])
  BY DEF StartPing
<1>2. /\ UNCHANGED <<code, feed, args, parsed, nodes, dns, entries>>
      /\ pc = "resolve" /\ pc' = "ping" /\ Hosts \subseteq DOMAIN dns
  BY DEF StartPing
<1>3. FeedOK' /\ HarvestOK' /\ parsed = Harvested(Docs).nodes /\ nodes = Dedup(parsed)
  BY <1>2 DEF CInv, FeedOK, HarvestOK, Docs
<1>4. nodes \in Seq(Range(parsed))
  BY <1>3, ParsedListed DEF CInv
<1>5. them \in Seq(Range(parsed)) /\ Range(them) = {nodes[i] : i \in places \cap DOMAIN nodes}
  BY <1>1, <1>4, SublistMembers
<1>6. ASSUME NEW i \in DOMAIN them
      PROVE  /\ them[i].host \in DOMAIN dns
             /\ args.allow_private \/ IsPublic(dns[them[i].host])
  <2>1. them[i] \in Range(them)
    BY DEF Range
  <2>2. PICK j \in DOMAIN nodes : /\ them[i] = nodes[j]
                                  /\ args.allow_private \/ IsPublic(dns[nodes[j].host])
    BY <1>5, <2>1
  <2>3. nodes[j].host \in Hosts
    BY DEF Hosts, Range
  <2> QED BY <1>2, <2>2, <2>3
<1>7. targets' = [i \in DOMAIN them |-> PingTarget(them[i])]
  BY <1>1 DEF PingMany
<1>8. CandidatesOK'
  BY <1>1, <1>2, <1>5, <1>6, <1>7 DEF CandidatesOK, IsPublic
<1>9. entries' = << >>
  BY <1>2 DEF CInv, EntriesOK
<1>10. EntriesOK'
  BY <1>2, <1>9 DEF EntriesOK, Range
<1> QED BY <1>3, <1>8, <1>10 DEF CInv

LEMMA PingListed ==
  ASSUME CInv, PingStep
  PROVE  CInv'
<1>1. UNCHANGED runVars /\ pc = "ping"
  BY DEF PingStep
<1>2. UNCHANGED targets
  BY DEF PingStep, PingNext, Proceeds, Acquire, OpenFails, Connected, TlsEnds, TlsRaises,
         OpenUdp, Answered, SendAgain, GiveUp, DatagramReceived, ErrorReceived, Hears, Send, End
<1>3. FeedOK' /\ HarvestOK'
  BY <1>1 DEF CInv, FeedOK, HarvestOK, Docs, runVars
<1>4. CandidatesOK'
  BY <1>1, <1>2 DEF CInv, CandidatesOK, runVars
<1>5. EntriesOK'
  BY <1>1 DEF CInv, EntriesOK, runVars, Range
<1> QED BY <1>3, <1>4, <1>5 DEF CInv

LEMMA BuildListed ==
  ASSUME CInv, PInv, Build
  PROVE  CInv'
<1>1. /\ UNCHANGED <<feed, args, parsed, nodes, dns, candidates, targets, probes>>
      /\ pc = "ping" /\ PingDone
  BY DEF Build, pingVars
<1>2. FeedOK' /\ HarvestOK'
  BY <1>1 DEF CInv, FeedOK, HarvestOK, Docs
<1>3. pc' \in {"write", "exit"}
  BY DEF Build, Exit
<1>4. CandidatesOK'
  BY <1>1, <1>3 DEF CInv, CandidatesOK
<1>5. CASE UNCHANGED entries
  <2>1. entries' = << >>
    BY <1>1, <1>5 DEF CInv, EntriesOK
  <2>2. EntriesOK'
    BY <1>3, <2>1 DEF EntriesOK, Range
  <2> QED BY <1>2, <1>4, <2>2 DEF CInv
<1>6. CASE ~UNCHANGED entries
  <2>1. PICK observed, them :
          /\ them = [k \in 1 .. Cardinality(Alive) |-> Entry(Ascending(Alive)[k], observed)]
          /\ entries' = MarkRecommended(them)
    BY <1>6 DEF Build
  <2>2. ASSUME NEW k \in 1 .. Cardinality(Alive)
        PROVE  Ascending(Alive)[k] \in Alive
    <3>1. PICK n \in Nat : DOMAIN candidates = 1 .. n
      BY DEF CInv, CandidatesOK
    <3>2. Alive \subseteq 1 .. n
      BY <3>1 DEF Alive, PInv, ProbesOK, CInv, CandidatesOK
    <3>3. IsFiniteSet(Alive) /\ Alive \in SUBSET Nat
      <4>1. IsFiniteSet(1 .. n) /\ 1 .. n \subseteq Nat
        BY FS_Interval
      <4> QED BY <3>2, <4>1, FS_Subset
    <3>4. Ascending(Alive) \in Seq(Alive) /\ Len(Ascending(Alive)) = Cardinality(Alive)
      BY <3>3, AscendingLists
    <3> QED BY <3>4
  <2>3. ASSUME NEW e \in Range(entries')
        PROVE  \E i \in DOMAIN candidates : Shows(e, i)
    <3>1. PICK k \in 1 .. Cardinality(Alive) :
            \E more : e = Merged(Entry(Ascending(Alive)[k], observed), more)
      BY <2>1 DEF MarkRecommended, Range
    <3>2. PICK more : e = Merged(Entry(Ascending(Alive)[k], observed), more)
      BY <3>1
    <3> DEFINE i == Ascending(Alive)[k]
    <3>3. i \in Alive
      BY <2>2
    <3> HIDE DEF i
    <3> DEFINE f == Entry(i, observed)
    <3>4. /\ f.node = candidates[i] /\ f.resolved_ip = dns[candidates[i].host]
          /\ f.country = Lookup(dns[candidates[i].host])
          /\ {"node", "resolved_ip", "country"} \subseteq DOMAIN f
      BY DEF Entry, OfProbe
    <3> HIDE DEF f
    <3>5. e.node = f.node /\ e.resolved_ip = f.resolved_ip /\ e.country = f.country
      <4>1. e = Merged(f, more)
        BY <3>2 DEF f, i
      <4>2. \A j \in DOMAIN f : e[j] = f[j]
        BY <4>1, Merges
      <4> QED BY <3>4, <4>2
    <3>6. i \in DOMAIN candidates /\ probes[i].pc = "done" /\ (InTime(probes[i]) \/ args.keep_dead)
      BY <1>1, <3>3 DEF Alive, PingDone, PInv, ProbesOK, CInv, CandidatesOK
    <3> QED BY <3>4, <3>5, <3>6 DEF Shows
  <2>4. \A e \in Range(entries') : \E i \in DOMAIN candidates' : Shows(e, i)'
    BY <1>1, <2>3 DEF Shows
  <2>5. EntriesOK'
    BY <1>3, <2>4 DEF EntriesOK
  <2> QED BY <1>2, <1>4, <2>5 DEF CInv
<1> QED BY <1>5, <1>6

LEMMA NextListed == PInv /\ CInv /\ [Next]_vars => CInv'
<1> SUFFICES ASSUME PInv, CInv, [Next]_vars PROVE CInv'
  OBVIOUS
<1>1. CASE FetchRaises \/ PingRaises \/ Refuse \/ OpenOut \/ CloseOut \/ WriteFails \/ Killed
           \/ UNCHANGED vars
  <2>1. Passes
    BY <1>1 DEF FetchRaises, PingRaises, Refuse, OpenOut, CloseOut, WriteFails, Killed, Exit, Passes,
                vars, runVars, pingVars
  <2> QED BY <2>1, Pass
<1>2. ASSUME NEW h, ResolveRaises(h) PROVE CInv'
  <2>1. Passes
    BY <1>2 DEF ResolveRaises, Exit, Passes, pingVars
  <2> QED BY <2>1, Pass
<1>3. ASSUME NEW h, Resolve(h) PROVE CInv'
  BY <1>3, ResolveListed
<1> QED BY <1>1, <1>2, <1>3, CollectListed, StartListed, PingListed, BuildListed DEF Next, Step

LEMMA ListsInvariance == Spec => [](PInv /\ CInv)
BY InitPing, NextPing, InitListed, NextListed, PTL DEF Spec

(* Every entry that parses on its own is among the nodes, or one of its key  *)
(* is: for every source, whatever its files hold beside it.                  *)
THEOREM ParsersAreLocal == Spec => []HarvestIsLocal
<1>1. ASSUME CInv, Collected, NEW d \in Range(Docs), NEW e \in Range(d.entries),
             NEW n \in OnItsOwn(d, e)
      PROVE  \E k \in Range(nodes) : DedupKey(k) = DedupKey(n)
  <2>1. parsed = Harvested(Docs).nodes /\ nodes = Dedup(parsed)
    BY <1>1 DEF CInv, HarvestOK, Collected
  <2>2. n \in Made(d)
    BY <1>1, UriMade, ProxyMade DEF OnItsOwn, Uris
  <2>3. n \in Range(parsed)
    BY <1>1, <2>1, <2>2, ParsedListed DEF CInv
  <2> QED BY <1>1, <2>1, <2>3, ParsedListed DEF CInv
<1>2. CInv => HarvestIsLocal
  BY <1>1 DEF HarvestIsLocal
<1> QED BY <1>2, ListsInvariance, PTL

(* What was parsed was parsed from an entry of a file that was read.         *)
LEMMA Origins ==
  ASSUME CInv, NEW n \in Range(parsed)
  PROVE  \E d \in Range(Docs) : \E e \in Range(d.entries) :
           \/ e.type \in SupportedSchemes /\ n \in ParseUri(e)
           \/ ~Uris(d) /\ n \in ParseProxy(e)
<1>1. parsed # << >>
  BY DEF Range
<1>2. parsed = Harvested(Docs).nodes /\ nodes = Dedup(parsed)
  BY <1>1 DEF CInv, HarvestOK
<1>3. PICK d \in Range(Docs) : n \in Made(d)
  BY <1>2, ParsedListed DEF CInv
<1> QED BY <1>3, MadeOf DEF Uris

(* No node is of a transport that sing-box lacks, and none is made up: for   *)
(* every source.                                                             *)
THEOREM OnlyWhatIsSpoken == Spec => []XrayOnlyStaysOut
<1>1. ASSUME CInv, NEW n \in Range(parsed)
      PROVE  \E d \in Range(Docs) : \E e \in Range(d.entries) :
               /\ <<n.host, n.port, n.auth[1]>> = <<e.host, e.port, e.id>>
               /\ ~(Uris(d) /\ e.type \in {"vless", "vmess", "trojan"} /\ NetworkOf(e) \in XrayOnly)
  <2>0. PICK d \in Range(Docs) : \E e \in Range(d.entries) :
          \/ e.type \in SupportedSchemes /\ n \in ParseUri(e)
          \/ ~Uris(d) /\ n \in ParseProxy(e)
    BY <1>1, Origins
  <2>1. PICK e \in Range(d.entries) :
          \/ e.type \in SupportedSchemes /\ n \in ParseUri(e)
          \/ ~Uris(d) /\ n \in ParseProxy(e)
    BY <2>0
  <2>2. Address(n) = Address(e) /\ n.auth[1] = e.id
    BY <2>1, UriYields, ProxyYields DEF Yielded
  <2>3. Spoken \cap XrayOnly = {}
    BY SpokenNames DEF XrayOnly, NoText
  <2> QED BY <2>1, <2>2, <2>3, UriYields DEF Address, NetworkOf
<1>2. CInv => XrayOnlyStaysOut
  BY <1>1 DEF XrayOnlyStaysOut
<1> QED BY <1>2, ListsInvariance, PTL

(* A verdict is about the protocol that the client would speak: for every    *)
(* node of every source.                                                     *)
THEOREM ProbesSpeakAlike == Spec => []ProbeSpeaksOutbound
<1>1. ASSUME CInv, NEW i \in DOMAIN candidates, NEW ob \in BuildOutbound(candidates[i])
      PROVE  LET t == targets[i]
             IN  /\ <<t.host, t.port>> = <<ob.server, ob.server_port>>
                 /\ t.udp <=> ob.type \in {"hysteria2", "tuic"}
                 /\ ~t.udp => (t.want_tls <=> DOMAIN ob.tls # {})
                 /\ DOMAIN ob.obfs = {} => t.obfs = NoText
                 /\ DOMAIN ob.obfs # {} => ob.obfs.password \in {NoText, t.obfs}
  <2> DEFINE n == candidates[i]
  <2>1. n \in Range(parsed) /\ targets[i] = PingTarget(n)
    BY <1>1 DEF CInv, CandidatesOK
  <2>2. n.protocol # "hysteria2" => Plain(n)
    BY <1>1, <2>1, Origins, UriYields, ProxyYields DEF Yielded
  <2> QED BY <1>1, <2>1, <2>2, SpeaksAlike
<1>2. CInv => ProbeSpeaksOutbound
  BY <1>1 DEF ProbeSpeaksOutbound
<1> QED BY <1>2, ListsInvariance, PTL

(* Who is published as alive answered in time himself: for any number of     *)
(* candidates, in whatever order their probes end.                           *)
THEOREM OnlyTheAlive == Spec => []AliveInTime
<1>1. ASSUME PInv, CInv, ~args.keep_dead, NEW e \in Range(entries)
      PROVE  \E i \in DOMAIN probes :
               /\ <<targets[i].host, targets[i].port>> = <<e.node.host, e.node.port>>
               /\ probes[i].heard \in {"answer", "late"} /\ probes[i].rtt \in 0 .. Timeout
  <2>1. PICK i \in DOMAIN candidates : Shows(e, i)
    BY <1>1 DEF CInv, EntriesOK
  <2>2. i \in DOMAIN targets /\ DOMAIN probes = DOMAIN targets /\ ProbeOK(probes[i])
    BY <1>1, <2>1 DEF CInv, CandidatesOK, PInv, ProbesOK
  <2>3. targets[i].host = e.node.host /\ targets[i].port = e.node.port
    BY <1>1, <2>1 DEF Shows, CInv, CandidatesOK, PingTarget
  <2>4. InTime(probes[i]) /\ probes[i].pc = "done"
    BY <1>1, <2>1 DEF Shows
  <2>5. probes[i].heard \in {"answer", "late"}
    BY <2>2, <2>4 DEF ProbeOK, Verdict, InTime
  <2>6. probes[i].rtt \in Nat /\ probes[i].rtt <= Timeout
    BY <2>2, <2>4, PingAssumption DEF ProbeOK, Probe, InTime
  <2> QED BY <2>2, <2>3, <2>5, <2>6, PingAssumption
<1>2. PInv /\ CInv => AliveInTime
  BY <1>1 DEF AliveInTime
<1> QED BY <1>2, ListsInvariance, PTL

(* What is shown of a node's place is what was looked up for its check: for  *)
(* every source and every resolver.                                          *)
THEOREM PlacesAreChecked == Spec => []PublishedPlace
<1>1. ASSUME CInv, NEW e \in Range(entries)
      PROVE  /\ args.allow_private \/ e.resolved_ip \in Global \cup {NoAddress}
             /\ e.country = Lookup(e.resolved_ip)
             /\ e.resolved_ip = dns[e.node.host]
  <2>1. PICK i \in DOMAIN candidates : Shows(e, i)
    BY <1>1 DEF CInv, EntriesOK
  <2> QED BY <1>1, <2>1 DEF Shows, CInv, CandidatesOK, IsPublic
<1>2. CInv => PublishedPlace
  BY <1>1 DEF PublishedPlace
<1> QED BY <1>2, ListsInvariance, PTL
=============================================================================
