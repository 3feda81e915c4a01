-------------------------- MODULE PreflightProofs ---------------------------
(***************************************************************************)
(* A node shown as being tested is being tested, and no burst under a      *)
(* condition ends with a node that its latest test placed elsewhere: for   *)
(* every pool, any number of tests and bursts of any width.  And of module *)
(* ExitGeo: where a node is said to come out is what most sources say.     *)
(***************************************************************************)
EXTENDS Preflight, SublistProofs, SequenceTheorems

IsProbe(p) == p = [verdict |-> p.verdict, fresh |-> p.fresh, hits |-> p.hits]

(* The stores are functions on the nodes and the tests; nothing on disk     *)
(* claims a test in flight, so a restart brings none back.                  *)
Shapes ==
  /\ probes = [n \in Node |-> probes[n]]
  /\ box = [n \in Node |-> box[n]]
  /\ tasks = [t \in Task |-> tasks[t]]
  /\ \A n \in Node : IsProbe(probes[n]) /\ IsProbe(box[n])
  /\ \A n \in Node : box[n].verdict # "testing"

PInv == Shapes /\ TestingHasTest

Asks(t, n) == t \in Task /\ tasks[t].pc = "asking" /\ tasks[t].node = n

LEMMA InitHolds == Init => PInv
BY DEF Init, PInv, Shapes, TestingHasTest, IsProbe, Untested

(* The verdicts the code writes are records like any other.                 *)
LEMMA Constants ==
  /\ IsProbe(Untested) /\ Untested.verdict = "untested"
  /\ IsProbe(Testing) /\ Testing.verdict = "testing"
  /\ IsProbe(Dead) /\ Dead.verdict = "bad"
BY DEF IsProbe, Untested, Testing, Dead

(* A user's test of a node begins.                                          *)
LEMMA UserTestKeeps ==
  ASSUME PInv, NEW t \in UserTask, NEW n \in Node, NEW quick \in BOOLEAN,
         UserTest(t, n, quick)
  PROVE  PInv'
<1>1. t \in Task BY DEF Task
<1>2. Shapes' BY Constants DEF UserTest, PInv, Shapes
<1>3. TestingHasTest'
  <2> SUFFICES ASSUME NEW m \in Node, probes'[m].verdict = "testing"
               PROVE  \E u \in Task : tasks'[u].pc = "asking" /\ tasks'[u].node = m
    BY DEF TestingHasTest
  <2>1. CASE m = n
    <3>1. tasks'[t] = Begun(n, quick) BY <1>1 DEF UserTest, PInv, Shapes
    <3> QED BY <1>1, <2>1, <3>1 DEF Begun
  <2>2. CASE m # n
    <3>1. probes[m].verdict = "testing" BY <2>2 DEF UserTest, PInv, Shapes
    <3>2. PICK u \in Task : Asks(u, m) BY <3>1 DEF PInv, TestingHasTest, Asks
    <3>3. u # t BY <3>2 DEF Asks, UserTest, NoTask
    <3> QED BY <3>2, <3>3 DEF UserTest, Asks
  <2> QED BY <2>1, <2>2
<1> QED BY <1>2, <1>3 DEF PInv

(* An answer is written over the verdict and ends its own test only.        *)
LEMMA AnswerKeeps ==
  ASSUME PInv, NEW t \in Task, Answer(t)
  PROVE  PInv'
<1>1. PICK p \in Outcome(tasks[t]) : probes' = [probes EXCEPT ![tasks[t].node] = p]
  BY DEF Answer
<1>2. p.verdict # "testing" /\ IsProbe(p) BY Constants DEF Outcome, IsProbe
<1>3. Shapes' BY <1>1, <1>2 DEF Answer, PInv, Shapes
<1>4. TestingHasTest'
  <2> SUFFICES ASSUME NEW m \in Node, probes'[m].verdict = "testing"
               PROVE  \E u \in Task : tasks'[u].pc = "asking" /\ tasks'[u].node = m
    BY DEF TestingHasTest
  <2>1. m # tasks[t].node /\ probes[m].verdict = "testing"
    BY <1>1, <1>2 DEF PInv, Shapes
  <2>2. PICK u \in Task : Asks(u, m) BY <2>1 DEF PInv, TestingHasTest, Asks
  <2>3. u # t BY <2>1, <2>2 DEF Asks
  <2> QED BY <2>2, <2>3 DEF Answer, Asks
<1> QED BY <1>3, <1>4 DEF PInv

(* A burst begins: each of its first candidates is taken by a worker, or is *)
(* being tested by somebody else already.                                   *)
LEMMA BurstStartKeeps ==
  ASSUME PInv, NEW b \in Burst, NEW l \in Lists, NEW accept \in Accept,
         NEW width \in 1 .. Width, BurstStart(b, l, accept, width)
  PROVE  PInv'
<1>1. CASE UNCHANGED <<probes, tasks>>
  BY <1>1 DEF BurstStart, PInv, Shapes, TestingHasTest
<1>2. CASE ~UNCHANGED <<probes, tasks>>
  <2>1. tasks' = [t \in Task |-> IF t \in Worker(b) /\ t[2] <= width /\ t[2] <= Len(l)
                                 THEN Taken(l[t[2]]) ELSE tasks[t]]
    BY <1>2 DEF BurstStart
  <2>2. probes' = [n \in Node |-> IF \E i \in 1 .. width : i <= Len(l) /\ l[i] = n
                                  THEN Testing ELSE probes[n]]
    BY <1>2 DEF BurstStart
  <2>3. \A w \in Worker(b) : tasks[w].pc # "asking"
    BY DEF BurstStart, NoTask
  <2>4. ASSUME NEW m \in Node, NEW u \in Task, Asks(u, m)
        PROVE  tasks'[u].pc = "asking" /\ tasks'[u].node = m
    BY <2>1, <2>3, <2>4 DEF Asks
  <2>5. Shapes' BY <2>1, <2>2, Constants DEF PInv, Shapes, BurstStart
  <2>6. TestingHasTest'
    <3> SUFFICES ASSUME NEW m \in Node, probes'[m].verdict = "testing"
                 PROVE  \E u \in Task : tasks'[u].pc = "asking" /\ tasks'[u].node = m
      BY DEF TestingHasTest
    <3>1. CASE probes[m].verdict = "testing"
      <4>1. PICK u \in Task : Asks(u, m) BY <3>1 DEF PInv, TestingHasTest, Asks
      <4> QED BY <2>4, <4>1
    <3>2. CASE probes[m].verdict # "testing"
      <4>1. PICK i \in 1 .. width : i <= Len(l) /\ l[i] = m BY <2>2, <3>2
      <4>2. <<b, i>> \in Worker(b) /\ <<b, i>> \in Task
        <5>1. i \in 1 .. Width BY PreflightAssumption
        <5> QED BY <5>1 DEF Worker, Task
      <4>3. tasks'[<<b, i>>] = Taken(m) BY <2>1, <4>1, <4>2
      <4>4. Taken(m) = Begun(m, TRUE) BY <3>2 DEF Taken
      <4> QED BY <4>2, <4>3, <4>4 DEF Begun
    <3> QED BY <3>1, <3>2
  <2> QED BY <2>5, <2>6 DEF PInv
<1> QED BY <1>1, <1>2

(* A worker looks at what it has, and may take the next candidate.          *)
LEMMA WorkerLooksKeeps ==
  ASSUME PInv, NEW b \in Burst, NEW w \in Worker(b), WorkerLooks(w)
  PROVE  PInv'
<1> DEFINE next == Head(bursts[w[1]].queue)
<1>1. w \in Task BY DEF Worker, Task
<1>2. tasks[w].pc = "returned" /\ UNCHANGED box BY DEF WorkerLooks
<1>3. \/ probes' = probes /\ tasks' = [tasks EXCEPT ![w] = NoTask]
      \/ /\ probes' = [probes EXCEPT ![next] = Testing]
         /\ tasks' = [tasks EXCEPT ![w] = Taken(next)]
  BY DEF WorkerLooks
<1>4. ASSUME NEW m \in Node, NEW u \in Task, Asks(u, m)
      PROVE  tasks'[u].pc = "asking" /\ tasks'[u].node = m
  <2>1. u # w BY <1>2, <1>4 DEF Asks
  <2> QED BY <1>3, <1>4, <2>1 DEF Asks, PInv, Shapes
<1>5. Shapes' BY <1>2, <1>3, Constants DEF PInv, Shapes
<1>6. TestingHasTest'
  <2> SUFFICES ASSUME NEW m \in Node, probes'[m].verdict = "testing"
               PROVE  \E u \in Task : tasks'[u].pc = "asking" /\ tasks'[u].node = m
    BY DEF TestingHasTest
  <2>1. CASE probes[m].verdict = "testing"
    <3>1. PICK u \in Task : Asks(u, m) BY <2>1 DEF PInv, TestingHasTest, Asks
    <3> QED BY <1>4, <3>1
  <2>2. CASE probes[m].verdict # "testing"
    <3>1. m = next /\ tasks' = [tasks EXCEPT ![w] = Taken(next)]
      BY <1>3, <2>2 DEF PInv, Shapes
    <3>2. tasks'[w] = Begun(m, TRUE) BY <1>1, <2>2, <3>1 DEF Taken, PInv, Shapes
    <3> QED BY <1>1, <3>2 DEF Begun
  <2> QED BY <2>1, <2>2
<1> QED BY <1>5, <1>6 DEF PInv

(* The disk: only what is done is written, and read at a start.             *)
LEMMA DiskKeeps ==
  ASSUME PInv, Disk
  PROVE  PInv'
<1>1. CASE Save
  <2>1. PICK expired \in SUBSET Node :
          box' = [n \in Node |-> IF IsDone(probes[n]) /\ n \notin expired THEN probes[n]
                                 ELSE Untested]
    BY <1>1 DEF Save
  <2>2. \A n \in Node : box'[n].verdict # "testing" BY <2>1, Constants DEF IsDone
  <2> QED BY <1>1, <2>1, <2>2, Constants DEF Save, PInv, Shapes, TestingHasTest
<1>2. CASE Restart
  <2>1. \A n \in Node : FromJson(box[n]) = box[n] BY DEF FromJson, PInv, Shapes
  <2>2. probes' = [n \in Node |-> box[n]] BY <1>2, <2>1 DEF Restart
  <2> QED BY <1>2, <2>2 DEF Restart, PInv, Shapes, TestingHasTest
<1>3. CASE SaveExits /\ UNCHANGED <<storeVars, tasks, bursts>>
  BY <1>3 DEF storeVars, PInv, Shapes, TestingHasTest
<1> QED BY <1>1, <1>2, <1>3 DEF Disk

(* Whatever ages, only the freshness of a verdict changes.                  *)
LEMMA AgeKeeps ==
  ASSUME PInv, NEW n \in Node, Age(n)
  PROVE  PInv'
<1>1. \A m \in Node : /\ IsProbe(probes'[m]) /\ probes'[m].verdict = probes[m].verdict
                     /\ IsProbe(box'[m]) /\ box'[m].verdict = box[m].verdict
  BY DEF Age, Aged, PInv, Shapes, IsProbe
<1> QED BY <1>1 DEF Age, PInv, Shapes, TestingHasTest

(* A mark of death ends the spinner of the node it is about.                *)
LEMMA MarkDeadKeeps ==
  ASSUME PInv, NEW n \in Node, MarkDead(n)
  PROVE  PInv'
<1>1. Shapes' BY Constants DEF MarkDead, PInv, Shapes
<1>2. TestingHasTest' BY Constants DEF MarkDead, PInv, Shapes, TestingHasTest
<1> QED BY <1>1, <1>2 DEF PInv

(* PInv is inductive.                                                       *)
LEMMA NextKeeps ==
  ASSUME PInv, [Next]_vars
  PROVE  PInv'
<1>1. ASSUME NEW t \in UserTask, NEW n \in Node, NEW quick \in BOOLEAN, UserTest(t, n, quick)
      PROVE  PInv'
  BY <1>1, UserTestKeeps
<1>2. ASSUME NEW t \in Task, Answer(t) PROVE PInv'
  BY <1>2, AnswerKeeps
<1>3. ASSUME NEW b \in Burst, NEW l \in Lists, NEW accept \in Accept,
              NEW width \in 1 .. Width, BurstStart(b, l, accept, width)
      PROVE  PInv'
  BY <1>3, BurstStartKeeps
<1>4. ASSUME NEW b \in Burst, Deadline(b) PROVE PInv'
  BY <1>4 DEF Deadline, storeVars, PInv, Shapes, TestingHasTest
<1>5. ASSUME NEW b \in Burst, NEW w \in Worker(b), WorkerLooks(w) PROVE PInv'
  BY <1>5, WorkerLooksKeeps
<1>6. ASSUME NEW n \in Node, MarkDead(n) PROVE PInv'
  BY <1>6, MarkDeadKeeps
<1>7. ASSUME NEW n \in Node, Age(n) PROVE PInv'
  BY <1>7, AgeKeeps
<1>8. CASE Clear
  BY <1>8, Constants DEF Clear, PInv, Shapes, TestingHasTest
<1>9. CASE Disk
  BY <1>9, DiskKeeps
<1>10. CASE UNCHANGED vars
  BY <1>10 DEF vars, storeVars, PInv, Shapes, TestingHasTest
<1> QED BY <1>1, <1>2, <1>3, <1>4, <1>5, <1>6, <1>7, <1>8, <1>9, <1>10 DEF Next, Live

(* Whoever waits for the tests to end (the inspector's buttons, the idle    *)
(* monitor) waits for tests that exist: through overtaking answers, marks   *)
(* of death, bursts that gave up and restarts.                              *)
THEOREM NoSpinnerLeft == Spec => []TestingHasTest
<1>1. Init => PInv BY InitHolds
<1>2. PInv /\ [Next]_vars => PInv' BY NextKeeps
<1>3. PInv => TestingHasTest BY DEF PInv
<1> QED BY <1>1, <1>2, <1>3, PTL DEF Spec

-----------------------------------------------------------------------------
(* Bursts.  One that races has no winner yet and has nodes to go.           *)
Conditions == {"any", "notElsewhere", "confirmed"}

BurstRecord(p, q, l, a, r, e) ==
  [pc |-> p, queue |-> q, all |-> l, accept |-> a, result |-> r, exhausted |-> e]

BurstOK(o) ==
  /\ o = BurstRecord(o.pc, o.queue, o.all, o.accept, o.result, o.exhausted)
  /\ o.pc = "racing" => o.result = None
  /\ o.accept \in Conditions
  /\ o.queue \in Seq(Node)

BurstsOK ==
  /\ bursts = [b \in Burst |-> bursts[b]]
  /\ \A b \in Burst : BurstOK(bursts[b])

(* What the store says of a node that its latest test placed elsewhere: the *)
(* same, for a record is dropped only for one of the same country.          *)
Placed ==
  /\ exits = [n \in Node |-> exits[n]]
  /\ \A n \in elsewhere : exits[n] # Unknown /\ exits[n].country # Wanted

IsTest(o) == o = [pc |-> o.pc, node |-> o.node, hits |-> o.hits]

TestsNodes == \A t \in Task : tasks[t].pc # "idle" => IsTest(tasks[t]) /\ tasks[t].node \in Node

WInv == PInv /\ BurstsOK /\ Placed /\ TestsNodes

(* What is true of a node for which a burst may end.                        *)
Fits(o, n) == o.accept # "any" => n \notin elsewhere

(* WinnerNotElsewhere of one burst. *)
FitsStep(b) ==
  bursts'[b].pc = "done" /\ bursts'[b].result # None /\ bursts'[b] # bursts[b] =>
    Fits(bursts[b], bursts[b].result)'

LEMMA WinsFits ==
  ASSUME Placed, NEW o, o.accept \in Conditions, NEW n, Wins(o.accept, n)
  PROVE  Fits(o, n)
<1>1. CASE o.accept = "any"
  BY <1>1 DEF Fits
<1>2. CASE o.accept # "any"
  <2>1. exits[n] = Unknown \/ Confirms(exits[n], Wanted)
    BY <1>2 DEF Wins, Accepts, Conditions
  <2> QED BY <2>1 DEF Placed, Fits, Confirms
<1> QED BY <1>1, <1>2

(* A burst that has its winner, that ends without one, that gives up, whose  *)
(* queue moves on; one that starts with a winner known, one that starts.     *)
WithWinner(o, n) == [o EXCEPT !.pc = "done", !.result = n]
Ended(o) == [o EXCEPT !.pc = "done"]
GivenUp(o) == [o EXCEPT !.pc = "done", !.exhausted = TRUE]
MovedOn(o) == [o EXCEPT !.queue = Tail(o.queue)]
Known(a, l, n) == [NoBurst EXCEPT !.pc = "done", !.accept = a, !.all = l, !.result = n]
Begins(p, e, a, l, q) ==
  [NoBurst EXCEPT !.pc = p, !.exhausted = e, !.accept = a, !.all = l, !.queue = q]

LEMMA Fields ==
  ASSUME NEW p, NEW q \in Seq(Node), NEW l, NEW a \in Conditions, NEW r, NEW e
  PROVE  LET o == BurstRecord(p, q, l, a, r, e)
         IN  /\ o.pc = p /\ o.result = r /\ o.accept = a
             /\ (p = "racing" => r = None) => BurstOK(o)
BY DEF BurstRecord, BurstOK

LEMMA BurstMoves ==
  ASSUME NEW o, BurstOK(o), NEW n
  PROVE  /\ BurstOK(WithWinner(o, n))
         /\ WithWinner(o, n).accept = o.accept /\ WithWinner(o, n).result = n
         /\ BurstOK(Ended(o)) /\ Ended(o).result = o.result
         /\ BurstOK(GivenUp(o)) /\ GivenUp(o).result = o.result
         /\ o.queue # << >> => BurstOK(MovedOn(o)) /\ MovedOn(o).result = o.result
<1>1. PICK p, q, l, a, r, e :
        o = BurstRecord(p, q, l, a, r, e) /\ q \in Seq(Node) /\ a \in Conditions
  BY DEF BurstOK
<1>2. /\ p = o.pc /\ r = o.result /\ a = o.accept /\ (p = "racing" => r = None)
      /\ q \in Seq(Node) /\ a \in Conditions
  BY <1>1, Fields DEF BurstOK
<1>3. PICK d : d = Ended(o)
  OBVIOUS
<1>4. d = BurstRecord("done", q, l, a, r, e)
  BY <1>1, <1>3 DEF Ended, BurstRecord
<1>5. WithWinner(o, n) = BurstRecord("done", q, l, a, n, e)
  <2>1. [d EXCEPT !.result = n] = BurstRecord("done", q, l, a, n, e)
    BY <1>4 DEF BurstRecord
  <2>2. WithWinner(o, n) = [Ended(o) EXCEPT !.result = n]
    BY DEF WithWinner, Ended
  <2> QED BY <1>3, <2>1, <2>2
<1>6. PICK yes : GivenUp(o) = BurstRecord("done", q, l, a, r, yes)
  <2>1. PICK yes : yes = TRUE
    OBVIOUS
  <2>2. [d EXCEPT !.exhausted = yes] = BurstRecord("done", q, l, a, r, yes)
    BY <1>4 DEF BurstRecord
  <2>3. GivenUp(o) = [Ended(o) EXCEPT !.exhausted = TRUE]
    BY DEF GivenUp, Ended
  <2> QED BY <1>3, <2>1, <2>2, <2>3
<1>7. ASSUME o.queue # << >>
      PROVE  \E rest \in Seq(Node) : MovedOn(o) = BurstRecord(p, rest, l, a, r, e)
  <2>0. o.queue \in Seq(Node)
    BY DEF BurstOK
  <2>1. PICK rest : rest = Tail(o.queue)
    OBVIOUS
  <2>4. rest \in Seq(Node)
    BY <1>7, <2>0, <2>1
  <2>2. [o EXCEPT !.queue = rest] = BurstRecord(p, rest, l, a, r, e)
    BY <1>1 DEF BurstRecord
  <2>3. MovedOn(o) = [o EXCEPT !.queue = rest]
    BY <2>1 DEF MovedOn
  <2> QED BY <2>2, <2>3, <2>4
<1>8. BurstOK(WithWinner(o, n)) /\ WithWinner(o, n).accept = o.accept /\ WithWinner(o, n).result = n
  BY <1>2, <1>5, Fields
<1>9. BurstOK(Ended(o)) /\ Ended(o).result = o.result
  BY <1>2, <1>3, <1>4, Fields
<1>10. BurstOK(GivenUp(o)) /\ GivenUp(o).result = o.result
  BY <1>2, <1>6, Fields
<1>11. o.queue # << >> => BurstOK(MovedOn(o)) /\ MovedOn(o).result = o.result
  BY <1>2, <1>7, Fields
<1> QED BY <1>8, <1>9, <1>10, <1>11

LEMMA Empty == NoBurst = BurstRecord("idle", << >>, << >>, "any", None, FALSE)
BY DEF NoBurst, BurstRecord

LEMMA KnownOK ==
  ASSUME NEW a \in Conditions, NEW l, NEW n
  PROVE  BurstOK(Known(a, l, n)) /\ Known(a, l, n).accept = a /\ Known(a, l, n).result = n
<1>1. PICK o : o = NoBurst OBVIOUS
<1>2. PICK o1 : o1 = [o EXCEPT !.pc = "done"] OBVIOUS
<1>3. PICK o2 : o2 = [o1 EXCEPT !.accept = a] OBVIOUS
<1>4. PICK o3 : o3 = [o2 EXCEPT !.all = l] OBVIOUS
<1>5. o1 = BurstRecord("done", << >>, << >>, "any", None, FALSE)
  BY <1>1, <1>2, Empty DEF BurstRecord
<1>6. o2 = BurstRecord("done", << >>, << >>, a, None, FALSE)
  BY <1>3, <1>5 DEF BurstRecord
<1>7. o3 = BurstRecord("done", << >>, l, a, None, FALSE)
  BY <1>4, <1>6 DEF BurstRecord
<1>8. PICK q, r, e : o3 = BurstRecord("done", q, l, a, r, e) /\ q \in Seq(Node)
  <2>1. PICK q : q = << >>
    OBVIOUS
  <2>2. PICK r, e : r = None /\ e = FALSE
    OBVIOUS
  <2>3. o3 = BurstRecord("done", q, l, a, r, e)
    BY <1>7, <2>1, <2>2
  <2>4. q \in Seq(Node)
    BY <2>1
  <2> QED BY <2>3, <2>4
<1>9. [o3 EXCEPT !.result = n] = BurstRecord("done", q, l, a, n, e)
  BY <1>8 DEF BurstRecord
<1>10. Known(a, l, n)
        = [[[[NoBurst EXCEPT !.pc = "done"] EXCEPT !.accept = a] EXCEPT !.all = l] EXCEPT !.result = n]
  BY DEF Known
<1>11. Known(a, l, n) = BurstRecord("done", q, l, a, n, e)
  BY <1>1, <1>2, <1>3, <1>4, <1>9, <1>10
<1> QED BY <1>8, <1>11, Fields

LEMMA BeginsOK ==
  ASSUME NEW p, NEW e, NEW a \in Conditions, NEW l, NEW q \in Seq(Node)
  PROVE  BurstOK(Begins(p, e, a, l, q)) /\ Begins(p, e, a, l, q).result = None
<1>1. PICK o : o = NoBurst OBVIOUS
<1>2. PICK o1 : o1 = [o EXCEPT !.pc = p] OBVIOUS
<1>3. PICK o2 : o2 = [o1 EXCEPT !.exhausted = e] OBVIOUS
<1>4. PICK o3 : o3 = [o2 EXCEPT !.accept = a] OBVIOUS
<1>5. PICK o4 : o4 = [o3 EXCEPT !.all = l] OBVIOUS
<1>6. o1 = BurstRecord(p, << >>, << >>, "any", None, FALSE)
  BY <1>1, <1>2, Empty DEF BurstRecord
<1>7. o2 = BurstRecord(p, << >>, << >>, "any", None, e)
  BY <1>3, <1>6 DEF BurstRecord
<1>8. o3 = BurstRecord(p, << >>, << >>, a, None, e)
  BY <1>4, <1>7 DEF BurstRecord
<1>9. o4 = BurstRecord(p, << >>, l, a, None, e)
  BY <1>5, <1>8 DEF BurstRecord
<1>10. [o4 EXCEPT !.queue = q] = BurstRecord(p, q, l, a, None, e)
  BY <1>9 DEF BurstRecord
<1>11. Begins(p, e, a, l, q)
        = [[[[[NoBurst EXCEPT !.pc = p] EXCEPT !.exhausted = e] EXCEPT !.accept = a] EXCEPT !.all = l]
             EXCEPT !.queue = q]
  BY DEF Begins
<1>12. Begins(p, e, a, l, q) = BurstRecord(p, q, l, a, None, e)
  BY <1>1, <1>2, <1>3, <1>4, <1>5, <1>10, <1>11
<1> QED BY <1>12, Fields

LEMMA EmptyBurst ==
  BurstOK(NoBurst) /\ NoBurst.pc = "idle" /\ NoBurst.result = None
<1>1. PICK q, a, e : /\ NoBurst = BurstRecord("idle", q, q, a, None, e)
                     /\ q \in Seq(Node) /\ a \in Conditions
  <2>1. << >> \in Seq(Node) /\ "any" \in Conditions
    BY DEF Conditions
  <2> QED BY <2>1, Empty
<1> QED BY <1>1, Fields

(* One burst moves on, with a winner that fits or with none.                *)
LEMMA OneBurst ==
  ASSUME BurstsOK, NEW b \in Burst, NEW o, BurstOK(o), bursts' = [bursts EXCEPT ![b] = o],
         o.result # None => UNCHANGED elsewhere /\ Fits(o, o.result)
  PROVE  BurstsOK' /\ \A c \in Burst : FitsStep(c)
<1>1. bursts'[b] = o /\ \A c \in Burst : c # b => bursts'[c] = bursts[c]
  BY DEF BurstsOK
<1>2. BurstsOK'
  BY <1>1 DEF BurstsOK
<1>3. FitsStep(b)
  BY <1>1 DEF FitsStep, Fits
<1> QED BY <1>1, <1>2, <1>3 DEF FitsStep

LEMMA BurstStartFits ==
  ASSUME BurstsOK, Placed, NEW b \in Burst, NEW l \in Lists, NEW accept \in Accept,
         NEW width \in 1 .. Width, BurstStart(b, l, accept, width)
  PROVE  BurstsOK' /\ \A c \in Burst : FitsStep(c)
<1>1. CASE KnownGood(l, accept) # {}
  <2> DEFINE i == FirstKnown(l, accept)
             o == Known(accept, l, l[i])
  <2>1. bursts' = [bursts EXCEPT ![b] = o] /\ UNCHANGED elsewhere
    BY <1>1 DEF BurstStart, Known
  <2>2. i \in KnownGood(l, accept)
    <3>1. KnownGood(l, accept) \subseteq Nat
      BY PreflightAssumption DEF KnownGood
    <3> QED BY <1>1, <3>1, Least DEF FirstKnown
  <2>3. Wins(accept, l[i]) /\ accept \in Conditions
    BY <2>2, PreflightAssumption DEF KnownGood, Conditions
  <2>4. BurstOK(o) /\ o.accept = accept /\ o.result = l[i]
    BY <2>3, KnownOK
  <2>5. Fits(o, o.result)
    BY <2>3, <2>4, WinsFits
  <2> QED BY <2>1, <2>4, <2>5, OneBurst
<1>2. CASE KnownGood(l, accept) = {}
  <2> DEFINE o == Begins(IF l = << >> THEN "done" ELSE "racing", l = << >>, accept, l,
                         SubSeq(l, width + 1, Len(l)))
  <2>1. bursts' = [bursts EXCEPT ![b] = o]
    BY <1>2 DEF BurstStart, Begins
  <2>2. accept \in Conditions /\ SubSeq(l, width + 1, Len(l)) \in Seq(Node)
    <3>1. accept \in Conditions /\ l \in Seq(Node)
      BY PreflightAssumption DEF Conditions
    <3>2. \A k \in width + 1 .. Len(l) : l[k] \in Node
      BY <3>1, PreflightAssumption
    <3>3. width + 1 \in Int /\ Len(l) \in Int
      BY <3>1, PreflightAssumption
    <3>4. SubSeq(l, width + 1, Len(l)) \in Seq(Node)
      BY ONLY <3>2, <3>3, SubSeqProperties
    <3> QED BY <3>1, <3>4
  <2>3. BurstOK(o) /\ o.result = None
    <3>1. \A p, e : LET begun == Begins(p, e, accept, l, SubSeq(l, width + 1, Len(l)))
                    IN  BurstOK(begun) /\ begun.result = None
      BY <2>2, BeginsOK
    <3> QED BY <3>1
  <2> QED BY <2>1, <2>3, OneBurst
<1> QED BY <1>1, <1>2

LEMMA WorkerLooksFits ==
  ASSUME BurstsOK, Placed, NEW b \in Burst, NEW w \in Worker(b), WorkerLooks(w)
  PROVE  BurstsOK' /\ \A c \in Burst : FitsStep(c)
<1> DEFINE n == tasks[w].node
           old == bursts[b]
           won == old.pc = "racing" /\ Wins(old.accept, n)
<1>1. w[1] = b
  BY DEF Worker
<1>2. BurstOK(old)
  BY DEF BurstsOK
<1>3. CASE won
  <2> DEFINE o == WithWinner(old, n)
  <2>1. bursts' = [bursts EXCEPT ![b].pc = "done", ![b].result = n]
    BY <1>1, <1>3 DEF WorkerLooks
  <2>2. bursts' = [bursts EXCEPT ![b] = o]
    BY <2>1 DEF BurstsOK, WithWinner
  <2>3. UNCHANGED elsewhere
    BY <1>1, <1>3 DEF WorkerLooks
  <2>4. BurstOK(o) /\ o.accept = old.accept /\ o.result = n
    BY <1>2, BurstMoves
  <2>5. Fits(o, o.result)
    <3>1. o.accept \in Conditions /\ Wins(o.accept, n)
      BY <1>3, <2>4 DEF BurstOK
    <3> HIDE DEF o
    <3> QED BY <2>4, <3>1, WinsFits
  <2> QED BY <2>2, <2>3, <2>4, <2>5, OneBurst
<1>4. CASE ~won
  <2>1. \/ UNCHANGED bursts
        \/ /\ old.pc = "racing" /\ old.queue # << >>
           /\ bursts' = [bursts EXCEPT ![b].queue = Tail(@)]
        \/ old.pc = "racing" /\ bursts' = [bursts EXCEPT ![b].pc = "done", ![b].exhausted = TRUE]
    BY <1>1, <1>4 DEF WorkerLooks
  <2>2. CASE UNCHANGED bursts
    BY <2>2 DEF BurstsOK, FitsStep
  <2>3. CASE /\ old.pc = "racing" /\ old.queue # << >>
             /\ bursts' = [bursts EXCEPT ![b].queue = Tail(@)]
    <3> DEFINE o == MovedOn(old)
    <3>1. bursts' = [bursts EXCEPT ![b] = o]
      BY <2>3 DEF BurstsOK, MovedOn
    <3>2. BurstOK(o) /\ o.result = old.result
      BY <1>2, <2>3, BurstMoves
    <3>3. old.result = None
      BY <1>2, <2>3 DEF BurstOK
    <3> QED BY <3>1, <3>2, <3>3, OneBurst
  <2>4. CASE old.pc = "racing"
             /\ bursts' = [bursts EXCEPT ![b].pc = "done", ![b].exhausted = TRUE]
    <3> DEFINE o == GivenUp(old)
    <3>1. bursts' = [bursts EXCEPT ![b] = o]
      BY <2>4 DEF BurstsOK, GivenUp
    <3>2. BurstOK(o) /\ o.result = old.result
      BY <1>2, <2>4, BurstMoves
    <3>3. old.result = None
      BY <1>2, <2>4 DEF BurstOK
    <3> QED BY <3>1, <3>2, <3>3, OneBurst
  <2> QED BY <2>1, <2>2, <2>3, <2>4
<1> QED BY <1>3, <1>4

LEMMA DeadlineFits ==
  ASSUME BurstsOK, NEW b \in Burst, Deadline(b)
  PROVE  BurstsOK' /\ \A c \in Burst : FitsStep(c)
<1> DEFINE old == bursts[b]
           o == Ended(old)
<1>1. BurstOK(old) /\ old.pc = "racing"
  BY DEF BurstsOK, Deadline
<1>2. bursts' = [bursts EXCEPT ![b] = o]
  BY DEF Deadline, BurstsOK, Ended
<1>3. BurstOK(o) /\ o.result = old.result
  BY <1>1, BurstMoves
<1>4. old.result = None
  BY <1>1 DEF BurstOK
<1> QED BY <1>2, <1>3, <1>4, OneBurst

(* The bursts over every step.                                              *)
LEMMA NextFits ==
  ASSUME BurstsOK, Placed, [Next]_vars
  PROVE  BurstsOK' /\ \A c \in Burst : FitsStep(c)
<1>1. CASE UNCHANGED bursts
  BY <1>1 DEF BurstsOK, FitsStep
<1>2. CASE Restart
  <2>1. bursts' = [b \in Burst |-> NoBurst]
    BY <1>2 DEF Restart
  <2> QED BY <2>1, EmptyBurst DEF BurstsOK, FitsStep
<1>3. ASSUME NEW b \in Burst, NEW w \in Worker(b), WorkerLooks(w)
      PROVE  BurstsOK' /\ \A c \in Burst : FitsStep(c)
  BY <1>3, WorkerLooksFits
<1>4. CASE Clear \/ Save \/ (SaveExits /\ UNCHANGED <<storeVars, tasks, bursts, elsewhere>>)
           \/ UNCHANGED vars
  BY <1>1, <1>4 DEF Clear, Save, vars
<1>5. ASSUME NEW n \in Node, MarkDead(n) \/ Age(n) PROVE UNCHANGED bursts
  BY <1>5 DEF MarkDead, Age
<1>6. ASSUME NEW t \in Task, Answer(t) PROVE UNCHANGED bursts
  BY <1>6 DEF Answer
<1>7. ASSUME NEW t \in UserTask, NEW n \in Node, NEW quick \in BOOLEAN, UserTest(t, n, quick)
      PROVE  UNCHANGED bursts
  BY <1>7 DEF UserTest
<1> QED BY <1>1, <1>2, <1>3, <1>4, <1>5, <1>6, <1>7, BurstStartFits, DeadlineFits
        DEF Next, Live, Disk

(* Only nodes are tested.                                                   *)
LEMMA NextTests ==
  ASSUME WInv, [Next]_vars
  PROVE  TestsNodes'
<1>0. tasks = [t \in Task |-> tasks[t]] /\ TestsNodes
  BY DEF WInv, PInv, Shapes
<1>1. \A n, quick : /\ Begun(n, quick).node = n /\ IsTest(Begun(n, quick))
                   /\ Taken(n).node = n /\ IsTest(Taken(n))
  BY DEF Begun, Taken, IsTest
<1>2. NoTask.pc = "idle"
  BY DEF NoTask
<1>3. CASE UNCHANGED tasks
  BY <1>0, <1>3 DEF TestsNodes
<1>4. ASSUME NEW t \in UserTask, NEW n \in Node, NEW quick \in BOOLEAN, UserTest(t, n, quick)
      PROVE  TestsNodes'
  BY <1>0, <1>1, <1>4 DEF UserTest, TestsNodes
<1>5. ASSUME NEW t \in Task, Answer(t) PROVE TestsNodes'
  <2>1. tasks[t].node \in Node
    BY <1>0, <1>5 DEF Answer, TestsNodes
  <2>2. CASE t \in UserTask
    BY <1>0, <1>2, <1>5, <2>2 DEF Answer, TestsNodes
  <2>3. CASE t \notin UserTask
    <3>1. tasks' = [tasks EXCEPT ![t] = [tasks[t] EXCEPT !.pc = "returned"]]
      BY <1>5, <2>3 DEF Answer
    <3>2. IsTest(tasks[t])
      BY <1>0, <1>5 DEF Answer, TestsNodes
    <3>3. tasks'[t].node = tasks[t].node /\ IsTest(tasks'[t])
      BY <1>0, <3>1, <3>2 DEF IsTest
    <3> QED BY <1>0, <2>1, <3>1, <3>3 DEF TestsNodes
  <2> QED BY <2>2, <2>3
<1>6. ASSUME NEW b \in Burst, NEW l \in Lists, NEW accept \in Accept,
             NEW width \in 1 .. Width, BurstStart(b, l, accept, width)
      PROVE  TestsNodes'
  <2>1. CASE UNCHANGED tasks
    BY <1>3, <2>1
  <2>2. CASE ~UNCHANGED tasks
    <3>1. tasks' = [t \in Task |-> IF t \in Worker(b) /\ t[2] <= width /\ t[2] <= Len(l)
                                   THEN Taken(l[t[2]]) ELSE tasks[t]]
      BY <1>6, <2>2 DEF BurstStart
    <3>2. ASSUME NEW t \in Worker(b), t[2] <= Len(l) PROVE l[t[2]] \in Node
      <4>1. t[2] \in 1 .. Len(l) /\ l \in Seq(Node)
        BY <3>2, PreflightAssumption DEF Worker
      <4> QED BY <4>1
    <3> QED BY <1>0, <1>1, <3>1, <3>2 DEF TestsNodes
  <2> QED BY <2>1, <2>2
<1>7. ASSUME NEW b \in Burst, NEW w \in Worker(b), WorkerLooks(w) PROVE TestsNodes'
  <2> DEFINE queue == bursts[b].queue
             next == Head(queue)
  <2>1. w[1] = b /\ queue \in Seq(Node)
    BY DEF Worker, WInv, BurstsOK, BurstOK
  <2>2. \/ tasks' = [tasks EXCEPT ![w] = NoTask]
        \/ queue # << >> /\ tasks' = [tasks EXCEPT ![w] = Taken(next)]
    BY <1>7, <2>1 DEF WorkerLooks
  <2>3. queue # << >> => next \in Node
    BY <2>1
  <2> HIDE DEF queue, next
  <2> QED BY <1>0, <1>1, <1>2, <2>2, <2>3 DEF TestsNodes
<1>8. ASSUME NEW b \in Burst, Deadline(b) PROVE TestsNodes'
  BY <1>3, <1>8 DEF Deadline
<1>9. ASSUME NEW n \in Node, MarkDead(n) \/ Age(n) PROVE TestsNodes'
  BY <1>3, <1>9 DEF MarkDead, Age
<1>10. CASE Restart
  BY <1>2, <1>10 DEF Restart, TestsNodes
<1>11. CASE Clear \/ Save \/ (SaveExits /\ UNCHANGED <<storeVars, tasks, bursts, elsewhere>>)
            \/ UNCHANGED vars
  BY <1>3, <1>11 DEF Clear, Save, vars
<1> QED BY <1>4, <1>5, <1>6, <1>7, <1>8, <1>9, <1>10, <1>11 DEF Next, Live, Disk

(* The exits of nodes placed elsewhere: an answer records its country, or   *)
(* leaves a richer record that names the same one.                          *)
LEMMA NextPlaced ==
  ASSUME WInv, [Next]_vars
  PROVE  Placed'
<1>1. CASE UNCHANGED <<exits, elsewhere>>
  BY <1>1 DEF WInv, Placed
<1>2. ASSUME NEW t \in Task, Answer(t) PROVE Placed'
  <2> DEFINE n == tasks[t].node
  <2>1. n \in Node
    BY <1>2 DEF Answer, WInv, TestsNodes
  <2>2. CASE UNCHANGED <<exitVars, elsewhere>>
    BY <1>1, <2>2 DEF exitVars
  <2>3. ASSUME NEW ops \in Opinions, Places(n, ops), Record(n, ops) PROVE Placed'
    <3> DEFINE seen == FromOpinions(ops)
    <3> HIDE DEF n, seen
    <3>1. exits' = [exits EXCEPT ![n] = Kept(exits[n], seen)]
      BY <2>3 DEF Record, seen
    <3>2. elsewhere' = IF seen # Unknown /\ seen.country # Wanted THEN elsewhere \cup {n}
                       ELSE elsewhere \ {n}
      BY <2>3 DEF Places, seen
    <3>3. \A m \in Node : exits'[m] = IF m = n THEN Kept(exits[n], seen) ELSE exits[m]
      BY <2>1, <3>1 DEF WInv, Placed
    <3>4. ASSUME seen # Unknown, seen.country # Wanted
          PROVE  Kept(exits[n], seen) # Unknown /\ Kept(exits[n], seen).country # Wanted
      BY <3>4 DEF Kept
    <3>5. exits' = [m \in Node |-> exits'[m]]
      BY <3>1 DEF WInv, Placed
    <3>6. ASSUME NEW m \in elsewhere'
          PROVE  exits'[m] # Unknown /\ exits'[m].country # Wanted
      <4>1. CASE m = n
        BY <2>1, <3>2, <3>3, <3>4, <3>6, <4>1
      <4>2. CASE m # n
        <5>1. m \in elsewhere /\ exits'[m] = exits[m]
          BY <3>1, <3>2, <3>6, <4>2 DEF WInv, Placed
        <5> QED BY <5>1 DEF WInv, Placed
      <4> QED BY <4>1, <4>2
    <3> QED BY <3>5, <3>6 DEF Placed
  <2> QED BY <1>2, <2>2, <2>3 DEF Answer
<1>3. CASE Restart
  BY <1>3 DEF Restart, LoadExits, Placed
<1>4. CASE Clear \/ Save \/ (SaveExits /\ UNCHANGED <<storeVars, tasks, bursts, elsewhere>>)
           \/ UNCHANGED vars
  BY <1>1, <1>4 DEF Clear, Save, SaveExits, vars, exitVars
<1>5. ASSUME NEW n \in Node, MarkDead(n) \/ Age(n) PROVE Placed'
  BY <1>1, <1>5 DEF MarkDead, Age, exitVars
<1>6. ASSUME NEW t \in UserTask, NEW n \in Node, NEW quick \in BOOLEAN, UserTest(t, n, quick)
      PROVE  Placed'
  BY <1>1, <1>6 DEF UserTest, exitVars
<1>7. ASSUME NEW b \in Burst, NEW l \in Lists, NEW accept \in Accept,
             NEW width \in 1 .. Width, BurstStart(b, l, accept, width)
      PROVE  Placed'
  BY <1>1, <1>7 DEF BurstStart, exitVars
<1>8. ASSUME NEW b \in Burst, NEW w \in Worker(b), WorkerLooks(w) PROVE Placed'
  BY <1>1, <1>8 DEF WorkerLooks, exitVars
<1>9. ASSUME NEW b \in Burst, Deadline(b) PROVE Placed'
  BY <1>1, <1>9 DEF Deadline, exitVars
<1> QED BY <1>2, <1>3, <1>4, <1>5, <1>6, <1>7, <1>8, <1>9 DEF Next, Live, Disk

(* Connect and the monitor switch to a burst's winner without another look: *)
(* whatever tests, marks and records of exits came in between, it is none   *)
(* that its latest test placed in another country than the user's.          *)
THEOREM WinnersFit == Spec => WinnerNotElsewhere
<1>1. Init => WInv
  <2> SUFFICES ASSUME Init PROVE WInv
    OBVIOUS
  <2>1. BurstsOK
    BY EmptyBurst DEF Init, BurstsOK
  <2>2. Placed /\ TestsNodes
    BY DEF Init, ExitInit, Placed, TestsNodes, NoTask
  <2> QED BY <2>1, <2>2, InitHolds DEF WInv
<1>2. WInv /\ [Next]_vars => WInv'
  BY NextKeeps, NextFits, NextTests, NextPlaced DEF WInv
<1>3. WInv /\ [Next]_vars =>
        [\A b \in Burst :
           bursts'[b].pc = "done" /\ bursts'[b].result # None /\ bursts'[b] # bursts[b] =>
             (bursts'[b].accept # "any" => bursts'[b].result \notin elsewhere')]_vars
  BY NextFits DEF WInv, FitsStep, Fits
<1> QED BY <1>1, <1>2, <1>3, PTL DEF Spec, WinnerNotElsewhere

-----------------------------------------------------------------------------
(* The exits.  Where a country is named first.                              *)
FirstAt(seen, c) == Min({i \in DOMAIN seen : seen[i] = c})

(* c is ahead of d: by its votes, or by its place.                          *)
Ahead(seen, c, d) ==
  \/ Votes(seen, c) > Votes(seen, d)
  \/ Votes(seen, c) = Votes(seen, d) /\ FirstAt(seen, c) <= FirstAt(seen, d)

(* Opinions that name a country name countries only.                        *)
LEMMA NamedCountries ==
  ASSUME NEW ops \in Seq(Country \cup {NoCountry})
  PROVE  Named(ops) \in Seq(Country)
<1> DEFINE places == {i \in DOMAIN ops : ops[i] # NoCountry}
           V == Country \cup {NoCountry}
<1>1. \A i \in places \cap DOMAIN ops : ops[i] \in Country
  OBVIOUS
<1> HIDE DEF places
<1>2. ops \in Seq(V)
  OBVIOUS
<1> HIDE DEF V
<1>3. Sublist(ops, places) \in Seq(V) /\ Range(Sublist(ops, places)) = {ops[i] : i \in places \cap DOMAIN ops}
  BY <1>2, SublistMembers
<1>4. Range(Sublist(ops, places)) \subseteq Country
  BY <1>1, <1>3
<1> DEFINE s == Sublist(ops, places)
<1>5. s \in [1 .. Len(s) -> Country] /\ Len(s) \in Nat
  <2>1. s = [i \in 1 .. Len(s) |-> s[i]] /\ DOMAIN s = 1 .. Len(s) /\ Len(s) \in Nat
    BY <1>3
  <2>2. \A i \in 1 .. Len(s) : s[i] \in Country
    BY <1>4, <2>1 DEF Range
  <2> HIDE DEF s
  <2> QED BY <2>1, <2>2
<1> HIDE DEF s
<1>6. s \in Seq(Country)
  BY <1>5
<1> QED BY <1>6 DEF s, places, Named

LEMMA VotesCount ==
  ASSUME NEW V, NEW seen \in Seq(V), NEW c
  PROVE  Votes(seen, c) \in Nat
<1> DEFINE S == {i \in DOMAIN seen : seen[i] = c}
<1>1. Len(seen) \in Nat /\ S \subseteq 1 .. Len(seen)
  OBVIOUS
<1>2. IsFiniteSet(1 .. Len(seen))
  BY <1>1, FS_Interval
<1> HIDE DEF S
<1>3. IsFiniteSet(S)
  BY <1>1, <1>2, FS_Subset
<1>4. Cardinality(S) \in Nat
  BY <1>3, FS_CardinalityType
<1> QED BY <1>4 DEF S, Votes

(* The first of a country's places.                                         *)
LEMMA FirstPlace ==
  ASSUME NEW V, NEW seen \in Seq(V), NEW k \in 1 .. Len(seen)
  PROVE  /\ FirstAt(seen, seen[k]) \in 1 .. Len(seen) /\ FirstAt(seen, seen[k]) <= k
         /\ seen[FirstAt(seen, seen[k])] = seen[k]
<1> DEFINE S == {i \in DOMAIN seen : seen[i] = seen[k]}
<1>1. S \in SUBSET Nat /\ k \in S /\ \A i \in S : i \in 1 .. Len(seen) /\ seen[i] = seen[k]
  OBVIOUS
<1> HIDE DEF S
<1>2. Min(S) \in S /\ Min(S) <= k
  BY <1>1, Least
<1>3. Min(S) = FirstAt(seen, seen[k])
  BY DEF S, FirstAt
<1> QED BY <1>1, <1>2, <1>3

(* The running best.                                                        *)
Runs(best, seen) ==
  \A i \in 1 .. Len(seen) :
    best[i] = IF i > 1 /\ Votes(seen, seen[i]) <= Votes(seen, best[i - 1])
              THEN best[i - 1] ELSE seen[i]

LEMMA LeaderRuns ==
  ASSUME NEW V, NEW seen \in Seq(V), seen # << >>
  PROVE  \E best : Runs(best, seen) /\ Leader(seen) = best[Len(seen)]
<1> DEFINE n == Len(seen)
           F(i, v) == IF i > 1 /\ Votes(seen, seen[i]) <= Votes(seen, v) THEN v ELSE seen[i]
           Is(f) == f = [i \in DOMAIN seen |->
                           IF i > 1 /\ Votes(seen, seen[i]) <= Votes(seen, f[i - 1])
                           THEN f[i - 1] ELSE seen[i]]
           step == [z \in (1 .. n) \X V |-> F(z[1], z[2])]
           best == CHOOSE f : Is(f)
<1>1. n \in Nat \ {0} /\ DOMAIN seen = 1 .. n /\ \A i \in 1 .. n : seen[i] \in V
  OBVIOUS
<1>2. ASSUME NEW i \in 1 .. n, NEW v \in V
      PROVE  step[<<i, v>>] = F(i, v) /\ F(i, v) \in V
  <2>1. <<i, v>> \in (1 .. n) \X V /\ <<i, v>>[1] = i /\ <<i, v>>[2] = v
    OBVIOUS
  <2>2. F(i, v) \in V
    BY <1>1
  <2> HIDE DEF F
  <2> QED BY <2>1, <2>2
<1>3. IsStep(n, V, step)
  <2>1. \A z \in (1 .. n) \X V : F(z[1], z[2]) \in V
    BY <1>2
  <2> HIDE DEF F
  <2> QED BY <2>1 DEF IsStep
<1> HIDE DEF step
<1>4. PICK f : Iterated(f, n, V, seen[1], step)
  <2>1. n \in Nat /\ seen[1] \in V
    BY <1>1
  <2> HIDE DEF n
  <2> QED BY <1>3, <2>1, Iterates
<1>5. \A i \in 1 .. n : f[i] = F(i, f[i - 1]) /\ f[i] \in V
  <2>1. ASSUME NEW i \in 1 .. n PROVE f[i] = F(i, f[i - 1]) /\ f[i] \in V
    <3>1. i - 1 \in 0 .. n
      BY <1>1
    <3>2. f[i - 1] \in V /\ f[i] = step[<<i, f[i - 1]>>]
      BY <1>4, <3>1 DEF Iterated
    <3> HIDE DEF F
    <3> QED BY <1>2, <3>2
  <2> QED BY <2>1
<1> DEFINE g == [i \in DOMAIN seen |-> f[i]]
<1>6. Is(g)
  <2> DEFINE G(i) == IF i > 1 /\ Votes(seen, seen[i]) <= Votes(seen, g[i - 1])
                     THEN g[i - 1] ELSE seen[i]
  <2>1. ASSUME NEW i \in DOMAIN seen PROVE f[i] = G(i)
    <3>1. i \in 1 .. n
      BY <1>1
    <3>2. CASE i > 1
      <4>1. i - 1 \in DOMAIN seen
        BY <1>1, <3>1, <3>2
      <4>2. g[i - 1] = f[i - 1]
        BY <4>1
      <4> QED BY <1>5, <3>1, <3>2, <4>2
    <3>3. CASE ~(i > 1)
      BY <1>5, <3>1, <3>3
    <3> QED BY <3>2, <3>3
  <2> HIDE DEF G
  <2>2. g = [i \in DOMAIN seen |-> G(i)]
    BY <2>1
  <2> QED BY <2>2 DEF G
<1>7. Is(best)
  <2> HIDE DEF g
  <2> QED BY <1>6
<1>8. Leader(seen) = best[n]
  BY DEF Leader
<1> HIDE DEF best
<1>9. Runs(best, seen)
  BY <1>1, <1>7 DEF Runs
<1> QED BY <1>8, <1>9

(* The leader is ahead of every country named.                              *)
LEMMA LeaderLeads ==
  ASSUME NEW V, NEW seen \in Seq(V), seen # << >>
  PROVE  /\ \E k \in 1 .. Len(seen) : Leader(seen) = seen[k]
         /\ \A j \in 1 .. Len(seen) : Ahead(seen, Leader(seen), seen[j])
<1> DEFINE n == Len(seen)
<1>1. n \in Nat /\ n \in 1 .. n
  OBVIOUS
<1>2. PICK best : Runs(best, seen) /\ Leader(seen) = best[n]
  BY LeaderRuns
<1> DEFINE Among(i) == \E k \in 1 .. i : best[i] = seen[k]
           Leads(i) == \A j \in 1 .. i : Ahead(seen, best[i], seen[j])
           good == {i \in 0 .. n : i = 0 \/ (Among(i) /\ Leads(i))}
<1>3. 0 \in good
  BY <1>1
<1>4. ASSUME NEW i \in 1 .. n, i - 1 \in good PROVE i \in good
  <2>1. best[i] = IF i > 1 /\ Votes(seen, seen[i]) <= Votes(seen, best[i - 1])
                  THEN best[i - 1] ELSE seen[i]
    BY <1>2 DEF Runs
  <2>2. i \in Nat /\ i > 0 /\ i \in 0 .. n /\ i <= n
    BY <1>1
  <2>3. Ahead(seen, seen[i], seen[i])
    BY <2>2, FirstPlace, VotesCount DEF Ahead
  <2>4. CASE i = 1
    <3>1. best[1] = seen[1]
      BY <2>1, <2>4
    <3>2. Among(1) /\ Leads(1)
      BY <2>3, <2>4, <3>1
    <3> HIDE DEF Among, Leads
    <3> QED BY <2>2, <2>4, <3>2
  <2>5. CASE i > 1
    <3>1. i - 1 # 0 /\ i - 1 \in 1 .. n /\ \A j \in 1 .. i : j \in 1 .. i - 1 \/ j = i
      BY <2>2, <2>5
    <3>2. Among(i - 1) /\ Leads(i - 1)
      <4> HIDE DEF Among, Leads
      <4> QED BY <1>4, <3>1
    <3>3. PICK k \in 1 .. i - 1 : best[i - 1] = seen[k]
      BY <3>2
    <3>4. k \in 1 .. n /\ k < i /\ k \in 1 .. i
      BY <2>2, <3>3
    <3>5. CASE Votes(seen, seen[i]) <= Votes(seen, best[i - 1])
      <4>1. best[i] = best[i - 1]
        BY <2>1, <2>5, <3>5
      <4>2. Ahead(seen, seen[k], seen[i])
        <5>1. CASE FirstAt(seen, seen[i]) = i
          BY <3>3, <3>4, <3>5, <5>1, FirstPlace, VotesCount DEF Ahead
        <5>2. CASE FirstAt(seen, seen[i]) # i
          <6>1. FirstAt(seen, seen[i]) \in 1 .. i - 1 /\ seen[FirstAt(seen, seen[i])] = seen[i]
            BY <2>2, <5>2, FirstPlace
          <6> QED BY <3>2, <3>3, <6>1
        <5> QED BY <5>1, <5>2
      <4>3. Among(i)
        BY <3>3, <3>4, <4>1
      <4>4. Leads(i)
        BY <3>1, <3>2, <3>3, <4>1, <4>2
      <4> HIDE DEF Among, Leads
      <4> QED BY <2>2, <4>3, <4>4
    <3>6. CASE ~(Votes(seen, seen[i]) <= Votes(seen, best[i - 1]))
      <4>1. best[i] = seen[i]
        BY <2>1, <3>6
      <4>2. ASSUME NEW j \in 1 .. i - 1 PROVE Ahead(seen, seen[i], seen[j])
        <5>1. Ahead(seen, best[i - 1], seen[j])
          BY <3>2
        <5>2. Votes(seen, best[i - 1]) >= Votes(seen, seen[j])
          BY <5>1, VotesCount DEF Ahead
        <5>3. Votes(seen, seen[i]) > Votes(seen, seen[j])
          BY <3>6, <5>2, VotesCount
        <5> QED BY <5>3 DEF Ahead
      <4>3. Among(i)
        BY <2>2, <4>1
      <4>4. Leads(i)
        BY <2>3, <3>1, <4>1, <4>2
      <4> HIDE DEF Among, Leads
      <4> QED BY <2>2, <4>3, <4>4
    <3> QED BY <3>5, <3>6
  <2> QED BY <2>2, <2>4, <2>5
<1>5. n \in good
  <2>1. n \in Nat /\ n \in 0 .. n
    BY <1>1
  <2> HIDE DEF good, n
  <2> QED BY <2>1, <1>3, <1>4, Induction
<1> HIDE DEF n
<1>6. n # 0 /\ Among(n) /\ Leads(n)
  BY <1>1, <1>5
<1> QED BY <1>2, <1>6 DEF n

(* Somebody dissents exactly when two answers differ.                       *)
LEMMA Disputes ==
  ASSUME NEW seen \in Seq(Country), seen # << >>
  PROVE  Dissent(seen) = NoCountry <=> \A i, j \in DOMAIN seen : seen[i] = seen[j]
<1> DEFINE others == {i \in DOMAIN seen : seen[i] # Leader(seen)}
<1>1. PICK k \in 1 .. Len(seen) : Leader(seen) = seen[k]
  BY LeaderLeads
<1>2. DOMAIN seen = 1 .. Len(seen) /\ \A i \in DOMAIN seen : seen[i] \in Country
  OBVIOUS
<1>3. CASE others = {}
  <2>1. \A i \in DOMAIN seen : seen[i] = seen[k]
    BY <1>1, <1>3
  <2>2. Dissent(seen) = NoCountry
    BY <1>3 DEF Dissent
  <2> QED BY <2>1, <2>2
<1>4. CASE others # {}
  <2>1. others \in SUBSET Nat
    BY <1>2
  <2>2. Dissent(seen) = seen[Min(others)]
    BY <1>4 DEF Dissent
  <2>3. Min(others) \in others
    <3> HIDE DEF others
    <3> QED BY <1>4, <2>1, Least
  <2>4. Dissent(seen) \in Country /\ Dissent(seen) # seen[k] /\ Min(others) \in DOMAIN seen
    BY <1>1, <1>2, <2>2, <2>3
  <2> QED BY <1>2, <2>2, <2>4, ExitGeoAssumption
<1> QED BY <1>3, <1>4

(* The country shown for a node seen for the first time is the plurality's, *)
(* the earlier named on a draw, and in dispute if and only if two sources   *)
(* named different ones: for any number of sources and countries.           *)
THEOREM CountryIsPlurality == Spec => []PluralityOfFirst
<1>1. ASSUME NEW n \in Node, NEW ops \in [1 .. Sources -> Country \cup {NoCountry}],
             exits[n] = Unknown
      PROVE  LET seen == Named(ops)
                 exit == Kept(exits[n], FromOpinions(ops))
                 First(c) == Min({i \in DOMAIN seen : seen[i] = c})
             IN  IF seen = << >> THEN exit = Unknown
                 ELSE /\ \A i \in DOMAIN seen :
                           \/ Votes(seen, exit.country) > Votes(seen, seen[i])
                           \/ /\ Votes(seen, exit.country) = Votes(seen, seen[i])
                              /\ First(exit.country) <= First(seen[i])
                      /\ exit.disputedWith = NoCountry <=>
                           \A i, j \in DOMAIN seen : seen[i] = seen[j]
  <2> DEFINE seen == Named(ops)
             exit == Kept(exits[n], FromOpinions(ops))
  <2>1. exit = FromOpinions(ops)
    BY <1>1 DEF Kept
  <2>2. seen \in Seq(Country)
    BY NamedCountries, ExitGeoAssumption
  <2>3. CASE seen = << >>
    BY <2>1, <2>3 DEF FromOpinions
  <2>4. CASE seen # << >>
    <3>1. exit.country = Leader(seen) /\ exit.disputedWith = Dissent(seen)
      BY <2>1, <2>4 DEF FromOpinions
    <3> HIDE DEF exit, seen
    <3>2. DOMAIN seen = 1 .. Len(seen)
      BY <2>2
    <3>3. \A i \in DOMAIN seen : Ahead(seen, exit.country, seen[i])
      BY <2>2, <2>4, <3>1, <3>2, LeaderLeads
    <3>4. exit.disputedWith = NoCountry <=> \A i, j \in DOMAIN seen : seen[i] = seen[j]
      BY <2>2, <2>4, <3>1, Disputes
    <3> QED BY <2>4, <3>3, <3>4 DEF Ahead, FirstAt, exit, seen
  <2> QED BY <2>3, <2>4
<1>2. PluralityOfFirst
  BY <1>1 DEF PluralityOfFirst
<1> QED BY <1>2, PTL
=============================================================================
