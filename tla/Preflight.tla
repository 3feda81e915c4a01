----------------------------- MODULE Preflight ------------------------------
(***************************************************************************)
(* PreflightNotifier (app/lib/state/preflight.dart): the verdict of every  *)
(* node, the tests in flight (each a throwaway engine on an isolate of its *)
(* own) and the bursts that race the candidates of a connect or failover.  *)
(* A test is in flight over one await; whatever happens meanwhile, its     *)
(* answer is written over the verdict of that moment.                      *)
(***************************************************************************)
EXTENDS ExitGeo

CONSTANTS
  Service,   \* the targets of a full test besides plain connectivity
  UserTask,  \* concurrent tests of sweeps, buttons and the connect's head start
  Burst,     \* concurrent bursts
  Width,     \* the largest checkConcurrency: the workers of a burst
  Lists,     \* the candidate lists of a burst, best first
  Accept,    \* the conditions a burst may be given
  Wanted,    \* the country the user picked
  None

ASSUME PreflightAssumption ==
  /\ Width \in Nat \ {0}
  /\ \A l \in Lists : l \in Seq(Node) /\ \A i, j \in DOMAIN l : l[i] = l[j] => i = j
  /\ Accept \subseteq {"any", "notElsewhere", "confirmed"}
  /\ Wanted \in Country
  /\ None \notin Node
  /\ UserTask \cap (Burst \X (1 .. Width)) = {}

VARIABLES
  probes,   \* the state of the notifier
  box,      \* its copy in the session box
  saveDue,  \* _saveDebounce runs
  tasks,    \* testRaw, by whoever awaits it
  bursts,
  elsewhere \* nodes whose last test to name a country did not name Wanted:
            \* a record of the past, which no action reads

storeVars == <<probes, box, saveDue>>
vars == <<exitVars, storeVars, tasks, bursts, elsewhere>>

Worker(b) == {b} \X (1 .. Width)
Task == UserTask \cup (Burst \X (1 .. Width))

(***************************************************************************)
(* good: works or slow; bad: blocked, dead or error.  fresh: five minutes. *)
(* hits are the services that answered.                                    *)
(***************************************************************************)
Probe == [verdict : {"untested", "testing", "good", "bad"}, fresh : BOOLEAN,
          hits : SUBSET Service]
Untested == [verdict |-> "untested", fresh |-> FALSE, hits |-> {}]
Testing == [verdict |-> "testing", fresh |-> FALSE, hits |-> {}]
Dead == [verdict |-> "bad", fresh |-> TRUE, hits |-> {}]

IsDone(p) == p.verdict \in {"good", "bad"}

Aged(p) == [verdict |-> p.verdict, fresh |-> FALSE, hits |-> p.hits]

(* "asking" awaits the core; "returned" is a worker about to look.          *)
(* hits: what a good answer may come to say of the services.                *)
Running == [pc : {"asking", "returned"}, node : Node, hits : SUBSET SUBSET Service]
NoTask == [pc |-> "idle"]

NoBurst == [pc |-> "idle", queue |-> << >>, all |-> << >>, accept |-> "any", result |-> None,
            exhausted |-> FALSE]

TypeOK ==
  /\ ExitTypeOK
  /\ probes \in [Node -> Probe] /\ saveDue \in BOOLEAN
  /\ box \in [Node -> {p \in Probe : p.verdict # "testing"}]
  /\ tasks \in [Task -> Running \cup {NoTask}]
  /\ \A b \in Burst : bursts[b].pc \in {"idle", "racing", "done"}
                      /\ bursts[b].result \in Node \cup {None}
  /\ elsewhere \in SUBSET Node

Init ==
  /\ ExitInit
  /\ probes = [n \in Node |-> Untested] /\ box = probes /\ saveDue = FALSE
  /\ tasks = [t \in Task |-> NoTask]
  /\ bursts = [b \in Burst |-> NoBurst]
  /\ elsewhere = {}

-----------------------------------------------------------------------------
(* testRaw up to its await.  A quick test asks no service and will keep     *)
(* what is known of them now.                                               *)
Begun(n, quick) == [pc |-> "asking", node |-> n,
                    hits |-> IF quick THEN {probes[n].hits} ELSE SUBSET Service]

UserTest(t, n, quick) ==
  /\ tasks[t] = NoTask
  /\ probes[n].verdict # "testing"
  /\ tasks' = [tasks EXCEPT ![t] = Begun(n, quick)]
  /\ probes' = [probes EXCEPT ![n] = Testing]
  /\ UNCHANGED <<exitVars, box, saveDue, bursts, elsewhere>>

(* A wrong variant: an answer that cannot be read is dropped.               *)
OutcomeDropped(op) == {Testing, Dead}

(* What the core may have measured.                                         *)
Outcome(op) == {Dead} \cup [verdict : {"good"}, fresh : {TRUE}, hits : op.hits]

(* Where the latest test that named a country placed the node.              *)
Places(n, ops) ==
  LET seen == FromOpinions(ops)
  IN  /\ ops[1] # NoCountry
      /\ elsewhere' = IF seen # Unknown /\ seen.country # Wanted THEN elsewhere \cup {n}
                      ELSE elsewhere \ {n}

(* A wrong variant: a worker does not wait for the exit to be recorded.     *)
AnswerUnrecorded(t) ==
  /\ tasks[t].pc = "asking"
  /\ \E p \in Outcome(tasks[t]) : probes' = [probes EXCEPT ![tasks[t].node] = p]
  /\ \/ UNCHANGED <<exitVars, elsewhere>>
     \/ \E ops \in Opinions :
          /\ Places(tasks[t].node, ops)
          /\ IF t \in UserTask THEN Record(tasks[t].node, ops) ELSE UNCHANGED exitVars
  /\ tasks' = [tasks EXCEPT ![t] = IF t \in UserTask THEN NoTask
                                   ELSE [@ EXCEPT !.pc = "returned"]]
  /\ saveDue' = TRUE
  /\ UNCHANGED <<box, bursts>>

(* testRaw after its await: the exit first, then the verdict.  Without the  *)
(* first source's country the exit is not recorded at all.                  *)
Answer(t) ==
  /\ tasks[t].pc = "asking"
  /\ \E p \in Outcome(tasks[t]) : probes' = [probes EXCEPT ![tasks[t].node] = p]
  /\ \/ UNCHANGED <<exitVars, elsewhere>>
     \/ \E ops \in Opinions : Places(tasks[t].node, ops) /\ Record(tasks[t].node, ops)
  /\ tasks' = [tasks EXCEPT ![t] = IF t \in UserTask THEN NoTask
                                   ELSE [@ EXCEPT !.pc = "returned"]]
  /\ saveDue' = TRUE
  /\ UNCHANGED <<box, bursts>>

-----------------------------------------------------------------------------
(* burstFindGood                                                            *)

(* accept: _exitAllowedBy of a failover or a connect, exitsInWanted of a    *)
(* relocation.                                                              *)
Accepts(accept, n) ==
  CASE accept = "any" -> TRUE
    [] accept = "notElsewhere" -> exits[n] = Unknown \/ Confirms(exits[n], Wanted)
    [] accept = "confirmed" -> Confirms(exits[n], Wanted)

Wins(accept, n) == probes[n].verdict = "good" /\ Accepts(accept, n)

KnownGood(l, accept) == {i \in DOMAIN l : Wins(accept, l[i]) /\ probes[l[i]].fresh}

(* A worker takes a candidate: testRaw returns at once from one that is     *)
(* being tested already, and the worker looks at it in a later microtask.   *)
Taken(n) == IF probes[n].verdict = "testing" THEN [Begun(n, TRUE) EXCEPT !.pc = "returned"]
            ELSE Begun(n, TRUE)

FirstKnown(l, accept) == Min(KnownGood(l, accept))

(* width: the setting checkConcurrency of that moment.                      *)
BurstStart(b, l, accept, width) ==
  /\ bursts[b].pc # "racing" /\ \A w \in Worker(b) : tasks[w] = NoTask
  /\ \/ /\ KnownGood(l, accept) # {}
        /\ bursts' = [bursts EXCEPT ![b] =
             [NoBurst EXCEPT !.pc = "done", !.accept = accept, !.all = l,
                             !.result = l[FirstKnown(l, accept)]]]
        /\ UNCHANGED <<probes, tasks>>
     \/ /\ KnownGood(l, accept) = {}
        /\ bursts' = [bursts EXCEPT ![b] =
             [NoBurst EXCEPT !.pc = IF l = << >> THEN "done" ELSE "racing",
                             !.exhausted = (l = << >>), !.accept = accept, !.all = l,
                             !.queue = SubSeq(l, width + 1, Len(l))]]
        /\ tasks' = [t \in Task |-> IF t \in Worker(b) /\ t[2] <= width /\ t[2] <= Len(l)
                                    THEN Taken(l[t[2]]) ELSE tasks[t]]
        /\ probes' = [n \in Node |-> IF \E i \in 1 .. width : i <= Len(l) /\ l[i] = n
                                     THEN Testing ELSE probes[n]]
  /\ UNCHANGED <<exitVars, box, saveDue, elsewhere>>

(* A wrong variant: it waits for itself.                                    *)
LastOutNever(w) == \A v \in Worker(w[1]) : tasks[v] = NoTask

LastOut(w) == \A v \in Worker(w[1]) \ {w} : tasks[v] = NoTask

(* A worker after its test: it has the winner, or takes the next candidate, *)
(* or ends, and the last to end gives up.                                   *)
WorkerLooks(w) ==
  LET b == w[1]
      n == tasks[w].node
      racing == bursts[b].pc = "racing"
      won == racing /\ Wins(bursts[b].accept, n)
      more == racing /\ ~won /\ bursts[b].queue # << >>
      next == Head(bursts[b].queue)
      last == racing /\ ~won /\ ~more /\ LastOut(w)
  IN  /\ tasks[w].pc = "returned"
      /\ tasks' = [tasks EXCEPT ![w] = IF more THEN Taken(next) ELSE NoTask]
      /\ probes' = IF more THEN [probes EXCEPT ![next] = Testing] ELSE probes
      /\ bursts' = CASE won -> [bursts EXCEPT ![b].pc = "done", ![b].result = n]
                     [] more -> [bursts EXCEPT ![b].queue = Tail(@)]
                     [] last -> [bursts EXCEPT ![b].pc = "done", ![b].exhausted = TRUE]
                     [] OTHER -> bursts
      /\ UNCHANGED <<exitVars, box, saveDue, elsewhere>>

Deadline(b) ==
  /\ bursts[b].pc = "racing"
  /\ bursts' = [bursts EXCEPT ![b].pc = "done"]
  /\ UNCHANGED <<exitVars, storeVars, tasks, elsewhere>>

-----------------------------------------------------------------------------
MarkDead(n) ==
  /\ probes' = [probes EXCEPT ![n] = Dead]
  /\ saveDue' = TRUE
  /\ UNCHANGED <<exitVars, box, tasks, bursts, elsewhere>>

(* The inspector offers it while nothing is shown as being tested.          *)
Clear ==
  /\ \A n \in Node : probes[n].verdict # "testing"
  /\ probes' = [n \in Node |-> Untested]
  /\ saveDue' = TRUE
  /\ UNCHANGED <<exitVars, box, tasks, bursts, elsewhere>>

(* Five minutes go by since a result; what is on disk is no newer.          *)
Age(n) ==
  /\ box' = [box EXCEPT ![n] = Aged(box[n])]
  /\ probes' = [probes EXCEPT ![n] = Aged(probes[n])]
  /\ UNCHANGED <<exitVars, saveDue, tasks, bursts, elsewhere>>

(* _persist, two seconds later: results of the last two days.               *)
Save ==
  /\ saveDue /\ saveDue' = FALSE
  /\ \E expired \in SUBSET {n \in Node : ~probes[n].fresh} :
       box' = [n \in Node |-> IF IsDone(probes[n]) /\ n \notin expired THEN probes[n]
                              ELSE Untested]
  /\ UNCHANGED <<exitVars, probes, tasks, bursts, elsewhere>>

(* NodeProbe.fromJson: no test survives the process that ran it.            *)
FromJson(p) == IF p.verdict = "testing" THEN [p EXCEPT !.verdict = "untested"] ELSE p

(* The process ends, with whatever is in flight or unsaved, and starts.     *)
Restart ==
  /\ probes' = [n \in Node |-> FromJson(box[n])] /\ saveDue' = FALSE
  /\ LoadExits
  /\ tasks' = [t \in Task |-> NoTask]
  /\ bursts' = [b \in Burst |-> NoBurst]
  /\ elsewhere' = {}
  /\ UNCHANGED box

(* The process between a start and the next.                                *)
Live ==
  \/ \E t \in UserTask, n \in Node, quick \in BOOLEAN : UserTest(t, n, quick)
  \/ \E t \in Task : Answer(t)
  \/ \E b \in Burst : \/ \E l \in Lists, accept \in Accept, width \in 1 .. Width :
                           BurstStart(b, l, accept, width)
                      \/ Deadline(b)
                      \/ \E w \in Worker(b) : WorkerLooks(w)
  \/ \E n \in Node : MarkDead(n) \/ Age(n)
  \/ Clear

(* The session box, which is read at a start only.                          *)
Disk ==
  \/ Save \/ Restart
  \/ SaveExits /\ UNCHANGED <<storeVars, tasks, bursts, elsewhere>>

Next == Live \/ Disk

Spec == Init /\ [][Next]_vars

(* A test is bounded by its timeouts and the event loop runs on.  Nothing   *)
(* is asked of the deadline: it only makes a burst end sooner.              *)
Fairness ==
  /\ \A t \in Task : WF_vars(Answer(t))
  /\ \A b \in Burst, i \in 1 .. Width : WF_vars(WorkerLooks(<<b, i>>))

FairSpec == Init /\ [][Live]_vars /\ Fairness

-----------------------------------------------------------------------------
(* A node is shown as being tested only while somebody tests it: marks of   *)
(* death, overtaking tests and restarts leave no spinner behind, on which   *)
(* the idle monitor (anyTesting) would wait for ever.                       *)
TestingHasTest ==
  \A n \in Node : probes[n].verdict = "testing" =>
    \E t \in Task : tasks[t].pc = "asking" /\ tasks[t].node = n

(* A burst under a condition never ends with a node that its latest test    *)
(* placed in another country: the worker looks once the exit of its own     *)
(* test is recorded, no later record of a test hides it, and what was known *)
(* of the node before the burst does not outlive a test made meanwhile.     *)
WinnerNotElsewhere ==
  [][\A b \in Burst :
       bursts'[b].pc = "done" /\ bursts'[b].result # None /\ bursts'[b] # bursts[b] =>
         (bursts'[b].accept # "any" => bursts'[b].result \notin elsewhere')]_vars

(* Every burst ends: its caller, a connect or the monitor, is waiting.      *)
BurstEnds == \A b \in Burst : (bursts[b].pc = "racing") ~> (bursts[b].pc # "racing")

(* Every test shown is answered.                                            *)
TestingEnds ==
  \A n \in Node : (probes[n].verdict = "testing") ~> (probes[n].verdict # "testing")

(* A burst that gives up before its deadline does so because, as the code   *)
(* puts it, "every candidate failed".                                       *)
ExhaustedMeansFailed ==
  [][\A b \in Burst :
       ~bursts[b].exhausted /\ bursts'[b].exhausted =>
         \A i \in DOMAIN bursts'[b].all : IsDone(probes'[bursts'[b].all[i]])]_vars
=============================================================================
