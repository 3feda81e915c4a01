-------------------------------- MODULE Ping --------------------------------
(* collector, pipeline/ping.py: ping_many, the reachability check of all    *)
(* candidates at once.  A probe is one guarded(t): it waits for the         *)
(* semaphore, connects over TCP and then speaks TLS, or sends the QUIC      *)
(* packet twice, half a timeout apart, over UDP.                            *)
EXTENDS Integers, Sequences, FiniteSets

CONSTANTS Concurrency,    \* of the semaphore
          Timeout,        \* timeout_ms
          Rtt,            \* the round trips there are, some beyond Timeout
          Encodable       \* host names and SNIs that IDNA can encode

ASSUME PingAssumption ==
  /\ Concurrency \in Nat \ {0}
  /\ Timeout \in Nat /\ Rtt \subseteq Nat

VARIABLES targets,   \* what ping_many was asked, in order
          probes,    \* one for each target
          slots      \* what the semaphore has left

pingVars == <<targets, probes, slots>>

NoRtt == -1
Running == {"open", "tls", "first", "second"}

(* answered is the future of _QuicProbe.  heard is an observer: what the     *)
(* server at the other end did first, an answer being late when the packet   *)
(* had been sent again by then.                                              *)
Queued == [pc |-> "queued", tcp_ok |-> FALSE, tls_ok |-> FALSE, rtt |-> NoRtt,
           answered |-> "pending", heard |-> "nothing"]

PingInit == targets = << >> /\ probes = << >> /\ slots = Concurrency

PingMany(ts) ==
  /\ targets' = ts
  /\ probes' = [i \in DOMAIN ts |-> Queued]
  /\ slots' = Concurrency

(* Wrong: a probe starts without waiting for the semaphore. *)
AcquireBusy(i) ==
  /\ probes[i].pc = "queued"
  /\ slots' = slots - 1
  /\ probes' = [probes EXCEPT ![i].pc = "open"]
  /\ UNCHANGED targets

Acquire(i) ==
  /\ probes[i].pc = "queued"
  /\ slots > 0
  /\ slots' = slots - 1
  /\ probes' = [probes EXCEPT ![i].pc = "open"]
  /\ UNCHANGED targets

(* Wrong: the slot is returned by a probe that got an answer only. *)
ReleasedIfOk(result) == IF result.tcp_ok THEN slots + 1 ELSE slots

(* async with: however the probe ends. *)
Released(result) == slots + 1

End(i, result) ==
  /\ probes' = [probes EXCEPT ![i] = [result EXCEPT !.pc = "done"]]
  /\ slots' = Released(result)
  /\ UNCHANGED targets

(* Refused, unreachable, no such host, no answer in time: TCP and UDP.       *)
OpenFails(i) ==
  /\ probes[i].pc = "open"
  /\ End(i, probes[i])

(* The time is taken after the wait, and may lie beyond the timeout. *)
Connected(i) ==
  /\ probes[i].pc = "open" /\ ~targets[i].udp
  /\ \E rtt \in Rtt :
       LET result == [probes[i] EXCEPT !.tcp_ok = TRUE, !.rtt = rtt, !.heard = "answer"]
       IN  IF targets[i].want_tls
           THEN /\ probes' = [probes EXCEPT ![i] = [result EXCEPT !.pc = "tls"]]
                /\ UNCHANGED <<targets, slots>>
           ELSE End(i, result)

ServerName(t) == IF t.sni # "" THEN t.sni ELSE t.host

(* A second connection, best effort. *)
TlsEnds(i) ==
  /\ probes[i].pc = "tls"
  /\ \E ok \in BOOLEAN :
       /\ ok => ServerName(targets[i]) \in Encodable
       /\ End(i, [probes[i] EXCEPT !.tls_ok = ok])

(* UnicodeError is none of the exceptions _tls_connect expects. *)
TlsRaises(i) ==
  /\ probes[i].pc = "tls"
  /\ ServerName(targets[i]) \notin Encodable
  /\ probes' = [probes EXCEPT ![i].pc = "raised"]
  /\ slots' = slots + 1
  /\ UNCHANGED targets

Send(i, wait) ==
  /\ probes' = [probes EXCEPT ![i].pc = wait]
  /\ UNCHANGED <<targets, slots>>

OpenUdp(i) ==
  /\ probes[i].pc = "open" /\ targets[i].udp
  /\ Send(i, "first")

Waiting(i) == probes[i].pc \in {"first", "second"}

(* Wrong: an error overrides the answer. *)
SettledLate(old, verdict) == verdict

(* A future is set once. *)
Settled(old, verdict) == IF old = "pending" THEN verdict ELSE old

(* A Version Negotiation packet, under the node's obfuscation; any other     *)
(* datagram is ignored.                                                      *)
Hears(i, what, verdict) ==
  /\ Waiting(i)
  /\ probes' = [probes EXCEPT
                  ![i].answered = Settled(@, verdict),
                  ![i].heard = IF @ # "nothing" THEN @
                               ELSE IF what = "answer" /\ probes[i].pc = "second" THEN "late"
                               ELSE what]
  /\ UNCHANGED <<targets, slots>>

DatagramReceived(i) == Hears(i, "answer", "yes")
ErrorReceived(i) == Hears(i, "error", "no")

Answered(i) ==
  /\ Waiting(i) /\ probes[i].answered # "pending"
  /\ IF probes[i].answered = "yes"
     THEN \E rtt \in Rtt : End(i, [probes[i] EXCEPT !.tcp_ok = TRUE, !.rtt = rtt])
     ELSE End(i, probes[i])

(* Half a timeout is over, and the packet is sent again.  If the verdict has *)
(* come in the same turn of the event loop, the second wait returns it at    *)
(* once: that is Answered.                                                   *)
SendAgain(i) ==
  /\ probes[i].pc = "first" /\ probes[i].answered = "pending"
  /\ Send(i, "second")

(* The second half is over.  A verdict of the same turn is lost: wait_for    *)
(* has been cancelled by its timer before it could return it.                *)
GiveUp(i) ==
  /\ probes[i].pc = "second"
  /\ End(i, probes[i])

Proceeds(i) ==
  \/ Acquire(i) \/ OpenFails(i) \/ Connected(i) \/ TlsEnds(i) \/ TlsRaises(i)
  \/ OpenUdp(i) \/ Answered(i) \/ SendAgain(i) \/ GiveUp(i)

PingNext ==
  \E i \in DOMAIN targets : Proceeds(i) \/ DatagramReceived(i) \/ ErrorReceived(i)

PingDone == \A i \in DOMAIN probes : probes[i].pc = "done"

-----------------------------------------------------------------------------
(* Properties *)

Probe == [pc : Running \cup {"queued", "done", "raised"}, tcp_ok : BOOLEAN,
          tls_ok : BOOLEAN, rtt : Rtt \cup {NoRtt}, answered : {"pending", "yes", "no"},
          heard : {"nothing", "answer", "late", "error"}]

PingTypeOK ==
  /\ DOMAIN probes = DOMAIN targets
  /\ \A i \in DOMAIN probes : probes[i] \in Probe
  /\ slots \in 0 .. Concurrency

(* However its answer, an error, the resend and the end of the waits fall: a *)
(* node that answered before anything else counts as reachable, unless it    *)
(* answered the second packet only, whose wait may end in the same moment;   *)
(* no other does, and a round trip is known of exactly those that do ("that  *)
(* never answers is considered dead", ping.py's docstring).                  *)
ReachableIfAnswered ==
  \A i \in DOMAIN probes :
    probes[i].pc = "done" =>
      /\ probes[i].heard = "answer" => probes[i].tcp_ok
      /\ probes[i].tcp_ok => probes[i].heard \in {"answer", "late"}
      /\ probes[i].tcp_ok <=> probes[i].rtt # NoRtt

(* The semaphore: every slot is either free or held by a probe that runs, so *)
(* none is lost and no more probes run than there are slots.                 *)
SlotsHeld ==
  slots >= 0 /\ slots + Cardinality({i \in DOMAIN probes : probes[i].pc \in Running}) = Concurrency
=============================================================================
