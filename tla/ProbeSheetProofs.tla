-------------------------- MODULE ProbeSheetProofs --------------------------
(***************************************************************************)
(* The bridge and the probe sheet together implement the bridge beside an  *)
(* abstract other owner of the engine; and no engine that runs is left to   *)
(* nobody, save one that a failed start heard last took from its sheet.    *)
(***************************************************************************)
EXTENDS ProbeSheet, TLAPS

(* A start in flight is of one node. *)
QueuedOK(o) ==
  /\ o \in [pc : {"idle", "queued", "ok", "failed"}, mounted : BOOLEAN, list : Lists \cup {<< >>}]
  /\ o.pc = "queued" => o.list \in Lists /\ Len(o.list) = 1

ProbesOK ==
  /\ probes = [p \in Probe |-> probes[p]]
  /\ \A p \in Probe : QueuedOK(probes[p])

LEMMA FirstProbes == ProbeInit => ProbesOK
BY DEF ProbeInit, ProbesOK, QueuedOK, NoProbe

(* A probe that moves on, and is not queued anew. *)
LEMMA OneMoves ==
  ASSUME ProbesOK, NEW p \in Probe, NEW o, QueuedOK(o), probes' = [probes EXCEPT ![p] = o]
  PROVE  ProbesOK'
BY DEF ProbesOK

LEMMA StartQueues ==
  ASSUME ProbesOK, NEW p \in Probe, SheetStart(p)
  PROVE  ProbesOK'
<1>1. PICK l \in Lists :
        /\ Len(l) = 1
        /\ probes' = [probes EXCEPT ![p] = [pc |-> "queued", mounted |-> TRUE, list |-> l]]
  BY DEF SheetStart
<1>2. QueuedOK([pc |-> "queued", mounted |-> TRUE, list |-> l])
  BY <1>1 DEF QueuedOK
<1> QED BY <1>1, <1>2, OneMoves

LEMMA NextProbes == ProbesOK /\ [ProbeNext]_<<allVars, disowned>> => ProbesOK'
<1> SUFFICES ASSUME ProbesOK, [ProbeNext]_<<allVars, disowned>> PROVE ProbesOK'
  OBVIOUS
<1>1. CASE UNCHANGED probes
  BY <1>1 DEF ProbesOK
<1>2. ASSUME NEW p \in Probe, SheetNativeStart(p) PROVE ProbesOK'
  <2>1. PICK rc \in {"ok", "failed"} : probes' = [probes EXCEPT ![p].pc = rc]
    BY <1>2 DEF SheetNativeStart
  <2>2. QueuedOK([probes[p] EXCEPT !.pc = rc])
    <3> DEFINE o == probes[p]
    <3>1. QueuedOK(o)
      BY DEF ProbesOK
    <3> QED BY <3>1 DEF QueuedOK
  <2> QED BY <2>1, <2>2, OneMoves
<1>3. ASSUME NEW p \in Probe, SheetResume(p) PROVE ProbesOK'
  BY <1>3, OneMoves DEF SheetResume, QueuedOK, NoProbe
<1>4. CASE SheetClose
  <2>1. probes' = [p \in Probe |-> [probes[p] EXCEPT !.mounted = FALSE]]
    BY <1>4 DEF SheetClose
  <2>2. ASSUME NEW p \in Probe PROVE QueuedOK(probes'[p])
    <3> DEFINE o == probes[p]
    <3>1. QueuedOK(o) /\ probes'[p] = [o EXCEPT !.mounted = FALSE]
      BY <2>1 DEF ProbesOK
    <3> QED BY <3>1 DEF QueuedOK
  <2> QED BY <2>1, <2>2 DEF ProbesOK
<1>5. CASE SheetOpen \/ SheetTick \/ SheetStop
  BY <1>1, <1>5 DEF SheetOpen, SheetTick, SheetStop
<1> QED BY <1>1, <1>2, <1>3, <1>4, <1>5, StartQueues
        DEF ProbeNext, BridgeStep, SheetStep, allVars, probeVars

LEMMA StopIsOther ==
  ASSUME SheetStopsCore
  PROVE  OtherStop
BY DEF SheetStopsCore, OtherStop

LEMMA StartIsOther ==
  ASSUME ProbesOK, NEW p \in Probe, SheetNativeStart(p)
  PROVE  OtherStart \/ UNCHANGED vars
<1>1. probes[p].list \in Lists /\ Len(probes[p].list) = 1
  BY DEF ProbesOK, QueuedOK, SheetNativeStart
<1>2. CASE CoreStart(probes[p].list, "proxy", 0)
  BY <1>1, <1>2 DEF SheetNativeStart, OtherStart
<1>3. CASE CoreStart(probes[p].list, "proxy", 1)
  BY <1>3 DEF SheetNativeStart, CoreStart, vars
<1> QED BY <1>2, <1>3 DEF SheetNativeStart

LEMMA StepIsShared == ProbesOK /\ [ProbeNext]_<<allVars, disowned>> => [SharedNext]_vars
<1> SUFFICES ASSUME ProbesOK, [ProbeNext]_<<allVars, disowned>> PROVE SharedNext \/ UNCHANGED vars
  OBVIOUS
<1>1. CASE BridgeStep
  BY <1>1 DEF BridgeStep, SharedNext
<1>2. CASE SheetOpen \/ SheetTick
  BY <1>2 DEF SheetOpen, SheetTick
<1>3. CASE SheetStop \/ SheetClose
  BY <1>3, StopIsOther DEF SheetStop, SheetClose, SharedNext
<1>4. ASSUME NEW p \in Probe, SheetStart(p) \/ SheetNativeStart(p) \/ SheetResume(p)
      PROVE  SharedNext \/ UNCHANGED vars
  BY <1>4, StartIsOther, StopIsOther DEF SheetStart, SheetResume, SharedNext
<1> QED BY <1>1, <1>2, <1>3, <1>4 DEF ProbeNext, SheetStep, allVars

(* To the bridge the settings' sheet is nothing but another owner of the     *)
(* engine, who starts single nodes and stops: core_probe_sheet.dart.        *)
THEOREM IsOtherOwner == ProbeSpec => SheetIsOtherOwner
<1>1. ProbeInit => Init
  BY DEF ProbeInit
<1> QED BY <1>1, FirstProbes, NextProbes, StepIsShared, PTL
        DEF ProbeSpec, SheetIsOtherOwner, SharedSpec

-----------------------------------------------------------------------------
(***************************************************************************)
(* Who attends to the engine, at every state and not only when nothing is  *)
(* in flight.  The bridge is not alone, so its own invariant is of no use: *)
(* what remains of it is that one operation is in flight at a time.        *)
(***************************************************************************)
OpFields == {"pc", "kind", "epoch", "node", "mode", "list", "wait", "res"}

OpShaped(op) == DOMAIN op = OpFields /\ op.epoch \in Nat

Operations ==
  /\ epoch \in Nat
  /\ calls = [c \in Call |-> calls[c]] /\ stops = [e \in Epoch |-> stops[e]]
  /\ \A c \in Call : OpShaped(calls[c])
  /\ \A c \in Call : calls[c].pc # "idle" =>
       calls[c].epoch <= epoch /\ (Wanted(c) => ~disposed)
  /\ busy <=> \E c \in Call : calls[c].pc # "idle"
  /\ \A c, d \in Call : calls[c].pc # "idle" /\ calls[d].pc # "idle" => c = d

(* The sheet shown has the engine, or will be told so. *)
SheetHas == sheet.owns \/ \E p \in Probe : probes[p].pc = "ok"

StopDue == \E e \in Epoch : stops[e] = "queued"

(* An operation about to stop the engine, or to learn that it runs. *)
Holds(op) ==
  \/ op.pc \in {"stopLeftover", "stopRestart", "stopOrphan"} /\ op.res = "queued"
  \/ op.pc = "start" /\ op.res = "ok"

Shown == status = "protected" /\ ~disposed /\ ~busy

Attended ==
  isRunning => disowned \/ SheetHas \/ StopDue \/ Shown \/ \E c \in Call : Holds(calls[c])

(* What a step of the bridge leaves of the sheet, and of what is on record. *)
Remembered == disowned /\ isRunning' => disowned'

Alone == UNCHANGED probeVars /\ Remembered

(* A sheet that is not shown owns nothing and has no start mounted. *)
SheetOK ==
  /\ sheet \in [open : BOOLEAN, owns : BOOLEAN, running : BOOLEAN, poll : BOOLEAN]
  /\ sheet.owns => sheet.open
  /\ \A p \in Probe : probes[p].mounted => sheet.open

(* The invocation c moves to op; what ran is still attended to. *)
LEMMA OpMoves ==
  ASSUME Operations, Attended, NEW c \in Call, NEW op, OpShaped(op), Suspend(c, op),
         calls[c].pc # "idle" \/ ~busy, busy' <=> op.pc # "idle",
         op.pc # "idle" => op.epoch <= epoch /\ (op.epoch = epoch => ~disposed),
         UNCHANGED <<epoch, disposed, stops>>, Alone,
         isRunning' =>
           \/ Holds(op)
           \/ status' = "protected" /\ ~disposed /\ op.pc = "idle"
           \/ isRunning /\ ~Holds(calls[c]) /\ ~Shown
  PROVE  Operations' /\ Attended'
<1>1. calls' = [d \in Call |-> IF d = c THEN op ELSE calls[d]]
  BY DEF Operations, Suspend
<1>2. \A d \in Call : d # c => calls[d].pc = "idle" /\ calls'[d] = calls[d]
  BY <1>1 DEF Operations
<1>3. calls'[c] = op
  BY <1>1
<1>4. Operations'
  BY <1>1, <1>2, <1>3 DEF Operations, OpShaped, Wanted
<1>5. Attended'
  <2>1. CASE Holds(op)
    BY <2>1, <1>3 DEF Attended
  <2>2. CASE status' = "protected" /\ ~disposed /\ op.pc = "idle"
    BY <2>2 DEF Attended, Shown
  <2>3. CASE isRunning /\ ~Holds(calls[c]) /\ ~Shown
    <3>1. \A d \in Call : ~Holds(calls[d])
      BY <2>3, <1>2 DEF Holds
    <3>2. disowned \/ SheetHas \/ StopDue
      BY <2>3, <3>1 DEF Attended
    <3> QED BY <3>2 DEF Attended, SheetHas, StopDue, Alone, Remembered, probeVars
  <2> QED BY <2>1, <2>2, <2>3 DEF Attended
<1> QED BY <1>4, <1>5

(* What is in flight does not move, and the engine is not started. *)
LEMMA Steady ==
  ASSUME Operations, Attended, UNCHANGED <<busy, epoch, disposed, calls, stops>>, Alone,
         isRunning' => isRunning /\ (status = "protected" => status' = "protected")
  PROVE  Operations' /\ Attended'
<1>1. Operations'
  BY DEF Operations, Wanted, OpShaped
<1>2. Attended'
  BY DEF Attended, SheetHas, StopDue, Shown, Alone, Remembered, probeVars
<1> QED BY <1>1, <1>2

(* The shapes of what an invocation moves to. *)
LEMMA Shapes ==
  /\ OpShaped(Idle) /\ Idle.pc = "idle"
  /\ \A op, at : OpShaped(op) =>
       LET new == Await(op, at)
       IN  /\ OpShaped(new) /\ new.pc = at /\ new.res = "queued" /\ new.epoch = op.epoch
BY DEF Idle, OpShaped, OpFields, Await

LEMMA LaunchShape ==
  ASSUME NEW c, NEW op, NEW m, OpShaped(op), LaunchStart(c, op, m)
  PROVE  \E new : /\ Suspend(c, new) /\ OpShaped(new)
                  /\ new.pc = "start" /\ new.res = "queued" /\ new.epoch = op.epoch
<1>1. PICK l \in CandidateSet(op.node) :
        Suspend(c, [Await(op, "start") EXCEPT !.mode = m, !.list = l])
  BY DEF LaunchStart
<1> DEFINE a == Await(op, "start")
           new == [a EXCEPT !.mode = m, !.list = l]
<1>2. OpShaped(a) /\ a.pc = "start" /\ a.res = "queued" /\ a.epoch = op.epoch
  BY Shapes
<1> HIDE DEF a
<1>3. OpShaped(new) /\ new.pc = "start" /\ new.res = "queued" /\ new.epoch = op.epoch
  BY <1>2 DEF OpShaped, OpFields
<1> QED BY <1>1, <1>3 DEF a

(* An operation goes on to its start: it held nothing, or nothing runs. *)
LEMMA Launches ==
  ASSUME Operations, Attended, NEW c \in Call, NEW op, NEW m, OpShaped(op),
         LaunchStart(c, op, m), calls[c].pc # "idle" \/ ~busy, busy' = TRUE,
         op.epoch <= epoch, op.epoch = epoch => ~disposed,
         UNCHANGED <<session, epoch, disposed, stops>>, Alone,
         isRunning => ~Holds(calls[c]) /\ ~Shown
  PROVE  Operations' /\ Attended'
<1>1. PICK new : /\ Suspend(c, new) /\ OpShaped(new)
                 /\ new.pc = "start" /\ new.res = "queued" /\ new.epoch = op.epoch
  BY LaunchShape
<1>2. isRunning' = isRunning
  BY DEF isRunning
<1> QED BY <1>1, <1>2, OpMoves

(* The bridge's side of what every step of it below assumes. *)
Kept == Operations /\ Attended

(* An operation ends: what it held is shown, or no longer runs, or was not its. *)
LEMMA Finishes ==
  ASSUME Kept, NEW c \in Call, Finish(c), calls[c].pc # "idle",
         UNCHANGED <<session, epoch, disposed, stops>>, Alone,
         isRunning => \/ status' = "protected" /\ ~disposed
                      \/ ~Holds(calls[c])
  PROVE  Kept'
<1>1. busy /\ ~Shown
  BY DEF Kept, Operations, Shown
<1>2. isRunning' = isRunning
  BY DEF isRunning
<1> QED BY <1>1, <1>2, OpMoves, Shapes DEF Kept, Finish

(* An operation goes on to a stop: from now on it holds the engine. *)
LEMMA GoesToStop ==
  ASSUME Kept, NEW c \in Call, NEW op, OpShaped(op),
         NEW at \in {"stopLeftover", "stopRestart", "stopOrphan"},
         Suspend(c, Await(op, at)), calls[c].pc # "idle" \/ ~busy, busy' = TRUE,
         op.epoch <= epoch, op.epoch = epoch => ~disposed,
         UNCHANGED <<epoch, disposed, stops>>, Alone
  PROVE  Kept'
<1>1. PICK new : new = Await(op, at)
  OBVIOUS
<1>2. OpShaped(new) /\ new.pc = at /\ new.res = "queued" /\ new.epoch = op.epoch
  BY <1>1, Shapes
<1>3. Holds(new) /\ new.pc # "idle"
  BY <1>2 DEF Holds
<1>4. Suspend(c, new)
  BY <1>1
<1> QED BY <1>2, <1>3, <1>4, OpMoves DEF Kept

LEMMA AfterStoppingAttends ==
  ASSUME Kept, NEW c \in Call, NEW op, OpShaped(op), AfterStopping(c, op),
         calls[c].pc # "idle" \/ ~busy, busy' = TRUE,
         op.epoch <= epoch, op.epoch = epoch => ~disposed,
         UNCHANGED <<session, epoch, disposed, stops>>, Alone
  PROVE  Kept'
<1>1. CASE isRunning /\ Suspend(c, Await(op, "stopLeftover"))
  BY <1>1, GoesToStop
<1>2. CASE ~isRunning /\ LaunchStart(c, op, modeOf)
  BY <1>2, Launches DEF Kept
<1> QED BY <1>1, <1>2 DEF AfterStopping

LEMMA ConnectAttends ==
  ASSUME Kept, NEW c \in Call, Connect(c), Alone
  PROVE  Kept'
<1>0. /\ ~disposed /\ calls[c] = Idle /\ ~busy /\ status # "protected"
      /\ UNCHANGED <<session, epoch, disposed, stops>>
  BY DEF Connect, isActive
<1>1. CASE UNCHANGED <<busy, calls>>
  BY <1>0, <1>1, Steady DEF Kept, isRunning
<1>2. CASE ~UNCHANGED <<busy, calls>>
  <2>1. PICK n \in Scope[selection] :
          LET op == [Idle EXCEPT !.epoch = epoch, !.node = n]
          IN  IF stopping = 0 THEN AfterStopping(c, op)
              ELSE Suspend(c, [op EXCEPT !.pc = "awaitStopping", !.wait = stopping])
    BY <1>2 DEF Connect
  <2> DEFINE op == [Idle EXCEPT !.epoch = epoch, !.node = n]
             new == [op EXCEPT !.pc = "awaitStopping", !.wait = stopping]
  <2>2. OpShaped(op) /\ op.epoch = epoch /\ op.res = "none" /\ op.pc = "idle"
    BY DEF Idle, OpShaped, OpFields, Kept, Operations
  <2>3. busy' = TRUE /\ epoch \in Nat
    BY <1>2 DEF Connect, Kept, Operations
  <2>4. CASE AfterStopping(c, op)
    <3> HIDE DEF op
    <3> QED BY <1>0, <2>2, <2>3, <2>4, AfterStoppingAttends
  <2>5. CASE Suspend(c, new)
    <3>1. OpShaped(new) /\ new.pc = "awaitStopping" /\ new.epoch = epoch
      BY DEF Idle, OpShaped, OpFields, Kept, Operations
    <3>2. ~Holds(calls[c]) /\ ~Shown /\ isRunning' = isRunning
      BY <1>0, Shapes DEF Holds, Shown, isRunning
    <3> HIDE DEF new
    <3> QED BY <1>0, <2>3, <2>5, <3>1, <3>2, OpMoves DEF Kept
  <2> QED BY <2>1, <2>4, <2>5
<1> QED BY <1>1, <1>2

LEMMA SwitchToAttends ==
  ASSUME Kept, NEW c \in Call, NEW n, SwitchTo(c, n), calls[c] = Idle,
         status = "protected", ~disposed,
         UNCHANGED <<epoch, stopping, disposed, stops>>, Alone
  PROVE  Kept'
<1>1. CASE UNCHANGED <<session, uiVars, busy, calls>>
  BY <1>1, Steady DEF Kept, isRunning, uiVars
<1>2. CASE HotSwap(n)
  <2>1. isRunning
    BY <1>2 DEF HotSwap, CoreSelect, CanSelect
  <2> QED BY <1>2, <2>1, Steady DEF Kept, HotSwap
<1>3. CASE ~busy /\ Restart(c, n)
  <2> DEFINE a == Await(Idle, "stopRestart")
             m == IF activeMode = NoMode THEN modeOf ELSE activeMode
             new == [a EXCEPT !.kind = "switch", !.epoch = epoch, !.node = n, !.mode = m]
  <2>1. Suspend(c, new)
    BY <1>3 DEF Restart
  <2>2. OpShaped(a) /\ a.pc = "stopRestart" /\ a.res = "queued"
    BY Shapes
  <2>3. epoch \in Nat
    BY DEF Kept, Operations
  <2> HIDE DEF a, m
  <2>4. OpShaped(new) /\ new.pc = "stopRestart" /\ new.res = "queued" /\ new.epoch = epoch
    BY <2>2, <2>3 DEF OpShaped, OpFields
  <2>5. busy' = TRUE
    BY <1>3 DEF Restart
  <2>6. Holds(new)
    BY <2>4 DEF Holds
  <2> HIDE DEF new
  <2> QED BY <1>3, <2>1, <2>3, <2>4, <2>5, <2>6, OpMoves DEF Kept
<1> QED BY <1>1, <1>2, <1>3 DEF SwitchTo

LEMMA UserAttends ==
  ASSUME Kept, NEW c \in Call, User(c), Alone
  PROVE  Kept'
<1>1. ASSUME NEW sel \in Selection, Select(c, sel) PROVE Kept'
  <2>1. CASE UNCHANGED <<session, uiVars, busy, calls>>
    BY <1>1, <2>1, Steady DEF Kept, Select, isRunning, uiVars
  <2>2. CASE status = "protected" /\ \E n \in Scope[sel] : SwitchTo(c, n)
    BY <1>1, <2>2, SwitchToAttends DEF Select
  <2> QED BY <1>1, <2>1, <2>2 DEF Select
<1>2. ASSUME NEW n \in Node, MonitorSwitch(c, n) PROVE Kept'
  BY <1>2, SwitchToAttends DEF MonitorSwitch
<1> QED BY <1>1, <1>2, ConnectAttends DEF User

(* A native call has answered r. *)
LEMMA Answers ==
  ASSUME Kept, NEW c \in Call, calls[c].pc # "idle", NEW r,
         Suspend(c, [calls[c] EXCEPT !.res = r]),
         UNCHANGED <<busy, epoch, disposed, stops>>, Alone,
         isRunning' => \/ calls[c].pc = "start" /\ r = "ok"
                       \/ isRunning /\ ~Holds(calls[c])
  PROVE  Kept'
<1> DEFINE o == calls[c]
           new == [o EXCEPT !.res = r]
<1>1. OpShaped(o) /\ busy /\ o.epoch <= epoch /\ (o.epoch = epoch => ~disposed)
  BY DEF Kept, Operations, Wanted
<1>2. o.pc # "idle" /\ Suspend(c, new)
  OBVIOUS
<1> HIDE DEF o
<1>3. OpShaped(new) /\ new.pc = o.pc /\ new.epoch = o.epoch /\ new.res = r
  BY <1>1 DEF OpShaped, OpFields
<1>4. isRunning' => Holds(new) \/ (isRunning /\ ~Holds(calls[c]) /\ ~Shown)
  BY <1>1, <1>3 DEF Holds, Shown, o
<1> HIDE DEF new
<1>5. busy' <=> new.pc # "idle"
  BY <1>1, <1>2, <1>3
<1> QED BY <1>1, <1>2, <1>3, <1>4, <1>5, OpMoves DEF Kept, o

LEMMA NativeAttends ==
  ASSUME Kept, NEW c \in Call, Native(c), Alone
  PROVE  Kept'
<1>1. CASE NativeStart(c)
  <2>1. ~Holds(calls[c])
    BY <1>1 DEF NativeStart, Holds
  <2>2. \/ Suspend(c, [calls[c] EXCEPT !.res = "ok"])
        \/ UNCHANGED session /\ Suspend(c, [calls[c] EXCEPT !.res = "failed"])
        \/ UNCHANGED session /\ Suspend(c, [calls[c] EXCEPT !.res = "threw"])
    BY <1>1 DEF NativeStart, CoreStart
  <2>3. PICK r : /\ Suspend(c, [calls[c] EXCEPT !.res = r])
                 /\ r = "ok" \/ UNCHANGED session
    BY <2>2
  <2> QED BY <1>1, <2>1, <2>3, Answers DEF NativeStart, isRunning
<1>2. CASE NativeStop(c)
  <2>1. ~isRunning'
    BY <1>2 DEF NativeStop, CoreStop, isRunning
  <2> QED BY <1>2, <2>1, Answers DEF NativeStop
<1> QED BY <1>1, <1>2 DEF Native

LEMMA ResumeAttends ==
  ASSUME Kept, NEW c \in Call, Resume(c), Alone
  PROVE  Kept'
<1>0. calls[c].pc # "idle" =>
        /\ busy /\ OpShaped(calls[c])
        /\ calls[c].epoch <= epoch /\ (calls[c].epoch = epoch => ~disposed)
  BY DEF Kept, Operations, Wanted
<1>1. CASE ResumeAwaitStopping(c)
  BY <1>0, <1>1, AfterStoppingAttends DEF ResumeAwaitStopping
<1>2. CASE ResumeLeftover(c) \/ ResumeRestart(c)
  <2>1. calls[c].pc # "idle" /\ ~Holds(calls[c]) /\ ~Shown
    BY <1>0, <1>2 DEF ResumeLeftover, ResumeRestart, Holds, Shown
  <2>2. CASE Finish(c)
    BY <1>2, <2>1, <2>2, Finishes DEF ResumeLeftover, ResumeRestart
  <2>3. ASSUME NEW m, LaunchStart(c, calls[c], m), UNCHANGED busy PROVE Kept'
    BY <1>0, <1>2, <2>1, <2>3, Launches DEF ResumeLeftover, ResumeRestart, Kept
  <2> QED BY <1>2, <2>2, <2>3 DEF ResumeLeftover, ResumeRestart
<1>3. CASE ResumeStart(c)
  <2>1. /\ calls[c].pc # "idle"
        /\ UNCHANGED <<session, epoch, disposed, stops>>
    BY <1>3 DEF ResumeStart
  <2>2. CASE StartedUp(c)
    BY <1>0, <2>1, <2>2, Finishes DEF StartedUp, Wanted
  <2>3. CASE StartFailed(c)
    <3>1. isRunning => ~Holds(calls[c])
      BY <1>3, <2>3 DEF StartFailed, Holds, ResumeStart
    <3> QED BY <2>1, <2>3, <3>1, Finishes DEF StartFailed
  <2>4. CASE StartUnwanted(c)
    <3>1. CASE calls[c].res = "ok" /\ isRunning
      BY <1>0, <2>1, <2>4, <3>1, GoesToStop DEF StartUnwanted
    <3>2. CASE ~(calls[c].res = "ok" /\ isRunning)
      <4>1. isRunning => ~Holds(calls[c])
        BY <1>3, <3>2 DEF Holds, ResumeStart
      <4> QED BY <2>1, <2>4, <3>2, <4>1, Finishes DEF StartUnwanted
    <3> QED BY <3>1, <3>2
  <2> QED BY <1>3, <2>2, <2>3, <2>4 DEF ResumeStart
<1>4. CASE ResumeOrphan(c)
  BY <1>4, Finishes DEF ResumeOrphan, Holds
<1> QED BY <1>1, <1>2, <1>3, <1>4 DEF Resume

(* The stops of disconnects: one due, then one less. *)
LEMMA DisconnectAttends ==
  ASSUME Kept, Disconnect, Alone
  PROVE  Kept'
<1> USE DEF Disconnect
<1>0. epoch \in Nat /\ epoch + 1 \in Epoch /\ epoch' = epoch + 1
  BY BridgeAssumption DEF Kept, Operations, Epoch
<1>1. stops' = [e \in Epoch |-> stops'[e]] /\ \A e \in Epoch : stops[e] = "queued" => stops'[e] = "queued"
  BY <1>0 DEF Kept, Operations
<1>2. isRunning => stops'[epoch + 1] = "queued"
  BY <1>0 DEF Kept, Operations
<1>3. Operations'
  BY <1>0, <1>1 DEF Kept, Operations, OpShaped, Wanted
<1>4. Attended'
  BY <1>0, <1>2 DEF Attended, StopDue, isRunning
<1> QED BY <1>3, <1>4 DEF Kept

LEMMA StopsAttend ==
  ASSUME Kept, NEW e \in Epoch, DisconnectStop(e) \/ StopReturns(e), Alone
  PROVE  Kept'
<1>1. /\ UNCHANGED <<busy, epoch, disposed, calls, status>>
      /\ \E r : stops' = [stops EXCEPT ![e] = r]
  BY DEF DisconnectStop, StopReturns, uiVars
<1>2. Operations'
  BY <1>1 DEF Kept, Operations, OpShaped, Wanted
<1>3. CASE DisconnectStop(e)
  BY <1>2, <1>3 DEF DisconnectStop, CoreStop, Kept, Attended, isRunning
<1>4. CASE StopReturns(e)
  <2>1. \A d \in Epoch : stops[d] = "queued" => stops'[d] = "queued"
    BY <1>4 DEF StopReturns, Kept, Operations
  <2>2. UNCHANGED session
    BY <1>4 DEF StopReturns
  <2> QED BY <1>1, <1>2, <2>1, <2>2
          DEF Kept, Attended, SheetHas, StopDue, Shown, Alone, Remembered, isRunning, probeVars
<1> QED BY <1>3, <1>4

LEMMA DisposeAttends ==
  ASSUME Kept, Dispose, Alone
  PROVE  Kept'
<1>1. epoch \in Nat /\ epoch' = epoch + 1 /\ UNCHANGED <<busy, calls, stops>>
  BY DEF Dispose, Kept, Operations
<1>2. Operations'
  BY <1>1 DEF Kept, Operations, OpShaped, Wanted
<1> QED BY <1>2 DEF Dispose, CoreStop, Kept, Attended, isRunning

LEMMA BridgeAttends ==
  ASSUME Kept, BridgeStep, Remembered
  PROVE  Kept'
<1>0. Next /\ Alone
  BY DEF BridgeStep, Alone
<1>1. ASSUME NEW m \in Mode, SetMode(m) PROVE Kept'
  BY <1>0, <1>1, Steady DEF SetMode, Kept, isRunning, uiVars
<1>2. CASE TickFails
  BY <1>0, <1>2, Steady DEF TickFails, Kept, isRunning
<1> QED BY <1>0, <1>1, <1>2, UserAttends, NativeAttends, ResumeAttends, StopsAttend,
           DisconnectAttends, DisposeAttends
        DEF Next

-----------------------------------------------------------------------------
(* The sheet's side: it does not touch what is in flight at the bridge. *)

LEMMA SheetLeavesOps ==
  ASSUME Operations, SheetStep
  PROVE  Operations' /\ UNCHANGED <<status, disposed, busy, calls, stops>>
<1>1. UNCHANGED <<status, busy, epoch, disposed, calls, stops>>
  <2>1. CASE SheetOpen \/ SheetTick \/ SheetStop \/ SheetClose
    BY <2>1 DEF SheetOpen, SheetTick, SheetStop, SheetClose, SheetStopsCore, vars, uiVars
  <2>2. ASSUME NEW p \in Probe, SheetStart(p) \/ SheetNativeStart(p) \/ SheetResume(p)
        PROVE  UNCHANGED <<status, busy, epoch, disposed, calls, stops>>
    BY <2>2 DEF SheetStart, SheetNativeStart, SheetResume, SheetStopsCore, vars, uiVars
  <2> QED BY <2>1, <2>2 DEF SheetStep
<1> QED BY <1>1 DEF Operations, OpShaped, Wanted

(* The sheet is none the worse for a step: somebody else still attends. *)
LEMMA SheetAttends ==
  ASSUME Attended, Remembered, UNCHANGED <<status, disposed, busy, calls, stops>>,
         isRunning' => isRunning, isRunning' /\ SheetHas => SheetHas'
  PROVE  Attended'
BY DEF Attended, Remembered, StopDue, Shown

LEMMA StartAttends ==
  ASSUME Remembered, ProbesOK, SheetOK, Attended, NEW p \in Probe, SheetStart(p)
  PROVE  SheetOK' /\ Attended'
<1>1. /\ sheet.open /\ ~isRunning /\ UNCHANGED <<vars, sheet>>
      /\ \E l : probes' = [probes EXCEPT ![p] = [pc |-> "queued", mounted |-> TRUE, list |-> l]]
  BY DEF SheetStart
<1> QED BY <1>1 DEF SheetOK, Attended, isRunning, vars, ProbesOK

LEMMA NativeStartAttends ==
  ASSUME ProbesOK, SheetOK, Attended, NEW p \in Probe, SheetNativeStart(p)
  PROVE  SheetOK' /\ Attended'
<1> DEFINE o == probes[p]
<1>0. QueuedOK(o) /\ probes = [q \in Probe |-> probes[q]] /\ UNCHANGED sheet
  BY DEF ProbesOK, SheetNativeStart
<1>1. PICK rc \in {"ok", "failed"} :
        /\ probes' = [probes EXCEPT ![p].pc = rc]
        /\ rc = "failed" => ~isRunning'
  BY DEF SheetNativeStart, CoreStart, isRunning
<1>2. probes' = [probes EXCEPT ![p] = [o EXCEPT !.pc = rc]]
  BY <1>1
<1> HIDE DEF o
<1>3. [o EXCEPT !.pc = rc].pc = rc /\ [o EXCEPT !.pc = rc].mounted = o.mounted
  BY <1>0 DEF QueuedOK
<1>4. probes'[p].pc = rc /\ \A q \in Probe : probes'[q].mounted = probes[q].mounted
  BY <1>0, <1>2, <1>3 DEF o
<1>5. SheetOK'
  BY <1>0, <1>4 DEF SheetOK
<1>6. Attended'
  BY <1>1, <1>4 DEF Attended, SheetHas
<1> QED BY <1>5, <1>6

(* A start is heard: the sheet shown knows what it has, or is on record.     *)
LEMMA ResumeSheetAttends ==
  ASSUME ProbesOK, SheetOK, Attended, NEW p \in Probe, SheetResume(p), Remembered,
         NotesDisowned, UNCHANGED <<status, disposed, busy, calls, stops>>
  PROVE  SheetOK' /\ Attended'
<1>0. /\ probes' = [probes EXCEPT ![p] = NoProbe]
      /\ probes[p].pc \in {"ok", "failed"} /\ probes'[p] = NoProbe
      /\ \A q \in Probe : q # p => probes'[q] = probes[q]
      /\ NoProbe.pc = "idle" /\ NoProbe.mounted = FALSE
  BY DEF SheetResume, ProbesOK, NoProbe
<1>1. CASE ~probes[p].mounted /\ probes[p].pc = "ok"
  <2>1. SheetStopsCore /\ UNCHANGED sheet
    BY <1>1 DEF SheetResume
  <2> QED BY <2>1, <1>0 DEF SheetOK, Attended, SheetStopsCore, CoreStop, isRunning
<1>2. CASE ~probes[p].mounted /\ probes[p].pc = "failed"
  <2>1. UNCHANGED <<vars, sheet>>
    BY <1>2 DEF SheetResume
  <2>2. SheetHas => SheetHas'
    BY <1>0, <1>2, <2>1 DEF SheetHas
  <2> QED BY <1>0, <2>1, <2>2, SheetAttends DEF SheetOK, isRunning, vars
<1>3. CASE probes[p].mounted
  <2>1. PICK b \in BOOLEAN, r \in BOOLEAN :
          /\ b <=> probes[p].pc = "ok"
          /\ sheet' = [sheet EXCEPT !.owns = b, !.running = r, !.poll = r]
    <3>1. /\ (probes[p].pc = "ok") \in BOOLEAN /\ isRunning \in BOOLEAN
          /\ sheet' = [sheet EXCEPT !.owns = (probes[p].pc = "ok"), !.running = isRunning,
                                    !.poll = isRunning]
      BY <1>3 DEF SheetResume, isRunning
    <3> QED BY <3>1, Zenon
  <2>2. UNCHANGED vars /\ sheet.open
    BY <1>3 DEF SheetResume, SheetOK
  <2>3. /\ sheet' \in [open : BOOLEAN, owns : BOOLEAN, running : BOOLEAN, poll : BOOLEAN]
        /\ sheet'.owns = b /\ sheet'.open = sheet.open
    BY <2>1 DEF SheetOK
  <2>4. SheetOK'
    BY <1>0, <2>2, <2>3 DEF SheetOK
  <2>5. CASE b
    <3>1. SheetHas'
      BY <2>3, <2>5 DEF SheetHas
    <3> QED BY <2>2, <2>4, <3>1, SheetAttends DEF isRunning, vars
  <2>6. CASE ~b /\ sheet.owns
    <3>1. FailureDisowns
      BY <1>0, <1>3, <2>1, <2>6 DEF FailureDisowns
    <3> QED BY <2>4, <3>1 DEF NotesDisowned, Attended
  <2>7. CASE ~b /\ ~sheet.owns
    <3>1. SheetHas => SheetHas'
      BY <1>0, <2>1, <2>7 DEF SheetHas
    <3> QED BY <2>2, <2>4, <3>1, SheetAttends DEF isRunning, vars
  <2> QED BY <2>5, <2>6, <2>7
<1> QED BY <1>1, <1>2, <1>3 DEF SheetResume

LEMMA ShownAttends ==
  ASSUME Remembered, ProbesOK, SheetOK, Attended, SheetOpen \/ SheetTick \/ SheetStop \/ SheetClose,
         UNCHANGED <<status, disposed, busy, calls, stops>>
  PROVE  SheetOK' /\ Attended'
<1>1. CASE SheetOpen
  <2>1. /\ sheet' \in [open : BOOLEAN, owns : BOOLEAN, running : BOOLEAN, poll : BOOLEAN]
        /\ sheet'.open = TRUE
    BY <1>1 DEF SheetOpen, NoSheet
  <2>2. UNCHANGED <<session, probes>> /\ ~sheet.owns
    BY <1>1 DEF SheetOpen, SheetOK, vars
  <2> QED BY <2>1, <2>2, SheetAttends DEF SheetOK, SheetHas, isRunning
<1>2. CASE SheetTick
  <2>1. PICK r \in BOOLEAN : sheet' = [sheet EXCEPT !.running = r, !.poll = r]
    <3>1. isRunning \in BOOLEAN /\ sheet' = [sheet EXCEPT !.running = isRunning, !.poll = isRunning]
      BY <1>2 DEF SheetTick, isRunning
    <3> QED BY <3>1, Zenon
  <2>2. /\ sheet' \in [open : BOOLEAN, owns : BOOLEAN, running : BOOLEAN, poll : BOOLEAN]
        /\ sheet'.open = sheet.open /\ sheet'.owns = sheet.owns
    BY <2>1 DEF SheetOK
  <2>3. UNCHANGED <<session, probes>>
    BY <1>2 DEF SheetTick, vars
  <2> QED BY <2>2, <2>3, SheetAttends DEF SheetOK, SheetHas, isRunning
<1>3. CASE SheetStop
  <2>1. /\ sheet' \in [open : BOOLEAN, owns : BOOLEAN, running : BOOLEAN, poll : BOOLEAN]
        /\ sheet'.open = sheet.open /\ sheet'.owns = FALSE /\ UNCHANGED probes
    BY <1>3 DEF SheetStop, SheetOK
  <2>2. SheetOK'
    BY <2>1 DEF SheetOK
  <2>3. CASE sheet.owns
    BY <1>3, <2>2, <2>3 DEF SheetStop, SheetStopsCore, CoreStop, Attended, isRunning
  <2>4. CASE ~sheet.owns
    BY <1>3, <2>1, <2>2, <2>4, SheetAttends DEF SheetStop, SheetHas, isRunning, vars
  <2> QED BY <2>3, <2>4 DEF SheetOK
<1>4. CASE SheetClose
  <2>1. /\ sheet' = NoSheet
        /\ probes' = [p \in Probe |-> [probes[p] EXCEPT !.mounted = FALSE]]
    BY <1>4 DEF SheetClose
  <2>2. ASSUME NEW p \in Probe
        PROVE  probes'[p].mounted = FALSE /\ probes'[p].pc = probes[p].pc
    <3> DEFINE o == probes[p]
    <3>1. QueuedOK(o) /\ probes'[p] = [o EXCEPT !.mounted = FALSE]
      BY <2>1 DEF ProbesOK
    <3> QED BY <3>1 DEF QueuedOK
  <2>3. SheetOK'
    BY <2>1, <2>2 DEF SheetOK, NoSheet
  <2>4. CASE sheet.owns /\ isRunning
    BY <1>4, <2>3, <2>4 DEF SheetClose, SheetStopsCore, CoreStop, Attended, isRunning
  <2>5. CASE ~(sheet.owns /\ isRunning)
    <3>1. UNCHANGED session
      BY <1>4, <2>5 DEF SheetClose, vars
    <3>2. isRunning' /\ SheetHas => SheetHas'
      BY <2>2, <2>5, <3>1 DEF SheetHas, isRunning
    <3> QED BY <2>3, <3>1, <3>2, SheetAttends DEF isRunning
  <2> QED BY <2>4, <2>5
<1> QED BY <1>1, <1>2, <1>3, <1>4

-----------------------------------------------------------------------------
(* The inductive invariant. *)
AttendedInv == ProbesOK /\ SheetOK /\ Operations /\ Attended

LEMMA FirstAttended == ProbeInit => AttendedInv
<1> SUFFICES ASSUME ProbeInit PROVE AttendedInv
  OBVIOUS
<1>1. ProbesOK
  BY FirstProbes
<1>2. SheetOK
  BY DEF ProbeInit, SheetOK, NoSheet, NoProbe
<1>3. Operations
  BY Shapes DEF ProbeInit, Init, Operations
<1>4. Attended
  BY DEF ProbeInit, Init, CoreInit, Attended, isRunning
<1> QED BY <1>1, <1>2, <1>3, <1>4 DEF AttendedInv

LEMMA NextAttended == AttendedInv /\ [ProbeNext]_<<allVars, disowned>> => AttendedInv'
<1> SUFFICES ASSUME AttendedInv, [ProbeNext]_<<allVars, disowned>> PROVE AttendedInv'
  OBVIOUS
<1>0. ProbesOK'
  BY NextProbes DEF AttendedInv
<1>1. CASE UNCHANGED <<allVars, disowned>>
  <2>0. Alone
    BY <1>1 DEF Alone, Remembered, allVars
  <2>1. Operations' /\ Attended'
    BY <1>1, <2>0, Steady DEF AttendedInv, isRunning, allVars, vars, uiVars
  <2>2. SheetOK'
    BY <1>1 DEF AttendedInv, SheetOK, allVars, probeVars
  <2> QED BY <1>0, <2>1, <2>2 DEF AttendedInv
<1>2. CASE BridgeStep /\ NotesDisowned
  <2>0. Remembered
    BY <1>2 DEF NotesDisowned, Remembered
  <2>1. SheetOK'
    BY <1>2 DEF AttendedInv, SheetOK, BridgeStep, probeVars
  <2> QED BY <1>0, <1>2, <2>0, <2>1, BridgeAttends DEF AttendedInv, Kept
<1>3. CASE SheetStep /\ NotesDisowned
  <2>0. Remembered
    BY <1>3 DEF NotesDisowned, Remembered
  <2>1. Operations' /\ UNCHANGED <<status, disposed, busy, calls, stops>>
    BY <1>3, SheetLeavesOps DEF AttendedInv
  <2>2. SheetOK' /\ Attended'
    BY <1>3, <2>0, <2>1, StartAttends, NativeStartAttends, ResumeSheetAttends, ShownAttends
       DEF AttendedInv, SheetStep
  <2> QED BY <1>0, <2>1, <2>2 DEF AttendedInv
<1> QED BY <1>1, <1>2, <1>3 DEF ProbeNext

(* For any number of the sheet's starts in flight, an engine that runs while *)
(* nothing is in flight is somebody's, or a failed start heard last took it *)
(* from the sheet that had it: _start, _stop and dispose of                 *)
(* core_probe_sheet.dart beside every step of the bridge.                   *)
THEOREM NobodysEngine == ProbeSpec => []NoEngineUnattended
<1>1. AttendedInv => NoEngineUnattended
  <2> SUFFICES ASSUME AttendedInv, isRunning, ~InFlight,
                      ~disowned, ~(status = "protected" /\ ~disposed), ~sheet.owns
               PROVE  StopDue
    BY DEF NoEngineUnattended, StopDue
  <2>1. ~busy /\ \A p \in Probe : probes[p].pc = "idle"
    BY DEF InFlight
  <2>2. \A c \in Call : ~Holds(calls[c])
    BY <2>1 DEF AttendedInv, Operations, Holds
  <2> QED BY <2>1, <2>2 DEF AttendedInv, Attended, SheetHas, Shown
<1> QED BY <1>1, FirstAttended, NextAttended, PTL DEF ProbeSpec
=============================================================================
