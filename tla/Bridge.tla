------------------------------- MODULE Bridge -------------------------------
(***************************************************************************)
(* SingBoxBridge (app/lib/core/singbox_bridge.dart): the connection as the *)
(* user sees it, over the one native engine of module Core.                *)
(*                                                                         *)
(* Dart runs one event at a time, so an action is what happens between two *)
(* awaits.  Native starts and stops run on helper isolates: a call is      *)
(* queued, takes effect in the core at some later instant (in any order    *)
(* with the other calls in flight, engMu decides) and is answered later    *)
(* still.                                                                  *)
(***************************************************************************)
EXTENDS Core

CONSTANTS
  Selection,  \* what the user can choose: auto, a country, a bundle, a node
  Scope,      \* the nodes a selection may resolve to
  Call,       \* concurrent invocations of connect, select and switchTo
  Elevated,   \* whether the process may create a TUN adapter
  MaxEpoch,   \* bound: disconnects
  NoNode, NoMode

ASSUME BridgeAssumption ==
  /\ Scope \in [Selection -> SUBSET Node]
  /\ Elevated \in BOOLEAN
  /\ MaxEpoch \in Nat
  /\ NoNode \notin Node /\ NoMode \notin Mode
  \* _candidateSet: no node twice
  /\ \A l \in Lists : \A i, j \in 1 .. Len(l) : l[i] = l[j] => i = j

VARIABLES
  status, selection, activeNode, activeMode, candidates, switching, busy,
  epoch,      \* _epoch, bumped by every disconnect
  stopping,   \* _stopping: the disconnect whose stop is tracked, 0 for null
  poll,       \* whether the poll timer is set
  disposed,
  modeOf,     \* the mode in the settings
  calls,      \* every invocation in flight: where it awaits and what it holds
  stops       \* the stop launched by the disconnect of each epoch

uiVars == <<status, activeNode, activeMode, candidates, switching, poll>>
userVars == <<selection, modeOf>>
vars == <<session, uiVars, userVars, busy, epoch, stopping, disposed, calls, stops>>

Epoch == 1 .. MaxEpoch

(***************************************************************************)
(* pc is the await an invocation is suspended at: _stopping, the stop of a *)
(* leftover engine, the stop of a restart, the start, the stop of an       *)
(* orphan.  res is the native call it waits for.                           *)
(***************************************************************************)
Op ==
  [pc : {"idle", "awaitStopping", "stopLeftover", "stopRestart", "start", "stopOrphan"},
   kind : {"connect", "switch"}, epoch : Nat, node : Node \cup {NoNode},
   mode : Mode \cup {NoMode}, list : Lists \cup {<< >>}, wait : Nat,
   res : {"none", "queued", "ok", "failed", "threw"}]

Idle ==
  [pc |-> "idle", kind |-> "connect", epoch |-> 0, node |-> NoNode,
   mode |-> NoMode, list |-> << >>, wait |-> 0, res |-> "none"]

TypeOK ==
  /\ CoreTypeOK
  /\ status \in {"disconnected", "connecting", "protected", "error"}
  /\ activeNode \in Node \cup {NoNode} /\ activeMode \in Mode \cup {NoMode}
  /\ candidates \in Lists \cup {<< >>}
  /\ switching \in BOOLEAN /\ poll \in BOOLEAN /\ busy \in BOOLEAN
  /\ disposed \in BOOLEAN
  /\ selection \in Selection /\ modeOf \in Mode
  /\ epoch \in 0 .. MaxEpoch + 1 /\ stopping \in 0 .. MaxEpoch
  /\ calls \in [Call -> Op]
  /\ stops \in [Epoch -> {"none", "queued", "ran"}]

Init ==
  /\ CoreInit
  /\ status = "disconnected" /\ activeNode = NoNode /\ activeMode = NoMode
  /\ candidates = << >> /\ switching = FALSE /\ poll = FALSE
  /\ selection \in Selection /\ modeOf \in Mode
  /\ busy = FALSE /\ epoch = 0 /\ stopping = 0 /\ disposed = FALSE
  /\ calls = [c \in Call |-> Idle]
  /\ stops = [e \in Epoch |-> "none"]

isActive == status \in {"protected", "connecting"}

(***************************************************************************)
(* Where an invocation goes next.                                          *)
(***************************************************************************)
Suspend(c, op) == calls' = [calls EXCEPT ![c] = op]

(* A wrong variant: a return path that leaves _busy up.                     *)
FinishForgets(c) == UNCHANGED busy /\ Suspend(c, Idle)

(* finally { _busy = false; }                                               *)
Finish(c) == busy' = FALSE /\ Suspend(c, Idle)

Await(op, at) == [op EXCEPT !.pc = at, !.res = "queued"]

(* _candidateSet: the node itself, then its backups.                        *)
CandidateSet(node) == {l \in Lists : l[1] = node}

(* A wrong variant: the mode of the last session instead of the one asked.  *)
LaunchStartStale(c, op, mode) ==
  \E l \in CandidateSet(op.node) : Suspend(c, [Await(op, "start") EXCEPT !.list = l])

(* _start up to its await.                                                  *)
LaunchStart(c, op, mode) ==
  \E l \in CandidateSet(op.node) :
    Suspend(c, [Await(op, "start") EXCEPT !.mode = mode, !.list = l])

(* connect after "await _stopping": never start on top of a leftover.       *)
AfterStopping(c, op) ==
  \/ isRunning /\ Suspend(c, Await(op, "stopLeftover"))
  \/ ~isRunning /\ LaunchStart(c, op, modeOf)

(* _fail                                                                    *)
Fail ==
  /\ status' = "error"
  /\ poll' = FALSE /\ activeMode' = NoMode /\ switching' = FALSE
  /\ UNCHANGED activeNode

-----------------------------------------------------------------------------
(* The user and the monitor.                                                *)

Connect(c) ==
  /\ ~disposed /\ calls[c] = Idle
  /\ ~isActive /\ ~busy
  /\ \/ /\ status' = "error"   \* no rights for a TUN, or no live node resolves
        /\ UNCHANGED <<busy, calls>>
     \/ /\ modeOf = "vpn" => Elevated
        /\ status' = "connecting"
        /\ busy' = TRUE
        /\ \E n \in Scope[selection] :
             LET op == [Idle EXCEPT !.epoch = epoch, !.node = n]
             IN  IF stopping = 0 THEN AfterStopping(c, op)
                 ELSE Suspend(c, [op EXCEPT !.pc = "awaitStopping", !.wait = stopping])
  /\ UNCHANGED <<session, activeNode, activeMode, candidates, switching, poll, userVars,
                 epoch, stopping, disposed, stops>>

(***************************************************************************)
(* disconnect: the UI is "disconnected" at once, the engine follows on a   *)
(* helper isolate.  Every caller asks isActive first (the power button,    *)
(* the tray's quit).                                                       *)
(***************************************************************************)
Disconnect ==
  /\ ~disposed /\ isActive /\ epoch < MaxEpoch
  /\ epoch' = epoch + 1
  /\ status' = "disconnected" /\ activeNode' = NoNode /\ activeMode' = NoMode
  /\ candidates' = << >> /\ switching' = FALSE /\ poll' = FALSE
  /\ IF isRunning \/ busy
     THEN /\ stops' = [stops EXCEPT ![epoch + 1] = "queued"]
          /\ stopping' = epoch + 1
     ELSE UNCHANGED <<stops, stopping>>
  /\ UNCHANGED <<session, userVars, busy, disposed, calls>>

(* A wrong variant: the UI moves, the core is not asked.                    *)
HotSwapShown(n) ==
  /\ activeNode' = n /\ switching' = FALSE
  /\ UNCHANGED <<session, status, activeMode, candidates, poll, busy, calls>>

(* A candidate of the running selector group: no restart.                   *)
HotSwap(n) ==
  /\ \E i \in DOMAIN candidates : candidates[i] = n /\ CoreSelect(i)
  /\ activeNode' = n /\ switching' = FALSE
  /\ UNCHANGED <<status, activeMode, candidates, poll, busy, calls>>

CanHotSwap(n) == \E i \in DOMAIN candidates : candidates[i] = n /\ CanSelect(i)

(* A wrong variant: the start is launched without the stop.                 *)
RestartOnTop(c, n) ==
  /\ busy' = TRUE /\ switching' = TRUE
  /\ LaunchStart(c, [Idle EXCEPT !.kind = "switch", !.epoch = epoch, !.node = n], activeMode)
  /\ UNCHANGED <<session, status, activeNode, activeMode, candidates, poll>>

(* Otherwise stop and start, in the session's own mode.                     *)
Restart(c, n) ==
  /\ busy' = TRUE /\ switching' = TRUE
  /\ Suspend(c, [Await(Idle, "stopRestart") EXCEPT
                   !.kind = "switch", !.epoch = epoch, !.node = n,
                   !.mode = IF activeMode = NoMode THEN modeOf ELSE activeMode])
  /\ UNCHANGED <<session, status, activeNode, activeMode, candidates, poll>>

(* A wrong variant: it does not look at _busy.                              *)
SwitchToBusy(c, n) ==
  /\ n # activeNode
  /\ \/ CanHotSwap(n) /\ HotSwap(n)
     \/ ~CanHotSwap(n) /\ Restart(c, n)

(* _switchTo: nothing to do, refused while busy, or the move itself.        *)
SwitchTo(c, n) ==
  \/ /\ n = activeNode \/ busy
     /\ UNCHANGED <<session, uiVars, busy, calls>>
  \/ /\ n # activeNode /\ ~busy /\ CanHotSwap(n) /\ HotSwap(n)
  \/ /\ n # activeNode /\ ~busy /\ ~CanHotSwap(n) /\ Restart(c, n)

(* select: remembered always; moves a live session if it resolves (the      *)
(* pool may at any moment hold no live node of the selection).              *)
Select(c, sel) ==
  /\ ~disposed /\ calls[c] = Idle
  /\ selection' = sel
  /\ \/ UNCHANGED <<session, uiVars, busy, calls>>
     \/ status = "protected" /\ \E n \in Scope[sel] : SwitchTo(c, n)
  /\ UNCHANGED <<modeOf, epoch, stopping, disposed, stops>>

(* switchTo: the monitor's failover and relocation.                         *)
MonitorSwitch(c, n) ==
  /\ ~disposed /\ calls[c] = Idle /\ status = "protected"
  /\ SwitchTo(c, n)
  /\ UNCHANGED <<userVars, epoch, stopping, disposed, stops>>

SetMode(m) ==
  /\ ~disposed /\ m # modeOf
  /\ modeOf' = m
  /\ UNCHANGED <<session, uiVars, selection, busy, epoch, stopping, disposed, calls, stops>>

(* _tick: the poll finds the engine gone although nothing is in flight.     *)
TickFails ==
  /\ poll /\ ~busy /\ ~isRunning
  /\ Fail
  /\ UNCHANGED <<session, candidates, userVars, busy, epoch, stopping, disposed, calls,
                 stops>>

(* A wrong variant: what is in flight is not disowned.                      *)
DisposeKeepsEpoch ==
  /\ ~disposed
  /\ disposed' = TRUE /\ poll' = FALSE
  /\ CoreStop
  /\ UNCHANGED <<status, activeNode, activeMode, candidates, switching, userVars, busy,
                 epoch, stopping, calls, stops>>

Dispose ==
  /\ ~disposed
  /\ disposed' = TRUE /\ epoch' = epoch + 1 /\ poll' = FALSE
  /\ CoreStop
  /\ UNCHANGED <<status, activeNode, activeMode, candidates, switching, userVars, busy,
                 stopping, calls, stops>>

-----------------------------------------------------------------------------
(* The helper isolates: calls in flight reach the core in any order.        *)

NativeStart(c) ==
  /\ calls[c].pc = "start" /\ calls[c].res = "queued"
  /\ \/ CoreStart(calls[c].list, calls[c].mode, 0) /\ Suspend(c, [calls[c] EXCEPT !.res = "ok"])
     \/ CoreStart(calls[c].list, calls[c].mode, 1) /\ Suspend(c, [calls[c] EXCEPT !.res = "failed"])
     \/ UNCHANGED session /\ Suspend(c, [calls[c] EXCEPT !.res = "threw"])
  /\ UNCHANGED <<uiVars, userVars, busy, epoch, stopping, disposed, stops>>

NativeStop(c) ==
  /\ calls[c].pc \in {"stopLeftover", "stopRestart", "stopOrphan"}
  /\ calls[c].res = "queued"
  /\ CoreStop
  /\ Suspend(c, [calls[c] EXCEPT !.res = "ok"])
  /\ UNCHANGED <<uiVars, userVars, busy, epoch, stopping, disposed, stops>>

(* The stop a disconnect launched.                                          *)
DisconnectStop(e) ==
  /\ stops[e] = "queued"
  /\ CoreStop
  /\ stops' = [stops EXCEPT ![e] = "ran"]
  /\ UNCHANGED <<uiVars, userVars, busy, epoch, stopping, disposed, calls>>

-----------------------------------------------------------------------------
(* Continuations on the Dart event loop.                                    *)

(* A wrong variant: _stopping is cleared without "identical".               *)
StopReturnsAny(e) ==
  /\ stops[e] = "ran"
  /\ stops' = [stops EXCEPT ![e] = "none"]
  /\ stopping' = 0
  /\ UNCHANGED <<session, uiVars, userVars, busy, epoch, disposed, calls>>

(* disconnect after its await.                                              *)
StopReturns(e) ==
  /\ stops[e] = "ran"
  /\ stops' = [stops EXCEPT ![e] = "none"]
  /\ stopping' = IF stopping = e THEN 0 ELSE stopping
  /\ UNCHANGED <<session, uiVars, userVars, busy, epoch, disposed, calls>>

ResumeAwaitStopping(c) ==
  /\ calls[c].pc = "awaitStopping" /\ stops[calls[c].wait] = "none"
  /\ AfterStopping(c, calls[c])
  /\ UNCHANGED <<session, uiVars, userVars, busy, epoch, stopping, disposed, stops>>

ResumeLeftover(c) ==
  /\ calls[c].pc = "stopLeftover" /\ calls[c].res = "ok"
  /\ LaunchStart(c, calls[c], modeOf)
  /\ UNCHANGED <<session, uiVars, userVars, busy, epoch, stopping, disposed, stops>>

(* A wrong variant: restart in the mode of the settings.                    *)
ResumeRestartInSetting(c) ==
  /\ calls[c].pc = "stopRestart" /\ calls[c].res = "ok"
  /\ calls[c].epoch = epoch
  /\ LaunchStart(c, calls[c], modeOf)
  /\ UNCHANGED <<session, uiVars, userVars, busy, epoch, stopping, disposed, stops>>

(* _switchTo after its stop: a disconnect meanwhile ends it here.           *)
ResumeRestart(c) ==
  /\ calls[c].pc = "stopRestart" /\ calls[c].res = "ok"
  /\ \/ calls[c].epoch # epoch /\ Finish(c)
     \/ calls[c].epoch = epoch /\ LaunchStart(c, calls[c], calls[c].mode) /\ UNCHANGED busy
  /\ UNCHANGED <<session, uiVars, userVars, epoch, stopping, disposed, stops>>

(***************************************************************************)
(* The start has answered.  Wanted means no disconnect came meanwhile.     *)
(***************************************************************************)
WantedAlways(c) == calls[c].epoch <= epoch   \* wrong: whatever disconnect did
Wanted(c) == calls[c].epoch = epoch

StartedUp(c) ==
  /\ Wanted(c) /\ calls[c].res = "ok" /\ isRunning
  /\ candidates' = calls[c].list /\ activeMode' = calls[c].mode
  /\ activeNode' = calls[c].node /\ status' = "protected"
  /\ switching' = IF calls[c].kind = "switch" THEN FALSE ELSE switching
  /\ poll' = (poll \/ calls[c].kind = "connect")
  /\ Finish(c)

StartFailed(c) ==
  /\ Wanted(c)
  /\ calls[c].res # "ok" \/ ~isRunning
  /\ candidates' = CASE calls[c].res = "ok" -> calls[c].list
                     [] calls[c].res = "failed" -> << >>
                     [] calls[c].res = "threw" -> candidates
  /\ Fail
  /\ Finish(c)

(* A wrong variant: the late engine is left running.                        *)
StartUnwantedLeft(c) ==
  /\ ~Wanted(c)
  /\ candidates' = IF calls[c].res = "threw" THEN candidates ELSE << >>
  /\ Finish(c)
  /\ UNCHANGED <<status, activeNode, activeMode, switching, poll>>

(* disconnect() won: no engine may stay behind a "disconnected" UI.         *)
StartUnwanted(c) ==
  /\ ~Wanted(c)
  /\ candidates' = IF calls[c].res = "threw" THEN candidates ELSE << >>
  /\ IF calls[c].res = "ok" /\ isRunning
     THEN Suspend(c, Await(calls[c], "stopOrphan")) /\ UNCHANGED busy
     ELSE Finish(c)
  /\ UNCHANGED <<status, activeNode, activeMode, switching, poll>>

ResumeStart(c) ==
  /\ calls[c].pc = "start" /\ calls[c].res # "queued"
  /\ StartedUp(c) \/ StartFailed(c) \/ StartUnwanted(c)
  /\ UNCHANGED <<session, userVars, epoch, stopping, disposed, stops>>

ResumeOrphan(c) ==
  /\ calls[c].pc = "stopOrphan" /\ calls[c].res = "ok"
  /\ Finish(c)
  /\ UNCHANGED <<session, uiVars, userVars, epoch, stopping, disposed, stops>>

-----------------------------------------------------------------------------
(* Another owner of the engine, which the bridge knows nothing of (module   *)
(* ProbeSheet has the one there is): it starts single nodes, and stops.     *)

OtherStart ==
  /\ \E l \in Lists : Len(l) = 1 /\ CoreStart(l, "proxy", 0)
  /\ UNCHANGED <<uiVars, userVars, busy, epoch, stopping, disposed, calls, stops>>

OtherStop ==
  /\ CoreStop
  /\ UNCHANGED <<uiVars, userVars, busy, epoch, stopping, disposed, calls, stops>>

-----------------------------------------------------------------------------
User(c) ==
  \/ Connect(c)
  \/ \E sel \in Selection : Select(c, sel)
  \/ \E n \in Node : MonitorSwitch(c, n)

Native(c) == NativeStart(c) \/ NativeStop(c)

Resume(c) ==
  \/ ResumeAwaitStopping(c) \/ ResumeLeftover(c) \/ ResumeRestart(c)
  \/ ResumeStart(c) \/ ResumeOrphan(c)

Next ==
  \/ \E c \in Call : User(c) \/ Native(c) \/ Resume(c)
  \/ \E e \in Epoch : DisconnectStop(e) \/ StopReturns(e)
  \/ \E m \in Mode : SetMode(m)
  \/ Disconnect \/ TickFails \/ Dispose

Spec == Init /\ [][Next]_vars

(***************************************************************************)
(* An isolate's native call runs and answers (CallsReturn of module        *)
(* Engine), the event loop runs what is ready and the poll timer fires.    *)
(* The user, the monitor and the settings are under no obligation.         *)
(***************************************************************************)
Fairness ==
  /\ \A c \in Call : WF_vars(Native(c)) /\ WF_vars(Resume(c))
  /\ \A e \in Epoch : WF_vars(DisconnectStop(e)) /\ WF_vars(StopReturns(e))
  /\ WF_vars(TickFails)

FairSpec == Spec /\ Fairness

(* The bridge beside another owner, of which it knows nothing.              *)
SharedNext == Next \/ OtherStart \/ OtherStop

SharedSpec == Init /\ [][SharedNext]_vars

SharedFairSpec == SharedSpec /\ Fairness

-----------------------------------------------------------------------------
(* What the UI shows is what runs: a connection shown as protected, with no *)
(* operation in flight, is an engine that runs, was started in the mode     *)
(* shown, with the candidate list the bridge indexes hot-swaps by, and      *)
(* sends traffic through the node shown; and the poll watches it.           *)
ProtectedIsHonest ==
  status = "protected" /\ ~busy /\ ~disposed =>
    /\ isRunning /\ poll
    /\ session.mode = activeMode
    /\ session.list = candidates
    /\ candidates[session.active] = activeNode

(* No engine is left behind a "disconnected" (or failed, or disposed) UI    *)
(* once its operations are over: only the tracked stop can still be due.    *)
NoOrphan ==
  isRunning /\ ~busy /\ (status # "protected" \/ disposed) =>
    stopping # 0 /\ stops[stopping] = "queued"

(* A start never reaches a core that already runs: it would be a no-op that *)
(* answers 0 and the wrong node would be reported as connected.             *)
NoStartOnTop ==
  \A c \in Call : calls[c].pc = "start" /\ calls[c].res = "queued" => ~isRunning

(* A stop left over from an earlier disconnect can never hit the session    *)
(* the user started after it: connect waits for the tracked stop.           *)
NoStopRacesSession ==
  (\E e \in Epoch : stops[e] = "queued") =>
    /\ status = "protected" => disposed
    /\ \A c \in Call :
         calls[c].pc \in {"start", "stopLeftover", "stopRestart"} => ~Wanted(c)

(* One engine operation at a time: _busy is up exactly while an invocation  *)
(* is suspended, whichever return, throw or early exit ends it.             *)
OneOperation ==
  /\ busy <=> \E c \in Call : calls[c] # Idle
  /\ \A c, d \in Call : calls[c] # Idle /\ calls[d] # Idle => c = d

(* disconnect() wins over whatever it interrupted: the UI leaves            *)
(* "disconnected" only by a new connect with nothing else in flight, never  *)
(* by the late answer of an operation begun before.                         *)
DisconnectWins ==
  [][status = "disconnected" /\ status' # "disconnected" => ~busy /\ epoch' = epoch]_vars

(* A session keeps the mode it was started in through hot-swaps and         *)
(* restarts, whatever the settings say meanwhile.                           *)
ModeIsSessions ==
  [][activeMode # NoMode /\ activeMode' # NoMode => activeMode' = activeMode]_vars

(* No await hangs: _busy, which makes connect and switchTo refuse, always   *)
(* comes down again.                                                        *)
BusyEnds == busy ~> ~busy

(* The engine follows the UI: after a disconnect it ends up stopped, unless *)
(* the user asked for a new connection.                                     *)
EngineFollowsUI == (status = "disconnected") ~> (~isRunning \/ status # "disconnected")

(* The poll notices an engine that somebody else has stopped: the UI does   *)
(* not keep showing a dead connection as protected.                         *)
DeathNoticed ==
  (status = "protected" /\ ~isRunning /\ ~disposed) ~>
    (status # "protected" \/ isRunning \/ disposed)

(* After dispose the engine ends up stopped for good, whatever start was    *)
(* still in flight.                                                         *)
DisposeIsFinal == disposed ~> [](~isRunning)

-----------------------------------------------------------------------------
(***************************************************************************)
(* The inductive invariant behind the safety properties, for a bridge that *)
(* has the engine to itself.                                               *)
(***************************************************************************)
NoStopDue == \A e \in Epoch : stops[e] = "none"

(* An invocation holds what it needs at the await it is suspended at.       *)
OpsWellFormed ==
  \A c \in Call :
    LET op == calls[c]
    IN  /\ op.pc = "idle" => op = Idle
        /\ op.pc # "idle" => op.node \in Node
        /\ op.pc \in {"stopRestart", "start", "stopOrphan"} => op.mode \in Mode
        /\ op.pc = "awaitStopping" => op.wait \in Epoch
        /\ op.pc = "start" => op.list \in CandidateSet(op.node) /\ op.res # "none"

(* What the status says about the operation in flight: a wanted connect is  *)
(* "connecting", a wanted switch "protected", a cancelled one invisible.    *)
StatusMatchesOp ==
  /\ \A c \in Call : calls[c] # Idle =>
       /\ calls[c].epoch <= epoch
       /\ Wanted(c) => /\ ~disposed
                       /\ status = IF calls[c].kind = "connect" THEN "connecting"
                                   ELSE "protected"
       /\ ~Wanted(c) => status = "disconnected" \/ disposed
       /\ calls[c].pc = "stopOrphan" => ~Wanted(c)
  /\ status = "connecting" /\ ~disposed => busy
  /\ status = "protected" /\ ~disposed => poll
  /\ ~disposed => epoch <= MaxEpoch

(* Which stops of earlier disconnects can still be due: the tracked one and *)
(* the one a connect waits for; none once an engine may be wanted again.    *)
StopsTracked ==
  /\ \A e \in Epoch : stops[e] # "none" =>
       \/ e = stopping
       \/ \E c \in Call : calls[c].pc = "awaitStopping" /\ calls[c].wait = e
  /\ \A c \in Call : Wanted(c) =>
       /\ calls[c].pc = "awaitStopping" =>
            \A e \in Epoch : stops[e] # "none" => e = calls[c].wait
       /\ calls[c].pc \in {"start", "stopLeftover", "stopRestart"} => NoStopDue
  /\ status = "protected" /\ ~disposed => NoStopDue

(* What an answered or queued native call says about the core.              *)
CoreMatchesOp ==
  \A c \in Call :
    /\ calls[c].pc = "start" =>
         /\ calls[c].res # "ok" => ~isRunning
         /\ isRunning => session = NewSession(calls[c].list, calls[c].mode)
    /\ calls[c].pc \in {"stopLeftover", "stopRestart", "stopOrphan"} /\ calls[c].res = "ok"
         => ~isRunning

(* The conjunction is inductive; it carries ProtectedIsHonest and NoOrphan  *)
(* across every await of connect, _switchTo and disconnect.                 *)
IInv ==
  /\ TypeOK /\ OpsWellFormed /\ OneOperation
  /\ StatusMatchesOp /\ StopsTracked /\ CoreMatchesOp
  /\ ProtectedIsHonest /\ NoOrphan

(***************************************************************************)
(* Inductive relative to IInv: the mode shown is a protected session's,    *)
(* and a switch in flight restarts in it.                                  *)
(***************************************************************************)
ModeInv ==
  /\ status # "protected" => activeMode = NoMode
  /\ \A c \in Call :
       /\ calls[c].kind = "switch" /\ Wanted(c) => calls[c].mode = activeMode
       /\ calls[c].kind = "switch" => calls[c].pc \in {"stopRestart", "start", "stopOrphan"}
=============================================================================
