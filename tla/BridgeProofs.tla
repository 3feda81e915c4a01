---------------------------- MODULE BridgeProofs ----------------------------
(***************************************************************************)
(* IInv is an inductive invariant of Bridge, for any pool, any lists, any  *)
(* number of invocations and of disconnects, where nobody else uses the    *)
(* engine.                                                                 *)
(***************************************************************************)
EXTENDS Bridge, TLAPS

(* What a start leaves running is a session.                                *)
LEMMA SessionType ==
  ASSUME NEW l \in Lists, NEW m \in Mode
  PROVE  NewSession(l, m) \in Session
BY CoreAssumption DEF NewSession, Session, Accepted

(* The fields of an invocation that is not in flight.                       *)
LEMMA IdleFacts ==
  /\ Idle \in Op /\ Idle.pc = "idle" /\ Idle.kind = "connect" /\ Idle.epoch = 0
  /\ Idle.wait = 0
BY DEF Idle, Op

(* The invocation c is now at op; the others are, and stay, idle.           *)
Moved(c, op) ==
  /\ calls' \in [Call -> Op] /\ calls'[c] = op
  /\ \A d \in Call : d # c => calls[d] = Idle /\ calls'[d] = Idle

(* Only one invocation is ever in flight: a step of c leaves the rest idle. *)
LEMMA Moving ==
  ASSUME IInv, NEW c \in Call, NEW op \in Op, Suspend(c, op), calls[c] # Idle \/ ~busy
  PROVE  Moved(c, op)
BY DEF IInv, TypeOK, OneOperation, Suspend, Moved

(* _start suspends its caller at the start, with a list for the node.       *)
LEMMA Launching ==
  ASSUME IInv, NEW c \in Call, calls[c] # Idle \/ ~busy,
         NEW op \in Op, NEW m \in Mode, LaunchStart(c, op, m)
  PROVE  \E new \in Op :
           /\ Moved(c, new)
           /\ new.pc = "start" /\ new.res = "queued"
           /\ new.epoch = op.epoch /\ new.kind = op.kind
           /\ new.node = op.node /\ new.mode = m
           /\ new.list \in CandidateSet(op.node)
<1>1. PICK l \in CandidateSet(op.node) :
        Suspend(c, [Await(op, "start") EXCEPT !.mode = m, !.list = l])
  BY DEF LaunchStart
<1> DEFINE new == [Await(op, "start") EXCEPT !.mode = m, !.list = l]
<1>2. /\ new \in Op
      /\ new.pc = "start" /\ new.res = "queued"
      /\ new.epoch = op.epoch /\ new.kind = op.kind
      /\ new.node = op.node /\ new.mode = m /\ new.list = l
  BY DEF Op, Await, CandidateSet
<1>3. Moved(c, new)
  BY <1>1, <1>2, Moving
<1> QED BY <1>1, <1>2, <1>3

(* The fields an awaited native call changes.                               *)
LEMMA Awaiting ==
  ASSUME NEW op \in Op, NEW at \in {"stopLeftover", "stopRestart", "stopOrphan"}
  PROVE  /\ Await(op, at) \in Op
         /\ Await(op, at).pc = at /\ Await(op, at).res = "queued"
         /\ Await(op, at).epoch = op.epoch /\ Await(op, at).kind = op.kind
         /\ Await(op, at).node = op.node /\ Await(op, at).mode = op.mode
BY DEF Op, Await

(***************************************************************************)
(* An operation in flight goes on to its next native call.                 *)
(***************************************************************************)
LEMMA Continuing ==
  ASSUME IInv, NEW c \in Call, calls[c].pc # "idle", NEW op \in Op, Moved(c, op),
         op.pc \in {"stopLeftover", "start", "stopOrphan"}, op.res = "queued",
         op.epoch = calls[c].epoch, op.kind = calls[c].kind, op.node \in Node,
         op.pc \in {"start", "stopOrphan"} => op.mode \in Mode,
         op.pc = "start" => op.list \in CandidateSet(op.node) /\ ~isRunning,
         op.pc = "stopOrphan" => ~Wanted(c),
         Wanted(c) => NoStopDue,
         \A e \in Epoch : stops[e] # "none" => e = stopping,
         candidates' \in Lists \cup {<< >>},
         UNCHANGED <<session, status, activeNode, activeMode, switching, poll, userVars,
                     busy, epoch, stopping, disposed, stops>>
  PROVE  IInv'
<1> USE IdleFacts
<1>0. calls[c] # Idle /\ busy
  BY DEF IInv, OneOperation
<1>1. TypeOK'
  BY DEF IInv, TypeOK, CoreTypeOK, Moved, userVars
<1>2. OpsWellFormed'
  BY DEF IInv, OpsWellFormed, Moved, CandidateSet
<1>3. OneOperation'
  BY <1>0 DEF IInv, OneOperation, Moved
<1>4. StatusMatchesOp'
  BY <1>0 DEF IInv, StatusMatchesOp, Moved, Wanted
<1>5. StopsTracked'
  BY <1>0 DEF IInv, StopsTracked, Moved, Wanted, NoStopDue
<1>6. CoreMatchesOp'
  BY DEF IInv, CoreMatchesOp, Moved, isRunning
<1>7. ProtectedIsHonest' /\ NoOrphan'
  BY <1>0 DEF ProtectedIsHonest, NoOrphan
<1> QED BY <1>1, <1>2, <1>3, <1>4, <1>5, <1>6, <1>7 DEF IInv

(***************************************************************************)
(* An operation ends without having changed what the UI shows: nothing may *)
(* run any more.                                                           *)
(***************************************************************************)
LEMMA Ending ==
  ASSUME IInv, NEW c \in Call, calls[c].pc # "idle", ~Wanted(c), ~isRunning,
         calls[c].pc # "awaitStopping",
         Finish(c),
         candidates' \in Lists \cup {<< >>},
         UNCHANGED <<session, status, activeNode, activeMode, switching, poll, userVars,
                     epoch, stopping, disposed, stops>>
  PROVE  IInv'
<1> USE IdleFacts
<1>0. calls[c] # Idle /\ busy /\ busy' = FALSE /\ (status = "disconnected" \/ disposed)
  BY DEF IInv, OneOperation, StatusMatchesOp, Finish
<1>m. Moved(c, Idle)
  BY <1>0, Moving DEF Finish
<1>1. TypeOK'
  BY <1>0, <1>m DEF IInv, TypeOK, CoreTypeOK, Moved, userVars
<1>2. OpsWellFormed'
  BY <1>m DEF OpsWellFormed, Moved
<1>3. OneOperation'
  BY <1>0, <1>m DEF OneOperation, Moved
<1>4. StatusMatchesOp'
  BY <1>0, <1>m DEF IInv, StatusMatchesOp, Moved
<1>5. StopsTracked'
  BY <1>0, <1>m DEF IInv, StopsTracked, Moved, NoStopDue
<1>6. CoreMatchesOp'
  BY <1>m DEF CoreMatchesOp, Moved
<1>7. ProtectedIsHonest' /\ NoOrphan'
  BY <1>0 DEF ProtectedIsHonest, NoOrphan, isRunning
<1> QED BY <1>1, <1>2, <1>3, <1>4, <1>5, <1>6, <1>7 DEF IInv

-----------------------------------------------------------------------------
(* The continuations.                                                       *)

(* connect goes on after "await _stopping".                                 *)
LEMMA ResumeAwaitStoppingKeeps ==
  ASSUME IInv, NEW c \in Call, ResumeAwaitStopping(c)
  PROVE  IInv'
<1> USE IdleFacts
<1>0. /\ calls[c] \in Op /\ calls[c] # Idle /\ calls[c].node \in Node
      /\ modeOf \in Mode /\ candidates' \in Lists \cup {<< >>}
  BY DEF IInv, TypeOK, OpsWellFormed, ResumeAwaitStopping, uiVars
<1>1. \A e \in Epoch : stops[e] # "none" => e = stopping
  BY <1>0 DEF IInv, StopsTracked, OneOperation, ResumeAwaitStopping
<1>2. Wanted(c) => NoStopDue
  BY DEF IInv, StopsTracked, ResumeAwaitStopping, NoStopDue
<1>3. CASE isRunning /\ Suspend(c, Await(calls[c], "stopLeftover"))
  <2> DEFINE op == Await(calls[c], "stopLeftover")
  <2>1. /\ op \in Op /\ op.pc = "stopLeftover" /\ op.res = "queued"
        /\ op.epoch = calls[c].epoch /\ op.kind = calls[c].kind /\ op.node = calls[c].node
    BY <1>0, Awaiting
  <2>2. Moved(c, op)
    BY <1>0, <1>3, <2>1, Moving
  <2> QED BY <1>0, <1>1, <1>2, <2>1, <2>2, Continuing DEF ResumeAwaitStopping, uiVars
<1>4. CASE ~isRunning /\ LaunchStart(c, calls[c], modeOf)
  <2>1. PICK op \in Op :
          /\ Moved(c, op)
          /\ op.pc = "start" /\ op.res = "queued"
          /\ op.epoch = calls[c].epoch /\ op.kind = calls[c].kind
          /\ op.node = calls[c].node /\ op.mode = modeOf
          /\ op.list \in CandidateSet(calls[c].node)
    BY <1>0, <1>4, Launching
  <2> QED BY <1>0, <1>1, <1>2, <1>4, <2>1, Continuing DEF ResumeAwaitStopping, uiVars
<1> QED BY <1>3, <1>4 DEF ResumeAwaitStopping, AfterStopping

(* Past its wait, a connect has no stop due but the tracked one.            *)
LEMMA OnlyTracked ==
  ASSUME IInv, NEW c \in Call, calls[c].pc # "idle", calls[c].pc # "awaitStopping"
  PROVE  \A e \in Epoch : stops[e] # "none" => e = stopping
BY IdleFacts DEF IInv, StopsTracked, OneOperation

(* connect starts once the leftover engine is stopped.                      *)
LEMMA ResumeLeftoverKeeps ==
  ASSUME IInv, NEW c \in Call, ResumeLeftover(c)
  PROVE  IInv'
<1> USE IdleFacts
<1>0. /\ calls[c] \in Op /\ calls[c] # Idle /\ calls[c].pc # "idle" /\ calls[c].node \in Node
      /\ modeOf \in Mode /\ candidates' \in Lists \cup {<< >>}
  BY DEF IInv, TypeOK, OpsWellFormed, ResumeLeftover, uiVars
<1>1. ~isRunning /\ (Wanted(c) => NoStopDue)
  BY DEF IInv, CoreMatchesOp, StopsTracked, ResumeLeftover
<1>2. \A e \in Epoch : stops[e] # "none" => e = stopping
  BY OnlyTracked DEF ResumeLeftover
<1>3. PICK op \in Op :
        /\ Moved(c, op)
        /\ op.pc = "start" /\ op.res = "queued"
        /\ op.epoch = calls[c].epoch /\ op.kind = calls[c].kind
        /\ op.node = calls[c].node /\ op.mode = modeOf
        /\ op.list \in CandidateSet(calls[c].node)
  BY <1>0, Launching DEF ResumeLeftover
<1> QED BY <1>0, <1>1, <1>2, <1>3, Continuing DEF ResumeLeftover, uiVars

(* _switchTo starts again, or ends because a disconnect came.               *)
LEMMA ResumeRestartKeeps ==
  ASSUME IInv, NEW c \in Call, ResumeRestart(c)
  PROVE  IInv'
<1> USE IdleFacts
<1>0. /\ calls[c] \in Op /\ calls[c] # Idle /\ calls[c].pc # "idle" /\ calls[c].node \in Node
      /\ calls[c].mode \in Mode /\ candidates' \in Lists \cup {<< >>}
  BY DEF IInv, TypeOK, OpsWellFormed, ResumeRestart, uiVars
<1>1. ~isRunning
  BY DEF IInv, CoreMatchesOp, ResumeRestart
<1>2. CASE calls[c].epoch # epoch /\ Finish(c)
  BY <1>0, <1>1, <1>2, Ending DEF ResumeRestart, uiVars, Wanted
<1>3. CASE /\ calls[c].epoch = epoch
           /\ LaunchStart(c, calls[c], calls[c].mode) /\ UNCHANGED busy
  <2>1. NoStopDue
    BY <1>3 DEF IInv, StopsTracked, Wanted, ResumeRestart
  <2>2. \A e \in Epoch : stops[e] # "none" => e = stopping
    BY OnlyTracked DEF ResumeRestart
  <2>3. PICK op \in Op :
          /\ Moved(c, op)
          /\ op.pc = "start" /\ op.res = "queued"
          /\ op.epoch = calls[c].epoch /\ op.kind = calls[c].kind
          /\ op.node = calls[c].node /\ op.mode = calls[c].mode
          /\ op.list \in CandidateSet(calls[c].node)
    BY <1>0, <1>3, Launching
  <2> QED BY <1>0, <1>1, <1>3, <2>1, <2>2, <2>3, Continuing DEF ResumeRestart, uiVars
<1> QED BY <1>2, <1>3 DEF ResumeRestart

(* "finally { _busy = false; }" leaves every invocation idle.               *)
LEMMA FinishMoves ==
  ASSUME IInv, NEW c \in Call, calls[c].pc # "idle", Finish(c)
  PROVE  Moved(c, Idle) /\ busy' = FALSE
BY IdleFacts, Moving DEF Finish

(* The start answered and is still wanted: the session is up ...            *)
LEMMA StartedUpKeeps ==
  ASSUME IInv, NEW c \in Call, ResumeStart(c), StartedUp(c)
  PROVE  IInv'
<1> USE IdleFacts
<1>0. /\ calls[c] \in Op /\ calls[c] # Idle /\ calls[c].pc = "start"
      /\ calls[c].node \in Node /\ calls[c].mode \in Mode
      /\ calls[c].list \in CandidateSet(calls[c].node)
  BY DEF IInv, TypeOK, OpsWellFormed, ResumeStart
<1>1. ~disposed /\ NoStopDue /\ session = NewSession(calls[c].list, calls[c].mode)
  BY <1>0 DEF IInv, StatusMatchesOp, StopsTracked, CoreMatchesOp, StartedUp
<1>2. Moved(c, Idle) /\ busy' = FALSE
  BY <1>0, FinishMoves DEF StartedUp
<1>3. poll' = TRUE
  BY <1>0, <1>1 DEF IInv, TypeOK, StatusMatchesOp, StartedUp, Op
<1> USE DEF ResumeStart, StartedUp
<1>4. TypeOK'
  BY <1>0, <1>2, <1>3 DEF IInv, TypeOK, CoreTypeOK, Moved, userVars, CandidateSet
<1>5. OpsWellFormed'
  BY <1>2 DEF OpsWellFormed, Moved
<1>6. OneOperation'
  BY <1>2 DEF OneOperation, Moved
<1>7. StatusMatchesOp'
  BY <1>2, <1>3 DEF IInv, StatusMatchesOp, Moved
<1>8. StopsTracked'
  BY <1>1, <1>2 DEF StopsTracked, Moved, NoStopDue
<1>9. CoreMatchesOp'
  BY <1>2 DEF CoreMatchesOp, Moved
<1>10. ProtectedIsHonest'
  BY <1>0, <1>1, <1>3 DEF ProtectedIsHonest, NewSession, CandidateSet, isRunning
<1>11. NoOrphan'
  BY <1>1 DEF NoOrphan
<1> QED BY <1>4, <1>5, <1>6, <1>7, <1>8, <1>9, <1>10, <1>11 DEF IInv

(* ... or it failed, and nothing runs ...                                   *)
LEMMA StartFailedKeeps ==
  ASSUME IInv, NEW c \in Call, ResumeStart(c), StartFailed(c)
  PROVE  IInv'
<1> USE IdleFacts
<1>0. calls[c] \in Op /\ calls[c] # Idle /\ calls[c].pc = "start"
  BY DEF IInv, TypeOK, ResumeStart
<1>1. ~isRunning /\ NoStopDue /\ ~disposed
  BY <1>0 DEF IInv, CoreMatchesOp, StopsTracked, StatusMatchesOp, StartFailed
<1>2. Moved(c, Idle) /\ busy' = FALSE
  BY <1>0, FinishMoves DEF StartFailed
<1>3. candidates' \in Lists \cup {<< >>}
  BY <1>0 DEF IInv, TypeOK, OpsWellFormed, CandidateSet, Op, StartFailed, ResumeStart
<1>4. /\ status' = "error" /\ poll' = FALSE /\ activeMode' = NoMode
      /\ switching' = FALSE /\ activeNode' = activeNode
  BY DEF StartFailed, Fail
<1> USE DEF ResumeStart
<1>5. TypeOK'
  BY <1>2, <1>3, <1>4 DEF IInv, TypeOK, CoreTypeOK, Moved, userVars
<1>6. OpsWellFormed'
  BY <1>2 DEF OpsWellFormed, Moved
<1>7. OneOperation'
  BY <1>2 DEF OneOperation, Moved
<1>8. StatusMatchesOp'
  BY <1>2, <1>4 DEF IInv, StatusMatchesOp, Moved
<1>9. StopsTracked'
  BY <1>1, <1>2 DEF StopsTracked, Moved, NoStopDue
<1>10. CoreMatchesOp'
  BY <1>2 DEF CoreMatchesOp, Moved
<1>11. ProtectedIsHonest' /\ NoOrphan'
  BY <1>1, <1>4 DEF ProtectedIsHonest, NoOrphan, isRunning
<1> QED BY <1>5, <1>6, <1>7, <1>8, <1>9, <1>10, <1>11 DEF IInv

(* ... or a disconnect won, and what came up is stopped again.              *)
LEMMA StartUnwantedKeeps ==
  ASSUME IInv, NEW c \in Call, ResumeStart(c), StartUnwanted(c)
  PROVE  IInv'
<1> USE IdleFacts
<1>0. /\ calls[c] \in Op /\ calls[c] # Idle /\ calls[c].pc = "start"
      /\ calls[c].node \in Node /\ calls[c].mode \in Mode
      /\ candidates' \in Lists \cup {<< >>}
  BY DEF IInv, TypeOK, OpsWellFormed, ResumeStart, StartUnwanted
<1>1. CASE calls[c].res = "ok" /\ isRunning
  <2> DEFINE op == Await(calls[c], "stopOrphan")
  <2>1. /\ op \in Op /\ op.pc = "stopOrphan" /\ op.res = "queued" /\ op.mode = calls[c].mode
        /\ op.epoch = calls[c].epoch /\ op.kind = calls[c].kind /\ op.node = calls[c].node
    BY <1>0, Awaiting
  <2>2. Moved(c, op) /\ UNCHANGED busy
    BY <1>0, <1>1, <2>1, Moving DEF StartUnwanted
  <2>3. \A e \in Epoch : stops[e] # "none" => e = stopping
    BY <1>0, OnlyTracked
  <2> QED BY <1>0, <2>1, <2>2, <2>3, Continuing DEF ResumeStart, StartUnwanted
<1>2. CASE ~(calls[c].res = "ok" /\ isRunning)
  <2>1. ~isRunning
    BY <1>0, <1>2 DEF IInv, CoreMatchesOp
  <2> QED BY <1>0, <1>2, <2>1, Ending DEF ResumeStart, StartUnwanted
<1> QED BY <1>1, <1>2

(* Every continuation of connect and _switchTo.                             *)
LEMMA ResumeKeeps ==
  ASSUME IInv, NEW c \in Call, Resume(c)
  PROVE  IInv'
<1>1. CASE ResumeOrphan(c)
  <2>1. ~isRunning /\ ~Wanted(c) /\ candidates' \in Lists \cup {<< >>}
    BY <1>1, IdleFacts DEF IInv, TypeOK, CoreMatchesOp, StatusMatchesOp, ResumeOrphan, uiVars
  <2> QED BY <1>1, <2>1, Ending DEF ResumeOrphan, uiVars
<1>2. CASE ResumeStart(c)
  BY <1>2, StartedUpKeeps, StartFailedKeeps, StartUnwantedKeeps DEF ResumeStart
<1> QED BY <1>1, <1>2, ResumeAwaitStoppingKeeps, ResumeLeftoverKeeps, ResumeRestartKeeps
        DEF Resume

-----------------------------------------------------------------------------
(* The helper isolates.                                                     *)

(***************************************************************************)
(* A native call in flight is answered; it may have changed the core.      *)
(***************************************************************************)
LEMMA Answering ==
  ASSUME IInv, NEW c \in Call, calls[c].pc # "idle", calls[c].pc # "awaitStopping",
         NEW r \in {"ok", "failed", "threw"}, Suspend(c, [calls[c] EXCEPT !.res = r]),
         session' \in Session \cup {NoSession},
         calls[c].pc # "start" => r = "ok" /\ ~isRunning',
         calls[c].pc = "start" =>
           /\ r # "ok" => ~isRunning'
           /\ isRunning' => session' = NewSession(calls[c].list, calls[c].mode),
         UNCHANGED <<uiVars, userVars, busy, epoch, stopping, disposed, stops>>
  PROVE  IInv'
<1> USE IdleFacts DEF uiVars, userVars
<1> DEFINE op == [calls[c] EXCEPT !.res = r]
<1>0. calls[c] \in Op /\ calls[c] # Idle /\ busy
  BY DEF IInv, TypeOK, OneOperation
<1>1. /\ op \in Op /\ op.res = r
      /\ op.pc = calls[c].pc /\ op.kind = calls[c].kind /\ op.epoch = calls[c].epoch
      /\ op.node = calls[c].node /\ op.mode = calls[c].mode
      /\ op.list = calls[c].list /\ op.wait = calls[c].wait
  BY <1>0 DEF Op
<1>2. Moved(c, op)
  BY <1>0, <1>1, Moving
<1> HIDE DEF op
<1>3. TypeOK'
  BY <1>2 DEF IInv, TypeOK, CoreTypeOK, Moved
<1>4. OpsWellFormed'
  BY <1>0, <1>1, <1>2 DEF IInv, OpsWellFormed, Moved, CandidateSet
<1>5. OneOperation'
  BY <1>0, <1>1, <1>2 DEF IInv, OneOperation, Moved
<1>6. StatusMatchesOp'
  BY <1>0, <1>1, <1>2 DEF IInv, StatusMatchesOp, Moved, Wanted
<1>7. StopsTracked'
  BY <1>0, <1>1, <1>2 DEF IInv, StopsTracked, Moved, Wanted, NoStopDue
<1>8. CoreMatchesOp'
  BY <1>1, <1>2 DEF CoreMatchesOp, Moved, NewSession, Accepted
<1>9. ProtectedIsHonest' /\ NoOrphan'
  BY <1>0 DEF ProtectedIsHonest, NoOrphan
<1> QED BY <1>3, <1>4, <1>5, <1>6, <1>7, <1>8, <1>9 DEF IInv

(* wrnStart on a helper isolate: up, refused, or the isolate failed.        *)
LEMMA NativeStartKeeps ==
  ASSUME IInv, NEW c \in Call, NativeStart(c)
  PROVE  IInv'
<1>0. /\ calls[c].list \in Lists /\ calls[c].mode \in Mode /\ ~isRunning
      /\ session \in Session \cup {NoSession}
  BY DEF IInv, TypeOK, CoreTypeOK, OpsWellFormed, CoreMatchesOp, CandidateSet, NativeStart
<1>1. CASE /\ CoreStart(calls[c].list, calls[c].mode, 0)
           /\ Suspend(c, [calls[c] EXCEPT !.res = "ok"])
  <2>1. session' = NewSession(calls[c].list, calls[c].mode)
    BY <1>0, <1>1 DEF CoreStart
  <2> QED BY <1>0, <1>1, <2>1, SessionType, Answering DEF NativeStart
<1>2. CASE /\ CoreStart(calls[c].list, calls[c].mode, 1)
           /\ Suspend(c, [calls[c] EXCEPT !.res = "failed"])
  <2>1. UNCHANGED session
    BY <1>0, <1>2 DEF CoreStart
  <2> QED BY <1>0, <1>2, <2>1, Answering DEF NativeStart, isRunning
<1>3. CASE UNCHANGED session /\ Suspend(c, [calls[c] EXCEPT !.res = "threw"])
  BY <1>0, <1>3, Answering DEF NativeStart, isRunning
<1> QED BY <1>1, <1>2, <1>3 DEF NativeStart

(* wrnStop on a helper isolate.                                             *)
LEMMA NativeStopKeeps ==
  ASSUME IInv, NEW c \in Call, NativeStop(c)
  PROVE  IInv'
BY Answering DEF NativeStop, CoreStop, isRunning

(* A disconnect's stop reaches the core: whatever it stops is not wanted.   *)
LEMMA DisconnectStopKeeps ==
  ASSUME IInv, NEW e \in Epoch, DisconnectStop(e)
  PROVE  IInv'
<1> USE DEF DisconnectStop, CoreStop, uiVars, userVars
<1>0. /\ stops' \in [Epoch -> {"none", "queued", "ran"}]
      /\ \A f \in Epoch : f # e => stops'[f] = stops[f]
      /\ stops[e] = "queued" /\ stops'[e] = "ran" /\ ~isRunning'
      /\ UNCHANGED calls
  BY DEF IInv, TypeOK, isRunning
<1>1. ~NoStopDue
  BY <1>0 DEF NoStopDue
<1>2. TypeOK'
  BY <1>0 DEF IInv, TypeOK, CoreTypeOK
<1>3. OpsWellFormed' /\ OneOperation'
  BY DEF IInv, OpsWellFormed, OneOperation, CandidateSet
<1>4. StatusMatchesOp'
  BY DEF IInv, StatusMatchesOp, Wanted
<1>5. StopsTracked'
  BY <1>0, <1>1 DEF IInv, StopsTracked, Wanted, NoStopDue
<1>6. CoreMatchesOp'
  BY <1>0 DEF IInv, CoreMatchesOp
<1>7. ProtectedIsHonest' /\ NoOrphan'
  BY <1>0, <1>1 DEF IInv, StopsTracked, ProtectedIsHonest, NoOrphan
<1> QED BY <1>2, <1>3, <1>4, <1>5, <1>6, <1>7 DEF IInv

(* disconnect, once stopped, clears _stopping only if it is its own.        *)
LEMMA StopReturnsKeeps ==
  ASSUME IInv, NEW e \in Epoch, StopReturns(e)
  PROVE  IInv'
<1> USE DEF StopReturns, uiVars, userVars
<1>0. /\ stops' \in [Epoch -> {"none", "queued", "ran"}]
      /\ \A f \in Epoch : f # e => stops'[f] = stops[f]
      /\ stops[e] = "ran" /\ stops'[e] = "none"
      /\ stopping' \in 0 .. MaxEpoch
      /\ UNCHANGED calls
  BY BridgeAssumption DEF IInv, TypeOK
<1>1. TypeOK'
  BY <1>0 DEF IInv, TypeOK, CoreTypeOK
<1>2. OpsWellFormed' /\ OneOperation'
  BY DEF IInv, OpsWellFormed, OneOperation, CandidateSet
<1>3. StatusMatchesOp'
  BY DEF IInv, StatusMatchesOp, Wanted
<1>4. StopsTracked'
  BY <1>0 DEF IInv, StopsTracked, Wanted, NoStopDue
<1>5. CoreMatchesOp'
  BY DEF IInv, CoreMatchesOp, isRunning, NewSession, Accepted
<1>6. ProtectedIsHonest'
  BY DEF IInv, ProtectedIsHonest, isRunning
<1>7. NoOrphan'
  BY <1>0 DEF IInv, TypeOK, NoOrphan, isRunning, Epoch
<1> QED BY <1>1, <1>2, <1>3, <1>4, <1>5, <1>6, <1>7 DEF IInv

-----------------------------------------------------------------------------
(* The user, the monitor, the poll.                                         *)

(* _busy down means no invocation is suspended anywhere.                    *)
LEMMA NoneInFlight ==
  ASSUME IInv, ~busy
  PROVE  \A c \in Call : calls[c] = Idle
BY DEF IInv, OneOperation

(* connect gets past its guards: it waits for the tracked stop, or stops a  *)
(* leftover, or starts.                                                     *)
LEMMA ConnectingKeeps ==
  ASSUME IInv, ~disposed, status \in {"disconnected", "error"}, ~busy,
         NEW c \in Call, NEW op \in Op, Moved(c, op),
         op.pc \in {"awaitStopping", "stopLeftover", "start"}, op.kind = "connect",
         op.epoch = epoch, op.node \in Node,
         op.pc = "awaitStopping" => stopping \in Epoch /\ op.wait = stopping,
         op.pc # "awaitStopping" => stopping = 0 /\ op.res = "queued",
         op.pc = "start" => /\ op.mode \in Mode /\ ~isRunning
                            /\ op.list \in CandidateSet(op.node),
         status' = "connecting", busy' = TRUE,
         UNCHANGED <<session, activeNode, activeMode, candidates, switching, poll, userVars,
                     epoch, stopping, disposed, stops>>
  PROVE  IInv'
<1> USE IdleFacts
<1>0. \A e \in Epoch : stops[e] # "none" => e = stopping
  BY NoneInFlight DEF IInv, StopsTracked
<1>1. op.pc # "awaitStopping" => NoStopDue
  BY <1>0, BridgeAssumption DEF NoStopDue, Epoch
<1>2. TypeOK'
  BY DEF IInv, TypeOK, CoreTypeOK, Moved, userVars
<1>3. OpsWellFormed'
  BY DEF OpsWellFormed, Moved, CandidateSet
<1>4. OneOperation'
  BY DEF OneOperation, Moved
<1>5. StatusMatchesOp'
  <2>1. epoch \in Nat
    BY DEF IInv, TypeOK
  <2> QED BY <2>1 DEF IInv, StatusMatchesOp, Moved, Wanted
<1>6. StopsTracked'
  BY <1>0, <1>1 DEF StopsTracked, Moved, Wanted, NoStopDue
<1>7. CoreMatchesOp'
  BY DEF CoreMatchesOp, Moved, isRunning
<1>8. ProtectedIsHonest' /\ NoOrphan'
  BY DEF ProtectedIsHonest, NoOrphan
<1> QED BY <1>2, <1>3, <1>4, <1>5, <1>6, <1>7, <1>8 DEF IInv

(* connect up to its first await.                                           *)
LEMMA ConnectKeeps ==
  ASSUME IInv, NEW c \in Call, Connect(c)
  PROVE  IInv'
<1> USE IdleFacts
<1>0. ~disposed /\ status \in {"disconnected", "error"} /\ ~busy
  BY DEF IInv, TypeOK, Connect, isActive
<1>1. CASE status' = "error" /\ UNCHANGED <<busy, calls>>
  <2> USE <1>0, <1>1 DEF Connect, userVars
  <2>1. TypeOK'
    BY DEF IInv, TypeOK, CoreTypeOK
  <2>2. OpsWellFormed' /\ OneOperation'
    BY DEF IInv, OpsWellFormed, OneOperation, CandidateSet
  <2>3. StatusMatchesOp'
    BY NoneInFlight DEF IInv, StatusMatchesOp
  <2>4. StopsTracked'
    BY DEF IInv, StopsTracked, Wanted, NoStopDue
  <2>5. CoreMatchesOp'
    BY NoneInFlight DEF CoreMatchesOp
  <2>6. ProtectedIsHonest' /\ NoOrphan'
    BY DEF IInv, ProtectedIsHonest, NoOrphan, isRunning
  <2> QED BY <2>1, <2>2, <2>3, <2>4, <2>5, <2>6 DEF IInv
<1>2. ASSUME NEW n \in Scope[selection], status' = "connecting", busy' = TRUE,
             LET op == [Idle EXCEPT !.epoch = epoch, !.node = n]
             IN  IF stopping = 0 THEN AfterStopping(c, op)
                 ELSE Suspend(c, [op EXCEPT !.pc = "awaitStopping", !.wait = stopping])
      PROVE  IInv'
  <2> DEFINE first == [Idle EXCEPT !.epoch = epoch, !.node = n]
  <2>1. /\ n \in Node /\ epoch \in Nat /\ modeOf \in Mode
        /\ stopping \in 0 .. MaxEpoch /\ stopping \in Nat
    BY <1>2, BridgeAssumption DEF IInv, TypeOK
  <2>2. first \in Op /\ first.kind = "connect" /\ first.epoch = epoch /\ first.node = n
    BY <2>1 DEF Op, Idle
  <2>0. IF stopping = 0 THEN AfterStopping(c, first)
        ELSE Suspend(c, [first EXCEPT !.pc = "awaitStopping", !.wait = stopping])
    BY <1>2
  <2> HIDE DEF first
  <2>3. CASE stopping # 0
    <3> DEFINE op == [first EXCEPT !.pc = "awaitStopping", !.wait = stopping]
    <3>1. /\ op \in Op /\ op.pc = "awaitStopping" /\ op.wait = stopping
          /\ op.kind = "connect" /\ op.epoch = epoch /\ op.node = n
      BY <2>1, <2>2 DEF Op
    <3>2. Moved(c, op)
      BY <1>0, <2>0, <2>3, <3>1, Moving
    <3>3. stopping \in Epoch
      BY <2>1, <2>3 DEF Epoch
    <3> QED BY <1>0, <1>2, <2>1, <3>1, <3>2, <3>3, ConnectingKeeps DEF Connect
  <2>4. CASE stopping = 0 /\ isRunning /\ Suspend(c, Await(first, "stopLeftover"))
    <3> DEFINE op == Await(first, "stopLeftover")
    <3>1. /\ op \in Op /\ op.pc = "stopLeftover" /\ op.res = "queued"
          /\ op.kind = "connect" /\ op.epoch = epoch /\ op.node = n
      BY <2>2, Awaiting
    <3>2. Moved(c, op)
      BY <1>0, <2>4, <3>1, Moving
    <3> QED BY <1>0, <1>2, <2>1, <2>4, <3>1, <3>2, ConnectingKeeps DEF Connect
  <2>5. CASE stopping = 0 /\ ~isRunning /\ LaunchStart(c, first, modeOf)
    <3>1. PICK op \in Op :
            /\ Moved(c, op)
            /\ op.pc = "start" /\ op.res = "queued"
            /\ op.epoch = first.epoch /\ op.kind = first.kind
            /\ op.node = first.node /\ op.mode = modeOf
            /\ op.list \in CandidateSet(first.node)
      BY <1>0, <2>1, <2>2, <2>5, Launching
    <3> QED BY <1>0, <1>2, <2>1, <2>2, <2>5, <3>1, ConnectingKeeps DEF Connect
  <2> QED BY <2>0, <2>3, <2>4, <2>5 DEF AfterStopping
<1> QED BY <1>1, <1>2 DEF Connect

(* disconnect: whatever is in flight is unwanted from here on.              *)
LEMMA DisconnectKeeps ==
  ASSUME IInv, Disconnect
  PROVE  IInv'
<1> USE IdleFacts DEF Disconnect, userVars
<1>0. epoch + 1 \in Epoch /\ epoch \in Nat
  BY BridgeAssumption DEF IInv, TypeOK, Epoch
<1>1. /\ \A c \in Call : calls[c] # Idle => Wanted(c) /\ ~Wanted(c)'
      /\ \A c \in Call : calls[c].epoch \in Nat
  BY <1>0 DEF IInv, TypeOK, Op, StatusMatchesOp, Wanted, isActive
<1>2. /\ stops' \in [Epoch -> {"none", "queued", "ran"}]
      /\ \A f \in Epoch : f # epoch + 1 => stops'[f] = stops[f]
      /\ (isRunning \/ busy) => stops'[epoch + 1] = "queued" /\ stopping' = epoch + 1
      /\ ~(isRunning \/ busy) => UNCHANGED <<stops, stopping>>
  BY <1>0 DEF IInv, TypeOK
<1>3. epoch' \in 0 .. MaxEpoch + 1 /\ stopping' \in 0 .. MaxEpoch
  BY <1>0, <1>2, BridgeAssumption DEF IInv, TypeOK, Epoch
<1>10. TypeOK'
  BY <1>2, <1>3 DEF IInv, TypeOK, CoreTypeOK
<1>4. OpsWellFormed' /\ OneOperation'
  BY DEF IInv, OpsWellFormed, OneOperation, CandidateSet
<1>5. StatusMatchesOp'
  BY <1>0, <1>1 DEF IInv, StatusMatchesOp, OpsWellFormed, OneOperation, Epoch
<1>6. ASSUME NEW f \in Epoch, stops[f] # "none"
      PROVE  \E c \in Call : calls[c].pc = "awaitStopping" /\ calls[c].wait = f
  <2>1. status # "protected" /\ busy
    BY <1>6 DEF IInv, StatusMatchesOp, StopsTracked, NoStopDue, isActive
  <2>2. PICK c \in Call : calls[c] # Idle
    BY <2>1 DEF IInv, OneOperation
  <2>3. /\ Wanted(c) /\ calls[c].pc # "idle"
        /\ calls[c].pc \notin {"start", "stopLeftover", "stopRestart", "stopOrphan"}
    BY <1>1, <1>6, <2>2 DEF IInv, OpsWellFormed, StatusMatchesOp, StopsTracked, NoStopDue
  <2> QED BY <1>6, <2>3 DEF IInv, TypeOK, Op, StopsTracked
<1>7. StopsTracked'
  BY <1>0, <1>1, <1>2, <1>6 DEF IInv, StopsTracked, NoStopDue, OpsWellFormed
<1>8. CoreMatchesOp'
  BY DEF IInv, CoreMatchesOp, isRunning, NewSession, Accepted
<1>9. ProtectedIsHonest' /\ NoOrphan'
  BY <1>0, <1>2 DEF ProtectedIsHonest, NoOrphan, isRunning, Epoch
<1> QED BY <1>10, <1>4, <1>5, <1>7, <1>8, <1>9 DEF IInv

(* What is known of a protected session with nothing in flight.             *)
LEMMA QuietSession ==
  ASSUME IInv, status = "protected", ~disposed, ~busy
  PROVE  /\ isRunning /\ poll /\ NoStopDue
         /\ session.mode = activeMode /\ session.list = candidates
         /\ candidates[session.active] = activeNode
         /\ activeMode \in Mode /\ session \in Session
BY BridgeAssumption DEF IInv, TypeOK, CoreTypeOK, ProtectedIsHonest, StopsTracked, isRunning,
   Session

(* _switchTo over the selector group.                                       *)
LEMMA HotSwapKeeps ==
  ASSUME IInv, status = "protected", ~disposed, ~busy, NEW n \in Node, HotSwap(n),
         selection' \in Selection,
         UNCHANGED <<modeOf, epoch, stopping, disposed, stops>>
  PROVE  IInv'
<1> USE QuietSession
<1>1. PICK i \in DOMAIN candidates : candidates[i] = n /\ CoreSelect(i)
  BY DEF HotSwap
<1>2. /\ isRunning' /\ session' \in Session
      /\ session'.mode = session.mode /\ session'.list = session.list /\ session'.active = i
  BY <1>1, CoreAssumption DEF CoreSelect, CanSelect, isRunning, Session
<1> USE DEF HotSwap
<1>3. TypeOK'
  BY <1>2 DEF IInv, TypeOK, CoreTypeOK
<1>4. OpsWellFormed' /\ OneOperation'
  BY DEF IInv, OpsWellFormed, OneOperation, CandidateSet
<1>5. StatusMatchesOp'
  BY DEF IInv, StatusMatchesOp, Wanted
<1>6. StopsTracked'
  BY DEF IInv, StopsTracked, Wanted, NoStopDue
<1>7. CoreMatchesOp'
  BY NoneInFlight, IdleFacts DEF CoreMatchesOp
<1>8. ProtectedIsHonest' /\ NoOrphan'
  BY <1>1, <1>2 DEF ProtectedIsHonest, NoOrphan
<1> QED BY <1>3, <1>4, <1>5, <1>6, <1>7, <1>8 DEF IInv

(* _switchTo by a stop and a start.                                         *)
LEMMA RestartKeeps ==
  ASSUME IInv, status = "protected", ~disposed, ~busy, NEW c \in Call, NEW n \in Node,
         Restart(c, n), selection' \in Selection,
         UNCHANGED <<modeOf, epoch, stopping, disposed, stops>>
  PROVE  IInv'
<1> USE IdleFacts, QuietSession
<1> DEFINE m == IF activeMode = NoMode THEN modeOf ELSE activeMode
           base == Await(Idle, "stopRestart")
           op == [base EXCEPT !.kind = "switch", !.epoch = epoch, !.node = n, !.mode = m]
<1>1. m \in Mode /\ epoch \in Nat
  BY BridgeAssumption DEF IInv, TypeOK
<1>0. base \in Op /\ base.pc = "stopRestart" /\ base.res = "queued"
  BY Awaiting
<1> HIDE DEF m, base
<1>2. /\ op \in Op /\ op.pc = "stopRestart" /\ op.res = "queued" /\ op.kind = "switch"
      /\ op.epoch = epoch /\ op.node = n /\ op.mode = m
  BY <1>0, <1>1 DEF Op
<1>3. Suspend(c, op)
  BY DEF Restart, base, m
<1> HIDE DEF op
<1>4. Moved(c, op)
  BY <1>2, <1>3, Moving
<1> USE DEF Restart
<1>5. TypeOK'
  BY <1>4 DEF IInv, TypeOK, CoreTypeOK, Moved
<1>6. OpsWellFormed'
  BY <1>1, <1>2, <1>4 DEF OpsWellFormed, Moved
<1>7. OneOperation'
  BY <1>2, <1>4 DEF OneOperation, Moved
<1>8. StatusMatchesOp'
  BY <1>1, <1>2, <1>4 DEF IInv, StatusMatchesOp, Moved, Wanted
<1>9. StopsTracked'
  BY <1>2, <1>4 DEF StopsTracked, Moved, NoStopDue
<1>10. CoreMatchesOp'
  BY <1>2, <1>4 DEF CoreMatchesOp, Moved
<1>11. ProtectedIsHonest' /\ NoOrphan'
  BY DEF ProtectedIsHonest, NoOrphan
<1> QED BY <1>5, <1>6, <1>7, <1>8, <1>9, <1>10, <1>11 DEF IInv

(* A step that changes only the settings.                                   *)
LEMMA SettingKeeps ==
  ASSUME IInv, selection' \in Selection, modeOf' \in Mode,
         UNCHANGED <<session, uiVars, busy, epoch, stopping, disposed, calls, stops>>
  PROVE  IInv'
<1> USE DEF uiVars
<1>1. TypeOK'
  BY DEF IInv, TypeOK, CoreTypeOK
<1>2. OpsWellFormed' /\ OneOperation'
  BY DEF IInv, OpsWellFormed, OneOperation, CandidateSet
<1>3. StatusMatchesOp'
  BY DEF IInv, StatusMatchesOp, Wanted
<1>4. StopsTracked'
  BY DEF IInv, StopsTracked, Wanted, NoStopDue
<1>5. CoreMatchesOp'
  BY DEF IInv, CoreMatchesOp, isRunning, NewSession, Accepted
<1>6. ProtectedIsHonest' /\ NoOrphan'
  BY DEF IInv, ProtectedIsHonest, NoOrphan, isRunning
<1> QED BY <1>1, <1>2, <1>3, <1>4, <1>5, <1>6 DEF IInv

(* _switchTo: refused, hot-swapped or restarted.                            *)
LEMMA SwitchToKeeps ==
  ASSUME IInv, status = "protected", ~disposed, NEW c \in Call, NEW n \in Node,
         SwitchTo(c, n), selection' \in Selection,
         UNCHANGED <<modeOf, epoch, stopping, disposed, stops>>
  PROVE  IInv'
<1>1. modeOf' \in Mode
  BY DEF IInv, TypeOK
<1> QED BY <1>1, SettingKeeps, HotSwapKeeps, RestartKeeps DEF SwitchTo

(* connect, select and the monitor's switchTo.                              *)
LEMMA UserKeeps ==
  ASSUME IInv, NEW c \in Call, User(c)
  PROVE  IInv'
<1>1. selection \in Selection /\ modeOf \in Mode
  BY DEF IInv, TypeOK
<1>2. ASSUME NEW sel \in Selection, Select(c, sel)
      PROVE  IInv'
  <2>1. Scope[sel] \subseteq Node
    BY BridgeAssumption
  <2> QED BY <1>1, <1>2, <2>1, SettingKeeps, SwitchToKeeps DEF Select
<1>3. ASSUME NEW n \in Node, MonitorSwitch(c, n)
      PROVE  IInv'
  BY <1>1, <1>3, SwitchToKeeps DEF MonitorSwitch, userVars
<1> QED BY <1>2, <1>3, ConnectKeeps DEF User

(* _tick finds the engine gone.                                             *)
LEMMA TickFailsKeeps ==
  ASSUME IInv, TickFails
  PROVE  IInv'
<1> USE DEF TickFails, Fail, userVars
<1>1. TypeOK'
  BY DEF IInv, TypeOK, CoreTypeOK
<1>2. OpsWellFormed' /\ OneOperation'
  BY DEF IInv, OpsWellFormed, OneOperation, CandidateSet
<1>3. StatusMatchesOp'
  BY NoneInFlight DEF IInv, StatusMatchesOp
<1>4. StopsTracked'
  BY DEF IInv, StopsTracked, Wanted, NoStopDue
<1>5. CoreMatchesOp'
  BY NoneInFlight, IdleFacts DEF CoreMatchesOp
<1>6. ProtectedIsHonest' /\ NoOrphan'
  BY DEF ProtectedIsHonest, NoOrphan, isRunning
<1> QED BY <1>1, <1>2, <1>3, <1>4, <1>5, <1>6 DEF IInv

(* dispose stops the engine and disowns what is in flight.                  *)
LEMMA DisposeKeeps ==
  ASSUME IInv, Dispose
  PROVE  IInv'
<1> USE DEF Dispose, CoreStop, userVars
<1>1. /\ epoch \in Nat /\ epoch' \in 0 .. MaxEpoch + 1 /\ ~isRunning' /\ UNCHANGED calls
      /\ \A c \in Call : calls[c].epoch \in Nat
  BY BridgeAssumption DEF IInv, TypeOK, StatusMatchesOp, isRunning, Op
<1>2. \A c \in Call : calls[c] # Idle => ~Wanted(c)'
  BY <1>1 DEF IInv, StatusMatchesOp, Wanted
<1>3. TypeOK'
  BY <1>1, BridgeAssumption DEF IInv, TypeOK, CoreTypeOK
<1>4. OpsWellFormed' /\ OneOperation'
  BY DEF IInv, OpsWellFormed, OneOperation, CandidateSet
<1>5. StatusMatchesOp'
  BY <1>1, <1>2 DEF IInv, StatusMatchesOp
<1>6. StopsTracked'
  BY <1>1, <1>2, IdleFacts DEF IInv, StopsTracked
<1>7. CoreMatchesOp'
  BY <1>1 DEF IInv, CoreMatchesOp
<1>8. ProtectedIsHonest' /\ NoOrphan'
  BY <1>1 DEF ProtectedIsHonest, NoOrphan
<1> QED BY <1>3, <1>4, <1>5, <1>6, <1>7, <1>8 DEF IInv

-----------------------------------------------------------------------------
(* The invariant.                                                           *)

(* The bridge of a fresh process satisfies the invariant.                   *)
LEMMA InitEstablishes ==
  ASSUME Init
  PROVE  IInv
<1> USE IdleFacts DEF Init
<1>1. TypeOK
  <2>1. epoch \in 0 .. MaxEpoch + 1 /\ stopping \in 0 .. MaxEpoch
    BY BridgeAssumption
  <2>2. calls \in [Call -> Op] /\ stops \in [Epoch -> {"none", "queued", "ran"}]
    OBVIOUS
  <2> QED BY <2>1, <2>2 DEF TypeOK, CoreTypeOK, CoreInit
<1>2. OpsWellFormed
  BY DEF OpsWellFormed
<1>3. OneOperation /\ StatusMatchesOp
  BY BridgeAssumption DEF OneOperation, StatusMatchesOp
<1>4. StopsTracked /\ CoreMatchesOp
  BY DEF StopsTracked, NoStopDue, CoreMatchesOp
<1>5. ProtectedIsHonest /\ NoOrphan
  BY DEF ProtectedIsHonest, NoOrphan, CoreInit, isRunning
<1> QED BY <1>1, <1>2, <1>3, <1>4, <1>5 DEF IInv

(* Every step of the system keeps the invariant.                            *)
LEMMA NextKeeps ==
  ASSUME IInv, [Next]_vars
  PROVE  IInv'
<1>1. selection \in Selection /\ modeOf \in Mode
  BY DEF IInv, TypeOK
<1>2. ASSUME NEW c \in Call, User(c) \/ Native(c) \/ Resume(c)
      PROVE  IInv'
  BY <1>2, UserKeeps, NativeStartKeeps, NativeStopKeeps, ResumeKeeps DEF Native
<1>3. ASSUME NEW e \in Epoch, DisconnectStop(e) \/ StopReturns(e)
      PROVE  IInv'
  BY <1>3, DisconnectStopKeeps, StopReturnsKeeps
<1>4. ASSUME NEW m \in Mode, SetMode(m)
      PROVE  IInv'
  BY <1>1, <1>4, SettingKeeps DEF SetMode
<1>5. CASE Disconnect \/ TickFails \/ Dispose
  BY <1>5, DisconnectKeeps, TickFailsKeeps, DisposeKeeps
<1>6. CASE UNCHANGED vars
  BY <1>1, <1>6, SettingKeeps DEF vars, userVars
<1> QED BY <1>2, <1>3, <1>4, <1>5, <1>6 DEF Next

(***************************************************************************)
(* connect, _switchTo, disconnect and dispose keep IInv at every await,    *)
(* in every order their native calls can reach the core.                   *)
(***************************************************************************)
THEOREM Inductive ==
  Spec => []IInv
<1>1. Init => IInv
  BY InitEstablishes
<1>2. IInv /\ [Next]_vars => IInv'
  BY NextKeeps
<1> QED BY <1>1, <1>2, PTL DEF Spec

(* Every variable of the bridge keeps its type.                             *)
THEOREM TypeCorrect ==
  Spec => []TypeOK
<1>1. IInv => TypeOK
  BY DEF IInv
<1> QED BY <1>1, Inductive, PTL

(* A connection shown as protected runs, in the mode, with the candidates   *)
(* and through the node shown (connect, _switchTo and disconnect).          *)
THEOREM Honest ==
  Spec => []ProtectedIsHonest
<1>1. IInv => ProtectedIsHonest
  BY DEF IInv
<1> QED BY <1>1, Inductive, PTL

(* No engine stays behind a UI that is not protected (_stopOrphan, dispose  *)
(* and the stop of disconnect).                                             *)
THEOREM NoneLeftBehind ==
  Spec => []NoOrphan
<1>1. IInv => NoOrphan
  BY DEF IInv
<1> QED BY <1>1, Inductive, PTL

(* connect and _switchTo never start on top of a running engine.            *)
THEOREM StartsOnNothing ==
  Spec => []NoStartOnTop
<1>1. IInv => NoStartOnTop
  BY DEF IInv, CoreMatchesOp, NoStartOnTop
<1> QED BY <1>1, Inductive, PTL

(* The stop of an earlier disconnect never hits a wanted session (_stopping *)
(* and the epochs of connect).                                              *)
THEOREM StopsInTime ==
  Spec => []NoStopRacesSession
<1>1. IInv => NoStopRacesSession
  BY DEF IInv, StopsTracked, NoStopDue, NoStopRacesSession
<1> QED BY <1>1, Inductive, PTL

(* _busy admits one engine operation at a time.                             *)
THEOREM Exclusive ==
  Spec => []OneOperation
<1>1. IInv => OneOperation
  BY DEF IInv
<1> QED BY <1>1, Inductive, PTL

-----------------------------------------------------------------------------
(* The action properties.                                                   *)

(* Only connect, with nothing in flight, leaves "disconnected".             *)
LEMMA LateAnswers ==
  ASSUME IInv, [Next]_vars
  PROVE  status = "disconnected" /\ status' # "disconnected" => ~busy /\ epoch' = epoch
<1> SUFFICES ASSUME status = "disconnected", status' # "disconnected"
             PROVE  ~busy /\ epoch' = epoch
  OBVIOUS
<1>1. ASSUME NEW c \in Call, Connect(c)
      PROVE  ~busy /\ epoch' = epoch
  BY <1>1 DEF Connect
<1>2. TickFails => ~busy /\ epoch' = epoch
  BY DEF TickFails
<1>3. ASSUME NEW c \in Call, ResumeStart(c)
      PROVE  FALSE
  <2>1. calls[c] # Idle
    BY <1>3, IdleFacts DEF ResumeStart
  <2>2. Wanted(c)
    BY <1>3 DEF ResumeStart, StartedUp, StartFailed, StartUnwanted
  <2> QED BY <2>1, <2>2 DEF IInv, StatusMatchesOp
<1>4. ASSUME NEW c \in Call, User(c) \/ Native(c) \/ Resume(c)
      PROVE  ~busy /\ epoch' = epoch
  BY <1>1, <1>3, <1>4 DEF User, Select, MonitorSwitch, SwitchTo, HotSwap, Restart, Native,
     NativeStart, NativeStop, Resume, ResumeAwaitStopping, ResumeLeftover, ResumeRestart,
     ResumeOrphan, uiVars
<1>5. ~Disconnect
  BY DEF Disconnect
<1> QED BY <1>2, <1>4, <1>5
        DEF Next, DisconnectStop, StopReturns, SetMode, Dispose,
            uiVars, vars

(* disconnect wins over every operation it interrupts (_epoch): no late     *)
(* answer of connect or _switchTo moves the UI away from "disconnected".    *)
THEOREM Wins ==
  Spec => DisconnectWins
<1>1. IInv /\ [Next]_vars =>
        [status = "disconnected" /\ status' # "disconnected" => ~busy /\ epoch' = epoch]_vars
  BY LateAnswers
<1> QED BY <1>1, Inductive, PTL DEF Spec, DisconnectWins

-----------------------------------------------------------------------------
(* The mode of a session.                                                   *)

ModeStep == activeMode # NoMode /\ activeMode' # NoMode => activeMode' = activeMode

(* The invocation c moves on, or ends, and the mode shown stays or goes.    *)
LEMMA ModeMoving ==
  ASSUME ModeInv, NEW c \in Call, NEW op \in Op, Moved(c, op),
         status' # "protected" => activeMode' = NoMode,
         op.kind = "switch" =>
           /\ op.pc \in {"stopRestart", "start", "stopOrphan"}
           /\ op.epoch = epoch' => op.mode = activeMode',
         activeMode' \in {activeMode, NoMode}
  PROVE  ModeInv' /\ ModeStep
<1>1. \A d \in Call : d # c => calls'[d].kind = "connect"
  BY IdleFacts DEF Moved
<1> QED BY <1>1 DEF ModeInv, ModeStep, Moved, Wanted

(* connect starts with no mode shown: the last session's end cleared it.    *)
LEMMA ModeConnect ==
  ASSUME IInv, ModeInv, NEW c \in Call, Connect(c)
  PROVE  ModeInv' /\ ModeStep
<1> USE IdleFacts
<1>0. /\ status # "protected" /\ activeMode = NoMode /\ activeMode' = NoMode /\ ~busy
      /\ \A d \in Call : calls[d] = Idle
  BY NoneInFlight DEF ModeInv, Connect, isActive
<1>1. CASE UNCHANGED calls
  BY <1>0, <1>1 DEF ModeInv, ModeStep
<1>2. ASSUME NEW n \in Scope[selection],
             LET op == [Idle EXCEPT !.epoch = epoch, !.node = n]
             IN  IF stopping = 0 THEN AfterStopping(c, op)
                 ELSE Suspend(c, [op EXCEPT !.pc = "awaitStopping", !.wait = stopping])
      PROVE  ModeInv' /\ ModeStep
  <2> DEFINE first == [Idle EXCEPT !.epoch = epoch, !.node = n]
  <2>1. /\ n \in Node /\ epoch \in Nat /\ modeOf \in Mode /\ stopping \in Nat
    BY <1>2, BridgeAssumption DEF IInv, TypeOK
  <2>2. first \in Op /\ first.kind = "connect"
    BY <2>1 DEF Op, Idle
  <2>3. IF stopping = 0 THEN AfterStopping(c, first)
        ELSE Suspend(c, [first EXCEPT !.pc = "awaitStopping", !.wait = stopping])
    BY <1>2
  <2> HIDE DEF first
  <2> DEFINE wait == [first EXCEPT !.pc = "awaitStopping", !.wait = stopping]
             stop == Await(first, "stopLeftover")
  <2>4. wait \in Op /\ wait.kind = "connect" /\ stop \in Op /\ stop.kind = "connect"
    BY <2>1, <2>2, Awaiting DEF Op
  <2>5. LaunchStart(c, first, modeOf) => \E op \in Op : Moved(c, op) /\ op.kind = "connect"
    BY <1>0, <2>1, <2>2, Launching
  <2>6. Suspend(c, wait) \/ Suspend(c, stop) \/ LaunchStart(c, first, modeOf)
    BY <2>3 DEF AfterStopping
  <2> HIDE DEF wait, stop
  <2>7. \E op \in Op : Moved(c, op) /\ op.kind = "connect"
    BY <1>0, <2>4, <2>5, <2>6, Moving
  <2> QED BY <1>0, <2>7, ModeMoving
<1> QED BY <1>1, <1>2 DEF Connect

(* _switchTo keeps the mode shown and restarts in it.                       *)
LEMMA ModeSwitchTo ==
  ASSUME IInv, ModeInv, status = "protected", ~disposed, NEW c \in Call, NEW n \in Node,
         SwitchTo(c, n), UNCHANGED epoch
  PROVE  ModeInv' /\ ModeStep
<1>1. CASE UNCHANGED <<uiVars, calls>>
  BY <1>1 DEF ModeInv, ModeStep, uiVars, Wanted
<1>2. CASE HotSwap(n)
  BY <1>2 DEF HotSwap, ModeInv, ModeStep, Wanted
<1>3. CASE ~busy /\ Restart(c, n)
  <2>1. epoch \in Nat /\ activeMode \in Mode /\ activeMode # NoMode
    BY <1>3, QuietSession, BridgeAssumption DEF IInv, TypeOK
  <2> DEFINE base == Await(Idle, "stopRestart")
             op == [base EXCEPT !.kind = "switch", !.epoch = epoch, !.node = n,
                                !.mode = activeMode]
  <2>2. base \in Op /\ base.pc = "stopRestart"
    BY Awaiting, IdleFacts
  <2>3. Suspend(c, op)
    BY <1>3, <2>1 DEF Restart
  <2> HIDE DEF base
  <2>4. op \in Op /\ op.kind = "switch" /\ op.mode = activeMode /\ op.pc = "stopRestart"
    BY <2>1, <2>2 DEF Op
  <2> HIDE DEF op
  <2>5. Moved(c, op)
    BY <1>3, <2>3, <2>4, Moving
  <2> QED BY <1>3, <2>4, <2>5, ModeMoving DEF Restart
<1> QED BY <1>1, <1>2, <1>3 DEF SwitchTo

(* A native call changes nothing the UI shows.                              *)
LEMMA ModeNative ==
  ASSUME IInv, ModeInv, NEW c \in Call, Native(c)
  PROVE  ModeInv' /\ ModeStep
<1>1. PICK r \in {"ok", "failed", "threw"} : Suspend(c, [calls[c] EXCEPT !.res = r])
  BY DEF Native, NativeStart, NativeStop
<1>2. /\ calls[c] # Idle /\ calls[c] \in Op
      /\ UNCHANGED <<status, activeMode, epoch>>
  BY IdleFacts DEF Native, NativeStart, NativeStop, uiVars, IInv, TypeOK
<1> DEFINE op == [calls[c] EXCEPT !.res = r]
<1>3. /\ op \in Op /\ op.kind = calls[c].kind /\ op.pc = calls[c].pc
      /\ op.mode = calls[c].mode /\ op.epoch = calls[c].epoch
  BY <1>2 DEF Op
<1> HIDE DEF op
<1>4. Moved(c, op)
  BY <1>1, <1>2, <1>3, Moving DEF op
<1>5. /\ status' # "protected" => activeMode' = NoMode
      /\ op.kind = "switch" =>
           /\ op.pc \in {"stopRestart", "start", "stopOrphan"}
           /\ op.epoch = epoch' => op.mode = activeMode'
  BY <1>2, <1>3 DEF ModeInv, Wanted
<1> QED BY <1>2, <1>3, <1>4, <1>5, ModeMoving

(* A continuation of connect or _switchTo.                                  *)
LEMMA ModeResume ==
  ASSUME IInv, ModeInv, NEW c \in Call, Resume(c)
  PROVE  ModeInv' /\ ModeStep
<1> USE IdleFacts
<1>0. /\ calls[c] \in Op /\ calls[c] # Idle /\ calls[c].pc # "idle"
      /\ modeOf \in Mode /\ UNCHANGED epoch
  BY DEF IInv, TypeOK, OpsWellFormed, Resume, ResumeAwaitStopping, ResumeLeftover,
         ResumeRestart, ResumeStart, ResumeOrphan
<1>1. ASSUME Finish(c), status' # "protected" => activeMode' = NoMode,
             activeMode' \in {activeMode, NoMode}
      PROVE  ModeInv' /\ ModeStep
  BY <1>0, <1>1, FinishMoves, ModeMoving
<1>2. ASSUME NEW m \in Mode, LaunchStart(c, calls[c], m), UNCHANGED <<status, activeMode>>,
             calls[c].kind = "switch" /\ Wanted(c) => m = activeMode
      PROVE  ModeInv' /\ ModeStep
  <2>1. PICK op \in Op :
          /\ Moved(c, op)
          /\ op.pc = "start" /\ op.epoch = calls[c].epoch
          /\ op.kind = calls[c].kind /\ op.mode = m
    BY <1>0, <1>2, Launching
  <2> QED BY <1>0, <1>2, <2>1, ModeMoving DEF ModeInv, Wanted
<1>3. ASSUME NEW at \in {"stopLeftover", "stopOrphan"}, Suspend(c, Await(calls[c], at)),
             UNCHANGED <<status, activeMode>>,
             at = "stopLeftover" => calls[c].kind = "connect"
      PROVE  ModeInv' /\ ModeStep
  <2> DEFINE op == Await(calls[c], at)
  <2>1. /\ op \in Op /\ op.pc = at /\ op.epoch = calls[c].epoch
        /\ op.kind = calls[c].kind /\ op.mode = calls[c].mode
    BY <1>0, Awaiting
  <2>2. Moved(c, op)
    BY <1>0, <1>3, <2>1, Moving
  <2> HIDE DEF op
  <2> QED BY <1>0, <1>3, <2>1, <2>2, ModeMoving DEF ModeInv, Wanted
<1>4. calls[c].kind = "connect" \/ calls[c].kind = "switch"
  BY <1>0 DEF Op
<1>5. CASE ResumeAwaitStopping(c)
  BY <1>0, <1>2, <1>3, <1>4, <1>5 DEF ResumeAwaitStopping, AfterStopping, ModeInv, uiVars
<1>6. CASE ResumeLeftover(c)
  BY <1>0, <1>2, <1>4, <1>6 DEF ResumeLeftover, ModeInv, uiVars
<1>7. CASE ResumeRestart(c)
  <2>1. calls[c].mode \in Mode
    BY <1>7 DEF IInv, OpsWellFormed, ResumeRestart
  <2> QED BY <1>0, <1>1, <1>2, <1>7, <2>1 DEF ResumeRestart, ModeInv, uiVars, Wanted
<1>8. CASE ResumeStart(c) /\ StartedUp(c)
  <2>1. status = IF calls[c].kind = "connect" THEN "connecting" ELSE "protected"
    BY <1>0, <1>8 DEF IInv, StatusMatchesOp, StartedUp
  <2>2. activeMode = NoMode \/ activeMode' = activeMode
    BY <1>4, <1>8, <2>1 DEF ModeInv, StartedUp
  <2>3. Moved(c, Idle) /\ status' = "protected"
    BY <1>0, <1>8, FinishMoves DEF StartedUp
  <2>4. \A d \in Call : calls'[d].kind = "connect"
    BY <2>3 DEF Moved
  <2> QED BY <2>2, <2>3, <2>4 DEF ModeInv, ModeStep
<1>9. CASE ResumeStart(c) /\ StartFailed(c)
  BY <1>1, <1>9 DEF StartFailed, Fail
<1>10. CASE ResumeStart(c) /\ StartUnwanted(c)
  <2>1. UNCHANGED <<status, activeMode>> /\ (status # "protected" => activeMode = NoMode)
    BY <1>10 DEF StartUnwanted, ModeInv
  <2> QED BY <1>1, <1>3, <1>10, <2>1 DEF StartUnwanted
<1>11. CASE ResumeOrphan(c)
  BY <1>1, <1>11 DEF ResumeOrphan, ModeInv, uiVars
<1> QED BY <1>5, <1>6, <1>7, <1>8, <1>9, <1>10, <1>11 DEF Resume, ResumeStart

(* Every step keeps ModeInv, and the mode of a session.                     *)
LEMMA ModeKeeps ==
  ASSUME IInv, ModeInv, [Next]_vars
  PROVE  ModeInv' /\ ModeStep
<1>1. ASSUME UNCHANGED <<status, activeMode, epoch, calls>>
      PROVE  ModeInv' /\ ModeStep
  BY <1>1 DEF ModeInv, ModeStep, Wanted
<1>2. ASSUME NEW c \in Call, User(c)
      PROVE  ModeInv' /\ ModeStep
  <2>1. \A sel \in Selection : Scope[sel] \subseteq Node
    BY BridgeAssumption
  <2> QED BY <1>1, <1>2, <2>1, ModeConnect, ModeSwitchTo
          DEF User, Select, MonitorSwitch, uiVars
<1>3. CASE Disconnect
  <2>1. \A c \in Call : ~Wanted(c)' \/ calls[c].kind = "connect"
    BY <1>3, IdleFacts DEF IInv, TypeOK, Op, StatusMatchesOp, Wanted, Disconnect
  <2> QED BY <1>3, <2>1 DEF Disconnect, ModeInv, ModeStep
<1>4. CASE TickFails
  <2>1. \A c \in Call : calls'[c].kind = "connect"
    BY <1>4, NoneInFlight, IdleFacts DEF TickFails
  <2> QED BY <1>4, <2>1 DEF TickFails, Fail, ModeInv, ModeStep
<1>5. CASE Dispose
  <2>1. \A c \in Call : ~Wanted(c)' \/ calls[c].kind = "connect"
    BY <1>5, IdleFacts DEF IInv, TypeOK, Op, StatusMatchesOp, Wanted, Dispose
  <2> QED BY <1>5, <2>1 DEF Dispose, ModeInv, ModeStep
<1> QED BY <1>1, <1>2, <1>3, <1>4, <1>5, ModeNative, ModeResume
        DEF Next, DisconnectStop, StopReturns, SetMode, uiVars, vars

(* A session keeps its mode: _switchTo restarts in activeMode, hot-swaps    *)
(* keep it, and only a session's end clears it.                             *)
THEOREM KeepsItsMode ==
  Spec => ModeIsSessions
<1>1. Init => ModeInv
  BY IdleFacts DEF Init, ModeInv
<1>2. IInv /\ ModeInv /\ [Next]_vars =>
        /\ ModeInv'
        /\ [activeMode # NoMode /\ activeMode' # NoMode => activeMode' = activeMode]_vars
  BY ModeKeeps DEF ModeStep
<1> QED BY <1>1, <1>2, Inductive, PTL DEF Spec, ModeIsSessions
=============================================================================
