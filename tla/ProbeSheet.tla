----------------------------- MODULE ProbeSheet -----------------------------
(***************************************************************************)
(* The settings' probe sheet (app/lib/ui/pro/core_probe_sheet.dart) beside *)
(* the bridge: two owners of the one native engine.  The sheet asks        *)
(* whether the main connection is up before it starts, and remembers       *)
(* whether the engine is its own; between the two the bridge may move.     *)
(***************************************************************************)
EXTENDS Bridge

CONSTANT Probe   \* concurrent starts of the sheet

VARIABLES
  sheet,      \* the sheet shown, its _ownsEngine, _running and _poll
  probes,     \* every startNodesAsync of a sheet, shown still or closed since
  disowned    \* of the record: a failed start heard took the engine from its sheet

probeVars == <<sheet, probes>>
allVars == <<vars, probeVars>>

NoSheet == [open |-> FALSE, owns |-> FALSE, running |-> FALSE, poll |-> FALSE]

NoProbe == [pc |-> "idle", mounted |-> FALSE, list |-> << >>]

ProbeTypeOK ==
  /\ TypeOK
  /\ sheet \in [open : BOOLEAN, owns : BOOLEAN, running : BOOLEAN, poll : BOOLEAN]
  /\ probes \in [Probe -> [pc : {"idle", "queued", "ok", "failed"}, mounted : BOOLEAN,
                           list : Lists \cup {<< >>}]]
  /\ disowned \in BOOLEAN

ProbeInit ==
  /\ Init
  /\ sheet = NoSheet /\ probes = [p \in Probe |-> NoProbe] /\ disowned = FALSE

-----------------------------------------------------------------------------
SheetOpen ==
  /\ ~disposed /\ ~sheet.open
  /\ sheet' = [NoSheet EXCEPT !.open = TRUE]
  /\ UNCHANGED <<vars, probes>>

(* The start button, up to the await: one node, in proxy mode.              *)
SheetStart(p) ==
  /\ ~disposed /\ sheet.open /\ ~sheet.running
  /\ ~isActive /\ ~isRunning
  /\ probes[p] = NoProbe
  /\ \E l \in Lists :
       /\ Len(l) = 1
       /\ probes' = [probes EXCEPT ![p] = [pc |-> "queued", mounted |-> TRUE, list |-> l]]
  /\ UNCHANGED <<vars, sheet>>

(* A wrong variant: started in the mode of the settings.                    *)
SheetNativeStartInSetting(p) ==
  /\ probes[p].pc = "queued"
  /\ CoreStart(probes[p].list, modeOf, 0)
  /\ probes' = [probes EXCEPT ![p].pc = "ok"]
  /\ UNCHANGED <<uiVars, userVars, busy, epoch, stopping, disposed, calls, stops, sheet>>

(* Its isolate reaches the core.                                            *)
SheetNativeStart(p) ==
  /\ probes[p].pc = "queued"
  /\ \/ /\ CoreStart(probes[p].list, "proxy", 0)
        /\ probes' = [probes EXCEPT ![p].pc = "ok"]
     \/ /\ CoreStart(probes[p].list, "proxy", 1)
        /\ probes' = [probes EXCEPT ![p].pc = "failed"]
  /\ UNCHANGED <<uiVars, userVars, busy, epoch, stopping, disposed, calls, stops, sheet>>

(* core.stop on the UI thread.                                              *)
SheetStopsCore ==
  /\ CoreStop
  /\ UNCHANGED <<uiVars, userVars, busy, epoch, stopping, disposed, calls, stops>>

(* The start button, after the await: a sheet closed meanwhile stops what   *)
(* it started, the one shown notes whose engine it is, polls and ticks.     *)
SheetResume(p) ==
  /\ probes[p].pc \in {"ok", "failed"}
  /\ probes' = [probes EXCEPT ![p] = NoProbe]
  /\ \/ /\ ~probes[p].mounted /\ probes[p].pc = "ok"
        /\ SheetStopsCore /\ UNCHANGED sheet
     \/ /\ ~probes[p].mounted /\ probes[p].pc = "failed"
        /\ UNCHANGED <<vars, sheet>>
     \/ /\ probes[p].mounted
        /\ sheet' = [sheet EXCEPT !.owns = (probes[p].pc = "ok"), !.running = isRunning,
                                  !.poll = isRunning]
        /\ UNCHANGED vars

(* _tick: the poll refreshes _running and ends with the engine.             *)
SheetTick ==
  /\ sheet.open /\ sheet.poll
  /\ sheet' = [sheet EXCEPT !.running = isRunning, !.poll = isRunning]
  /\ UNCHANGED <<vars, probes>>

SheetStop ==
  /\ ~disposed /\ sheet.open /\ sheet.running
  /\ IF sheet.owns THEN SheetStopsCore ELSE UNCHANGED vars
  /\ sheet' = [sheet EXCEPT !.owns = FALSE, !.running = FALSE, !.poll = FALSE]
  /\ UNCHANGED probes

(* A wrong variant: the sheet closes over its engine.                       *)
SheetCloseOnly ==
  /\ sheet.open
  /\ sheet' = NoSheet
  /\ probes' = [p \in Probe |-> [probes[p] EXCEPT !.mounted = FALSE]]
  /\ UNCHANGED vars

(* dispose of the sheet; its starts in flight find themselves unmounted.    *)
SheetClose ==
  /\ sheet.open
  /\ IF sheet.owns /\ isRunning THEN SheetStopsCore ELSE UNCHANGED vars
  /\ sheet' = NoSheet
  /\ probes' = [p \in Probe |-> [probes[p] EXCEPT !.mounted = FALSE]]

SheetStep ==
  \/ SheetOpen \/ SheetTick \/ SheetStop \/ SheetClose
  \/ \E p \in Probe : SheetStart(p) \/ SheetNativeStart(p) \/ SheetResume(p)

BridgeStep == Next /\ UNCHANGED probeVars

(* The button stays enabled while a start is in flight: of two, one may fail *)
(* and be heard after the other's success, and overwrite _ownsEngine.       *)
FailureDisowns ==
  /\ sheet.owns
  /\ \E p \in Probe :
       probes[p].mounted /\ probes[p].pc = "failed" /\ probes'[p] = NoProbe

NotesDisowned == disowned' = (isRunning' /\ (disowned \/ FailureDisowns))

ProbeNext == (BridgeStep \/ SheetStep) /\ NotesDisowned

ProbeSpec == ProbeInit /\ [][ProbeNext]_<<allVars, disowned>>

(* The bridge's fairness, and the sheet's isolates answer and are heard.    *)
ProbeFairSpec ==
  /\ ProbeSpec /\ Fairness
  /\ \A p \in Probe : WF_allVars(SheetNativeStart(p)) /\ WF_allVars(SheetResume(p))

-----------------------------------------------------------------------------
InFlight == busy \/ \E p \in Probe : probes[p].pc # "idle"

(* With no operation in flight, an engine that runs is somebody's: the      *)
(* connection shown as protected, the sheet shown, or a stop's still due;   *)
(* however many starts of the sheet overlapped, save where a failed one,    *)
(* heard last, made the sheet forget the engine another had started.        *)
NoEngineUnattended ==
  isRunning /\ ~InFlight /\ ~disowned =>
    \/ status = "protected" /\ ~disposed
    \/ sheet.owns
    \/ \E e \in Epoch : stops[e] = "queued"

(* A second start is a no-op in the core: the bridge checks for a leftover  *)
(* engine so that it never reports the wrong node as connected.             *)
NeverWrongNode ==
  status = "protected" /\ ~busy /\ ~disposed /\ isRunning =>
    session.list = candidates

(* To the bridge the sheet is the other owner of SharedSpec: its steps are   *)
(* that owner's, or change nothing the bridge sees.                         *)
SheetIsOtherOwner == SharedSpec

(* A sheet that is closed leaves no engine behind: once nothing is asked    *)
(* of the bridge, the engine ends up stopped, unless it was disowned.       *)
ClosedSheetLeavesNothing ==
  (~sheet.open /\ status # "protected") ~>
     (~isRunning \/ disowned \/ sheet.open \/ status = "protected")
=============================================================================
