# Weronity VPN: verification

TLA+ models of the program's core logic, model-checked with TLC, with proofs
checked by TLAPS. The code is the reference; line numbers are those of the
commit the models were written from. `PROJECT.json` names, for every
definition, the lines it stands for.

## The system

Weronity VPN finds working proxy nodes and connects through them.

| part | code | state it keeps | operations |
|---|---|---|---|
| native engine | `native/weronity_core/engine.go`, `relay.go`, `bridge.go` | `running`, the session snapshot (`stateMu`), tags (`tagsMu`), `pingMs`, `selfTest`, `sessionGen`; one box and one relay | `startEngine`, `stopEngine`, `selectCandidate`, the latency loop, the self-test |
| connection bridge | `app/lib/core/singbox_bridge.dart`, `core/native/native_core.dart` | status, active node and mode, candidate list, `_busy`, `_epoch`, `_stopping`, the poll | `connect`, `disconnect`, `select`, `switchTo`, `_tick`, `dispose` |
| probe sheet | `app/lib/ui/pro/core_probe_sheet.dart` | `_ownsEngine`, `_running`, its poll | start, stop, close |
| monitor | `app/lib/state/monitor.dart` | misses, backoff, last checks | `tick`, failover, exit verification, relocation, the pick for a connect |
| probe store | `app/lib/state/preflight.dart`, `preflight.go` | a verdict for each node | test one, test all, race a burst, mark dead, clear |
| exit geolocation | `app/lib/state/exit_geo.dart` | where each node comes out | record, confirm |
| pool and selection | `state/providers.dart`, `candidates.dart`, `bundles.dart`, `data/pool_repository.dart`, `data/node_filter.dart` | the cached pool, the selection | load, refresh, resolve |
| custom keys | `state/custom_keys.dart`, `data/custom_keys_repository.dart` | keys, subscriptions, bundles, the storage error | add, remove, refresh, all on one serial queue |
| settings | `data/settings_repository.dart` | key-value | get, set |
| parsing | `domain/*.dart`, `config.go` | none | links to nodes, nodes to engine configs, the sanitiser |
| collector run | `collector/src/weronity_collector` | candidates, the resolver's cache, probes and their semaphore; `seen.json`, `nodes_pool.json` | harvest, resolve, probe, observe, build, write |
| collector job | `.github/workflows/collect-nodes.yml` | one machine's files; the `pool-data` branch | trigger, check out, seed, run, publish |

The UI and the monitor call the bridge on Dart's single event loop. The bridge
calls the engine through FFI: `isRunning`, `stats` and `selectCandidate`
synchronously, starts and stops on helper isolates, which are threads of their
own. The engine is process-wide and serialises starts, stops and hot-swaps with
`engMu`; its goroutines run beside them. The probe sheet calls the same engine
without going through the bridge.

The collector is a program of its own, on the other side of the network. A job
runs it every few hours and pushes what it found to a branch; the app downloads
that branch's `nodes_pool.json`. Within a run the probes are asyncio tasks of
one event loop; between runs there is only the branch.

What is hard: an `await` between a look at the state and its use; native calls
that reach the engine in another order than they were made; a user who
disconnects, selects or quits while a start of seconds is in flight; results of
one session published into the next; starts that fail half-way. In the
collector: entries and files of any shape, none of which may cost more than
itself; an answer, an ICMP error, a resend and a timeout that meet on one
future; a semaphore that every exit of a probe has to return to; a history that
survives failed runs, dying machines, nodes that vanish and come back, and a
second job started by hand. `PROJECT.json` lists each such hazard at its line.

## Modules

**Core** is what the engine promises: at most one session, and start, stop and
select each at one instant. `CoreStart(list, mode, rc)` is `wrnStart` and its
answer, including the no-op that answers 0 on a running engine.

**Engine** is `engine.go` with a label for every access to shared state. A
caller waits for `engMu` (`Lock`), works through the labels of its function and
releases it (`Unlock`). `FailStart` stands for every error return and for a
panic caught by the deferred function. The loop over the candidates runs one at a
time (`Accept`, `Drop`) and keeps its two lists, `cleans` and `accepted`; `tags`,
the box's outbounds (`NewBox`) and the session's `acceptedIdx` come from one or the
other, and a hot-swap puts them together again: index to position, position to tag,
tag to outbound. `PingMeasure` .. `PingEnd` are one
latency loop for each session, `SelfTestCheck` and `SelfTestStore` the
self-test goroutine; they take no `engMu`. A node the sanitiser or sing-box
refuses is a member of the constant `Rejected`. `ImplementsCore` says the
engine implements Core under the mapping given there.

**Bridge** extends Core. An action is what Dart runs between two awaits. `calls`
holds the invocations of `connect`, `select` and `switchTo` that are suspended:
`pc` is the await, the other fields the locals the code holds across it. A
native call is `"queued"`, takes effect in `NativeStart` or `NativeStop`, and is
answered when a `Resume` action runs. `stops` holds the stop of each disconnect,
indexed by the epoch it began; `stopping` is the one `_stopping` points to.
`Scope` is what a selection may resolve to: a set, because the pool and the
probe results choose. A start may throw; stops are taken not to. `SharedSpec` is
the bridge beside somebody else who starts and stops the same engine at any
moment (`OtherStart`, `OtherStop`).

**ProbeSheet** puts the sheet beside the bridge, on the same `session`: the
bridge's steps and the sheet's. `SheetIsOtherOwner` says that the composition
implements `SharedSpec`: the sheet is one such other owner. `disowned` is an
observer: a failed start, heard last, cleared the sheet's `_ownsEngine` under an
engine that runs (see the departures).

**Sublists** holds the two list operators that several modules filter with, in a
form that the proofs can use.

**ExitGeo** is the sum of the geolocation sources' answers (`FromOpinions`, with
the code's running best) and the store of what was seen of each node's exit. A
source's answer is a country or `NoCountry`; its text is not modelled.

**Preflight** extends it with the probe store. A test (`Begun` .. `Answer`) is in
flight over the one await of `testRaw`; `tasks` holds every one, by whoever awaits
it. A sweep and the buttons are `UserTask`s, any number at once up to the
constant, which is more than `testAll`'s workers do. A burst starts all its
workers, as many as the setting says at that moment, in one step, each with a
candidate; a worker whose test returned looks at the verdict (`WorkerLooks`). Verdicts are good (works, slow) or bad (blocked, dead,
error). `elsewhere` is an observer, the nodes whose last test to name a country did not
name `Wanted`. `Live` is the process between two starts, `Disk` the session box.

**Links** is the collector's parsers and builders as operators: from a link, or
a Clash proxy, to a node (`ParseUri`, `ParseProxy`), from a node to its outbound
(`BuildOutbound`) and to what the check speaks to it (`PingTarget`). A link is
taken as split: its scheme, whether its text decodes, host, port, credentials,
options. An operator that may fail yields a set of at most one value. What the
code reads with `p[...]` is in `Needs`; a node without it makes `build_outbound`
raise, and `BuildOutbound` is empty.

**Harvest** goes from the files of the source to `Dedup`'s candidates: which
files are read, how the kind of a file is told, which entries count as failed.

**Ping** is `ping_many`: every probe a record with the label of its await, its
socket's verdict and its time; `heard` records, for the properties, what its server
said first. Time is abstract: a wait that ends within the
timeout ends after one of the times in `Rtt`.

**CollectRun** is one run, over the three: `pc` is the await the run is at, `dns`
the resolver's cache, `entries` the pool it builds, `out` the file it writes,
`seen` the state beside it, `code` how it ended. `Worlds` is what it may be run
on. `Killed` is the runner ending the step at any moment; a disk that fails ends the
run where it saves its state (`Build`) or writes its pool (`WriteFails`).

**Seen** is `lifetime.py` as operators on `seen.json`. **PoolBranch** is what the
job promises of the branch: `Replace` is a whole run, its observation and its pool.
**PoolJob** is the job step by step, any number of them: GitHub's concurrency
group lets one run (`GroupFree`), a step may fail (`Fail`), with the machine lost.
What a run finds is a choice of nodes; CollectRun says how it comes to that choice.
`log` is an observer, the nodes of each published run.

**BridgeProofs**, **EngineProofs**, **ProbeSheetProofs**, **PreflightProofs** (with
ExitGeo's), **PoolJobProofs** and **CollectRunProofs** hold the theorems;
**SublistProofs** and **HarvestProofs** the lemmas on lists and on what the
collector's parsers yield. The `MC` modules
give the constants values. Operators commented as wrong (or as wrong variants)
are plausible mistakes in the code; substituting one breaks the property it is
listed with.

## What the runs check

| run | question | bounds |
|---|---|---|
| `engine_safety` | no box or relay leaks over failed starts; snapshot, tags, selector and `running` agree whenever `engMu` is free; a hot-swap goes to the caller's index; the stepwise engine implements Core | 2 callers, 2 sessions, both modes, a list whose first is refused and one of four beyond the cap with one refused |
| `engine_live` | calls return, latency loops end | 2 callers, 1 session |
| `bridge_safety` | the UI tells the truth about the engine, in every order of calls and answers; no operation hangs; after a disconnect or a dispose the engine ends up stopped | 2 invocations, 3 disconnects, both modes, a refused node |
| `bridge_shared` | beside any other owner of the engine: a connection whose engine is gone is noticed, after a leftover engine was stopped for it as well | 2 invocations, 2 disconnects, elevated; the other owner unrestricted |
| `probe_safety` | no engine runs that nobody will stop, a closed sheet's engine stops, unless it was disowned; bridge and sheet implement `SharedSpec` | 2 starts of the sheet at once, 1 invocation, 1 disconnect, VPN as the bridge's mode |
| `preflight_store` | no verdict stays at "testing" over overtaking tests, marks of death, resets, saves and restarts; the sources' answers are summed up as documented | 2 tests, 1 node, 1 service; all answers of 3 sources over 3 countries, stored up to renaming |
| `preflight_race` | a burst ends; one that has to come out somewhere is not won by a node that its last test placed elsewhere; every test shown is answered | bursts of 1 or 2 workers over 2 candidates or none, a user's test beside them, 2 answers of the sources |
| `pool_job` | pool and observations on the branch belong together and are never lost or reset; entries count the published runs that kept their node; shares show a missed run; a job implements PoolBranch | 2 jobs, 2 nodes, one of them in a branch of before `first_run`; 4 publications, hours 0 to 3, a window of 1, shares of 2 parts |
| `collect_run` | entries do not harm each other; no node gets another's result, address or protocol; slots come back; a run that fails before its pool leaves no trace; the run ends | 971 worlds: every shape of a single entry in a plain run; pairs of entries under every option; a good file beside each kind of bad one. 2 slots, a timeout of 2, times 1 to 3 |

Nodes do not touch each other in the two stores, so `preflight_store` has one, with
two tests that overtake each other. One worker takes the second candidate after the
first; of two, one ends last. `preflight_race` leaves out the disk: it is read at a
start only, and a restart ends every burst.
Hours 0 to 3 with a window of 1 let a node be forgotten and come back; shares of
2 parts make rounding bite within 4 runs. Two slots and three probes make a probe
wait. Entries meet in the pairs of `collect_run` (the same key, the same host,
another spelling of it, a private address); within a file or a run the code treats
each entry by itself otherwise, so that more of them meet nothing new. Times 1
to 3 around the timeout of 2 are before, at and past it.
Two callers and two sessions are what it takes for one call to overtake another
and for a goroutine to outlive its session. Three disconnects let two stops be
due together with a connect that waits for the first. More invocations than two
add nothing to Bridge: `OneOperation` says at most one is ever suspended.
With the sheet, one mode is enough: it starts in proxy mode whatever the setting, and
what the setting does to the bridge is `bridge_safety`'s.
Bridge and ProbeSheet stop for good after `dispose`, a collector run when it
exits, so their configurations turn the deadlock check off.

Three runs end in a violation, and show where the code departs from what it says:

- `probe_wrong_node`: a sheet's start lands between the bridge's look at the
  core and its own start. A connect can begin with the sheet open, because the
  power button first tests nodes for seconds (`home_screen.dart:36-41`), or the
  sheet is closed with its start in flight.
- `preflight_exhausted`: a burst drops candidates that somebody else is testing
  and reports that every candidate failed.
- `collect_one_entry`: one entry of a source ends the whole run. It has no
  credential where `build_outbound` wants one, or a host or SNI that IDNA cannot
  encode.

Departures that the models contain without a run of their own:

- `storeSelfTest` checks and then stores (`engine.go:699-703`), and a stop and a
  start fit in between; a latency measured before a hot-swap is stored after it
  (`engine.go:630`) and stands until the next sample. Both are only shown.
- The sheet's `_ownsEngine` is set by a start that was a no-op
  (`core_probe_sheet.dart:86`) and stays set when the bridge replaces the sheet's
  engine: closing the sheet then stops the user's connection (`:52`). A sheet that
  was closed before such an answer stops it too (`:83`).
- The sheet's button stays enabled until a start has answered
  (`core_probe_sheet.dart:208`). Two taps, and the start that fails may be heard after
  the one that came up: it clears `_ownsEngine` (`:86`) although the comment (`:46`) has
  it "true while the engine that is running was started by this sheet", and neither
  the sheet's stop nor its closing stops that engine. `FailureDisowns` is that moment;
  `NoEngineUnattended` and `ClosedSheetLeavesNothing` except an engine from there until
  it stops, and no other.
- A source that falls silent can settle a dispute, although `exit_geo.dart:146-147` says
  that "when one source failed to answer this time, the fuller picture from before
  stands". `Kept` keeps it only while the country stays the same and fewer sources
  answer: after NL, SC, SC (SC, disputed) the answer NL of one source alone is recorded
  as an undisputed NL; after US, SC and silence, US, silence and US settle it.
- An answer to the second packet of the UDP check that comes in the same turn of the
  event loop as the end of its wait is lost: `wait_for` has been cancelled by its timer
  and does not look at the future again (`ping.py:162-168`). `GiveUp` has no guard for
  that reason, and `ReachableIfAnswered` allows it for such late answers only.
- A Hysteria2 entry with `obfs=salamander` and no password gets an obfuscation block
  without one (`outbound.py:97-98`), while its check is sent plain (`build.py:50`, `:57`).
  `ProbeSpeaksOutbound` excludes it by name.
- A run whose pool cannot be written (`__main__.py:108-111`) has saved its state by then
  (`build.py:150`): it is counted, and the file may be left truncated. In the job the
  step then fails and publishes neither. `WriteFails` has it; `NoTraceOfFailure` speaks
  of failures before, and of what the state on disk is once the file is touched.
- The share of an entry of before `first_run` stays 1.0 however many runs it
  misses, because `lifetime_for` computes the missing field anew each time; the
  comment (`lifetime.py:131-132`) has it decay.

## Fairness

Engine: goroutines and callers inside the library go on (weak fairness);
`engMu` is a `sync.Mutex`, which hands itself to a waiter that has starved
(strong fairness of `Lock`); Go's `select` picks among ready cases at random,
so a closed channel is not passed over for ever (strong fairness of `PingEnd`).
Bridge: a native call runs and returns, which is `CallsReturn` of Engine, the
event loop runs what is ready, and the poll timer fires. Nothing obliges the
user or the monitor to call.
Preflight: a test is answered (the core bounds each request by a timeout) and the
event loop runs on; nothing is asked of the burst's deadline.
CollectRun: weak fairness of all of `Step`. Every await ends, the resolver's by its
own timeouts, a probe's by `wait_for`; nothing is asked of any one probe, as each
step brings some probe closer to its end.
PoolJob: none; nobody has to run a job.

## What is proved

`BridgeProofs` proves, for every pool, every set of lists, any number of
invocations and any bound on disconnects, from `CoreAssumption` and
`BridgeAssumption` (lists are non-empty, hold no node twice and are made of
nodes; selections resolve to nodes; `NoSession`, `NoNode` and `NoMode` are not
values of what they stand for the absence of), for a bridge that has the engine to
itself. With another owner some are false: `probe_wrong_node` shows how.

- `TypeCorrect`, `Honest`, `NoneLeftBehind`, `StartsOnNothing`, `StopsInTime`,
  `Exclusive`: the safety invariants of `bridge_safety`;
- `Wins`, `KeepsItsMode`: its two action properties.

`ProtectedIsHonest` and `NoOrphan` are not inductive: whether an engine may run
while `_busy` is down depends on what the operation that lowered it had been
told. `IInv` adds what an invocation holds at each await (`OpsWellFormed`), what
the status says about it (`StatusMatchesOp`), which stops of earlier
disconnects can still be due (`StopsTracked`) and what an answer says about the
core (`CoreMatchesOp`). The argument: a disconnect raises `_epoch`, so whatever
is in flight is unwanted from there on, and an unwanted start that came up is
stopped before `_busy` falls; a wanted operation has no stop due, because
connect waits for the tracked one and the untracked ones belong to a connect
that still waits for them. `Inductive` has a lemma for each action.
`KeepsItsMode` needs `ModeInv` on top: a switch in flight holds the mode shown.

`PreflightProofs` proves, for every pool, number of tests, width and number of
bursts, from `PreflightAssumption` (widths are numbers, a list holds no node twice):

- `NoSpinnerLeft`: `TestingHasTest`. The strengthening `PInv` adds that nothing on
  disk says "testing", which a restart needs;
- `WinnersFit`: `WinnerNotElsewhere`, in every step. A burst looks at the store of exits,
  the property at what the last test said. The two agree because a test records what it
  learned before it answers (`Placed`: the store keeps an old record only for one of the
  same country), whatever other tests, saves and restarts come in between. `WInv` adds
  that a burst which races has no winner yet (`BurstsOK`);
- `CountryIsPlurality`: `PluralityOfFirst`, for any number of sources and countries.
  `Leader` is the code's one pass with its running best; `LeaderRuns` says of every
  prefix that the best so far has the most votes of all, and was named first among
  those that tie.

`EngineProofs` proves, for every set of callers and of lists, every cap, set of
refused nodes and number of sessions, from `EngineAssumption` (lists are
non-empty and of nodes; the modes are among the two; `Nil` is nothing else):

- `LeaksNothing`, `Agrees`, `HonoursIndex`: the invariants of `engine_safety`;
- `Implements`: the engine implements Core, with the label at which each call
  takes effect.

They speak of moments when `engMu` is free, and say nothing of how the pieces get
there. `IInv` (`Inductive`) does: whoever is at a label of the three functions holds
`engMu` (`Exclusive`), with the request that label wants (`Requested`), and what it
has acquired, published or given up by that label is fixed (`Guarded`); with nobody
there, what is left is `Ended` or `Whole`. Goroutines touch none of it. `HonoursIndex`
needs what the loop over the candidates keeps (`LoopOK`): `accepted` lists each usable
index passed so far once, and `cleans` the node of each, place by place (`Alike`). What
is collected so (`Collected`) becomes the tags, the outbounds of the box and the
session's indices (`Tagged`), and as no two outbounds share a tag the selected one is
the node at the caller's index. For `Implements` it has to be all of the usable ones,
with the wanted one first.

`ProbeSheetProofs` proves, from the bridge's assumptions:

- `IsOtherOwner`, the refinement that `probe_safety` checks, for any number of starts
  of the sheet in flight. It needs one invariant: what the sheet has in flight is a
  start of a single node;
- `NobodysEngine`: `NoEngineUnattended`, for any number of starts in flight, overlapping
  as they may.

`NoEngineUnattended` speaks of moments with nothing in flight. `Attended` says of
every state who will see to an engine that runs: the sheet shown, or about to hear
that a start came up (`SheetHas`); a record that it was disowned; a stop that is due; the connection shown; or an
operation of the bridge that is about to stop the engine or to learn that it runs
(`Holds`). Every step that takes one of them away puts another in its place. `IInv` of
the bridge is false beside the sheet; what is needed of it, that at most one operation
is in flight and that a wanted one belongs to a bridge not yet disposed of, is proved
anew (`Operations`).

`PoolJobProofs` proves, for every set of jobs, nodes and hours, every threshold,
window and scale, from `SeenAssumption`, `BranchAssumption` and `JobAssumption`
(they are numbers, and the hours too):

- `TypeCorrect` and `Implements`: each step of a job is a step of PoolBranch or none;
- `PoolAndSeen`, `Counts`, `Shows`: the invariants of `pool_job`;
- `Shares`: a share is of at most all runs, so the cap of `lifetime_for` never bites.

`IInv` says that the group keeps a job alone (`Alone`), so the branch is still the
one it checked out, and that what it has built is an observation of that branch
(`BuiltOn`). `Counts` needs `Counted` on top: the history's number of runs is the
length of `log`. `Shows` rests on the arithmetic of rounding (`AllIsAll`,
`LessIsLess`): a share below one stays below one while fewer than `2 * Scale` runs
are counted, which is 2000.

`CollectRunProofs` proves, from `PingAssumption`, `RunAssumption` and `FeedAssumption`
(numbers; no address is the missing one; a source is a list of files and a file a list
of entries), for every set of worlds, number of slots, set of times and answers of the
resolver:

- `Slots`: free slots and running probes add up to the semaphore's, so a run
  whose probes are done has all slots back;
- `Reachable`: a node whose server answered before anything else counts as reachable,
  unless it answered the second packet only, and none whose server did not answer does;
- `LeavesNoTrace`: a run that ended before its pool has written nothing, and the pool's
  file is touched only over the state whose lifetimes it shows;
- `ParsersAreLocal`: an entry that parses on its own yields a candidate, or another of
  its key does, whatever stands beside it (`HarvestIsLocal`);
- `OnlyWhatIsSpoken`, `ProbesSpeakAlike`: `XrayOnlyStaysOut` and `ProbeSpeaksOutbound`,
  for every entry that any of the parsers accepts;
- `OnlyTheAlive`, `PlacesAreChecked`: `AliveInTime` and `PublishedPlace`, of the pool.

`PInv` says what each label of a probe implies of its record; `TraceInv` that
nothing is written before the outbounds are built (`Untouched`), and that what `Build`
saved and what it showed belong together up to the end (`Shown`). `CInv` ties the lists of a run
together: `parsed` is what the files yield and `nodes` its `Dedup` (`HarvestOK`), the
i-th target is the i-th candidate's (`CandidatesOK`), and an entry of the pool shows
the result, the address and the country of one candidate (`EntriesOK`). The rest is in
HarvestProofs, parser by parser: `UriYields` and `ProxyYields` say what an accepted
entry has become, `HarvestYields` that a list of files yields what its files do, no
more and no less, `DedupKeeps` that every key keeps a node.

Lists are where induction would be wanted. The library's induction takes an operator
as a parameter, which the provers here cannot instantiate, so `SublistProofs` states
induction over a list for a set of places, as a least counterexample (`Induction`, from
`Least`), and gets what a recursive function computes from the existence of its graph
(`Iterates`). `SublistMembers`, `Ranks` and `AscendingLists` say what filters and ordered
lists hold; the filters of the models are written as `Sublist` for that reason, as the
standard `SelectSeq` is opaque to the provers.

Only model-checked: the liveness properties (`BusyEnds`, `EngineFollowsUI`,
`DisposeIsFinal`, `DeathNoticed`, `ClosedSheetLeavesNothing`, `CallsReturn`, `LoopsEnd`,
`BurstEnds`, `TestingEnds`, `RunEnds`), as liveness under fairness is out of the prover's
reach. Every safety property of the passing runs has its theorem.

## Not modelled, and the plan

Done: Core, Engine, Bridge, ProbeSheet, ExitGeo, Preflight, Seen, PoolBranch,
PoolJob, Links, Harvest, Ping, CollectRun, and proofs about all of them. What would
come next:

1. Monitor over Bridge and Preflight: failover never leaves the user's choice
   and never switches blind, backoff, exit verification, relocation, the pick
   for a connect. An abstract Failover for it to implement.
2. CustomKeys: the serial queue against its abstract specification (mutations
   one at a time), failing storage, restarts, a subscription refresh against a
   removal.
3. PoolStore: two puts and a crash, overlapping refreshes.
4. Operators against reference definitions: candidate ranking, the sanitiser and
   the assertions on its output, backoff, the event queue, the interface counters.
5. A theorem about the recommended nodes: of each country as many as asked for, or all.

Known hazards that wait for these modules, or that no property speaks of, beyond
those `PROJECT.json` lists without one:

- `statsJSON` reads the snapshot, counters, ping and self-test under different
  locks (`engine.go:484`); the event queue drops its oldest when full;
- a stop that throws leaves connect in its catch (`singbox_bridge.dart:156`);
- a recently verified backup is picked without the exit check of a burst
  (`monitor.dart:476`); the backoff of failed failovers has to be reset
  (`monitor.dart:129`);
- a test begun before `markDead` makes the node good again (`preflight.dart:307`);
  each result re-arms the save timer (`preflight.dart:222`);
- the pool and its timestamp are two puts (`pool_repository.dart:100`);
- nodes kept dead by an option count as observed; the check resolves a host again,
  and an outbound may name another server than the check did where a node has no
  SNI; types of fields in `seen.json` are trusted.

Left out for good: widgets and themes, the platform runners (generated), the text
of links and files, geolocation databases, the collector's `validate`, `stats` and
`schema` (they only read), and the traffic and latency figures as numbers.
