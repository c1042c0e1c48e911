# The conditional handover simulators, in TLA+

The repository is a reduced ns-3 tree around one program in six variants: a
simulation of user groups (UEs) under a constellation of low-orbit satellites,
in which each UE changes its serving satellite by *conditional handover* (CHO).
The variants live in `scratch/MultiUE-CHO-*`; they share the same event-driven
handover machine and differ in what a UE measures, ranks and waits for. This
directory models that machine, checks it with TLC on small instances and proves
nearly all of the checked properties with TLAPS for all instances.

## 1. Inventory

### The components

| Component | Where | State | Operations |
|---|---|---|---|
| Handover machine, SNR strategy | `scratch/MultiUE-CHO-SNR/SNR-CHO-Multi.cc` | per UE: `context`, `measState`, `choProcState`, `choConfigState`, `hoState`, `channelCache`, counters; global counters | `CheckHandoverConditions` (every second), `CheckHandover`, `UE_EvaluateAndReport`, `CHO_TriggerProcedure`, `CHO_Phase1..7`, `CHO_HandleFailure`, `CHO_CheckExecutionCondition` |
| Distance strategy | `scratch/MultiUE-CHO-distance/` | the same | the same, with reselection when the serving cell is lost |
| Elevation strategy | `scratch/MultiUE-CHO-elevation/` | the same | the same, on elevation angles |
| Serving-time strategy | `scratch/MultiUE-CHO-serving-time/` | the same, and the remaining service time of each satellite | the same, with a service-time trigger |
| TOPSIS strategy | `scratch/MultiUE-CHO-TOPSIS/` | the same | the same, with a multi-criteria ranking |
| TDCHO strategy | `scratch/MultiUE-CHO-SNR-TDCHO/` | the same, and per-UE SNR histories, pending validations and follow-ups | the same, with trend classification and a predictive trigger |
| Trajectories and channel | in each variant: `UpdateSatelliteState`, `InterpolatePosition`, `CalculateDoppler` | trajectory samples, `channelCache` | refresh once per check |
| Log contexts | `hoContext`, `g_pendingPredictionEvals` | what a decision looked like when it was made | recorded at decisions, printed later |
| Single-UE example | `scratch/sgp4-ntn-udp-example.cc` | link attributes | periodic update and print |
| Offline tools | `tools/`, `dataset/`, the comparison shell scripts, `dashboard/` | files | generate trajectories, parse logs, plot |
| ns-3 | `src/` | event queue | `Simulator::Schedule`, `Run`, `Stop` |

### How they interact

Nothing runs in parallel. ns-3 dispatches one event at a time, in time order,
and every handler runs to its end; what interleaves are the *events*. One
self-rescheduling event, `CheckHandoverConditions`, runs every second. It
refreshes the channel cache of every UE, lets UEs without a cell select one,
sets the error models, and visits the UEs in vector order. A visit may start a
procedure, after which a chain of one-shot events carries it through its phases:

    report sent --uplink--> decision --1 ms--> Xn request --ISL--> Xn response
      --ISL--> reconfiguration --downlink--> UE stores configuration
      ... checks evaluate the execution condition ...
    UE executes --access--> execution complete: success or failure

The handlers do not receive a procedure identifier. Each carries the UE index
and two cell names bound when it was scheduled, and returns at once unless the
UE is in the phase it expects. No event is ever cancelled.

### What is hard about it

* **State that must move together.** A procedure is spread over seven records
  (`choProcState`, `choConfigState`, `measState`, `context`, `hoState`, the
  error models, the counters), reset by hand in several functions: on success,
  failure, expiry, reselection and trigger. No test in the repository exercises
  any of these combinations.
* **Ordering.** Whether a handler that outlives its procedure could act on the
  next one depends on the phase guards, and on there never being two events.
* **Timers.** The report trigger, the execution trigger, the configuration's
  validity and the measurement period are start times compared with the current
  time; each must be reset when its condition lapses.
* **Stale data.** The cache keeps the last metrics of a satellite that has set.
  Measurements and selection filter on the trajectory; the execution condition
  and the viability check do not.
  A TDCHO trend query goes further and overwrites the cache of the current
  second with the channel of the previous one.
* **Decisions judged later.** Predictions, validations and follow-ups are
  compared with the channel seconds afterwards, and the context a handover logs
  was set by a measurement one procedure earlier. By then the cell, the channel
  and the trajectory may have changed.
* **Gaps.** A satellite of the serving-time data has several passes; a bracket
  search decides, second by second, in which of them it is.
* **Missing targets.** A UE that cannot detect its own cell reports it with no
  neighbour, and a whole procedure runs with the empty string as its target.
* **Liveness.** Handlers that return early schedule nothing: a chain that stops
  in the wrong phase stops for ever, since the checks skip such a UE.

`PROJECT.json` lists these hazards at their lines, with the properties that
cover each, and those no property covers yet.

### What makes each component correct

* *Handover machine*: a UE has at most one procedure, one pending event and one
  configuration, which agree; a cell changes only by a completed handover to
  the configured target; traffic is interrupted exactly during an execution;
  the counters account for every procedure; every procedure ends; timers
  measure what their options promise.
* *Strategies*: a UE is not stranded on a satellite that has set; execution and
  viability conditions fit together; ranking never picks a candidate that
  another one beats in every respect; a handover gains what it was made for.
* *Service time*: it is the rest of the pass the satellite is in; a critical
  serving cell is reported in time; no UE is handed back into a pass it left.
* *Channel*: decisions rest on metrics of the same second.
* *TDCHO*: a validation is judged against the cell it was made for; a trend
  query does not disturb the cache it is part of.
* *Log contexts*: a printed result belongs to the decision it describes.

## 2. The model

### Modules

| Module | What it is |
|---|---|
| `ChoProcedure` | The machine: one action per way through each handler. Strategy, satellites, delays and times are CONSTANTS. |
| `ChoProperties` | Its invariants, action properties, refinement mapping and liveness. |
| `ChoLifecycle` | The abstract specification: cell, stage and offered target of each UE, and nothing of phases, timers, events or measurements. |
| `ChoHistory` | `ChoProcedure` with two history variables that count how long a condition has really held. |
| `ChoLog` | `ChoProcedure` with `hoContext` and the pending predictions, composed action by action. |
| `Trajectory` | Passes, gaps and remaining service time, read off the points of a trajectory. |
| `SnrCho`, `DistanceCho`, `ElevationCho`, `ServingTimeCho`, `TopsisCho` | Five strategies, as the operators the machine leaves open; the last two with properties of their own. |
| `TdchoCho` | The sixth: the machine with its measurement replaced, histories, trends and validations. |
| `MCSnrCho`, `MCDistanceCho`, `MCElevationCho`, `MCServingTimeCho`, `MCTopsisCho`, `MCTdchoCho` | Their constants for TLC; `MCSnrHistory`, `MCDistanceHistory` and `MCSnrLog` add the layer they name. |
| `ChoInvariantProofs` | Type correctness, sums of counters, the inductive invariant and the safety theorems that are its parts. |
| `ChoStepProofs` | Theorems about steps, among them the refinement of `ChoLifecycle`. |
| `ChoTimingProofs` | Theorems about times, most of them for signalling that fits between two checks. |
| `ChoHistoryProofs` | Theorems about `ChoHistory` and `ChoLog`. |
| `ServingTimeProofs`, `SnrProofs`, `ElevationProofs`, `TopsisProofs` | Theorems about one strategy each; `SnrProofs` has those of TDCHO, too. |

### State

| Variable | Code |
|---|---|
| `now`, `turn` | the second of the last check, and the loop index of its third part |
| `cache` | `ue.channelCache`: time of the entry and metrics, or `Unmeasured` |
| `serving` | `ue.context.servingGnb`; `NoCell` is the empty string |
| `meas` | `ue.measState` without the log fields |
| `proc` | `ue.choProcState` without delays and logged SNRs |
| `conf` | `ue.choConfigState`: the keys of `choConfigs`, `executionPending`, `executionTargetCell` |
| `interrupted` | `ue.hoState.interruptionActive` |
| `lossForced` | whether the last `ErrorRate` given to the UE's error models was the forced 1.0 |
| `events` | the multiset of scheduled CHO handlers of each UE |
| `stats`, `gstats` | `ChoNtnStatistics`, `hoCount` and `hoFail` per UE, and the global counters |
| `hoContext`, `pendingEvals`, `evalEvents` (`ChoLog`) | `ue.hoContext`; `g_pendingPredictionEvals`; the scheduled calls of `EvaluatePendingPrediction` |
| `history`, `pending`, `lines` (`TdchoCho`) | `ue.snrHistory`; `g_pendingMeasurementValidations` and `g_pendingServingSnrFollowups`; what verifying them has logged in the last check |
| `hoDebug` (`TdchoCho`) | the neighbour and trend of the `[HO_DEBUG]` line of the last check |

`reportHeld` and `executeHeld` in `ChoHistory` and `left` in `ServingTimeCho` are
history variables: no action reads them. So are the per-UE counters other than
`hoCount` and `hoFail` in the distance, elevation and serving-time strategies,
whose `UeInfo` has no statistics of its own.

Two fields are kept although a reader of `Next` finds no guard on them: `failed`
and the pending target are written by several handlers, and TLC's state shows
them in a counterexample.

### Actions

`BeginCheck` is the first half of `CheckHandoverConditions`: it refreshes every
cache, selects first cells (`SelectBestSatellite`) and applies the error models.
The visit of a UE is split along its control flow, because each way through it
changes other state: `SkipUe`, `ReportRlf`, `ClearTrigger`, `StartTrigger`,
`HoldTrigger`, `Report` for a UE that measures, and `ExpireConfig`,
`KeepWaiting`, `StartExecutionTtt`, `HoldExecutionTtt`, `Execute` for one that
evaluates. Calls are inlined: `Report` contains `CHO_TriggerProcedure`, and
`Execute` contains `CHO_Phase6_UeExecutes` with `ApplyUeErrorModelImmediately`.
The scheduled handlers are `ReportArrived`, `SendXnRequest`, `XnResponse`,
`SendRrcReconfig`, `UeStoresConfig` and `ExecutionComplete`, which either
completes the handover or calls `CHO_HandleFailure`. Handlers dispatched in a
phase they do not expect consume their event and change nothing (`Dropped`).

**Strategies.** What differs between five of the variants is a constant
operator of the machine: `InPass` (is the satellite between two passes?),
`Detectable`, `Selectable`, `Initial`, `Best`, `Prepare`, `NtnTrigger`,
`NtnAccepts`, `ExecuteNow`, `Viable`. They range over *views*: a cell, the
second it is looked at, and its cached metrics. The NTN trigger can fire in the
serving-time strategy only.

**TDCHO** keeps the execution half of the machine (`Shared`) and replaces the
check and the measurement. `TdchoBeginCheck` also samples the SNR histories and
verifies what is due; `TdchoClearTrigger`, `TdchoStartTrigger`,
`TdchoHoldTrigger` and `TdchoReport` rank the neighbours with the penalty, apply
the dynamic margin, schedule validations and follow-ups, and write the previous
second into the cache (`Reread`).

**The log layer** composes each action of the machine with what it does to
`hoContext` and the predictions, and adds `EvaluatePendingPrediction`.

A `\* Mutant:` comment marks an operator that no action uses. It is the form its
neighbour would have with one plausible mistake, kept to show that a property
notices.

### Abstractions, and why they lose nothing

* **Metrics.** A refresh may give any member of the set `Metrics` for any
  satellite and UE. Geometry and link budget are thereby over-approximated: all
  sequences of measurements occur, including those of a real pass. In TDCHO,
  where two seconds are subtracted from each other, `Channel(u, s, t)` fixes the
  distance of each second and leaves the fading open.
* **Time** is counted in checks. Checks run at whole seconds and trajectory
  samples have whole-second timestamps, so a trajectory is the set of its
  seconds. A fractional time-to-trigger acts as the
  next whole number, because it is compared only at checks. A stored
  configuration arrives strictly between two checks, so that comparing a later
  check with `now + ValidityPeriod` gives the code's answer.
* **Delays.** Between two checks the scheduled handlers may run in any order
  across UEs. With `Overrun = FALSE` all of them run before the next check.
  That is what the code does: report uplink d/c + 10 ms, decision 1 ms, Xn
  request ISL + 2 ms, Xn response ISL + 1 ms, downlink d/c + 10 ms; an execution
  takes less than 35 ms plus five propagation delays. For distances of low
  orbit (1 500 km are 5 ms), and even of geostationary orbit, both chains stay
  below one second. The handlers of a procedure without a target use the origin
  as the missing satellite's position, about 25 ms away. With
  `Overrun = TRUE` any delay is allowed, and the run `snr_two_ues` and the
  theorems that do not assume `~Overrun` show what remains true.
* **Order within a second.** ns-3 runs events of the same time in the order in
  which they were scheduled. A prediction, scheduled several seconds ahead, runs
  before the check of its second; `ChoLog` therefore assumes
  `PredictionDelay >= 2` (the default is 5).
* **TOPSIS** works with doubles. Here all squared distances of one decision are
  multiplied by a common factor that makes them integers, and scores are
  compared by cross-multiplication; the order of the scores is the same up to
  rounding, including the weights that are 0 when a criterion has no spread.
* **Error rates** other than the forced 1.0 are not distinguished.
* **Left out**: printing, `lastMeasurements`, `RefreshSatelliteTiming` (it
  writes fields that no decision reads), and delays of the point-to-point
  channel, none of which a modelled guard reads.

## 3. What TLC checks

The instances have one or two UEs and two to four satellites, chosen so that
some satellite rises, sets or pauses while another one stays. `Metrics` holds
the kinds of links that the conditions tell apart:

* `FiveLinks`, `SixLinks` (SNR): weak, strong, strong but too far, undetectable,
  below the horizon; and a detectable link that is not viable for its SNR alone;
* `ThreeLinks` (SNR with two UEs): weak, strong, strong but too far;
  `ThreeLinks` (distance): close, distant, close but not viable;
* `FourLinks` (elevation): high, low but closer, just below the horizon and far
  below it;
* `FourLinks` (TOPSIS): each of the three that a criterion makes worse than the
  best, and the best;
* `TwoLinks` with the trajectories `ThreePasses` (serving time): the passes make
  the difference, two of the three satellites have gaps;
* `Passage` (TDCHO): distances that move in opposite directions, SNRs around the
  margins.

`ValidityPeriod` is 2 or 3 instead of 60; `TimeToTrigger` and `ExecutionTtt` are
0 to 2. `snr_procedure` has both at 2, so that a trigger is also seen while it
is held, and `tdcho` the first of them; in `distance` they are 1 as in the defaults; 0 is used where two UEs or
four satellites multiply the states and timers are not the question. `MaxTime`,
the bound on checks, is 8 to 10 where a UE has to select a cell, complete a
handover, lose a satellite and fail or expire another procedure: a procedure
takes at most `ValidityPeriod` + 1 checks. It is 3 for two UEs and for four
satellites, enough for one whole procedure and the beginning of the next; in
`snr_two_ues` the first satellite sets after second 1 (`SetsEarly`).
`TrendWindow` is 1, so that a trend exists from the second sample on, and
`FollowupHorizons` {1, 3} with a `ValidationDelay` of 3 keeps one follow-up
before and one beside the validation. `MaxTime` stands for `Simulator::Stop`;
the system really ends there, hence `CHECK_DEADLOCK FALSE`.

| Run | Shows |
|---|---|
| `snr_procedure` | `TypeOK`; the pending event, configuration, interruption, cells and counters match the phase (`EventMatchesPhase`, `ConfigMatchesPhase`, `InterruptionMatchesPhase`, `ProcedureLeavesServing`, `ProceduresAccounted`); a procedure lasts no longer than its configuration (`ProcedureBounded`); cells change only by handover (`ServingChangesByHandover`); selections and reports use this second's metrics (`FreshDecisions`; that executions need not is the finding `snr_live_target`); a failure is never caused by the SINR that its logged reason quotes (`FailureIsNotSnr`); stranded UEs stay stranded (`StrandedForever`); under `FairSpec` every procedure ends, including one without a target (`ProcedureEnds`). |
| `snr_two_ues` | Two UEs with unbounded delays, whose handlers interleave with the visits of both: each has the one event it waits for (`EventMatchesPhase`), every handler counts for its UE what it counts globally (`GlobalIsTotal`), the context a handover logs is still that of its own measurement (`ContextOfProcedure`), and each prediction is evaluated exactly once (`PendingMatchesScheduled`). |
| `distance` | With reselection no UE stays on a satellite that has set for longer than one procedure (`StrandingBounded`); a report names only the cell that was the best triggered neighbour throughout the time-to-trigger (`ReportAfterTtt`); an execution starts in time (`ExecutionInTime`), after an unbroken stretch of checks that met its condition (`ExecutionAfterTtt`), and its viability check sees the metrics that started it (`ExecutionSeesDecisionMetrics`). |
| `elevation_two_ues` | Two UEs implement `ChoLifecycle` (`ImplementsLifecycle`). Preparation accepts a neighbour that is a little lower, but every handover has gained the execution margin, in degrees as the code compares it, when it completes (`HandoverGainsElevation`; its texts say km, see below), and no execution fails because its target is below the horizon (`FailureIsNotHorizon`). |
| `serving_time` | The computed service time is the rest of the pass (`ServiceTimeIsRestOfPass`); a critical serving cell is reported in time although the candidate may change, which does not restart the timer (`CriticalReportInTime`); reports and handovers lead to longer service (`ReportOutlastsServing`, `HandoverGainsService`); a UE never returns to a pass it has left (`NoReturnWithinPass`). |
| `topsis` | Whatever the weights, also when some vanish, no report names a neighbour that another one dominates (`ReportIsNotDominated`), a neighbour that qualifies is passed over only for one better in another criterion (`QuietOnlyByTradeOff`), and a handover gains SNR (`HandoverGainsSnr`). |
| `tdcho` | Although trend queries recompute the past, histories stay consecutive (`HistoryConsecutive`) and an execution reads the channel of its second (`ExecutionReadsThisSecond`); receding satellites pay their penalty (`ReportPrefersApproaching`); validations are never overdue and compare with later samples (`NothingOverdue`, `ValidatedByLaterSample`); the life cycle is still implemented (`ImplementsLifecycle`). |

Five runs expect a violation, of what the program's documentation or comments
say (`findings` in `PROJECT.json` quotes them). For three of them a theorem of
section 4, for any constants, says how far the program departs from the text:

| Run | Disagreement |
|---|---|
| `snr_measurement_period` | `--measurementPeriod` is parsed and never read; UEs measure every second. `MeasurementsAreSpaced`: a period of up to one second is respected. |
| `snr_report_ttt` | In the SNR strategy the report trigger survives a radio link failure: after the procedure it caused, one check of the old candidate is enough for a report. |
| `snr_loss` | A failed execution ends the interruption but leaves the error models at loss 1.0 until the next check. `LossesPass`: never longer, and after nothing but a failed procedure. |
| `snr_live_target` | The "liveness check" accepts a satellite that has set, on its cached metrics. `HandoversToRecentCells`: one that has set no longer than `ValidityPeriod` seconds ago. |
| `tdcho_trend` | The distance trend logged for the best neighbour is always 0: the query that ranked it has overwritten the cache with the second to be subtracted. |

One more disagreement is between the texts and what a *passing* run establishes.
`elevation_two_ues` and `HandoversGainElevation` read both margins of the
elevation strategy in degrees, because `UE_EvaluateCHOPreparationCondition`
(`elevation-CHO-Multi.cc:1167`) and `CHO_CheckExecutionCondition` (line 1981)
compare them with differences of elevation angles. The texts give them in km:
"The reporting and execution margins are expressed in km" (`src/README.md:73`),
"Event A3 offset for reporting (km)" (line 2316) and "CHO Phase-2 execution
distance margin (km)" (line 2325), as in the distance strategy; a comment above
the condition (line 1980) speaks of SNR and dB. A handover that gains the margin
in degrees need not gain any distance: in the instance the high satellite is
farther away than the low one, and the mutant of `HandoverGainsElevation`,
`ElevationExecuteNearer`, is the margin as those texts describe it, which breaks
the property. So what is checked and proved is the code, and not those texts.

Some facts are not findings, since no text promises otherwise, and are stated in
the properties they qualify:

* In the SNR strategy a UE whose satellite sets before it has another target
  repeats target-less procedures until the simulation ends. `StrandedForever`
  states it and `StrandingBounded` states the contrast with the distance
  strategy.
* In the first second of every pass but the first one, the remaining service
  time is 0, because the bracket found is still the gap (`Reappears`). In that
  second a UE may be moved away from a satellite with the longest service; the
  properties of the serving-time strategy except it.
* A UE of the serving-time strategy may select a satellite that is between two
  passes, on its cached metrics.
* A TDCHO follow-up of a satellite that has just set may be compared with the
  sample of the second in which it was made.

**Fairness.** `FairSpec` adds `WF_vars(Next)`. `Simulator::Run` dispatches
events as long as there are any before `Stop`, and the check reschedules itself
unconditionally; no fairness is assumed between UEs or handlers, because each
procedure has one event and the checks visit UEs in order. `ProcedureEnds`
excludes procedures that start within `ValidityPeriod` of the end, which `Stop`
really cuts off.

Every property has a mutant of the model that breaks it under its own run's
bounds, so none holds for want of interesting behaviour.

## 4. What is proved

All theorems quantify over the constants: any number of UEs and satellites, any
metrics, any strategy operators, any times, and either value of `Overrun` and
`ForcedReselect`. The modules declare: at least one UE, times are natural
numbers, `Unmeasured` is not itself a cache entry, a prediction waits at least
two seconds (`ChoLog`), a trajectory is a finite set of seconds with a point in
it (`ServingTimeCho`: each line of a file adds one), a gap threshold, a
validation and a follow-up are at least one second (`Trajectory`, `TdchoCho`).
A theorem that needs more says so in its ASSUME:

| Hypothesis | Why the code satisfies it |
|---|---|
| `~Overrun` | Both chains of handlers take less than a second (section 2, *Delays*). |
| `NoGaps` | `InterpolatePosition` bridges any gap in all strategies but the serving-time one. |
| `StrategyIsSnr`, `StrategyIsServingTime` ... | The operators left open are those of this strategy, as in its configuration for TLC. |
| `UniqueBest` | Two cells never beat each other in a ranking loop that keeps the first best one; `SnrRanking`, `ElevationRanking` and `ServingTimeRanking` derive it for three of the loops. |
| `NtnSilent` | The NTN trigger is a constant FALSE outside the serving-time strategy. |
| `NtnNeedsNeighbour` | `betterNeighborAvailable` starts as false (`ServingTimeRanking`). |
| `ForcedReselect` | Which strategies reselect when they cannot detect the serving cell; the theorem is about those. |
| `WindowAssumption`, `LongDelay` | The trend window is 5 samples and a validation waits 5 s, the tolerance of a sample being 2 s. |
| `PassAssumption` | The points of a trajectory file are in order. |
| `OnlyFadingIsDrawn` | `UpdateSatelliteState` takes the distance from the position of the second. |
| `Metrics \subseteq Links` | A link has an SNR, an elevation and a distance; the model takes them as integers. |
| `MeasurementPeriod <= UeMeasurementPeriod` | The default of `--measurementPeriod` is that second; a longer one is the finding `snr_measurement_period`. |
| `ViableIfDetected`, ranges of metrics and offsets | Metrics and offsets are numbers; `minViableSinr` and `g_minSNR` are both 0 dB. |

**The machine** (`ChoInvariantProofs`, `ChoStepProofs`)

* `TypeCorrect`: `Spec => []TypeOK`, inductive as it
  stands. One lemma per group of actions; the part that is not routine is that
  multiplicities of events stay natural numbers and no transient phase remains.
* `GlobalsAreTotals`: `GlobalIsTotal`. The sum over all UEs is a recursive
  function, and the induction that its lemmas need is not available as a
  theorem with an operator parameter. `LeastNatural`, from well-foundedness of
  the naturals, takes its place: a least counterexample of a *set* of numbers.
  With it `SumsExist` shows that the recursion has a value, `SumOverUpdate` that
  one more in one summand is one more in the sum, and `CountsInNext`
  that a step which counts does so for one UE and globally.
* `InvariantHolds`: `Spec => []IInv`, where `IInv` is
  `TypeOK` and, for every UE, `Consistent(u)`: the conjunction of `UeEvents`,
  `UeConfig`, `UeInterruption`, `UeCells` and `UeCounters`. None is inductive
  alone. That a handler acts only on its own procedure needs `UeEvents`; that it
  leaves the right configuration needs the phase `UeEvents` gives it; that the
  forced loss starts with an execution needs a measured serving cell, which is
  the execution condition together with `UeCells`. The argument is local:
  `Frame` and `Unmoved` dispose of UEs a step does not concern,
  `OnlyEvent` says that a dispatched event is the one its UE waits for, and
  there is one lemma for each kind of step.
* From it follow `EventsConsistent`, `ConfigsConsistent`,
  `InterruptionConsistent`, `CellsConsistent` and `CountersConsistent`, the five
  invariants of the run `snr_procedure`.
* `CellChangesByHandover`: the action property
  `ServingChangesByHandover`. The stored configuration, the event and the
  procedure name the same target, by the invariant.
* `StrandedIsForever`: `StrandedForever`. A stranded UE cannot detect its cell,
  so its visits can only report the failure again, and a procedure without a
  target can never meet the execution condition.
* `ExecutionsInTime`: `ExecutionInTime`, for any delays. Of
  all steps only `Execute` enters the phase.
* `DecisionsAreFresh`: `FreshDecisions`, assuming `NoGaps`. The invariant is
  `CacheCurrent`: an entry
  is never older than the first second of its trajectory, so an entry that was
  not refreshed belongs to a satellite that has set, and that one the visibility
  filters reject. With gaps it does not hold: section 3 says so of first cells
  in the serving-time strategy.
* `LifecycleImplemented`: `ImplementsLifecycle`.
  `WaysOfCheck` and `WaysOfSignal` reduce the seventeen ways through the handlers
  to nine things that can happen to a procedure (`Triggers`, `Stores`,
  `Executes`, `Completes` ...); `LifecycleStep` maps each to the step of
  `ChoLifecycle` it is, or to a stutter.

**Times** (`ChoTimingProofs`)

* `TimelyHolds`, assuming `~Overrun` like the three that
  follow from it: the invariant `Timely`. A check begins only when no event is
  pending, and then, by `UeEvents`, every UE is idle or evaluates (`QuietPhase`);
  the rest of a procedure therefore has the time of one check, and the order of
  the visits (`VisitOrder`) says whether a UE's expiry has been examined in it.
* `ProceduresBounded`, `ExecutionsSeeDecision` and `StrandingIsBounded` prove
  `ProcedureBounded`, `ExecutionSeesDecisionMetrics` and `StrandingBounded`. The
  last adds the invariant `SoonFree`: the cells of a procedure were above the
  horizon when it was triggered, and an idle UE measures in every check, so it
  notices the loss in the first one after its procedure.
* `HandoversToRecentCells`, assuming `~Overrun`: `HandoverToRecentCell`, the bound
  on what the missing liveness check can let through. `TargetsWereUp`, which
  needs no assumption, is its invariant: the target of a procedure had not set
  when it was reported; and by `Timely` the procedure is not older than its
  configuration is valid.
* `LossesPass`, for any delays: `AllLossPasses`. A forced loss outside a handover
  belongs to an idle UE whose procedure has failed, with the visits of the check
  over. The next refresh ends it, because a UE that has a serving cell has
  measured it once, and an entry of the cache is never removed.
* `MeasurementsAreSpaced`, for any delays: `MeasurementPeriodRespected`, where the
  option asks for no more than the literal second of the code.
* `PunctualHolds` assumes nothing: a UE has last measured before the running
  check unless that has visited it, and a trigger never starts in the future.
* `CompletesOnCondition` and `FailsOnCondition`: whatever an execution ends in,
  its condition holds on the metrics of that moment. With these lemmas what a
  handover gains is arithmetic on the condition of a strategy.

**Triggers, contexts and predictions** (`ChoHistoryProofs`)

* `ExecutionsAfterTtt`: `ExecutionAfterTtt`, for any strategy and delays. The
  invariant (`ExecutionHeld`) is that a running timer is never older than
  the unbroken run of checks that met the condition.
* `ReportsAfterTtt`: `ReportAfterTtt`, the same for the report timer, which is
  bound to a cell. It needs `ForcedReselect`: in the SNR strategy the timer
  survives a radio link failure, and the run `snr_report_ttt` shows the report
  that comes too early. The proof also needs `AllPunctual`, so that
  no check counts twice.
* `CriticalReportsInTime`: `CriticalReportInTime`. While the NTN trigger holds,
  the timer survives a change of the best neighbour, so it is as old as the run
  of critical checks until it elapses (`CriticalHeld`). The bound is `ReportWait` + 1 checks,
  where `ReportWait` is the time-to-trigger, or one check where that is 0: a
  trigger is only examined at a later check than the one that starts it.
* `PendingPredictions`: `PendingMatchesScheduled`. The pending records and
  the scheduled calls change together, and entries of the cache are never
  removed (`EvaluableStays`).
* `ContextIsOfProcedure`: `ContextOfProcedure`, for any delays. `hoContext` is
  that of the last measurement, `Remembers` says which procedure it belongs to,
  and a UE with a procedure does not measure. Where the NTN trigger reports a
  neighbour that fails the preparation condition, the context would be another.

**Serving time** (`ServingTimeProofs`)

* `ServiceTimes`: `ServiceTimeIsRestOfPass`, for every finite set of points, gap
  threshold and second. `RestOfPass` compares the search over segments with the
  declarative pass: a pass has one end (`OnePassEnd`), which the search finds
  (`RestInPass`), except in the second of a reappearance, where the segment
  found is the gap itself (`RestAtReappearance`).
* `ReportsOutlastServing` and `HandoversGainService`: the comparison of rests is
  one of ends of passes (`LongerRest`); the second with `CompletesOnCondition`.
* `NeverBackIntoPass`: `NoReturnWithinPass`. The invariant is `AllLeftBehind`:
  each pass a UE has left is over, or ends before the one its cell is in. From
  one second to the next a pass goes on or is over (`PassGoesOn`).
* `ServingTimeReportsInTime`: the strategy meets the hypotheses of
  `CriticalReportsInTime`.

**TDCHO and SNR** (`SnrProofs`)

`TdchoSpec` does not imply `Spec`, since a measurement of TDCHO also overwrites
the cache; what was proved of the machine has to be proved again.

* `TdchoInvariantHolds`: `[]IInv`. `WaysOfTdcho` reduces a measurement to what it
  does to a procedure, as in the machine; `RereadCache` bounds what
  it does to the cache.
* `TdchoLifecycle`: `ImplementsLifecycle`.
* `TdchoStates`, `TdchoTotals`, `TdchoCellChanges`, `TdchoExecutions`,
  `TdchoStranded` and `TdchoDecisionsAreFresh` are the invariants and step
  theorems of the machine for TDCHO. Of a measurement they need only that it
  starts a procedure or leaves it (`TdchoProcedure`), counts with the totals
  (`TdchoCounts`), and chooses among detected satellites (`DetectedNow`); every
  other step is one of the machine, for which the lemmas of `ChoStepProofs` are
  stated about a step and not about `Spec`.
* `TdchoTimely`, `TdchoProceduresBounded`, `TdchoExecutionsSeeDecision`,
  `TdchoMeasurementsAreSpaced`, `TdchoTargetsWereUp`, `TdchoRecentCells` and `TdchoLossesPass` are likewise
  those of `ChoTimingProofs`, and `TdchoFailuresAreNotSnr` is `FailuresAreNotSnr`
  below.
* `ExecutionsReadThisSecond`: `ExecutionReadsThisSecond`. The invariant `AllFit`
  (`TdchoCacheFits`): an entry has the running second, or the one before for a
  UE that has measured in this check, or the satellite has set; a UE that
  evaluates has not measured, and the next refresh comes before its next visit.
* `NothingIsOverdue`: `NothingOverdue`, from `AllWaiting`: every check removes
  what is due, whether it finds a sample or not, and nothing is added with a due
  time that has passed.
* `HistoryIsConsecutive`: `HistoryConsecutive`. By `AllSampled` a history is the
  run of latest seconds up to the running one; a sample of the previous second,
  added by a trend query, finds a later one at the end and is dropped,
  and the window cuts at the front (`SuffixConsecutive`).
* `ValidatedLater`: `ValidatedByLaterSample`. In such a history the nearest
  sample to a due second is that second's, or the last one of a satellite that
  has set since (`SampleOfConsecutive`), which is within the tolerance of two
  seconds and, by `LongDelay`, later than the decision.
* `ReportsPreferApproaching`: `ReportPrefersApproaching`. Cached metrics
  come from the channel of the second of their entry (`FromChannel`), so that the
  trend read off the cache is the movement of the satellite (`TrendIsMove`).
* `FailuresAreNotSnr`: `FailureIsNotSnr`, from `FailsOnCondition`.

**Elevation and TOPSIS** (`ElevationProofs`, `TopsisProofs`):

* `FailuresAreNotHorizon`, `HandoversGainElevation` and `HandoversGainSnr` prove
  `FailureIsNotHorizon`, `HandoverGainsElevation` and `HandoverGainsSnr`.
* `ElevationReportsAfterTtt`: `ReportAfterTtt` for the elevation strategy, which
  meets the hypotheses of `ReportsAfterTtt` (`ElevationRanking`).
* `ReportsNotDominated`: `ReportIsNotDominated`, for any number of satellites and
  all integer metrics. Sums and weights are folds of the community modules over
  sets of any size. `SubsetInduction` (by `LeastNatural` on
  cardinalities) gives them a value (`FoldExists`, `SumIs`, `WeightIs`).
  `n` times the sum of squares less the square of the sum is, up to a factor, the
  sum of the squares of `n * x[v] - sum` (`SumOfSquares`): so a spread is never
  negative and vanishes only where the candidates agree (`SpreadIs`), and a weight
  vanishes exactly with its spread. What is dominated is
  therefore strictly farther from the ideal and strictly nearer to its opposite
  (`FartherAway`), and never ranked first (`BestNotDominated`). As in the model,
  the arithmetic is exact: rounding of doubles is not considered.
* `QuietByTradeOff`: `QuietOnlyByTradeOff`. A best neighbour that fails the
  preparation condition has a lower SNR than one that meets it; as it is not
  dominated, it is higher or closer.

Only model-checked: `ProcedureEnds`, a liveness property under fairness, which
the proof system cannot establish.

The theorems about `Spec` hold for the five strategies that instantiate
`ChoProcedure`. `SnrProofs` proves them again for TDCHO, except
`StrandingIsBounded`, which is about strategies that reselect, `PunctualHolds`,
and what `ChoHistoryProofs` proves over the history variables and `ChoLog`.

## 5. What is not modelled

* Link budget, fading, Doppler and interpolation arithmetic: floating point,
  replaced by the sets `Metrics` and `Channel`.
* `hoContext` and predictions in the variants other than SNR: the distance,
  elevation, serving-time and TDCHO files repeat the code that `ChoLog` models,
  the serving-time file with a second trigger type. TOPSIS has neither.
* The visualisation snapshot of TDCHO, and all log lines but the two that a
  property is about.
* ns-3 itself: of the tree under `src/src` the program uses
  `Simulator::Schedule`, `Run` and `Stop` and the point-to-point and UDP
  modules, which are modelled, where they matter, from their use. It is vendored
  upstream code and more than nine tenths of the lines of the repository; the
  program proper is the six variants.
* The UDP example (printing of throughput), the offline scripts, data, plots,
  shell drivers and the dashboard: no state that evolves, or pure I/O.

## 6. Plan

1. *Done*: `ChoProcedure`, three strategies, the abstract life cycle, history
   timers, the inductive invariant and the step theorems.
2. *Done*: `ServingTimeCho` over `Trajectory`, with the NTN trigger, and
   `TopsisCho`.
3. *Done*: `TdchoCho`, with histories, trends, validations and follow-ups.
4. *Done* over the SNR strategy: `ChoLog`. Left: the same layer over the other
   strategies.
5. The event queue: dispatch by time with the real delay formulas in
   milliseconds, from which `Overrun = FALSE` is derived instead of assumed.
6. *Done*: proofs of the refinement, the timing bounds, freshness, the history
   timers, `Trajectory`, `ChoLog`, the machine with TDCHO's actions and what
   handovers gain, the TOPSIS ranking, the theorems of the machine for TDCHO and
   bounds on three of the findings.
7. Position interpolation and the velocity derived from it, in fixed point.
8. Offline tools with pure cores, such as ping-pong detection over a log.

## 7. Running

    tlc -workers 2 -config SnrProcedure.cfg MCSnrCho
    tlapm ChoHistoryProofs.tla

`PROJECT.json` names the module and configuration of every run, maps each
definition to the lines it translates, and lists mutants, findings and theorems.
