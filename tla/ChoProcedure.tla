----------------------------- MODULE ChoProcedure -----------------------------
(***************************************************************************)
(* The conditional handover (CHO) machine that every UE group of a         *)
(* Multi-UE-CHO simulator runs, driven by the one-second check             *)
(* CheckHandoverConditions and by the events the handlers schedule with    *)
(* Simulator::Schedule.  The text is that of SNR-CHO-Multi.cc; what        *)
(* differs between the handover strategies is a CONSTANT operator.         *)
(*                                                                         *)
(* Time is counted in checks: `now' is the simulation second of the last   *)
(* check.  Inside one check the UEs are visited in the order of the vector *)
(* g_ues (`turn' is the index of the next one); turn = NumUes means that   *)
(* no check is running and the simulator may dispatch other events.        *)
(***************************************************************************)
EXTENDS Integers

CONSTANTS
  NumUes,               \* g_ues.size()
  NumSats,              \* g_satellites.size(); names in std::map order
  StartTime,            \* trajectory.front().time of each satellite
  EndTime,              \* trajectory.back().time of each satellite
  Metrics,              \* the UeSatMetrics one refresh of the channel can give
  Unmeasured,           \* absent from ue.channelCache
  TimeToTrigger,        \* g_timeToTrigger
  MeasurementPeriod,    \* g_measurementPeriod, which no handler reads
  ExecutionTtt,         \* g_choNtnConfig.executionTimeToTrigger
  ValidityPeriod,       \* g_choNtnConfig.configValidityPeriod
  ForcedReselect,       \* the strategy drops the serving cell on RLF
  Overrun,              \* signalling may outlast the one-second check
  MaxTime,              \* bound: the last check, Simulator::Stop
  InPass(_, _),         \* satellite s is not between two passes at second t
  Detectable(_),        \* a strategy's filter on what the UE can measure
  Selectable(_),        \* a strategy's filter on the initial cell
  Initial(_, _),        \* view v is the strategy's initial choice among V
  Best(_, _),           \* view v is the strategy's best neighbour among V
  Prepare(_, _),        \* preparation condition on (serving, neighbour)
  NtnTrigger(_),        \* UE_EvaluateNtnTriggers on the serving view
  NtnAccepts(_, _),     \* it counts with V, the best neighbour or none
  ExecuteNow(_, _),     \* execution condition on (serving, target)
  Viable(_)             \* CHO_IsLinkViable on cached metrics

UEs    == 0 .. NumUes - 1
Sats   == 1 .. NumSats
NoCell == 0                 \* the empty string ""
Cells  == Sats \cup {NoCell}
Never  == -1                \* -1.0 in the initialisers

ASSUME SizeAssumption ==
  /\ NumUes \in Nat \ {0}
  /\ NumSats \in Nat

ASSUME TimeAssumption ==
  /\ StartTime \in [Sats -> Nat]
  /\ EndTime \in [Sats -> Nat]
  /\ TimeToTrigger \in Nat
  /\ MeasurementPeriod \in Nat
  /\ ExecutionTtt \in Nat
  /\ ValidityPeriod \in Nat
  /\ MaxTime \in Nat

ASSUME SwitchAssumption ==
  /\ ForcedReselect \in BOOLEAN
  /\ Overrun \in BOOLEAN

(* Every per-UE measConfig.measurementPeriod is the literal 1.0. *)
UeMeasurementPeriod == 1

VARIABLES
  now,           \* second of the last CheckHandoverConditions
  turn,          \* next UE of the running check; NumUes between checks
  cache,         \* ue.channelCache: satellite -> (update time, metrics)
  serving,       \* ue.context.servingGnb
  meas,          \* ue.measState
  proc,          \* ue.choProcState
  conf,          \* ue.choConfigState
  interrupted,   \* ue.hoState.interruptionActive
  lossForced,    \* ErrorRate of the error models was last set to a forced 1.0
  events,        \* scheduled CHO events of each UE, with multiplicity
  stats,         \* ue.g_choNtnStats, hoCount and hoFail
  gstats         \* g_choNtnStats and g_handoverCount

vars == <<now, turn, cache, serving, meas, proc, conf, interrupted,
          lossForced, events, stats, gstats>>

(* enum ChoPhase, the phases a handler leaves behind when it returns. *)
Phase == {"IDLE", "MEAS_REPORT_UPLINK", "GNB_CHO_DECISION", "XN_REQUEST",
          "XN_RESPONSE", "RRC_RECONFIG_DOWNLINK", "UE_EVALUATING",
          "UE_EXECUTING"}

(* The handlers given to Simulator::Schedule. *)
Handler == {"ReportArrived", "SendXnRequest", "XnResponse",
            "SendRrcReconfig", "UeStoresConfig", "ExecutionComplete"}

Event == [handler : Handler, source : Cells, target : Cells]

(* struct ChoNtnStatistics; hoFail has no global counterpart.  In the      *)
(* distance, elevation and serving-time variants UeInfo has no statistics  *)
(* but hoCount and hoFail: the other counters of a UE, which no action     *)
(* reads, are then history variables.                                      *)
GlobalCounter == {"totalReports", "configsSent", "configsReceived",
                  "executionsTriggered", "successfulHandovers",
                  "failedAtExecution", "configsExpired", "hoCount"}
Counter == GlobalCounter \cup {"hoFail"}

Time == Int   \* seconds, or Never

CacheEntry == [time : Time, m : Metrics]

(* UeMeasurementState, UeChoProcedureState and UeChoConfigState. *)
MeasState == [serving : Cells, lastTime : Time, active : BOOLEAN,
              start : Time, candidate : Cells]
ProcState == [phase : Phase, source : Cells, target : Cells,
              startTime : Time, expiry : Time, tttActive : BOOLEAN,
              tttStart : Time, failed : BOOLEAN]
ConfState == [cells : SUBSET Cells, pending : BOOLEAN, target : Cells]

(* No refresh looks like the absence of an entry. *)
ASSUME CacheAssumption == Unmeasured \notin CacheEntry

TypeOK ==
  /\ now \in Time
  /\ turn \in 0 .. NumUes
  /\ cache \in [UEs -> [Sats -> CacheEntry \cup {Unmeasured}]]
  /\ serving \in [UEs -> Cells]
  /\ meas \in [UEs -> MeasState]
  /\ proc \in [UEs -> ProcState]
  /\ conf \in [UEs -> ConfState]
  /\ interrupted \in [UEs -> BOOLEAN]
  /\ lossForced \in [UEs -> BOOLEAN]
  /\ events \in [UEs -> [Event -> Nat]]
  /\ stats \in [UEs -> [Counter -> Nat]]
  /\ gstats \in [GlobalCounter -> Nat]

(* The literal initialisers of LoadUeGroupsFromCsv; no check has run yet. *)
Init ==
  /\ now = Never
  /\ turn = NumUes
  /\ cache = [u \in UEs |-> [s \in Sats |-> Unmeasured]]
  /\ serving = [u \in UEs |-> NoCell]
  /\ meas = [u \in UEs |-> [serving |-> NoCell, lastTime |-> Never,
                            active |-> FALSE, start |-> Never,
                            candidate |-> NoCell]]
  /\ proc = [u \in UEs |-> [phase |-> "IDLE", source |-> NoCell,
                            target |-> NoCell, startTime |-> 0, expiry |-> 0,
                            tttActive |-> FALSE, tttStart |-> Never,
                            failed |-> FALSE]]
  /\ conf = [u \in UEs |-> [cells |-> {}, pending |-> FALSE,
                            target |-> NoCell]]
  /\ interrupted = [u \in UEs |-> FALSE]
  /\ lossForced = [u \in UEs |-> FALSE]
  /\ events = [u \in UEs |-> [e \in Event |-> 0]]
  /\ stats = [u \in UEs |-> [c \in Counter |-> 0]]
  /\ gstats = [c \in GlobalCounter |-> 0]

-------------------------------------------------------------------------------
(* Helpers.                                                                *)

\* Mutant: only the UE's own counters are updated.
CountOwn(u, cs) ==
  /\ stats' = [stats EXCEPT ![u] =
                 [c \in Counter |-> IF c \in cs THEN @[c] + 1 ELSE @[c]]]
  /\ UNCHANGED gstats

(* A counter update of the code increments the UE's and the global one.    *)
Count(u, cs) ==
  /\ stats' = [stats EXCEPT ![u] =
                 [c \in Counter |-> IF c \in cs THEN @[c] + 1 ELSE @[c]]]
  /\ gstats' = [c \in GlobalCounter |->
                  IF c \in cs THEN gstats[c] + 1 ELSE gstats[c]]

(* Simulator::Schedule, and the dispatch of a scheduled event e. *)
Call(h, s, t)    == [handler |-> h, source |-> s, target |-> t]
Schedule(u, e)   == [events EXCEPT ![u][e] = @ + 1]
Dispatched(u, e) == [events EXCEPT ![u][e] = @ - 1]
Follow(u, e, h)  == [events EXCEPT ![u][e] = @ - 1,
                                   ![u][Call(h, e.source, e.target)] = @ + 1]

Quiet(u) == \A e \in Event : events[u][e] = 0

Measured(u, s) == s \in Sats /\ cache[u][s] # Unmeasured
Fetched(u, s)  == cache[u][s].m

\* Mutant: a satellite is visible for as long as it is cached.
VisibleWhileCached(c, s, t) == /\ c[s] # Unmeasured
                               /\ c[s].m.elevation >= 0

(* The two visibility filters: above the horizon, trajectory not expired.  *)
Visible(c, s, t) == /\ c[s] # Unmeasured
                    /\ c[s].m.elevation >= 0
                    /\ t <= EndTime[s]

(* What a strategy sees of satellite s at second t through the cache c.    *)
View(c, s, t)  == [cell |-> s, time |-> t, m |-> c[s].m]
Views(c, S, t) == {View(c, s, t) : s \in S}

At(u, s) == View(cache[u], s, now)

(* The loops over the candidates keep the first one, in map order, that    *)
(* none of the others beats; beats is the relation of the comparison.      *)
FirstBest(v, V, beats) ==
  \A w \in V : \/ <<v, w>> \in beats
               \/ <<w, v>> \notin beats /\ v.cell <= w.cell

(* SelectBestSatellite for a UE without a serving cell: the hysteresis     *)
(* against the -999 of no current satellite never rejects the best one.    *)
IsSelected(c, s, t) ==
  LET S == {r \in Sats : Visible(c, r, t) /\ Selectable(c[r].m)}
  IN  IF S = {} THEN s = NoCell
      ELSE s \in S /\ Initial(View(c, s, t), Views(c, S, t))

(* UE_PerformMeasurements. *)
Detected(u) == {s \in Sats : /\ Visible(cache[u], s, now)
                             /\ Detectable(Fetched(u, s))}

\* Mutant: the serving cell is not skipped in the search.
IsBestCell(u, n) ==
  LET S == Detected(u)
  IN  IF S = {} THEN n = NoCell
      ELSE n \in S /\ Best(At(u, n), Views(cache[u], S, now))

(* Best neighbour of UE_EvaluateAndReport, NoCell when there is none. *)
IsBestNeighbour(u, n) ==
  LET S == Detected(u) \ {meas[u].serving}
  IN  IF S = {} THEN n = NoCell
      ELSE n \in S /\ Best(At(u, n), Views(cache[u], S, now))

Triggered(u, n) ==
  \/ /\ NtnTrigger(At(u, meas[u].serving))
     /\ NtnAccepts(At(u, meas[u].serving),
                   IF n = NoCell THEN {} ELSE {At(u, n)})
  \/ /\ n # NoCell
     /\ Prepare(At(u, meas[u].serving), At(u, n))

(* ApplyUeErrorModelImmediately and the same step of UpdateChannelState:   *)
(* without a measured serving cell the error models keep their rate.       *)
ErrorModel(u, c, cell, inter, old) ==
  IF cell \in Sats /\ c[cell] # Unmeasured THEN inter ELSE old

-------------------------------------------------------------------------------
\* Mutant: an entry of the second before counts as up to date.
RefreshedIfOld(u, obs, t) ==
  [s \in Sats |-> IF /\ t >= StartTime[s] /\ t <= EndTime[s] /\ InPass(s, t)
                     /\ cache[u][s] = Unmeasured \/ cache[u][s].time < t - 1
                  THEN [time |-> t, m |-> obs[s]] ELSE cache[u][s]]

(* CheckHandoverConditions, first half: refresh every UE's channel cache   *)
(* (UpdateSatelliteState leaves the entry of a satellite outside its       *)
(* trajectory, or between two of its passes, alone), then                  *)
(* UpdateChannelState: first cell, error models.                           *)
Refreshed(u, obs, t) ==
  [s \in Sats |-> IF t >= StartTime[s] /\ t <= EndTime[s] /\ InPass(s, t)
                  THEN [time |-> t, m |-> obs[s]] ELSE cache[u][s]]

BeginCheck ==
  /\ turn = NumUes
  /\ now < MaxTime
  /\ Overrun \/ \A u \in UEs : Quiet(u)
  /\ now' = now + 1
  /\ turn' = 0
  /\ \E obs \in [UEs -> [Sats -> Metrics]] :
       cache' = [u \in UEs |-> Refreshed(u, obs[u], now')]
  /\ \E sel \in [UEs -> Cells] :
       /\ \A u \in UEs : IF serving[u] = NoCell
                         THEN IsSelected(cache'[u], sel[u], now')
                         ELSE sel[u] = serving[u]
       /\ serving' = sel
       /\ meas' = [u \in UEs |-> IF serving[u] = NoCell /\ sel[u] # NoCell
                                 THEN [meas[u] EXCEPT !.serving = sel[u]]
                                 ELSE meas[u]]
       /\ lossForced' = [u \in UEs |->
            ErrorModel(u, cache'[u], sel[u], interrupted[u], lossForced[u])]
  /\ UNCHANGED <<proc, conf, interrupted, events, stats, gstats>>

-------------------------------------------------------------------------------
(* CheckHandover(simTime, u), one action per way through it.               *)
Visit(u) == turn = u /\ turn' = turn + 1

\* Mutant: CheckHandover does not return while a procedure is running.
MayAlwaysMeasure(u) == /\ proc[u].phase # "UE_EVALUATING"
                       /\ serving[u] # NoCell
                       /\ now - meas[u].lastTime >= UeMeasurementPeriod

(* An idle UE with a serving cell measures once its period has elapsed.    *)
MayMeasure(u) == /\ proc[u].phase = "IDLE"
                 /\ serving[u] # NoCell
                 /\ meas[u].serving = serving[u]
                 /\ now - meas[u].lastTime >= UeMeasurementPeriod

(* A procedure that is being signalled or executed is left alone, and so   *)
(* is a UE without a serving cell; a measurement state that is out of step *)
(* with the serving cell is reset, which also starts a new period.         *)
SkipUe(u) ==
  /\ Visit(u)
  /\ proc[u].phase # "UE_EVALUATING"
  /\ ~MayMeasure(u)
  /\ meas' = IF /\ proc[u].phase = "IDLE"
                /\ serving[u] # NoCell
                /\ meas[u].serving # serving[u]
             THEN [meas EXCEPT ![u] = [serving |-> serving[u],
                     lastTime |-> now, active |-> FALSE, start |-> Never,
                     candidate |-> NoCell]]
             ELSE meas
  /\ UNCHANGED <<now, cache, serving, proc, conf, interrupted,
                 lossForced, events, stats, gstats>>

(* CHO_TriggerProcedure with a report on serving cell s and target t.      *)
TriggerProcedure(u, s, t) ==
  /\ proc' = [proc EXCEPT ![u] = [@ EXCEPT !.phase = "MEAS_REPORT_UPLINK",
                                           !.source = s, !.target = t,
                                           !.startTime = now,
                                           !.failed = FALSE]]
  /\ events' = Schedule(u, Call("ReportArrived", s, t))
  /\ Count(u, {"totalReports"})

NoProcedure == UNCHANGED <<proc, events, stats, gstats>>

Measures(u) ==
  /\ Visit(u)
  /\ MayMeasure(u)
  /\ UNCHANGED <<now, cache, conf, interrupted, lossForced>>

\* Mutant: the serving cell is kept however the strategy treats RLF.
ReportRlfOnly(u) ==
  /\ Measures(u)
  /\ meas[u].serving \notin Detected(u)
  /\ meas' = [meas EXCEPT ![u] = [@ EXCEPT !.lastTime = now]]
  /\ TriggerProcedure(u, meas[u].serving, NoCell)
  /\ UNCHANGED serving

\* Mutant: every strategy drops the serving cell.
ReportRlfReselects(u) ==
  /\ Measures(u)
  /\ meas[u].serving \notin Detected(u)
  /\ serving' = [serving EXCEPT ![u] = NoCell]
  /\ meas' = [meas EXCEPT ![u] = [@ EXCEPT !.lastTime = now,
                            !.serving = NoCell, !.active = FALSE]]
  /\ NoProcedure

(* The serving cell is not among the measurements: a report without        *)
(* neighbours starts a procedure without a target, or, in the strategies   *)
(* that reselect, the serving cell is dropped.  The report trigger of the  *)
(* first kind of strategy is left as it was.                               *)
ReportRlf(u) ==
  /\ Measures(u)
  /\ meas[u].serving \notin Detected(u)
  /\ IF ForcedReselect
     THEN /\ serving' = [serving EXCEPT ![u] = NoCell]
          /\ meas' = [meas EXCEPT ![u] = [@ EXCEPT !.lastTime = now,
                                    !.serving = NoCell, !.active = FALSE]]
          /\ NoProcedure
     ELSE /\ meas' = [meas EXCEPT ![u] = [@ EXCEPT !.lastTime = now]]
          /\ TriggerProcedure(u, meas[u].serving, NoCell)
          /\ UNCHANGED serving

(* The preparation condition does not hold: forget the trigger.            *)
ClearTrigger(u) ==
  /\ Measures(u)
  /\ meas[u].serving \in Detected(u)
  /\ \E n \in Cells : IsBestNeighbour(u, n) /\ ~Triggered(u, n)
  /\ meas' = [meas EXCEPT ![u] = [@ EXCEPT !.lastTime = now,
                !.active = FALSE, !.start = Never, !.candidate = NoCell]]
  /\ NoProcedure
  /\ UNCHANGED serving

\* Mutant: another candidate restarts the trigger, NTN or not.
StartTriggerOnChange(u) ==
  /\ Measures(u)
  /\ meas[u].serving \in Detected(u)
  /\ \E n \in Cells :
       /\ IsBestNeighbour(u, n) /\ Triggered(u, n)
       /\ ~meas[u].active \/ n # meas[u].candidate
       /\ meas' = [meas EXCEPT ![u] = [@ EXCEPT !.lastTime = now,
                     !.active = TRUE, !.start = now, !.candidate = n]]
  /\ NoProcedure
  /\ UNCHANGED serving

(* It holds for the first time, or, unless the NTN trigger is what holds,  *)
(* for another candidate than before.                                      *)
StartTrigger(u) ==
  /\ Measures(u)
  /\ meas[u].serving \in Detected(u)
  /\ \E n \in Cells :
       /\ IsBestNeighbour(u, n) /\ Triggered(u, n)
       /\ \/ ~meas[u].active
          \/ /\ ~NtnTrigger(At(u, meas[u].serving))
             /\ n # meas[u].candidate
       /\ meas' = [meas EXCEPT ![u] = [@ EXCEPT !.lastTime = now,
                     !.active = TRUE, !.start = now, !.candidate = n]]
  /\ NoProcedure
  /\ UNCHANGED serving

\* Mutant: another candidate than before inherits the trigger.
PersistsForAny(u, n) ==
  /\ meas[u].serving \in Detected(u)
  /\ IsBestNeighbour(u, n)
  /\ Triggered(u, n)
  /\ meas[u].active

(* It still holds for the candidate: wait, or report after TimeToTrigger.  *)
Persists(u, n) ==
  /\ meas[u].serving \in Detected(u)
  /\ IsBestNeighbour(u, n)
  /\ Triggered(u, n)
  /\ meas[u].active
  /\ \/ NtnTrigger(At(u, meas[u].serving))
     \/ n = meas[u].candidate

HoldTrigger(u) ==
  /\ Measures(u)
  /\ \E n \in Cells : Persists(u, n)
  /\ now - meas[u].start < TimeToTrigger
  /\ meas' = [meas EXCEPT ![u] = [@ EXCEPT !.lastTime = now]]
  /\ NoProcedure
  /\ UNCHANGED serving

Report(u) ==
  /\ Measures(u)
  /\ now - meas[u].start >= TimeToTrigger
  /\ meas' = [meas EXCEPT ![u] = [@ EXCEPT !.lastTime = now,
                                           !.active = FALSE]]
  /\ \E n \in Cells :
       /\ Persists(u, n)
       /\ IF n = NoCell /\ ForcedReselect
          THEN NoProcedure
          ELSE TriggerProcedure(u, meas[u].serving, n)
  /\ UNCHANGED serving

-------------------------------------------------------------------------------
(* CHO_CheckExecutionCondition, for a UE that evaluates its stored config. *)
Evaluates(u) ==
  /\ Visit(u)
  /\ proc[u].phase = "UE_EVALUATING"
  /\ UNCHANGED <<now, cache, serving, meas>>

\* Mutant: the expiry check is off by one check.
PendingOneCheckMore(u) == now <= proc[u].expiry + 1

(* Not `currentTime > configExpiryTime'. *)
Pending(u) == now <= proc[u].expiry

\* Mutant: an expired configuration is forgotten without being counted.
ExpireSilently(u) ==
  /\ Evaluates(u)
  /\ ~Pending(u)
  /\ proc' = [proc EXCEPT ![u] = [@ EXCEPT !.phase = "IDLE"]]
  /\ conf' = [conf EXCEPT ![u] = [@ EXCEPT !.cells = {}]]
  /\ UNCHANGED <<interrupted, lossForced, events, stats, gstats>>

ExpireConfig(u) ==
  /\ Evaluates(u)
  /\ ~Pending(u)
  /\ proc' = [proc EXCEPT ![u] = [@ EXCEPT !.phase = "IDLE"]]
  /\ conf' = [conf EXCEPT ![u] = [@ EXCEPT !.cells = {}]]
  /\ Count(u, {"configsExpired"})
  /\ UNCHANGED <<interrupted, lossForced, events>>

BothMeasured(u) == /\ Measured(u, proc[u].source)
                   /\ Measured(u, proc[u].target)

ConditionMet(u) == /\ BothMeasured(u)
                   /\ ExecuteNow(At(u, proc[u].source),
                                 At(u, proc[u].target))

(* Without metrics of both cells nothing changes; with them an unmet       *)
(* condition clears the execution trigger.                                 *)
KeepWaiting(u) ==
  /\ Evaluates(u)
  /\ Pending(u)
  /\ ~ConditionMet(u)
  /\ proc' = IF BothMeasured(u)
             THEN [proc EXCEPT ![u] = [@ EXCEPT !.tttActive = FALSE,
                                                !.tttStart = Never]]
             ELSE proc
  /\ UNCHANGED <<conf, interrupted, lossForced, events, stats, gstats>>

StartExecutionTtt(u) ==
  /\ Evaluates(u)
  /\ Pending(u)
  /\ ConditionMet(u)
  /\ ~proc[u].tttActive
  /\ proc' = [proc EXCEPT ![u] = [@ EXCEPT !.tttActive = TRUE,
                                           !.tttStart = now]]
  /\ UNCHANGED <<conf, interrupted, lossForced, events, stats, gstats>>

HoldExecutionTtt(u) ==
  /\ Evaluates(u)
  /\ Pending(u)
  /\ ConditionMet(u)
  /\ proc[u].tttActive
  /\ now - proc[u].tttStart < ExecutionTtt
  /\ UNCHANGED <<proc, conf, interrupted, lossForced, events, stats, gstats>>

(* CHO_Phase6_UeExecutes: the interruption starts.                         *)
UeExecutes(u) ==
  /\ proc' = [proc EXCEPT ![u] = [@ EXCEPT !.phase = "UE_EXECUTING",
                                           !.tttActive = FALSE]]
  /\ conf' = [conf EXCEPT ![u] = [@ EXCEPT !.pending = TRUE,
                                           !.target = proc[u].target]]
  /\ interrupted' = [interrupted EXCEPT ![u] = TRUE]
  /\ lossForced' = [lossForced EXCEPT ![u] =
       ErrorModel(u, cache[u], serving[u], TRUE, @)]
  /\ events' = Schedule(u, Call("ExecutionComplete", proc[u].source,
                                proc[u].target))
  /\ Count(u, {"executionsTriggered"})

\* Mutant: once the trigger is active the condition is not looked at again.
ExecuteUnchecked(u) ==
  /\ Evaluates(u)
  /\ Pending(u)
  /\ proc[u].tttActive
  /\ now - proc[u].tttStart >= ExecutionTtt
  /\ UeExecutes(u)

(* The condition still holds and its trigger has lasted long enough.       *)
Execute(u) ==
  /\ Evaluates(u)
  /\ Pending(u)
  /\ ConditionMet(u)
  /\ proc[u].tttActive
  /\ now - proc[u].tttStart >= ExecutionTtt
  /\ UeExecutes(u)

CheckHandover(u) ==
  \/ SkipUe(u)
  \/ ReportRlf(u)
  \/ ClearTrigger(u)
  \/ StartTrigger(u)
  \/ HoldTrigger(u)
  \/ Report(u)
  \/ ExpireConfig(u)
  \/ KeepWaiting(u)
  \/ StartExecutionTtt(u)
  \/ HoldExecutionTtt(u)
  \/ Execute(u)

-------------------------------------------------------------------------------
(* The scheduled events.  Each handler is called with the cells bound when *)
(* it was scheduled, and returns at once unless the procedure is in the    *)
(* phase the event belongs to.                                             *)
Dispatch(u, e, h) ==
  /\ turn = NumUes
  /\ e.handler = h
  /\ events[u][e] > 0
  /\ UNCHANGED <<now, turn, cache>>

Dropped(u, e) == /\ events' = Dispatched(u, e)
                 /\ UNCHANGED <<proc, conf, interrupted, lossForced, serving,
                                meas, stats, gstats>>

(* One step of the signalling chain before the configuration is stored:    *)
(* it moves the phase on, counts, and schedules the next handler.          *)
Relay(u, e, from, to, next) ==
  IF proc[u].phase # from THEN Dropped(u, e)
  ELSE /\ proc' = [proc EXCEPT ![u] = [@ EXCEPT !.phase = to]]
       /\ events' = Follow(u, e, next)
       /\ Count(u, IF to = "RRC_RECONFIG_DOWNLINK" THEN {"configsSent"}
                                                  ELSE {})
       /\ UNCHANGED <<conf, interrupted, lossForced, serving, meas>>

ReportArrived(u, e) ==
  /\ Dispatch(u, e, "ReportArrived")
  /\ Relay(u, e, "MEAS_REPORT_UPLINK", "GNB_CHO_DECISION", "SendXnRequest")

SendXnRequest(u, e) ==
  /\ Dispatch(u, e, "SendXnRequest")
  /\ Relay(u, e, "GNB_CHO_DECISION", "XN_REQUEST", "XnResponse")

\* Mutant: no answer is sent for a request without a target.
XnResponseToTarget(u, e) ==
  /\ Dispatch(u, e, "XnResponse")
  /\ IF e.target = NoCell THEN Dropped(u, e)
     ELSE Relay(u, e, "XN_REQUEST", "XN_RESPONSE", "SendRrcReconfig")

XnResponse(u, e) ==
  /\ Dispatch(u, e, "XnResponse")
  /\ Relay(u, e, "XN_REQUEST", "XN_RESPONSE", "SendRrcReconfig")

SendRrcReconfig(u, e) ==
  /\ Dispatch(u, e, "SendRrcReconfig")
  /\ Relay(u, e, "XN_RESPONSE", "RRC_RECONFIG_DOWNLINK", "UeStoresConfig")

(* The configuration arrives strictly between two checks, so that a later  *)
(* check at t finds it expired exactly when t > now + ValidityPeriod.      *)
UeStoresConfig(u, e) ==
  /\ Dispatch(u, e, "UeStoresConfig")
  /\ IF proc[u].phase # "RRC_RECONFIG_DOWNLINK" THEN Dropped(u, e)
     ELSE /\ proc' = [proc EXCEPT ![u] = [@ EXCEPT
                        !.phase = "UE_EVALUATING",
                        !.expiry = now + ValidityPeriod,
                        !.tttActive = FALSE, !.tttStart = Never]]
          /\ conf' = [conf EXCEPT ![u].cells = @ \cup {e.target}]
          /\ events' = Dispatched(u, e)
          /\ Count(u, {"configsReceived"})
          /\ UNCHANGED <<interrupted, lossForced, serving, meas>>

\* Mutant: a failure ends the procedure and cleans nothing up.
FailWithoutCleanup(u) ==
  /\ proc' = [proc EXCEPT ![u] = [@ EXCEPT !.phase = "IDLE",
                                           !.failed = TRUE]]
  /\ Count(u, {"failedAtExecution", "hoFail"})
  /\ UNCHANGED <<conf, interrupted, lossForced, serving, meas>>

(* CHO_HandleFailure: the error models keep the rate of the interruption.  *)
HandleFailure(u) ==
  /\ proc' = [proc EXCEPT ![u] = [@ EXCEPT !.phase = "IDLE",
                                           !.failed = TRUE]]
  /\ conf' = [conf EXCEPT ![u] = [@ EXCEPT !.cells = {}]]
  /\ interrupted' = [interrupted EXCEPT ![u] = FALSE]
  /\ Count(u, {"failedAtExecution", "hoFail"})
  /\ UNCHANGED <<lossForced, serving, meas>>

\* Mutant: the last assignment of the handler, the reset to idle, is missing.
CompleteWithoutReset(u, e) ==
  /\ proc' = [proc EXCEPT ![u] = [@ EXCEPT !.phase = "XN_CANCEL",
                                           !.failed = FALSE]]
  /\ conf' = [conf EXCEPT ![u] = [cells |-> {}, pending |-> FALSE,
                                  target |-> NoCell]]
  /\ serving' = [serving EXCEPT ![u] = e.target]
  /\ meas' = [meas EXCEPT ![u] = [@ EXCEPT !.serving = e.target,
                !.active = FALSE, !.start = Never, !.candidate = NoCell]]
  /\ interrupted' = [interrupted EXCEPT ![u] = FALSE]
  /\ lossForced' = [lossForced EXCEPT ![u] =
                      ErrorModel(u, cache[u], e.target, FALSE, @)]
  /\ Count(u, {"successfulHandovers", "hoCount"})

(* The rest of CHO_Phase7_ExecutionComplete; the phase XN_CANCEL it passes *)
(* through is gone when it returns.                                        *)
CompleteHandover(u, e) ==
  /\ proc' = [proc EXCEPT ![u] = [@ EXCEPT !.phase = "IDLE",
                                           !.failed = FALSE]]
  /\ conf' = [conf EXCEPT ![u] = [cells |-> {}, pending |-> FALSE,
                                  target |-> NoCell]]
  /\ serving' = [serving EXCEPT ![u] = e.target]
  /\ meas' = [meas EXCEPT ![u] = [@ EXCEPT !.serving = e.target,
                !.active = FALSE, !.start = Never, !.candidate = NoCell]]
  /\ interrupted' = [interrupted EXCEPT ![u] = FALSE]
  /\ lossForced' = [lossForced EXCEPT ![u] =
                      ErrorModel(u, cache[u], e.target, FALSE, @)]
  /\ Count(u, {"successfulHandovers", "hoCount"})

TargetViable(u, t) == Measured(u, t) /\ Viable(Fetched(u, t))

\* Mutant: the target is not checked at the end of the execution.
ConcludeUnchecked(u, e) == CompleteHandover(u, e)

Conclude(u, e) == IF TargetViable(u, e.target) THEN CompleteHandover(u, e)
                                               ELSE HandleFailure(u)

ExecutionComplete(u, e) ==
  /\ Dispatch(u, e, "ExecutionComplete")
  /\ IF proc[u].phase # "UE_EXECUTING" THEN Dropped(u, e)
     ELSE /\ events' = Dispatched(u, e)
          /\ Conclude(u, e)

Signal(u, e) ==
  \/ ReportArrived(u, e)
  \/ SendXnRequest(u, e)
  \/ XnResponse(u, e)
  \/ SendRrcReconfig(u, e)
  \/ UeStoresConfig(u, e)
  \/ ExecutionComplete(u, e)

Next ==
  \/ BeginCheck
  \/ \E u \in UEs : CheckHandover(u)
  \/ \E u \in UEs : \E e \in Event : Signal(u, e)

Spec == Init /\ [][Next]_vars

(* Simulator::Run dispatches every event up to Simulator::Stop.            *)
FairSpec == Spec /\ WF_vars(Next)
===============================================================================
