---------------------------- MODULE ChoTimingProofs ----------------------------
(***************************************************************************)
(* What the CHO machine promises when its signalling fits between two      *)
(* checks (~Overrun): how long a procedure lasts, that an execution is     *)
(* judged on the metrics that started it, and how long a UE can be         *)
(* stranded in a strategy that reselects.  Also what the checks alone give *)
(* however long the signalling takes: a UE measures once a second, a       *)
(* ranking has one best neighbour, a target was up when it was reported,   *)
(* and a loss that outlives its handover ends with the next check.         *)
(***************************************************************************)
EXTENDS ChoStepProofs

Visited(u) == turn > u

(* A procedure is signalled within the second that triggered it, an        *)
(* execution starts and ends within a second, and what waits across checks *)
(* is the stored configuration alone.                                      *)
OnTime(u) ==
  /\ proc[u].phase \in Signalled => Visited(u) /\ proc[u].startTime = now
  /\ proc[u].phase \in {"UE_EVALUATING", "UE_EXECUTING"} =>
       proc[u].expiry = proc[u].startTime + ValidityPeriod
  /\ proc[u].phase = "UE_EVALUATING" =>
       now <= proc[u].expiry + (IF Visited(u) THEN 0 ELSE 1)
  /\ proc[u].phase = "UE_EXECUTING" =>
       Visited(u) /\ now <= proc[u].expiry /\ ConditionMet(u)

Timely == \A u \in UEs : OnTime(u)

LEMMA TimesOfUe ==
  ASSUME TypeOK, NEW u \in UEs
  PROVE  /\ now \in Int /\ turn \in 0 .. NumUes
         /\ u \in Nat /\ u < NumUes /\ NumUes \in Nat
         /\ proc[u].phase \in Phase
         /\ proc[u].source \in Cells /\ proc[u].target \in Cells
         /\ proc[u].startTime \in Int /\ proc[u].expiry \in Int
         /\ meas[u].lastTime \in Int
         /\ ValidityPeriod \in Nat
<1>1. now \in Int /\ turn \in 0 .. NumUes
  BY DEF TypeOK, Time
<1>2. u \in Nat /\ u < NumUes /\ NumUes \in Nat
  BY SizeAssumption DEF UEs
<1>3. /\ proc[u].phase \in Phase
      /\ proc[u].source \in Cells /\ proc[u].target \in Cells
      /\ proc[u].startTime \in Int /\ proc[u].expiry \in Int
  BY TypeOfUe DEF ProcState, Time
<1>4. meas[u].lastTime \in Int
  BY TypeOfUe DEF MeasState, Time
<1>5. ValidityPeriod \in Nat
  BY TimeAssumption
<1> QED
  BY <1>1, <1>2, <1>3, <1>4, <1>5

(* The order of the loop over the UEs: a visit moves past its own UE only. *)
LEMMA VisitOrder ==
  ASSUME TypeOK, NEW u \in UEs, NEW w \in UEs, Visit(w)
  PROVE  /\ ~Visited(w) /\ Visited(w)'
         /\ u # w => (Visited(u)' <=> Visited(u))
BY TimesOfUe DEF Visit, Visited

(* A visit and a handler move neither the clock nor the cache. *)
LEMMA CheckKeepsClock ==
  ASSUME NEW u \in UEs, CheckHandover(u)
  PROVE  Visit(u) /\ now' = now /\ cache' = cache
BY DEF CheckHandover, SkipUe, ReportRlf, ClearTrigger, StartTrigger,
       HoldTrigger, Report, Measures, ExpireConfig, KeepWaiting,
       StartExecutionTtt, HoldExecutionTtt, Execute, Evaluates

LEMMA SignalKeepsClock ==
  ASSUME NEW u \in UEs, NEW e \in Event, Signal(u, e)
  PROVE  /\ now' = now /\ cache' = cache
         /\ turn = NumUes /\ turn' = turn
BY DEF Signal, ReportArrived, SendXnRequest, XnResponse, SendRrcReconfig,
       UeStoresConfig, ExecutionComplete, Dispatch

(* Whatever does not concern a procedure leaves it on time. *)
LEMMA OnTimeFrame ==
  ASSUME NEW u \in UEs, OnTime(u), proc'[u] = proc[u], now' = now,
         cache'[u] = cache[u], Visited(u)' <=> Visited(u)
  PROVE  OnTime(u)'
<1>1. ConditionMet(u)' <=> ConditionMet(u)
  BY DEF ConditionMet, BothMeasured, Measured, At, View
<1> QED
  BY <1>1 DEF OnTime

(* A phase that waits for a handler has an event scheduled. *)
LEMMA QuietPhase ==
  ASSUME TypeOK, NEW u \in UEs, Consistent(u), Quiet(u)
  PROVE  proc[u].phase \in {"IDLE", "UE_EVALUATING"}
<1>1. ASSUME NEW h \in Handler, <<proc[u].phase, h>> \in Awaited
      PROVE  FALSE
  <2> DEFINE e == Call(h, proc[u].source, proc[u].target)
  <2>1. e \in Event
    BY TimesOfUe, CallType
  <2>2. Awaits(u, e)
    BY <1>1, TimesOfUe, CallFields DEF Awaits
  <2>3. events[u][e] = 1
    BY <2>1, <2>2 DEF Consistent, UeEvents
  <2> QED
    BY <2>1, <2>3 DEF Quiet
<1>2. proc[u].phase \in Phase
  BY TimesOfUe
<1> QED
  BY <1>1, <1>2 DEF Phase, Awaited, Handler

LEMMA OnTimeBeginCheck ==
  ASSUME ~Overrun, TypeOK, NEW u \in UEs, Consistent(u), OnTime(u), BeginCheck
  PROVE  OnTime(u)'
<1>1. proc[u].phase \in {"IDLE", "UE_EVALUATING"}
  BY QuietPhase DEF BeginCheck
<1>2. proc' = proc /\ now' = now + 1 /\ turn = NumUes /\ turn' = 0
  BY DEF BeginCheck
<1>3. Visited(u) /\ ~Visited(u)'
  BY <1>2, TimesOfUe DEF Visited
<1>4. proc[u].phase = "UE_EVALUATING" => now' <= proc[u].expiry + 1
  BY <1>2, <1>3, TimesOfUe DEF OnTime
<1> QED
  BY <1>1, <1>2, <1>3, <1>4 DEF OnTime, Signalled

LEMMA OnTimeCheck ==
  ASSUME TypeOK, NEW u \in UEs, Consistent(u), OnTime(u), CheckHandover(u)
  PROVE  OnTime(u)'
<1>1. /\ now' = now /\ cache' = cache
      /\ ~Visited(u) /\ Visited(u)'
  BY CheckKeepsClock, VisitOrder
<1>2. /\ proc[u].phase \notin Signalled
      /\ proc[u].phase # "UE_EXECUTING"
  BY <1>1 DEF OnTime
<1>3. CASE Waits(u)
  BY <1>1, <1>2, <1>3, TimesOfUe DEF Waits, Moves, Pending, OnTime
<1>4. CASE Reselects(u)
  BY <1>4 DEF Reselects, OnTime, Signalled
<1>5. CASE Triggers(u)
  BY <1>1, <1>5 DEF Triggers, OnTime, Signalled
<1>6. CASE Expires(u)
  BY <1>6 DEF Expires, Moves, OnTime, Signalled
<1>7. CASE Executes(u)
  <2>1. ConditionMet(u)'
    BY <1>1, <1>7
       DEF Executes, Moves, ConditionMet, BothMeasured, Measured, At, View
  <2> QED
    BY <1>1, <1>7, <2>1 DEF Executes, Moves, Pending, OnTime, Signalled
<1> QED
  BY <1>3, <1>4, <1>5, <1>6, <1>7, WaysOfCheck

LEMMA OnTimeSignal ==
  ASSUME TypeOK, NEW u \in UEs, Consistent(u), OnTime(u),
         NEW e \in Event, Signal(u, e)
  PROVE  OnTime(u)'
<1>1. /\ now' = now /\ Visited(u) /\ Visited(u)'
  BY SignalKeepsClock, TimesOfUe DEF Visited
<1>2. CASE Relays(u)
  BY <1>1, <1>2 DEF Relays, Moves, OnTime, Signalled
<1>3. CASE Stores(u)
  BY <1>1, <1>3, TimesOfUe DEF Stores, OnTime, Signalled
<1>4. CASE Fails(u) \/ Completes(u)
  BY <1>4 DEF Fails, Completes, Ends, Moves, OnTime, Signalled
<1> QED
  BY <1>2, <1>3, <1>4, WaysOfSignal

LEMMA TimelyInit == Init => Timely
BY DEF Init, Timely, OnTime, Signalled

LEMMA TimelyNext ==
  ASSUME ~Overrun, IInv, Timely, [Next]_vars
  PROVE  Timely'
<1> SUFFICES ASSUME NEW u \in UEs PROVE OnTime(u)'
  BY DEF Timely
<1>1. TypeOK /\ Consistent(u) /\ OnTime(u)
  BY DEF IInv, Timely
<1>2. CASE UNCHANGED vars
  BY <1>1, <1>2, OnTimeFrame DEF vars, Visited
<1>3. CASE BeginCheck
  BY <1>1, <1>3, OnTimeBeginCheck
<1>4. ASSUME NEW w \in UEs, CheckHandover(w) PROVE OnTime(u)'
  <2>1. CASE w = u
    BY <1>1, <1>4, <2>1, OnTimeCheck
  <2>2. CASE w # u
    BY <1>1, <1>4, <2>2, OnTimeFrame, OthersInCheck, CheckKeepsClock, VisitOrder
  <2> QED
    BY <2>1, <2>2
<1>5. ASSUME NEW w \in UEs, NEW e \in Event, Signal(w, e) PROVE OnTime(u)'
  <2>1. CASE w = u
    BY <1>1, <1>5, <2>1, OnTimeSignal
  <2>2. CASE w # u
    BY <1>1, <1>5, <2>2, OnTimeFrame, OthersInSignal, SignalKeepsClock
       DEF Visited
  <2> QED
    BY <2>1, <2>2
<1> QED
  BY <1>2, <1>3, <1>4, <1>5 DEF Next

(* With signalling that fits between two checks, every procedure keeps to  *)
(* its times: the inductive invariant behind the next two theorems.        *)
THEOREM TimelyHolds ==
  ASSUME ~Overrun
  PROVE  Spec => []Timely
<1>1. Init => Timely
  BY TimelyInit
<1>2. IInv /\ Timely /\ [Next]_vars => Timely'
  BY TimelyNext
<1> QED
  BY <1>1, <1>2, InvariantHolds, PTL DEF Spec

LEMMA TimelyBounded == IInv /\ Timely => ProcedureBounded
<1> SUFFICES ASSUME IInv, Timely, NEW u \in UEs, proc[u].phase # "IDLE"
             PROVE  now - proc[u].startTime
                      <= ValidityPeriod + (IF turn > u THEN 0 ELSE 1)
  BY DEF ProcedureBounded
<1>1. TypeOK /\ OnTime(u)
  BY DEF IInv, Timely
<1>2. \/ proc[u].phase \in Signalled
      \/ proc[u].phase \in {"UE_EVALUATING", "UE_EXECUTING"}
  BY <1>1, TimesOfUe DEF Phase, Signalled
<1> QED
  BY <1>1, <1>2, TimesOfUe DEF OnTime, Visited

(* A procedure is over ValidityPeriod seconds after its report, as soon as *)
(* the next check has visited the UE: CHO_CheckExecutionCondition expires  *)
(* every configuration, and nothing else outlives its second.              *)
THEOREM ProceduresBounded ==
  ASSUME ~Overrun
  PROVE  Spec => []ProcedureBounded
BY TimelyBounded, InvariantHolds, TimelyHolds, PTL

(* CHO_IsLinkViable at the end of an execution reads the very metrics with *)
(* which CHO_CheckExecutionCondition started it.                           *)
THEOREM ExecutionsSeeDecision ==
  ASSUME ~Overrun
  PROVE  Spec => []ExecutionSeesDecisionMetrics
<1>1. Timely => ExecutionSeesDecisionMetrics
  BY DEF Timely, OnTime, ExecutionSeesDecisionMetrics
<1> QED
  BY <1>1, TimelyHolds, PTL

(* Whatever the outcome of an execution, its condition holds when it ends: *)
(* on this rest what the strategies promise of failures and handovers.     *)
EndsOnCondition(u) ==
  LET s == proc[u].source
      t == proc[u].target
  IN  /\ s = serving[u] /\ s \in Sats /\ t \in Sats
      /\ Fetched(u, s) \in Metrics /\ Fetched(u, t) \in Metrics
      /\ At(u, s).m = Fetched(u, s) /\ At(u, t).m = Fetched(u, t)
      /\ ExecuteNow(At(u, s), At(u, t))

LEMMA ExecutingOnCondition ==
  ASSUME IInv, Timely, NEW u \in UEs, proc[u].phase = "UE_EXECUTING"
  PROVE  EndsOnCondition(u)
<1>1. TypeOK /\ ConditionMet(u) /\ proc[u].source = serving[u]
  BY DEF IInv, Timely, OnTime, Consistent, UeCells
<1>2. ASSUME NEW s \in Sats, cache[u][s] # Unmeasured
      PROVE  Fetched(u, s) \in Metrics
  <2>1. cache[u][s] \in CacheEntry
    BY <1>1, <1>2 DEF TypeOK
  <2> QED
    BY <2>1 DEF CacheEntry, Fetched
<1>3. \A s : At(u, s).m = Fetched(u, s)
  BY DEF At, View, Fetched
<1> QED
  BY <1>1, <1>2, <1>3 DEF ConditionMet, BothMeasured, Measured, EndsOnCondition

LEMMA FailsOnCondition ==
  ASSUME IInv, Timely, Next, NEW u \in UEs,
         stats'[u]["failedAtExecution"] > stats[u]["failedAtExecution"]
  PROVE  EndsOnCondition(u)
<1>1. stats[u]["failedAtExecution"] \in Nat
  BY TypeOfUe DEF IInv, Counter, GlobalCounter
<1> QED
  BY <1>1, FailureCounted, ExecutingOnCondition

LEMMA CompletesOnCondition ==
  ASSUME IInv, Timely, Next, NEW u \in UEs,
         proc[u].phase = "UE_EXECUTING", serving'[u] # serving[u]
  PROVE  EndsOnCondition(u) /\ serving'[u] = proc[u].target
<1>1. Consistent(u) /\ serving[u] # NoCell
  BY DEF IInv, Consistent, UeCells
<1>2. conf[u].cells = {serving'[u]}
  BY <1>1, ServingStep DEF ServingChange
<1> QED
  BY <1>1, <1>2, ExecutingOnCondition DEF Consistent, UeConfig

-------------------------------------------------------------------------------
(* Measurements, however long the signalling takes.                        *)

(* A visit measures in its second or not at all. *)
LEMMA LastTimeInCheck ==
  ASSUME TypeOK, NEW u \in UEs, CheckHandover(u)
  PROVE  meas'[u].lastTime \in {now, meas[u].lastTime}
<1>1. meas[u] \in MeasState /\ meas \in [UEs -> MeasState]
  BY TypeOfUe DEF TypeOK
<1>2. CASE SkipUe(u)
  BY <1>1, <1>2 DEF SkipUe
<1>3. CASE ReportRlf(u)
  BY <1>1, <1>3 DEF ReportRlf, MeasState
<1>4. CASE ClearTrigger(u)
  BY <1>1, <1>4 DEF ClearTrigger, MeasState
<1>5. CASE StartTrigger(u)
  BY <1>1, <1>5 DEF StartTrigger, MeasState
<1>6. CASE HoldTrigger(u) \/ Report(u)
  BY <1>1, <1>6 DEF HoldTrigger, Report, MeasState
<1>7. CASE \/ ExpireConfig(u) \/ KeepWaiting(u) \/ StartExecutionTtt(u)
           \/ HoldExecutionTtt(u) \/ Execute(u)
  BY <1>7 DEF ExpireConfig, KeepWaiting, StartExecutionTtt, HoldExecutionTtt,
              Execute, Evaluates
<1> QED
  BY <1>2, <1>3, <1>4, <1>5, <1>6, <1>7 DEF CheckHandover

(* A handler ends the trigger of a report, or leaves measState alone. *)
LEMMA MeasInSignal ==
  ASSUME TypeOK, NEW u \in UEs, NEW e \in Event, Signal(u, e)
  PROVE  /\ meas'[u].lastTime = meas[u].lastTime
         /\ meas'[u] = meas[u] \/ ~meas'[u].active
<1>1. meas[u] \in MeasState /\ meas \in [UEs -> MeasState]
  BY TypeOfUe DEF TypeOK
<1>2. ASSUME CompleteHandover(u, e)
      PROVE  meas'[u].lastTime = meas[u].lastTime /\ ~meas'[u].active
  BY <1>1, <1>2 DEF CompleteHandover, MeasState
<1> QED
  BY <1>2 DEF Signal, ReportArrived, SendXnRequest, XnResponse,
     SendRrcReconfig, UeStoresConfig, ExecutionComplete, Relay, Dropped,
     Conclude, HandleFailure

LEMMA MeasInBeginCheck ==
  ASSUME TypeOK, NEW u \in UEs, BeginCheck
  PROVE  /\ proc'[u] = proc[u] /\ now' = now + 1
         /\ Visited(u) /\ ~Visited(u)'
         /\ SameTrigger(u) /\ meas'[u].lastTime = meas[u].lastTime
         /\ serving[u] # NoCell => serving'[u] = serving[u]
<1>1. proc' = proc /\ now' = now + 1 /\ Visited(u) /\ ~Visited(u)'
  BY TimesOfUe DEF BeginCheck, Visited
<1>2. PICK sel \in [UEs -> Cells] :
        /\ \A v \in UEs : serving[v] # NoCell => sel[v] = serving[v]
        /\ serving' = sel
        /\ meas' = [v \in UEs |-> IF serving[v] = NoCell /\ sel[v] # NoCell
                                  THEN [meas[v] EXCEPT !.serving = sel[v]]
                                  ELSE meas[v]]
  BY DEF BeginCheck
<1>3. SameTrigger(u) /\ meas'[u].lastTime = meas[u].lastTime
  BY <1>2, TypeOfUe DEF MeasState, SameTrigger
<1> QED
  BY <1>1, <1>2, <1>3

(* A refresh removes no cache entry. *)
LEMMA MeasuredStays ==
  ASSUME TypeOK, BeginCheck, NEW u \in UEs, NEW s, Measured(u, s)
  PROVE  Measured(u, s)'
<1>1. PICK obs \in [UEs -> [Sats -> Metrics]] :
        cache' = [v \in UEs |-> Refreshed(v, obs[v], now')]
  BY DEF BeginCheck
<1>2. s \in Sats /\ cache[u][s] # Unmeasured
  BY DEF Measured
<1>3. [time |-> now', m |-> obs[u][s]] \in CacheEntry
  BY <1>2, TypeOfUe DEF BeginCheck, CacheEntry, Time
<1>4. cache'[u][s] \in {[time |-> now', m |-> obs[u][s]], cache[u][s]}
  BY <1>1, <1>2 DEF Refreshed
<1> QED
  BY <1>2, <1>3, <1>4, CacheAssumption DEF Measured

(* An idle UE that this check has yet to visit last measured in an earlier *)
(* one, and no trigger started in the future.                              *)
Punctual(u) ==
  /\ meas[u].lastTime <= now - (IF Visited(u) THEN 0 ELSE 1)
  /\ meas[u].active => meas[u].start <= now

AllPunctual == \A u \in UEs : Punctual(u)

LEMMA PunctualInit == Init => AllPunctual
<1> SUFFICES ASSUME Init, NEW u \in UEs PROVE Punctual(u)
  BY DEF AllPunctual
<1>1. /\ now = -1 /\ meas[u].lastTime = -1 /\ ~meas[u].active
      /\ turn = NumUes
  BY DEF Init, Never
<1>2. Visited(u)
  BY <1>1, SizeAssumption DEF Visited, UEs
<1> QED
  BY <1>1, <1>2 DEF Punctual

LEMMA PunctualCheck ==
  ASSUME TypeOK, NEW u \in UEs, Consistent(u), Punctual(u), CheckHandover(u)
  PROVE  Punctual(u)'
<1>1. /\ now' = now /\ ~Visited(u) /\ Visited(u)'
      /\ meas'[u].lastTime \in {now, meas[u].lastTime}
  BY CheckKeepsClock, VisitOrder, LastTimeInCheck
<1>2. meas'[u].lastTime <= now
  BY <1>1, TimesOfUe DEF Punctual
<1>3. \/ ~meas'[u].active
      \/ meas'[u].start = now
      \/ meas'[u].active = meas[u].active /\ meas'[u].start = meas[u].start
  BY WaysOfMeasuring DEF Passes, Loses, Clears, Starts, Holds, Reports,
     SameTrigger
<1> QED
  BY <1>1, <1>2, <1>3, TimesOfUe DEF Punctual

LEMMA PunctualNext ==
  ASSUME IInv, AllPunctual, [Next]_vars
  PROVE  AllPunctual'
<1> SUFFICES ASSUME NEW u \in UEs PROVE Punctual(u)'
  BY DEF AllPunctual
<1>1. TypeOK /\ Consistent(u) /\ Punctual(u)
  BY DEF IInv, AllPunctual
<1>2. ASSUME meas'[u] = meas[u], now' = now, Visited(u)' <=> Visited(u)
      PROVE  Punctual(u)'
  BY <1>1, <1>2 DEF Punctual
<1>3. CASE UNCHANGED vars
  BY <1>2, <1>3 DEF vars, Visited
<1>4. CASE BeginCheck
  <2>1. meas[u].active => meas[u].start \in Int
    BY <1>1, TypeOfUe DEF MeasState, Time
  <2> QED
    BY <1>1, <1>4, <2>1, MeasInBeginCheck, TimesOfUe DEF Punctual, SameTrigger
<1>5. ASSUME NEW w \in UEs, CheckHandover(w) PROVE Punctual(u)'
  BY <1>1, <1>2, <1>5, PunctualCheck, OthersInCheck, CheckKeepsClock,
     VisitOrder
<1>6. ASSUME NEW w \in UEs, NEW e \in Event, Signal(w, e) PROVE Punctual(u)'
  <2>1. CASE w = u
    BY <1>1, <1>6, <2>1, MeasInSignal, SignalKeepsClock DEF Punctual, Visited
  <2>2. CASE w # u
    BY <1>1, <1>2, <1>6, <2>2, OthersInSignal, SignalKeepsClock DEF Visited
  <2> QED
    BY <2>1, <2>2
<1> QED
  BY <1>3, <1>4, <1>5, <1>6 DEF Next

(* Every check visits every UE once, and measures at most once: the        *)
(* invariant behind the theorems on the time-to-trigger.                   *)
THEOREM PunctualHolds == Spec => []AllPunctual
<1>1. Init => AllPunctual
  BY PunctualInit
<1>2. IInv /\ AllPunctual /\ [Next]_vars => AllPunctual'
  BY PunctualNext
<1> QED
  BY <1>1, <1>2, InvariantHolds, PTL DEF Spec

(* The period a UE keeps to is the literal 1.0 of its measConfig: as its   *)
(* measurement state is never out of step with its serving cell, a visit   *)
(* that does not measure leaves the time of the last measurement alone.    *)
LEMMA MeasurementSpaced ==
  ASSUME IInv, Next, NEW u \in UEs, meas'[u].lastTime # meas[u].lastTime
  PROVE  /\ meas'[u].lastTime = now
         /\ now - meas[u].lastTime >= UeMeasurementPeriod
<1>1. TypeOK /\ Consistent(u)
  BY DEF IInv
<1>2. ~BeginCheck
  BY <1>1, MeasInBeginCheck
<1>3. ASSUME NEW w \in UEs, NEW e \in Event, Signal(w, e)
      PROVE  FALSE
  <2>1. CASE w = u
    BY <1>1, <1>3, <2>1, MeasInSignal
  <2>2. CASE w # u
    BY <1>1, <1>3, <2>2, OthersInSignal
  <2> QED
    BY <2>1, <2>2
<1>4. PICK w \in UEs : CheckHandover(w)
  BY <1>2, <1>3 DEF Next
<1>5. w = u
  BY <1>1, <1>4, OthersInCheck
<1>6. ~Passes(u)
  BY DEF Passes
<1>7. MayMeasure(u) /\ meas'[u].lastTime = now
  BY <1>1, <1>4, <1>5, <1>6, WaysOfMeasuring
     DEF Loses, Clears, Starts, Holds, Continues, Reports, Ranks
<1> QED
  BY <1>7 DEF MayMeasure

(* --measurementPeriod is respected as long as it asks for no more than    *)
(* one second; a longer period is not, as no handler reads the option.     *)
THEOREM MeasurementsAreSpaced ==
  ASSUME MeasurementPeriod <= UeMeasurementPeriod
  PROVE  Spec => MeasurementPeriodRespected
<1>1. IInv /\ [Next]_vars =>
        [\A u \in UEs :
           meas[u].lastTime # Never /\ meas'[u].lastTime # meas[u].lastTime =>
             meas'[u].lastTime - meas[u].lastTime >= MeasurementPeriod]_vars
  <2> SUFFICES ASSUME IInv, Next, NEW u \in UEs,
                      meas'[u].lastTime # meas[u].lastTime
               PROVE  meas'[u].lastTime - meas[u].lastTime >= MeasurementPeriod
    OBVIOUS
  <2>1. /\ meas'[u].lastTime = now
        /\ now - meas[u].lastTime >= 1
    BY MeasurementSpaced DEF UeMeasurementPeriod
  <2>2. meas[u].lastTime \in Int /\ now \in Int
    BY TimesOfUe DEF IInv
  <2> QED
    BY <2>1, <2>2, TimeAssumption DEF UeMeasurementPeriod
<1> QED
  BY <1>1, InvariantHolds, PTL DEF Spec, MeasurementPeriodRespected

(* Before its visit, an idle UE with a cell may measure. *)
LEMMA IdleMeasures ==
  ASSUME TypeOK, NEW u \in UEs, Consistent(u), Punctual(u), ~Visited(u),
         proc[u].phase = "IDLE", serving[u] # NoCell
  PROVE  MayMeasure(u)
<1>1. meas[u].serving = serving[u]
  BY DEF Consistent, UeCells
<1>2. now - meas[u].lastTime >= 1
  BY TimesOfUe DEF Punctual
<1> QED
  BY <1>1, <1>2 DEF MayMeasure, UeMeasurementPeriod

-------------------------------------------------------------------------------
(* The best neighbour, and the NTN trigger.                                *)

(* What a strategy may be shown of a satellite, and that its ranking       *)
(* leaves one best neighbour whatever it is shown.                         *)
Seen == [cell : Sats, time : Time, m : Metrics]

UniqueBest ==
  \A V \in SUBSET Seen : \A v, w \in V :
    Best(v, V) /\ Best(w, V) => v.cell = w.cell

(* A loop that keeps the first cell no other one beats has one result,     *)
(* when no two cells beat each other.                                      *)
LEMMA FirstBestUnique ==
  ASSUME NEW V, NEW beats, NEW v \in V, NEW w \in V,
         v.cell \in Int, w.cell \in Int,
         ~(<<v, w>> \in beats /\ <<w, v>> \in beats),
         FirstBest(v, V, beats), FirstBest(w, V, beats)
  PROVE  v.cell = w.cell
BY DEF FirstBest

LEMMA ViewSeen ==
  ASSUME NEW c, NEW s \in Sats, c[s] \in CacheEntry, NEW t \in Time
  PROVE  View(c, s, t) \in Seen
BY DEF View, Seen, CacheEntry

LEMMA OneBest ==
  ASSUME UniqueBest, NEW c, NEW t \in Time, NEW S \in SUBSET Sats,
         \A s \in S : c[s] \in CacheEntry,
         NEW n \in S, NEW m \in S,
         Best(View(c, n, t), Views(c, S, t)),
         Best(View(c, m, t), Views(c, S, t))
  PROVE  n = m
<1>1. /\ View(c, n, t) \in Views(c, S, t) /\ View(c, m, t) \in Views(c, S, t)
      /\ View(c, n, t).cell = n /\ View(c, m, t).cell = m
  BY DEF Views, View
<1>2. Views(c, S, t) \in SUBSET Seen
  BY ViewSeen DEF Views
<1> QED
  BY <1>1, <1>2 DEF UniqueBest

LEMMA DetectedCached ==
  ASSUME TypeOK, NEW u \in UEs, NEW s \in Detected(u)
  PROVE  s \in Sats /\ cache[u][s] \in CacheEntry
<1>1. s \in Sats /\ cache[u][s] # Unmeasured
  BY DEF Detected, Visible
<1> QED
  BY <1>1 DEF TypeOK

LEMMA OneNeighbour ==
  ASSUME UniqueBest, TypeOK, NEW u \in UEs, NEW n, NEW m,
         IsBestNeighbour(u, n), IsBestNeighbour(u, m)
  PROVE  n = m
<1> DEFINE S == Detected(u) \ {meas[u].serving}
<1>1. CASE S = {}
  BY <1>1 DEF IsBestNeighbour
<1>2. CASE S # {}
  <2>1. /\ n \in S /\ m \in S
        /\ Best(View(cache[u], n, now), Views(cache[u], S, now))
        /\ Best(View(cache[u], m, now), Views(cache[u], S, now))
    BY <1>2 DEF IsBestNeighbour, At
  <2>2. /\ S \in SUBSET Sats
        /\ \A s \in S : cache[u][s] \in CacheEntry
    BY DetectedCached
  <2>3. now \in Time
    BY DEF TypeOK
  <2> HIDE DEF S
  <2> QED
    BY <2>1, <2>2, <2>3, OneBest
<1> QED
  BY <1>1, <1>2

(* The strategies without an NTN trigger. *)
NtnSilent == \A v : ~NtnTrigger(v)

-------------------------------------------------------------------------------
(* Stranding, in the strategies that drop a serving cell they cannot       *)
(* detect.                                                                 *)

(* A UE has measured in this second at the latest by its visit; the cells  *)
(* of a procedure were above the horizon when it was triggered; and a UE   *)
(* that is idle with a satellite that has set is so since its last         *)
(* procedure, until its next visit.                                        *)
SoonFree(u) ==
  /\ meas[u].lastTime <= now - (IF Visited(u) THEN 0 ELSE 1)
  /\ proc[u].phase # "IDLE" =>
       \A s \in {serving[u], proc[u].target} \cap Sats :
         proc[u].startTime <= EndTime[s]
  /\ proc[u].phase = "IDLE" /\ serving[u] \in Sats =>
       now <= EndTime[serving[u]] + ValidityPeriod
                + (IF Visited(u) THEN 1 ELSE 2)

AllSoonFree == \A u \in UEs : SoonFree(u)

LEMMA DetectedAlive ==
  ASSUME NEW u \in UEs, NEW s \in Detected(u)
  PROVE  s \in Sats /\ now <= EndTime[s]
BY DEF Detected, Visible

(* A visit of an idle UE whose period has elapsed: it loses its cell, or   *)
(* it detects it, and reports at most a neighbour that it detects as well. *)
LEMMA IdleVisit ==
  ASSUME ForcedReselect, TypeOK, NEW u \in UEs, Consistent(u),
         CheckHandover(u), proc[u].phase = "IDLE", serving[u] \in Sats,
         now - meas[u].lastTime >= UeMeasurementPeriod
  PROVE  /\ \/ serving'[u] = NoCell
            \/ serving'[u] = serving[u] /\ serving[u] \in Detected(u)
         /\ \/ proc'[u] = proc[u]
            \/ /\ serving'[u] = serving[u] /\ serving[u] \in Detected(u)
               /\ proc'[u].phase = "MEAS_REPORT_UPLINK"
               /\ proc'[u].startTime = now
               /\ proc'[u].target \in Detected(u)
<1>1. meas[u].serving = serving[u] /\ serving[u] # NoCell
  BY CellFacts DEF Consistent, UeCells
<1>2. MayMeasure(u)
  BY <1>1 DEF MayMeasure
<1>3. \/ ReportRlf(u) \/ ClearTrigger(u) \/ StartTrigger(u)
      \/ HoldTrigger(u) \/ Report(u)
  BY <1>2 DEF CheckHandover, SkipUe, ExpireConfig, KeepWaiting,
     StartExecutionTtt, HoldExecutionTtt, Execute, Evaluates
<1>4. CASE ReportRlf(u)
  <2>1. serving' = [serving EXCEPT ![u] = NoCell] /\ proc' = proc
    BY <1>4 DEF ReportRlf, NoProcedure
  <2> QED
    BY <2>1 DEF TypeOK
<1>5. CASE ClearTrigger(u) \/ StartTrigger(u) \/ HoldTrigger(u)
  BY <1>1, <1>5 DEF ClearTrigger, StartTrigger, HoldTrigger, Persists,
     NoProcedure
<1>6. CASE Report(u)
  <2>1. serving' = serving /\ serving[u] \in Detected(u)
    BY <1>1, <1>6 DEF Report, Persists
  <2>2. PICK n \in Cells :
          /\ Persists(u, n)
          /\ IF n = NoCell THEN NoProcedure
             ELSE TriggerProcedure(u, meas[u].serving, n)
    BY <1>6 DEF Report
  <2>3. CASE n = NoCell
    BY <2>1, <2>2, <2>3 DEF NoProcedure
  <2>4. CASE n # NoCell
    <3>1. n \in Detected(u)
      BY <2>2, <2>4 DEF Persists, IsBestNeighbour
    <3>2. proc'[u] = [proc[u] EXCEPT !.phase = "MEAS_REPORT_UPLINK",
                        !.source = meas[u].serving, !.target = n,
                        !.startTime = now, !.failed = FALSE]
      BY <2>2, <2>4 DEF TriggerProcedure, TypeOK
    <3>3. /\ proc'[u].phase = "MEAS_REPORT_UPLINK"
          /\ proc'[u].startTime = now /\ proc'[u].target = n
      BY <3>2, TypeOfUe DEF ProcState
    <3> QED
      BY <2>1, <3>1, <3>3
  <2> QED
    BY <2>3, <2>4
<1> QED
  BY <1>3, <1>4, <1>5, <1>6

LEMMA SoonFreeCheck ==
  ASSUME ForcedReselect, TypeOK, NEW u \in UEs, Consistent(u), OnTime(u),
         SoonFree(u), CheckHandover(u)
  PROVE  SoonFree(u)'
<1>1. /\ now' = now /\ ~Visited(u) /\ Visited(u)'
  BY CheckKeepsClock, VisitOrder
<1>2. meas[u].lastTime <= now - 1 /\ meas'[u].lastTime <= now
  BY <1>1, LastTimeInCheck, TimesOfUe DEF SoonFree
<1>3. \A s \in Sats : EndTime[s] \in Nat
  BY TimeAssumption
<1>4. CASE proc[u].phase = "IDLE" /\ serving[u] \in Sats
  <2>1. now - meas[u].lastTime >= UeMeasurementPeriod
    BY <1>2, TimesOfUe DEF UeMeasurementPeriod
  <2>2. /\ \/ serving'[u] = NoCell
           \/ serving'[u] = serving[u] /\ serving[u] \in Detected(u)
        /\ \/ proc'[u] = proc[u]
           \/ /\ serving'[u] = serving[u] /\ serving[u] \in Detected(u)
              /\ proc'[u].phase = "MEAS_REPORT_UPLINK"
              /\ proc'[u].startTime = now
              /\ proc'[u].target \in Detected(u)
    BY <1>4, <2>1, IdleVisit
  <2>3. CASE proc'[u] = proc[u]
    <3>1. serving'[u] \in Sats => now <= EndTime[serving'[u]]
      BY <2>2, DetectedAlive, CellFacts
    <3> QED
      BY <1>1, <1>2, <1>3, <1>4, <2>3, <3>1, TimesOfUe DEF SoonFree
  <2>4. CASE proc'[u] # proc[u]
    <3>1. /\ \A s \in {serving'[u], proc'[u].target} : now <= EndTime[s]
          /\ proc'[u].startTime = now /\ proc'[u].phase # "IDLE"
      BY <2>2, <2>4, DetectedAlive
    <3> QED
      BY <1>1, <1>2, <3>1, TimesOfUe DEF SoonFree
  <2> QED
    BY <2>3, <2>4
<1>5. CASE proc[u].phase = "IDLE" /\ serving[u] \notin Sats
  <2>1. serving[u] = NoCell
    BY <1>5, TypeOfUe DEF Cells
  <2>2. proc'[u].phase = "IDLE" /\ serving'[u] = NoCell
    BY <1>5, <2>1, WaysOfCheck
       DEF Waits, Moves, Reselects, Triggers, Expires, Executes
  <2> QED
    BY <1>1, <1>2, <2>2, CellFacts, TimesOfUe DEF SoonFree
<1>6. CASE proc[u].phase # "IDLE"
  <2>1. /\ proc'[u].target = proc[u].target /\ serving'[u] = serving[u]
        /\ proc'[u].startTime = proc[u].startTime
        /\ \/ proc'[u].phase # "IDLE"
           \/ proc[u].phase = "UE_EVALUATING"
    BY <1>6, WaysOfCheck
       DEF Waits, Moves, Reselects, Triggers, Expires, Executes
  <2>2. proc[u].phase = "UE_EVALUATING" =>
          now <= proc[u].startTime + ValidityPeriod + 1
    BY <1>1, TimesOfUe DEF OnTime
  <2>3. \A s \in {serving[u], proc[u].target} \cap Sats :
          proc[u].startTime <= EndTime[s]
    BY <1>6 DEF SoonFree
  <2> QED
    BY <1>1, <1>2, <1>3, <2>1, <2>2, <2>3, TimesOfUe DEF SoonFree
<1> QED
  BY <1>4, <1>5, <1>6

LEMMA SoonFreeSignal ==
  ASSUME TypeOK, NEW u \in UEs, Consistent(u), OnTime(u), SoonFree(u),
         NEW e \in Event, Signal(u, e)
  PROVE  SoonFree(u)'
<1>1. /\ now' = now /\ Visited(u) /\ Visited(u)'
      /\ meas'[u].lastTime = meas[u].lastTime
  BY SignalKeepsClock, MeasInSignal, TimesOfUe DEF Visited
<1>2. \A s \in Sats : EndTime[s] \in Nat
  BY TimeAssumption
<1>3. CASE Relays(u) \/ Stores(u)
  <2>1. /\ proc[u].phase # "IDLE" /\ proc'[u].phase # "IDLE"
        /\ serving'[u] = serving[u] /\ proc'[u].target = proc[u].target
        /\ proc'[u].startTime = proc[u].startTime
    BY <1>3 DEF Relays, Stores, Moves, Signalled
  <2> QED
    BY <1>1, <2>1 DEF SoonFree
<1>4. CASE Fails(u) \/ Completes(u)
  <2>1. /\ proc[u].phase = "UE_EXECUTING" /\ proc'[u].phase = "IDLE"
        /\ serving'[u] \in {serving[u], proc[u].target}
    BY <1>4 DEF Fails, Completes, Ends
  <2>2. now <= proc[u].startTime + ValidityPeriod
    BY <2>1 DEF OnTime
  <2>3. \A s \in {serving[u], proc[u].target} \cap Sats :
          proc[u].startTime <= EndTime[s]
    BY <2>1 DEF SoonFree
  <2>4. serving'[u] \in Sats =>
          now <= EndTime[serving'[u]] + ValidityPeriod
    BY <1>2, <2>1, <2>2, <2>3, TimesOfUe
  <2> QED
    BY <1>1, <1>2, <2>1, <2>4, TimesOfUe DEF SoonFree
<1> QED
  BY <1>3, <1>4, WaysOfSignal

(* SelectBestSatellite chooses among the satellites that have not set.     *)
LEMMA SoonFreeBeginCheck ==
  ASSUME TypeOK, TypeOK', NEW u \in UEs, Consistent(u), SoonFree(u),
         BeginCheck
  PROVE  SoonFree(u)'
<1>1. proc' = proc /\ now' = now + 1 /\ Visited(u) /\ ~Visited(u)'
  BY TimesOfUe DEF BeginCheck, Visited
<1>2. \A s \in Sats : EndTime[s] \in Nat
  BY TimeAssumption
<1>3. PICK sel \in [UEs -> Cells] :
        /\ serving' = sel
        /\ \A v \in UEs : IF serving[v] = NoCell
                          THEN IsSelected(cache'[v], sel[v], now')
                          ELSE sel[v] = serving[v]
        /\ meas' = [v \in UEs |-> IF serving[v] = NoCell /\ sel[v] # NoCell
                                  THEN [meas[v] EXCEPT !.serving = sel[v]]
                                  ELSE meas[v]]
  BY DEF BeginCheck
<1>4. meas'[u].lastTime = meas[u].lastTime
  BY <1>3, TypeOfUe DEF MeasState
<1>5. meas'[u].lastTime <= now' - 1
  BY <1>1, <1>4, TimesOfUe DEF SoonFree
<1>6. CASE serving[u] = NoCell
  <2>1. proc[u].phase = "IDLE"
    BY <1>6 DEF Consistent, UeCells
  <2>2. IsSelected(cache'[u], serving'[u], now')
    BY <1>3, <1>6
  <2>3. serving'[u] \in Sats => now' <= EndTime[serving'[u]]
    BY <2>2, CellFacts DEF IsSelected, Visible
  <2> QED
    BY <1>1, <1>2, <1>5, <2>1, <2>3, TimesOfUe DEF SoonFree
<1>7. CASE serving[u] # NoCell
  <2>1. serving'[u] = serving[u]
    BY <1>3, <1>7
  <2> QED
    BY <1>1, <1>2, <1>5, <2>1, TimesOfUe DEF SoonFree
<1> QED
  BY <1>6, <1>7

LEMMA SoonFreeNext ==
  ASSUME ForcedReselect, IInv, TypeOK', Timely, AllSoonFree, [Next]_vars
  PROVE  AllSoonFree'
<1> SUFFICES ASSUME NEW u \in UEs PROVE SoonFree(u)'
  BY DEF AllSoonFree
<1>1. TypeOK /\ Consistent(u) /\ OnTime(u) /\ SoonFree(u)
  BY DEF IInv, Timely, AllSoonFree
<1>2. ASSUME proc'[u] = proc[u], serving'[u] = serving[u],
             meas'[u] = meas[u], now' = now, Visited(u)' <=> Visited(u)
      PROVE  SoonFree(u)'
  BY <1>1, <1>2 DEF SoonFree
<1>3. CASE UNCHANGED vars
  BY <1>2, <1>3 DEF vars, Visited
<1>4. CASE BeginCheck
  BY <1>1, <1>4, SoonFreeBeginCheck
<1>5. ASSUME NEW w \in UEs, CheckHandover(w) PROVE SoonFree(u)'
  <2>1. CASE w = u
    BY <1>1, <1>5, <2>1, SoonFreeCheck
  <2>2. CASE w # u
    BY <1>1, <1>2, <1>5, <2>2, OthersInCheck, CheckKeepsClock, VisitOrder
  <2> QED
    BY <2>1, <2>2
<1>6. ASSUME NEW w \in UEs, NEW e \in Event, Signal(w, e) PROVE SoonFree(u)'
  <2>1. CASE w = u
    BY <1>1, <1>6, <2>1, SoonFreeSignal
  <2>2. CASE w # u
    BY <1>1, <1>2, <1>6, <2>2, OthersInSignal, SignalKeepsClock DEF Visited
  <2> QED
    BY <2>1, <2>2
<1> QED
  BY <1>3, <1>4, <1>5, <1>6 DEF Next

LEMMA SoonFreeInit == Init => AllSoonFree
<1> SUFFICES ASSUME Init, NEW u \in UEs PROVE SoonFree(u)
  BY DEF AllSoonFree
<1>1. /\ now = -1 /\ meas[u].lastTime = -1 /\ proc[u].phase = "IDLE"
      /\ serving[u] = NoCell /\ turn = NumUes
  BY DEF Init, Never
<1>2. Visited(u)
  BY <1>1, SizeAssumption DEF Visited, UEs
<1> QED
  BY <1>1, <1>2, CellFacts DEF SoonFree

(* Where the strategy reselects, a UE is with a satellite that has set for *)
(* at most one procedure, started while the satellite was still there, and *)
(* the two checks that end the procedure and notice the loss.              *)
THEOREM StrandingIsBounded ==
  ASSUME ~Overrun
  PROVE  Spec => []StrandingBounded
<1>1. CASE ~ForcedReselect
  <2>1. StrandingBounded
    BY <1>1 DEF StrandingBounded
  <2> QED
    BY <2>1, PTL
<1>2. CASE ForcedReselect
  <2>1. Init => AllSoonFree
    BY SoonFreeInit
  <2>2. IInv /\ IInv' /\ Timely /\ AllSoonFree /\ [Next]_vars => AllSoonFree'
    <3>1. IInv' => TypeOK'
      BY DEF IInv
    <3> QED
      BY <1>2, <3>1, SoonFreeNext
  <2>3. IInv /\ Timely /\ AllSoonFree => StrandingBounded
    <3> SUFFICES ASSUME IInv, Timely, AllSoonFree,
                        NEW u \in UEs, serving[u] \in Sats
                 PROVE  now <= EndTime[serving[u]] + ValidityPeriod + 2
      BY DEF StrandingBounded
    <3>1. TypeOK /\ OnTime(u) /\ SoonFree(u)
      BY DEF IInv, Timely, AllSoonFree
    <3>2. EndTime[serving[u]] \in Nat
      BY TimeAssumption
    <3>3. CASE proc[u].phase = "IDLE"
      BY <3>1, <3>2, <3>3, TimesOfUe DEF SoonFree
    <3>4. CASE proc[u].phase # "IDLE"
      <4>1. proc[u].startTime <= EndTime[serving[u]]
        BY <3>1, <3>4 DEF SoonFree
      <4>2. \/ proc[u].phase \in Signalled
            \/ proc[u].phase \in {"UE_EVALUATING", "UE_EXECUTING"}
        BY <3>1, <3>4, TimesOfUe DEF Phase, Signalled
      <4>3. now <= proc[u].startTime + ValidityPeriod + 1
        BY <3>1, <4>2, TimesOfUe DEF OnTime
      <4> QED
        BY <3>1, <3>2, <4>1, <4>3, TimesOfUe
    <3> QED
      BY <3>3, <3>4
  <2> QED
    BY <2>1, <2>2, <2>3, InvariantHolds, TimelyHolds, PTL DEF Spec
<1> QED
  BY <1>1, <1>2
-------------------------------------------------------------------------------
(* How far a handover can lag behind the trajectories, and a forced loss   *)
(* behind the handover it belongs to.                                      *)

(* The target of a procedure was up when the procedure was triggered.      *)
TargetWasUp(u) ==
  proc[u].phase # "IDLE" /\ proc[u].target \in Sats =>
    proc[u].startTime <= EndTime[proc[u].target]

AllTargetsWereUp == \A u \in UEs : TargetWasUp(u)

LEMMA TargetUpCheck ==
  ASSUME TypeOK, NEW u \in UEs, Consistent(u), TargetWasUp(u),
         CheckHandover(u)
  PROVE  TargetWasUp(u)'
<1>1. CASE proc[u].phase = "IDLE"
  <2>1. CASE proc'[u] = proc[u]
    BY <1>1, <2>1 DEF TargetWasUp
  <2>2. CASE \E n \in Cells : Ranks(u, n) /\ ReportsTo(u, n)
    <3>1. PICK n \in Cells : IsBestNeighbour(u, n) /\ ReportsTo(u, n)
      BY <2>2 DEF Ranks
    <3>2. n = NoCell \/ n \in Detected(u)
      BY <3>1 DEF IsBestNeighbour
    <3>3. n \in Sats => now <= EndTime[n]
      BY <3>2, DetectedAlive, CellFacts
    <3> QED
      BY <3>1, <3>3 DEF ReportsTo, TargetWasUp
  <2>3. CASE ReportsTo(u, NoCell)
    BY <2>3, CellFacts DEF ReportsTo, TargetWasUp
  <2> QED
    BY <1>1, <2>1, <2>2, <2>3, WaysOfMeasuring
       DEF Passes, Loses, Clears, Starts, Holds, Continues, Reports
<1>2. CASE proc[u].phase # "IDLE"
  <2>1. /\ proc'[u].target = proc[u].target
        /\ proc'[u].startTime = proc[u].startTime
    BY <1>2, WaysOfCheck
       DEF Waits, Moves, Reselects, Triggers, Expires, Executes
  <2> QED
    BY <1>2, <2>1 DEF TargetWasUp
<1> QED
  BY <1>1, <1>2

LEMMA TargetUpSignal ==
  ASSUME TypeOK, NEW u \in UEs, Consistent(u), TargetWasUp(u),
         NEW e \in Event, Signal(u, e)
  PROVE  TargetWasUp(u)'
<1>1. CASE Relays(u) \/ Stores(u)
  <2>1. /\ proc[u].phase # "IDLE" /\ proc'[u].target = proc[u].target
        /\ proc'[u].startTime = proc[u].startTime
    BY <1>1 DEF Relays, Stores, Moves, Signalled
  <2> QED
    BY <2>1 DEF TargetWasUp
<1>2. CASE Fails(u) \/ Completes(u)
  BY <1>2 DEF Fails, Completes, Ends, TargetWasUp
<1> QED
  BY <1>1, <1>2, WaysOfSignal

LEMMA TargetUpNext ==
  ASSUME IInv, AllTargetsWereUp, [Next]_vars
  PROVE  AllTargetsWereUp'
<1> SUFFICES ASSUME NEW u \in UEs PROVE TargetWasUp(u)'
  BY DEF AllTargetsWereUp
<1>1. TypeOK /\ Consistent(u) /\ TargetWasUp(u)
  BY DEF IInv, AllTargetsWereUp
<1>2. ASSUME proc'[u] = proc[u] PROVE TargetWasUp(u)'
  BY <1>1, <1>2 DEF TargetWasUp
<1>3. CASE UNCHANGED vars \/ BeginCheck
  BY <1>2, <1>3 DEF vars, BeginCheck
<1>4. ASSUME NEW w \in UEs, CheckHandover(w) PROVE TargetWasUp(u)'
  BY <1>1, <1>2, <1>4, TargetUpCheck, OthersInCheck
<1>5. ASSUME NEW w \in UEs, NEW e \in Event, Signal(w, e)
      PROVE  TargetWasUp(u)'
  BY <1>1, <1>2, <1>5, TargetUpSignal, OthersInSignal
<1> QED
  BY <1>3, <1>4, <1>5 DEF Next

(* UE_EvaluateAndReport offers only satellites whose trajectory has not    *)
(* expired, so no handover ends at one that was gone before its report.    *)
THEOREM TargetsWereUp == Spec => []AllTargetsWereUp
<1>1. Init => AllTargetsWereUp
  BY DEF Init, AllTargetsWereUp, TargetWasUp
<1>2. IInv /\ AllTargetsWereUp /\ [Next]_vars => AllTargetsWereUp'
  BY TargetUpNext
<1> QED
  BY <1>1, <1>2, InvariantHolds, PTL DEF Spec

(* CHO_IsLinkViable does not look at the trajectory of the target, but it  *)
(* is asked while the configuration is valid.                              *)
HandoverToRecentCell ==
  [][\A u \in UEs :
       proc[u].phase = "UE_EXECUTING" /\ serving'[u] # serving[u] =>
         now <= EndTime[serving'[u]] + ValidityPeriod]_vars

LEMMA RecentCell ==
  ASSUME IInv, Timely, AllTargetsWereUp, Next, NEW u \in UEs,
         proc[u].phase = "UE_EXECUTING", serving'[u] # serving[u]
  PROVE  now <= EndTime[serving'[u]] + ValidityPeriod
<1>1. serving'[u] = proc[u].target /\ proc[u].target \in Sats
  BY CompletesOnCondition DEF EndsOnCondition
<1>2. proc[u].startTime <= EndTime[proc[u].target]
  BY <1>1 DEF AllTargetsWereUp, TargetWasUp
<1>3. now <= proc[u].startTime + ValidityPeriod
  BY DEF Timely, OnTime
<1>4. TypeOK /\ EndTime[proc[u].target] \in Nat
  BY <1>1, TimeAssumption DEF IInv
<1> QED
  BY <1>1, <1>2, <1>3, <1>4, TimesOfUe

(* With signalling that fits between two checks, the cell a handover ends  *)
(* at has set no longer than the validity of a configuration ago.          *)
THEOREM HandoversToRecentCells ==
  ASSUME ~Overrun
  PROVE  Spec => HandoverToRecentCell
<1>1. IInv /\ Timely /\ AllTargetsWereUp /\ [Next]_vars =>
        [\A u \in UEs :
           proc[u].phase = "UE_EXECUTING" /\ serving'[u] # serving[u] =>
             now <= EndTime[serving'[u]] + ValidityPeriod]_vars
  BY RecentCell
<1> QED
  BY <1>1, InvariantHolds, TimelyHolds, TargetsWereUp, PTL
     DEF Spec, HandoverToRecentCell

(* The serving cell was measured once; and packets are lost outside a      *)
(* handover only after a failed execution, until the next check, whose     *)
(* UpdateChannelState sets the error models again.                         *)
LossPasses(u) ==
  /\ serving[u] # NoCell => Measured(u, serving[u])
  /\ lossForced[u] /\ ~interrupted[u] =>
       /\ turn = NumUes
       /\ serving[u] # NoCell
       /\ proc[u].phase = "IDLE" /\ proc[u].failed

AllLossPasses == \A u \in UEs : LossPasses(u)

LEMMA LossBeginCheck ==
  ASSUME TypeOK, NEW u \in UEs, LossPasses(u), BeginCheck
  PROVE  LossPasses(u)'
<1>1. interrupted' = interrupted
  BY DEF BeginCheck
<1>2. PICK sel \in [UEs -> Cells] :
        /\ \A v \in UEs : IF serving[v] = NoCell
                          THEN IsSelected(cache'[v], sel[v], now')
                          ELSE sel[v] = serving[v]
        /\ serving' = sel
        /\ lossForced' = [v \in UEs |->
             ErrorModel(v, cache'[v], sel[v], interrupted[v], lossForced[v])]
  BY DEF BeginCheck
<1>3. serving'[u] = sel[u]
  BY <1>2
<1>4. CASE serving'[u] = NoCell
  <2>1. serving[u] = NoCell
    BY <1>2, <1>3, <1>4
  <2>2. ~(lossForced[u] /\ ~interrupted[u])
    BY <2>1 DEF LossPasses
  <2>3. lossForced'[u] = lossForced[u]
    BY <1>2, <1>3, <1>4, CellFacts DEF ErrorModel
  <2> QED
    BY <1>1, <1>4, <2>2, <2>3 DEF LossPasses
<1>5. CASE serving'[u] # NoCell
  <2>1. serving'[u] \in Sats /\ cache'[u][serving'[u]] # Unmeasured
    <3>1. CASE serving[u] = NoCell
      <4>1. IsSelected(cache'[u], serving'[u], now')
        BY <1>2, <1>3, <3>1
      <4>2. serving'[u] \in Sats /\ Visible(cache'[u], serving'[u], now')
        BY <1>5, <4>1 DEF IsSelected
      <4> QED
        BY <4>2 DEF Visible
    <3>2. CASE serving[u] # NoCell
      <4>1. PICK s \in Cells : s = serving[u]
        BY TypeOfUe
      <4>2. serving'[u] = s /\ Measured(u, s)
        BY <1>2, <1>3, <3>2, <4>1 DEF LossPasses
      <4>3. Measured(u, s)'
        BY <4>2, MeasuredStays
      <4> QED
        BY <4>2, <4>3 DEF Measured
    <3> QED
      BY <3>1, <3>2
  <2>2. lossForced'[u] = interrupted[u]
    BY <1>2, <1>3, <2>1 DEF ErrorModel
  <2> QED
    BY <1>1, <2>1, <2>2 DEF LossPasses, Measured
<1> QED
  BY <1>4, <1>5

(* A visit forces a loss only where it starts an execution. *)
LEMMA LossInCheck ==
  ASSUME TypeOK, NEW u \in UEs, CheckHandover(u)
  PROVE  \/ /\ lossForced'[u] = lossForced[u]
            /\ interrupted'[u] = interrupted[u]
         \/ interrupted'[u]
<1>1. CASE SkipUe(u)
  BY <1>1 DEF SkipUe
<1>2. CASE \/ ReportRlf(u) \/ ClearTrigger(u) \/ StartTrigger(u)
           \/ HoldTrigger(u) \/ Report(u)
  <2>1. Measures(u)
    <3>1. ReportRlf(u) => Measures(u)
      BY DEF ReportRlf
    <3>2. ClearTrigger(u) => Measures(u)
      BY DEF ClearTrigger
    <3>3. StartTrigger(u) => Measures(u)
      BY DEF StartTrigger
    <3>4. HoldTrigger(u) \/ Report(u) => Measures(u)
      BY DEF HoldTrigger, Report
    <3> QED
      BY <1>2, <3>1, <3>2, <3>3, <3>4
  <2>2. UNCHANGED <<interrupted, lossForced>>
    BY <2>1 DEF Measures
  <2> QED
    BY <2>2
<1>3. CASE \/ ExpireConfig(u) \/ KeepWaiting(u) \/ StartExecutionTtt(u)
           \/ HoldExecutionTtt(u)
  BY <1>3 DEF ExpireConfig, KeepWaiting, StartExecutionTtt, HoldExecutionTtt
<1>4. CASE Execute(u)
  BY <1>4 DEF Execute, UeExecutes, TypeOK
<1> QED
  BY <1>1, <1>2, <1>3, <1>4 DEF CheckHandover

LEMMA LossCheck ==
  ASSUME TypeOK, NEW u \in UEs, Consistent(u), LossPasses(u),
         CheckHandover(u)
  PROVE  LossPasses(u)'
<1>1. cache' = cache /\ turn # NumUes
  BY CheckKeepsClock, TimesOfUe DEF Visit
<1>2. serving'[u] \in {serving[u], NoCell}
  BY WaysOfCheck
     DEF Waits, Moves, Reselects, Triggers, Expires, Executes
<1>3. ~(lossForced[u] /\ ~interrupted[u])
  BY <1>1 DEF LossPasses
<1>4. ~(lossForced'[u] /\ ~interrupted'[u])
  BY <1>3, LossInCheck
<1> QED
  BY <1>1, <1>2, <1>4 DEF LossPasses, Measured

(* A handler ends a forced loss, unless the target is not viable. *)
LEMMA LossInSignal ==
  ASSUME TypeOK, NEW u \in UEs, Consistent(u), NEW e \in Event, Signal(u, e)
  PROVE  \/ /\ lossForced'[u] = lossForced[u]
            /\ interrupted'[u] = interrupted[u]
            /\ serving'[u] = serving[u]
         \/ Fails(u)
         \/ ~lossForced'[u] /\ Measured(u, serving'[u])
<1>1. /\ proc[u] \in ProcState /\ proc \in [UEs -> ProcState]
      /\ serving \in [UEs -> Cells]
      /\ lossForced \in [UEs -> BOOLEAN]
  BY TypeOfUe DEF TypeOK
<1>2. CASE \/ ReportArrived(u, e) \/ SendXnRequest(u, e) \/ XnResponse(u, e)
           \/ SendRrcReconfig(u, e) \/ UeStoresConfig(u, e)
  BY <1>2 DEF ReportArrived, SendXnRequest, XnResponse, SendRrcReconfig,
     UeStoresConfig, Relay, Dropped
<1>3. CASE Dropped(u, e)
  BY <1>3 DEF Dropped
<1>4. CASE HandleFailure(u)
  <2>1. proc' = [proc EXCEPT ![u] = [@ EXCEPT !.phase = "IDLE",
                                              !.failed = TRUE]]
    BY <1>4 DEF HandleFailure
  <2>2. proc'[u] = [proc[u] EXCEPT !.phase = "IDLE", !.failed = TRUE]
    BY <1>1, <2>1
  <2>3. proc'[u].phase = "IDLE" /\ proc'[u].failed
    BY <1>1, <2>2 DEF ProcState
  <2>4. ~Relays(u) /\ ~Stores(u) /\ ~Completes(u)
    BY <2>3 DEF Relays, Stores, Completes, Moves, Signalled
  <2> QED
    BY <2>4, WaysOfSignal
<1>5. CASE TargetViable(u, e.target) /\ CompleteHandover(u, e)
  <2>1. /\ serving' = [serving EXCEPT ![u] = e.target]
        /\ lossForced' = [lossForced EXCEPT ![u] =
                            ErrorModel(u, cache[u], e.target, FALSE, @)]
        /\ Measured(u, e.target)
    BY <1>5 DEF CompleteHandover, TargetViable
  <2>2. ErrorModel(u, cache[u], e.target, FALSE, lossForced[u]) = FALSE
    BY <2>1 DEF ErrorModel, Measured
  <2>3. lossForced'[u] = FALSE /\ serving'[u] = e.target
    BY <1>1, <2>1, <2>2
  <2> QED
    BY <2>1, <2>3
<1> QED
  BY <1>2, <1>3, <1>4, <1>5 DEF Signal, ExecutionComplete, Conclude

LEMMA LossSignal ==
  ASSUME TypeOK, NEW u \in UEs, Consistent(u), LossPasses(u),
         NEW e \in Event, Signal(u, e)
  PROVE  LossPasses(u)'
<1>1. cache' = cache /\ turn = NumUes /\ turn' = turn
  BY SignalKeepsClock
<1>2. proc[u].phase # "IDLE"
  BY WaysOfSignal DEF Relays, Stores, Fails, Completes, Ends, Signalled
<1>3. ~(lossForced[u] /\ ~interrupted[u])
  BY <1>2 DEF LossPasses
<1>4. CASE /\ lossForced'[u] = lossForced[u]
           /\ interrupted'[u] = interrupted[u]
           /\ serving'[u] = serving[u]
  BY <1>1, <1>3, <1>4 DEF LossPasses, Measured
<1>5. CASE Fails(u)
  <2>1. serving[u] # NoCell
    BY <1>2 DEF Consistent, UeCells
  <2> QED
    BY <1>1, <1>5, <2>1 DEF Fails, Ends, LossPasses, Measured
<1>6. CASE ~lossForced'[u] /\ Measured(u, serving'[u])
  BY <1>1, <1>6 DEF LossPasses, Measured
<1> QED
  BY <1>4, <1>5, <1>6, LossInSignal

LEMMA LossNext ==
  ASSUME IInv, AllLossPasses, [Next]_vars
  PROVE  AllLossPasses'
<1> SUFFICES ASSUME NEW u \in UEs PROVE LossPasses(u)'
  BY DEF AllLossPasses
<1>1. TypeOK /\ Consistent(u) /\ LossPasses(u)
  BY DEF IInv, AllLossPasses
<1>2. CASE UNCHANGED vars
  BY <1>1, <1>2 DEF vars, LossPasses, Measured
<1>3. CASE BeginCheck
  BY <1>1, <1>3, LossBeginCheck
<1>4. ASSUME NEW w \in UEs, CheckHandover(w) PROVE LossPasses(u)'
  <2>1. CASE w = u
    BY <1>1, <1>4, <2>1, LossCheck
  <2>2. CASE w # u
    <3>1. turn # NumUes
      BY <1>1, <1>4, CheckKeepsClock, TimesOfUe DEF Visit
    <3>2. /\ serving'[u] = serving[u] /\ cache'[u] = cache[u]
          /\ interrupted'[u] = interrupted[u]
          /\ lossForced'[u] = lossForced[u]
      BY <1>1, <1>4, <2>2, OthersInCheck
    <3> QED
      BY <1>1, <3>1, <3>2 DEF LossPasses, Measured
  <2> QED
    BY <2>1, <2>2
<1>5. ASSUME NEW w \in UEs, NEW e \in Event, Signal(w, e)
      PROVE  LossPasses(u)'
  <2>1. CASE w = u
    BY <1>1, <1>5, <2>1, LossSignal
  <2>2. CASE w # u
    <3>1. turn' = turn
      BY <1>5, SignalKeepsClock
    <3>2. /\ serving'[u] = serving[u] /\ cache'[u] = cache[u]
          /\ interrupted'[u] = interrupted[u] /\ proc'[u] = proc[u]
          /\ lossForced'[u] = lossForced[u]
      BY <1>1, <1>5, <2>2, OthersInSignal
    <3> QED
      BY <1>1, <3>1, <3>2 DEF LossPasses, Measured
  <2> QED
    BY <2>1, <2>2
<1> QED
  BY <1>2, <1>3, <1>4, <1>5 DEF Next

(* CHO_HandleFailure leaves the error models at the loss of the handover;  *)
(* however long the signalling takes, it lasts no longer than to the next  *)
(* check, and nothing but a failed execution causes it.                    *)
THEOREM LossesPass == Spec => []AllLossPasses
<1>1. Init => AllLossPasses
  BY DEF Init, AllLossPasses, LossPasses
<1>2. IInv /\ AllLossPasses /\ [Next]_vars => AllLossPasses'
  BY LossNext
<1> QED
  BY <1>1, <1>2, InvariantHolds, PTL DEF Spec
===============================================================================
