-------------------------- MODULE ChoInvariantProofs --------------------------
(***************************************************************************)
(* Proofs about the CHO machine for any number of UEs and satellites, any  *)
(* strategy, any metrics and delays: its types, the sums of its counters,  *)
(* and the consistency of a procedure, its pending event, its              *)
(* configuration, the interruption, the cells and the counters, proved as  *)
(* one inductive invariant: none of its parts is inductive without the     *)
(* others.                                                                 *)
(***************************************************************************)
EXTENDS ChoProperties, TLAPS, WellFoundedInduction

(* What Count does to the counters. *)
LEMMA CountType ==
  ASSUME TypeOK, NEW u \in UEs, NEW cs \in SUBSET Counter, Count(u, cs)
  PROVE  /\ stats' \in [UEs -> [Counter -> Nat]]
         /\ gstats' \in [GlobalCounter -> Nat]
<1>1. \A c \in Counter : stats[u][c] \in Nat
  BY DEF TypeOK
<1>2. \A c \in GlobalCounter : gstats[c] \in Nat
  BY DEF TypeOK
<1>3. stats' \in [UEs -> [Counter -> Nat]]
  BY <1>1 DEF TypeOK, Count
<1>4. gstats' \in [GlobalCounter -> Nat]
  BY <1>2 DEF Count
<1> QED
  BY <1>3, <1>4

(* Scheduling, dispatching and passing on events keep multiplicities.      *)
LEMMA EventsType ==
  ASSUME TypeOK, NEW u \in UEs, NEW e \in Event
  PROVE  /\ Schedule(u, e) \in [UEs -> [Event -> Nat]]
         /\ events[u][e] > 0 =>
              /\ Dispatched(u, e) \in [UEs -> [Event -> Nat]]
              /\ \A h \in Handler : Follow(u, e, h) \in [UEs -> [Event -> Nat]]
<1>1. events \in [UEs -> [Event -> Nat]] /\ events[u][e] \in Nat
  BY DEF TypeOK
<1>2. Schedule(u, e) \in [UEs -> [Event -> Nat]]
  BY <1>1 DEF Schedule
<1>3. ASSUME events[u][e] > 0
      PROVE  Dispatched(u, e) \in [UEs -> [Event -> Nat]]
  BY <1>1, <1>3 DEF Dispatched
<1>4. ASSUME events[u][e] > 0, NEW h \in Handler
      PROVE  Follow(u, e, h) \in [UEs -> [Event -> Nat]]
  <2>1. Call(h, e.source, e.target) \in Event
    BY DEF Call, Event
  <2> QED
    BY <1>1, <1>4, <2>1 DEF Follow
<1> QED
  BY <1>2, <1>3, <1>4

-------------------------------------------------------------------------------
(* Type correctness.                                                       *)

LEMMA CallType ==
  ASSUME NEW h \in Handler, NEW s \in Cells, NEW t \in Cells
  PROVE  Call(h, s, t) \in Event
BY DEF Call, Event

LEMMA CellFacts ==
  /\ Sats \subseteq Cells
  /\ NoCell \in Cells
  /\ NoCell \notin Sats
BY SizeAssumption DEF Cells, Sats, NoCell

LEMMA TypeInit == Init => TypeOK
<1> SUFFICES ASSUME Init PROVE TypeOK
  OBVIOUS
<1>1. now \in Time /\ turn \in 0 .. NumUes
  BY SizeAssumption DEF Init, Time, Never
<1>2. cache \in [UEs -> [Sats -> CacheEntry \cup {Unmeasured}]]
  BY DEF Init
<1>3. serving \in [UEs -> Cells] /\ meas \in [UEs -> MeasState]
  BY CellFacts DEF Init, Time, Never, MeasState
<1>4. proc \in [UEs -> ProcState]
  BY CellFacts DEF Init, Time, Never, Phase, ProcState
<1>5. /\ conf \in [UEs -> ConfState]
      /\ interrupted \in [UEs -> BOOLEAN]
      /\ lossForced \in [UEs -> BOOLEAN]
  BY CellFacts DEF Init, ConfState
<1>6. /\ events \in [UEs -> [Event -> Nat]]
      /\ stats \in [UEs -> [Counter -> Nat]]
      /\ gstats \in [GlobalCounter -> Nat]
  BY DEF Init
<1> QED
  BY <1>1, <1>2, <1>3, <1>4, <1>5, <1>6 DEF TypeOK

LEMMA TypeBeginCheck == TypeOK /\ BeginCheck => TypeOK'
<1> SUFFICES ASSUME TypeOK, BeginCheck PROVE TypeOK'
  OBVIOUS
<1>1. now' \in Time /\ turn' \in 0 .. NumUes
  BY SizeAssumption DEF TypeOK, BeginCheck, Time
<1>2. cache' \in [UEs -> [Sats -> CacheEntry \cup {Unmeasured}]]
  BY <1>1 DEF TypeOK, BeginCheck, Refreshed, CacheEntry
<1>3. PICK sel \in [UEs -> Cells] :
        /\ serving' = sel
        /\ meas' = [u \in UEs |-> IF serving[u] = NoCell /\ sel[u] # NoCell
                                  THEN [meas[u] EXCEPT !.serving = sel[u]]
                                  ELSE meas[u]]
        /\ lossForced' = [u \in UEs |->
            ErrorModel(u, cache'[u], sel[u], interrupted[u], lossForced[u])]
  BY DEF BeginCheck
<1>4. serving' \in [UEs -> Cells] /\ meas' \in [UEs -> MeasState]
  BY <1>3 DEF TypeOK, MeasState
<1>5. lossForced' \in [UEs -> BOOLEAN]
  BY <1>3, Zenon DEF TypeOK, ErrorModel
<1> QED
  BY <1>1, <1>2, <1>4, <1>5 DEF TypeOK, BeginCheck

(* A step that changes one UE's records into records of their types keeps  *)
(* the types; m, p and c are the UE's new states.                          *)
LEMMA TypeStep ==
  ASSUME TypeOK, NEW u \in UEs,
         now' = now, cache' = cache, turn' \in 0 .. NumUes,
         NEW s \in Cells, serving' = [serving EXCEPT ![u] = s],
         NEW m \in MeasState, meas' = [meas EXCEPT ![u] = m],
         NEW p \in ProcState, proc' = [proc EXCEPT ![u] = p],
         NEW c \in ConfState, conf' = [conf EXCEPT ![u] = c],
         interrupted' \in [UEs -> BOOLEAN],
         lossForced' \in [UEs -> BOOLEAN],
         events' \in [UEs -> [Event -> Nat]],
         stats' \in [UEs -> [Counter -> Nat]],
         gstats' \in [GlobalCounter -> Nat]
  PROVE  TypeOK'
BY DEF TypeOK

(* The pieces of TypeOK that belong to one UE. *)
LEMMA TypeOfUe ==
  ASSUME TypeOK, NEW u \in UEs
  PROVE  /\ now \in Int
         /\ serving[u] \in Cells /\ serving = [serving EXCEPT ![u] = serving[u]]
         /\ meas[u] \in MeasState /\ meas = [meas EXCEPT ![u] = meas[u]]
         /\ proc[u] \in ProcState /\ proc = [proc EXCEPT ![u] = proc[u]]
         /\ conf[u] \in ConfState /\ conf = [conf EXCEPT ![u] = conf[u]]
         /\ interrupted[u] \in BOOLEAN /\ lossForced[u] \in BOOLEAN
         /\ \A c \in Counter : stats[u][c] \in Nat
BY DEF TypeOK, Time

(* The assignments of the handlers to the record of a procedure keep its   *)
(* type.                                                                   *)
LEMMA ProcUpdates ==
  ASSUME NEW p \in ProcState
  PROVE  /\ \A q \in Phase : [p EXCEPT !.phase = q] \in ProcState
         /\ \A q \in Phase, b \in BOOLEAN :
              [p EXCEPT !.phase = q, !.failed = b] \in ProcState
         /\ \A q \in Phase, b \in BOOLEAN :
              [p EXCEPT !.phase = q, !.tttActive = b] \in ProcState
         /\ \A b \in BOOLEAN, t \in Time :
              [p EXCEPT !.tttActive = b, !.tttStart = t] \in ProcState
<1>1. ASSUME NEW q \in Phase PROVE [p EXCEPT !.phase = q] \in ProcState
  BY DEF ProcState
<1>2. ASSUME NEW q \in Phase, NEW b \in BOOLEAN
      PROVE  [p EXCEPT !.phase = q, !.failed = b] \in ProcState
  BY DEF ProcState
<1>3. ASSUME NEW q \in Phase, NEW b \in BOOLEAN
      PROVE  [p EXCEPT !.phase = q, !.tttActive = b] \in ProcState
  BY DEF ProcState
<1>4. ASSUME NEW b \in BOOLEAN, NEW t \in Time
      PROVE  [p EXCEPT !.tttActive = b, !.tttStart = t] \in ProcState
  BY DEF ProcState
<1> QED
  BY <1>1, <1>2, <1>3, <1>4

LEMMA TypeTrigger ==
  ASSUME TypeOK, NEW u \in UEs, NEW s \in Cells, NEW t \in Cells,
         TriggerProcedure(u, s, t)
  PROVE  /\ \E p \in ProcState : proc' = [proc EXCEPT ![u] = p]
         /\ events' \in [UEs -> [Event -> Nat]]
         /\ stats' \in [UEs -> [Counter -> Nat]]
         /\ gstats' \in [GlobalCounter -> Nat]
<1>1. events' \in [UEs -> [Event -> Nat]]
  <2>1. Call("ReportArrived", s, t) \in Event
    BY CallType DEF Handler
  <2> QED
    BY <2>1, EventsType DEF TriggerProcedure
<1>2. stats' \in [UEs -> [Counter -> Nat]] /\ gstats' \in [GlobalCounter -> Nat]
  <2>1. {"totalReports"} \subseteq Counter
    BY DEF Counter, GlobalCounter
  <2> QED
    BY <2>1, CountType DEF TriggerProcedure
<1>3. [proc[u] EXCEPT !.phase = "MEAS_REPORT_UPLINK", !.source = s,
        !.target = t, !.startTime = now, !.failed = FALSE] \in ProcState
  BY TypeOfUe DEF ProcState, Phase, Time
<1>4. proc' = [proc EXCEPT ![u] = [proc[u] EXCEPT
        !.phase = "MEAS_REPORT_UPLINK", !.source = s,
        !.target = t, !.startTime = now, !.failed = FALSE]]
  BY DEF TriggerProcedure
<1> QED
  BY <1>1, <1>2, <1>3, <1>4

(* The actions of a UE that measures. *)
LEMMA TypeMeasures ==
  ASSUME TypeOK, NEW u \in UEs,
         \/ ReportRlf(u) \/ ClearTrigger(u) \/ StartTrigger(u)
         \/ HoldTrigger(u) \/ Report(u)
  PROVE  TypeOK'
<1>1. Measures(u)
  BY DEF ReportRlf, ClearTrigger, StartTrigger, HoldTrigger, Report
<1>2. turn' \in 0 .. NumUes
  BY <1>1, SizeAssumption DEF Measures, Visit, UEs
<1>3. /\ now' = now /\ cache' = cache /\ conf' = conf
      /\ interrupted' = interrupted /\ lossForced' = lossForced
  BY <1>1 DEF Measures
<1>4. \E s \in Cells : serving' = [serving EXCEPT ![u] = s]
  <2>1. \/ serving' = serving
        \/ serving' = [serving EXCEPT ![u] = NoCell]
    BY DEF ReportRlf, ClearTrigger, StartTrigger, HoldTrigger, Report
  <2> QED
    BY <2>1, TypeOfUe, CellFacts
<1>5. \E m \in MeasState : meas' = [meas EXCEPT ![u] = m]
  <2>1. Never \in Time /\ now \in Time
    BY TypeOfUe DEF Never, Time
  <2>2. CASE ReportRlf(u)
    <3> DEFINE m == [meas[u] EXCEPT !.lastTime = now, !.serving = NoCell,
                                    !.active = FALSE]
               k == [meas[u] EXCEPT !.lastTime = now]
    <3>1. meas[u] \in MeasState /\ NoCell \in Cells
      BY TypeOfUe, CellFacts
    <3>2. m \in MeasState
      BY <2>1, <3>1 DEF MeasState
    <3>3. k \in MeasState
      BY <2>1, <3>1 DEF MeasState
    <3>4. meas' = [meas EXCEPT ![u] = m] \/ meas' = [meas EXCEPT ![u] = k]
      BY <2>2 DEF ReportRlf
    <3> HIDE DEF m, k
    <3> QED
      BY <3>2, <3>3, <3>4
  <2>3. CASE ClearTrigger(u)
    <3> DEFINE m == [meas[u] EXCEPT !.lastTime = now, !.active = FALSE,
                                    !.start = Never, !.candidate = NoCell]
    <3>1. meas[u] \in MeasState /\ NoCell \in Cells
      BY TypeOfUe, CellFacts
    <3>2. m \in MeasState
      BY <2>1, <3>1 DEF MeasState
    <3>3. meas' = [meas EXCEPT ![u] = m]
      BY <2>3 DEF ClearTrigger
    <3> HIDE DEF m
    <3> QED
      BY <3>2, <3>3
  <2>4. CASE StartTrigger(u)
    <3>1. PICK n \in Cells : meas' = [meas EXCEPT ![u] = [meas[u] EXCEPT
            !.lastTime = now, !.active = TRUE, !.start = now, !.candidate = n]]
      BY <2>4 DEF StartTrigger
    <3>2. meas[u] \in MeasState
      BY TypeOfUe
    <3>3. [meas[u] EXCEPT !.lastTime = now, !.active = TRUE, !.start = now,
                          !.candidate = n] \in MeasState
      BY <2>1, <3>2 DEF MeasState
    <3> QED
      BY <3>1, <3>3
  <2>5. CASE HoldTrigger(u)
    <3>1. [meas[u] EXCEPT !.lastTime = now] \in MeasState
      BY <2>1, TypeOfUe DEF MeasState
    <3>2. meas' = [meas EXCEPT ![u] = [meas[u] EXCEPT !.lastTime = now]]
      BY <2>5 DEF HoldTrigger
    <3> QED
      BY <3>1, <3>2
  <2>6. CASE Report(u)
    <3>1. [meas[u] EXCEPT !.lastTime = now, !.active = FALSE] \in MeasState
      BY <2>1, TypeOfUe DEF MeasState
    <3>2. meas' = [meas EXCEPT ![u] = [meas[u] EXCEPT !.lastTime = now,
                                                      !.active = FALSE]]
      BY <2>6 DEF Report
    <3> QED
      BY <3>1, <3>2
  <2> QED
    BY <2>2, <2>3, <2>4, <2>5, <2>6
<1>6. /\ \E p \in ProcState : proc' = [proc EXCEPT ![u] = p]
      /\ events' \in [UEs -> [Event -> Nat]]
      /\ stats' \in [UEs -> [Counter -> Nat]]
      /\ gstats' \in [GlobalCounter -> Nat]
  <2>1. CASE NoProcedure
    BY <2>1, TypeOfUe DEF NoProcedure, TypeOK
  <2>2. CASE \E s \in Cells, t \in Cells : TriggerProcedure(u, s, t)
    BY <2>2, TypeTrigger
  <2>3. meas[u].serving \in Cells
    BY TypeOfUe DEF MeasState
  <2> QED
    BY <2>1, <2>2, <2>3, CellFacts
       DEF ReportRlf, ClearTrigger, StartTrigger, HoldTrigger, Report
<1>7. /\ conf[u] \in ConfState /\ conf' = [conf EXCEPT ![u] = conf[u]]
      /\ interrupted' \in [UEs -> BOOLEAN]
      /\ lossForced' \in [UEs -> BOOLEAN]
  BY <1>3, TypeOfUe DEF TypeOK
<1> QED
  BY <1>2, <1>3, <1>4, <1>5, <1>6, <1>7, TypeStep

(* The actions of a UE that evaluates, or is skipped. *)
LEMMA TypeEvaluates ==
  ASSUME TypeOK, NEW u \in UEs,
         \/ SkipUe(u) \/ ExpireConfig(u) \/ KeepWaiting(u)
         \/ StartExecutionTtt(u) \/ HoldExecutionTtt(u) \/ Execute(u)
  PROVE  TypeOK'
<1>1. Never \in Time /\ now \in Time
  BY TypeOfUe DEF Never, Time
<1>2. Visit(u) => turn' \in 0 .. NumUes
  BY SizeAssumption DEF Visit, UEs
<1>3. CASE SkipUe(u)
  <2>1. \E m \in MeasState : meas' = [meas EXCEPT ![u] = m]
    BY <1>1, <1>3, TypeOfUe, CellFacts DEF SkipUe, MeasState
  <2>2. /\ turn' \in 0 .. NumUes
        /\ UNCHANGED <<now, cache, serving, proc, conf, interrupted,
                       lossForced, events, stats, gstats>>
    BY <1>2, <1>3 DEF SkipUe
  <2> QED
    BY <2>1, <2>2, TypeOfUe, TypeStep DEF TypeOK
<1>4. CASE ExpireConfig(u)
  <2>1. {"configsExpired"} \subseteq Counter
    BY DEF Counter, GlobalCounter
  <2>2. \E p \in ProcState : proc' = [proc EXCEPT ![u] = p]
    <3>1. [proc[u] EXCEPT !.phase = "IDLE"] \in ProcState
      BY TypeOfUe, ProcUpdates DEF Phase
    <3>2. proc' = [proc EXCEPT ![u] = [proc[u] EXCEPT !.phase = "IDLE"]]
      BY <1>4 DEF ExpireConfig
    <3> QED
      BY <3>1, <3>2
  <2>3. \E c \in ConfState : conf' = [conf EXCEPT ![u] = c]
    <3>1. [conf[u] EXCEPT !.cells = {}] \in ConfState
      BY TypeOfUe DEF ConfState
    <3> QED
      BY <1>4, <3>1 DEF ExpireConfig
  <2>4. stats' \in [UEs -> [Counter -> Nat]] /\ gstats' \in [GlobalCounter -> Nat]
    BY <1>4, <2>1, CountType DEF ExpireConfig
  <2> QED
    BY <1>2, <1>4, <2>2, <2>3, <2>4, TypeOfUe, TypeStep
       DEF ExpireConfig, Evaluates, TypeOK
<1>5. CASE KeepWaiting(u)
  <2>1. \E p \in ProcState : proc' = [proc EXCEPT ![u] = p]
    BY <1>1, <1>5, TypeOfUe DEF KeepWaiting, ProcState
  <2> QED
    BY <1>2, <1>5, <2>1, TypeOfUe, TypeStep DEF KeepWaiting, Evaluates, TypeOK
<1>6. CASE StartExecutionTtt(u)
  <2>1. \E p \in ProcState : proc' = [proc EXCEPT ![u] = p]
    <3>1. [proc[u] EXCEPT !.tttActive = TRUE, !.tttStart = now] \in ProcState
      BY <1>1, TypeOfUe, ProcUpdates
    <3>2. proc' = [proc EXCEPT ![u] = [proc[u] EXCEPT !.tttActive = TRUE,
                                                      !.tttStart = now]]
      BY <1>6 DEF StartExecutionTtt
    <3> QED
      BY <3>1, <3>2
  <2> QED
    BY <1>2, <1>6, <2>1, TypeOfUe, TypeStep
       DEF StartExecutionTtt, Evaluates, TypeOK
<1>7. CASE HoldExecutionTtt(u)
  BY <1>2, <1>7, TypeOfUe, TypeStep DEF HoldExecutionTtt, Evaluates, TypeOK
<1>8. CASE Execute(u)
  <2>1. UeExecutes(u) /\ Evaluates(u)
    BY <1>8 DEF Execute
  <2>2. {"executionsTriggered"} \subseteq Counter
    BY DEF Counter, GlobalCounter
  <2>3. proc[u].source \in Cells /\ proc[u].target \in Cells
    BY TypeOfUe DEF ProcState
  <2>4. Call("ExecutionComplete", proc[u].source, proc[u].target) \in Event
    BY <2>3, CallType DEF Handler
  <2>5. events' \in [UEs -> [Event -> Nat]]
    BY <2>1, <2>4, EventsType DEF UeExecutes
  <2>6. stats' \in [UEs -> [Counter -> Nat]] /\ gstats' \in [GlobalCounter -> Nat]
    BY <2>1, <2>2, CountType DEF UeExecutes
  <2>7. lossForced' \in [UEs -> BOOLEAN]
    BY <2>1, TypeOfUe DEF UeExecutes, ErrorModel, TypeOK
  <2>8. interrupted' \in [UEs -> BOOLEAN]
    BY <2>1 DEF UeExecutes, TypeOK
  <2>9. \E p \in ProcState : proc' = [proc EXCEPT ![u] = p]
    <3>1. [proc[u] EXCEPT !.phase = "UE_EXECUTING", !.tttActive = FALSE]
            \in ProcState
      BY TypeOfUe, ProcUpdates DEF Phase
    <3>2. proc' = [proc EXCEPT ![u] = [proc[u] EXCEPT
            !.phase = "UE_EXECUTING", !.tttActive = FALSE]]
      BY <2>1 DEF UeExecutes
    <3> QED
      BY <3>1, <3>2
  <2>10. \E c \in ConfState : conf' = [conf EXCEPT ![u] = c]
    BY <2>1, <2>3, TypeOfUe DEF UeExecutes, ConfState
  <2> QED
    BY <1>2, <2>1, <2>5, <2>6, <2>7, <2>8, <2>9, <2>10, TypeOfUe, TypeStep
       DEF Evaluates
<1> QED
  BY <1>3, <1>4, <1>5, <1>6, <1>7, <1>8

(* The handlers of the scheduled events. *)
LEMMA TypeRelay ==
  ASSUME TypeOK, NEW u \in UEs, NEW e \in Event, NEW h \in Handler,
         NEW from \in Phase, NEW to \in Phase, NEW next \in Handler,
         Dispatch(u, e, h), Relay(u, e, from, to, next)
  PROVE  TypeOK'
<1>1. /\ now' = now /\ cache' = cache /\ turn' \in 0 .. NumUes
      /\ UNCHANGED <<conf, interrupted, lossForced, serving, meas>>
  BY DEF Dispatch, Relay, Dropped, TypeOK
<1>2. events' \in [UEs -> [Event -> Nat]]
  BY EventsType DEF Dispatch, Relay, Dropped
<1>3. CASE Dropped(u, e)
  BY <1>1, <1>2, <1>3, TypeOfUe, TypeStep DEF Dropped, TypeOK
<1>4. CASE ~Dropped(u, e)
  <2>1. /\ proc' = [proc EXCEPT ![u] = [@ EXCEPT !.phase = to]]
        /\ Count(u, IF to = "RRC_RECONFIG_DOWNLINK"
                    THEN {"configsSent"} ELSE {})
    BY <1>4 DEF Relay
  <2>2. \E p \in ProcState : proc' = [proc EXCEPT ![u] = p]
    <3>1. [proc[u] EXCEPT !.phase = to] \in ProcState
      BY TypeOfUe, ProcUpdates
    <3> QED
      BY <2>1, <3>1
  <2>3. {"configsSent"} \subseteq Counter /\ {} \subseteq Counter
    BY DEF Counter, GlobalCounter
  <2>4. stats' \in [UEs -> [Counter -> Nat]] /\ gstats' \in [GlobalCounter -> Nat]
    BY <2>1, <2>3, CountType
  <2> QED
    BY <1>1, <1>2, <2>2, <2>4, TypeOfUe, TypeStep DEF TypeOK
<1> QED
  BY <1>3, <1>4

LEMMA TypeSignal ==
  ASSUME TypeOK, NEW u \in UEs, NEW e \in Event, Signal(u, e)
  PROVE  TypeOK'
<1>1. CASE ReportArrived(u, e)
  BY <1>1, TypeRelay DEF ReportArrived, Phase, Handler
<1>2. CASE SendXnRequest(u, e)
  BY <1>2, TypeRelay DEF SendXnRequest, Phase, Handler
<1>3. CASE XnResponse(u, e)
  BY <1>3, TypeRelay DEF XnResponse, Phase, Handler
<1>4. CASE SendRrcReconfig(u, e)
  BY <1>4, TypeRelay DEF SendRrcReconfig, Phase, Handler
<1>5. e.source \in Cells /\ e.target \in Cells
  BY DEF Event
<1>6. ASSUME NEW h \in Handler, Dispatch(u, e, h)
      PROVE  /\ now' = now /\ cache' = cache /\ turn' \in 0 .. NumUes
             /\ Dispatched(u, e) \in [UEs -> [Event -> Nat]]
  BY <1>6, EventsType DEF Dispatch, TypeOK
<1>7. ASSUME NEW h \in Handler, Dispatch(u, e, h), Dropped(u, e)
      PROVE  TypeOK'
  BY <1>6, <1>7, TypeOfUe, TypeStep DEF Dropped, TypeOK
<1>8. CASE UeStoresConfig(u, e)
  <2>1. Dispatch(u, e, "UeStoresConfig") /\ "UeStoresConfig" \in Handler
    BY <1>8 DEF UeStoresConfig, Handler
  <2>2. CASE Dropped(u, e)
    BY <1>7, <2>1, <2>2
  <2>3. CASE ~Dropped(u, e)
    <3>1. /\ proc' = [proc EXCEPT ![u] = [@ EXCEPT
                        !.phase = "UE_EVALUATING",
                        !.expiry = now + ValidityPeriod,
                        !.tttActive = FALSE, !.tttStart = Never]]
          /\ conf' = [conf EXCEPT ![u].cells = @ \cup {e.target}]
          /\ events' = Dispatched(u, e)
          /\ Count(u, {"configsReceived"})
          /\ UNCHANGED <<interrupted, lossForced, serving, meas>>
      BY <1>8, <2>3 DEF UeStoresConfig
    <3>2. \E p \in ProcState : proc' = [proc EXCEPT ![u] = p]
      <4>1. /\ now + ValidityPeriod \in Time /\ Never \in Time
            /\ proc[u] \in ProcState /\ "UE_EVALUATING" \in Phase
        BY TypeOfUe, TimeAssumption DEF Time, Never, Phase
      <4>2. [proc[u] EXCEPT !.phase = "UE_EVALUATING",
               !.expiry = now + ValidityPeriod,
               !.tttActive = FALSE, !.tttStart = Never] \in ProcState
        BY <4>1 DEF ProcState
      <4> QED
        BY <3>1, <4>2
    <3>3. [conf[u] EXCEPT !.cells = @ \cup {e.target}] \in ConfState
      BY <1>5, TypeOfUe DEF ConfState
    <3>4. conf' = [conf EXCEPT ![u] = [conf[u] EXCEPT !.cells = @ \cup {e.target}]]
      BY <3>1
    <3>5. {"configsReceived"} \subseteq Counter
      BY DEF Counter, GlobalCounter
    <3>6. /\ stats' \in [UEs -> [Counter -> Nat]]
          /\ gstats' \in [GlobalCounter -> Nat]
      BY <3>1, <3>5, CountType
    <3>7. /\ interrupted' \in [UEs -> BOOLEAN]
          /\ lossForced' \in [UEs -> BOOLEAN]
          /\ serving' = [serving EXCEPT ![u] = serving[u]]
          /\ meas' = [meas EXCEPT ![u] = meas[u]]
          /\ serving[u] \in Cells /\ meas[u] \in MeasState
      BY <3>1, TypeOfUe DEF TypeOK
    <3>8. \E c \in ConfState : conf' = [conf EXCEPT ![u] = c]
      BY <3>3, <3>4
    <3> QED
      BY <1>6, <2>1, <3>1, <3>2, <3>6, <3>7, <3>8, TypeStep
  <2> QED
    BY <2>2, <2>3
<1>9. CASE ExecutionComplete(u, e)
  <2>1. Dispatch(u, e, "ExecutionComplete") /\ "ExecutionComplete" \in Handler
    BY <1>9 DEF ExecutionComplete, Handler
  <2>2. CASE Dropped(u, e)
    BY <1>7, <2>1, <2>2
  <2>3. CASE events' = Dispatched(u, e) /\ HandleFailure(u)
    <3>1. \E p \in ProcState : proc' = [proc EXCEPT ![u] = p]
      <4>1. [proc[u] EXCEPT !.phase = "IDLE", !.failed = TRUE] \in ProcState
        BY TypeOfUe, ProcUpdates DEF Phase
      <4>2. proc' = [proc EXCEPT ![u] = [proc[u] EXCEPT !.phase = "IDLE",
                                                        !.failed = TRUE]]
        BY <2>3 DEF HandleFailure
      <4> QED
        BY <4>1, <4>2
    <3>2. [conf[u] EXCEPT !.cells = {}] \in ConfState
      BY TypeOfUe DEF ConfState
    <3>3. conf' = [conf EXCEPT ![u] = [conf[u] EXCEPT !.cells = {}]]
      BY <2>3 DEF HandleFailure
    <3>4. {"failedAtExecution", "hoFail"} \subseteq Counter
      BY DEF Counter, GlobalCounter
    <3>5. /\ stats' \in [UEs -> [Counter -> Nat]]
          /\ gstats' \in [GlobalCounter -> Nat]
      BY <2>3, <3>4, CountType DEF HandleFailure
    <3>6. /\ interrupted' \in [UEs -> BOOLEAN]
          /\ UNCHANGED <<lossForced, serving, meas>>
      BY <2>3 DEF HandleFailure, TypeOK
    <3> QED
      BY <1>6, <2>1, <2>3, <3>1, <3>2, <3>3, <3>5, <3>6, TypeOfUe, TypeStep
         DEF TypeOK
  <2>4. CASE events' = Dispatched(u, e) /\ CompleteHandover(u, e)
    <3>1. \E p \in ProcState : proc' = [proc EXCEPT ![u] = p]
      <4>1. [proc[u] EXCEPT !.phase = "IDLE", !.failed = FALSE] \in ProcState
        BY TypeOfUe, ProcUpdates DEF Phase
      <4>2. proc' = [proc EXCEPT ![u] = [proc[u] EXCEPT !.phase = "IDLE",
                                                        !.failed = FALSE]]
        BY <2>4 DEF CompleteHandover
      <4> QED
        BY <4>1, <4>2
    <3>2. \E c \in ConfState : conf' = [conf EXCEPT ![u] = c]
      BY <2>4, CellFacts DEF CompleteHandover, ConfState
    <3>3. \E m \in MeasState : meas' = [meas EXCEPT ![u] = m]
      <4>1. [meas[u] EXCEPT !.serving = e.target, !.active = FALSE,
               !.start = Never, !.candidate = NoCell] \in MeasState
        <5>1. /\ meas[u] \in MeasState /\ e.target \in Cells
              /\ NoCell \in Cells /\ Never \in Time
          BY <1>5, TypeOfUe, CellFacts DEF Time, Never
        <5> QED
          BY <5>1 DEF MeasState
      <4>2. meas' = [meas EXCEPT ![u] = [meas[u] EXCEPT !.serving = e.target,
               !.active = FALSE, !.start = Never, !.candidate = NoCell]]
        BY <2>4 DEF CompleteHandover
      <4> QED
        BY <4>1, <4>2
    <3>4. {"successfulHandovers", "hoCount"} \subseteq Counter
      BY DEF Counter, GlobalCounter
    <3>5. /\ stats' \in [UEs -> [Counter -> Nat]]
          /\ gstats' \in [GlobalCounter -> Nat]
      BY <2>4, <3>4, CountType DEF CompleteHandover
    <3>6. /\ interrupted' \in [UEs -> BOOLEAN]
          /\ lossForced' \in [UEs -> BOOLEAN]
          /\ serving' = [serving EXCEPT ![u] = e.target]
      BY <2>4, TypeOfUe DEF CompleteHandover, ErrorModel, TypeOK
    <3> QED
      BY <1>5, <1>6, <2>1, <2>4, <3>1, <3>2, <3>3, <3>5, <3>6, TypeStep
  <2> QED
    BY <1>9, <2>2, <2>3, <2>4 DEF ExecutionComplete, Conclude
<1> QED
  BY <1>1, <1>2, <1>3, <1>4, <1>8, <1>9 DEF Signal

(* TypeOK: whatever the strategy, the metrics and the delays, each handler *)
(* leaves every piece of UE state in its range; in particular it leaves no *)
(* transient phase behind and never dispatches an unscheduled event.       *)
THEOREM TypeCorrect == Spec => []TypeOK
<1>1. Init => TypeOK
  BY TypeInit
<1>2. TypeOK /\ [Next]_vars => TypeOK'
  <2>1. ASSUME TypeOK, Next PROVE TypeOK'
    BY <2>1, TypeBeginCheck, TypeMeasures, TypeEvaluates, TypeSignal
       DEF Next, CheckHandover
  <2>2. ASSUME TypeOK, UNCHANGED vars PROVE TypeOK'
    BY <2>2 DEF TypeOK, vars
  <2> QED
    BY <2>1, <2>2
<1> QED
  BY <1>1, <1>2, PTL DEF Spec

-------------------------------------------------------------------------------
(* The global counters.                                                    *)

(* Induction without a predicate parameter: the least counterexample of a  *)
(* set of counterexamples is found by the library's theorem on minima.     *)
LEMMA LeastNatural ==
  ASSUME NEW T, T \subseteq Nat, T # {}
  PROVE  \E m \in T : \A n \in T : m <= n
<1> DEFINE R == OpToRel(<, Nat)
<1>1. IsWellFoundedOn(R, Nat)
  BY NatLessThanWellFounded
<1>2. \A x, y \in Nat : <<y, x>> \in R <=> y < x
  BY Zenon DEF OpToRel
<1> HIDE DEF R
<1>3. PICK m \in T : \A n \in T : <<n, m>> \notin R
  BY <1>1, WFMin
<1>4. ASSUME NEW n \in T PROVE m <= n
  <2>1. m \in Nat /\ n \in Nat
    OBVIOUS
  <2>2. ~(n < m)
    BY <2>1, <1>2, <1>3, Zenon
  <2> QED
    BY <2>1, <2>2
<1> QED
  BY <1>4

(* f holds the partial sums of x up to k.                                  *)
Sums(x, f, k) ==
  f = [n \in 0 .. k |-> IF n = 0 THEN 0 ELSE f[n - 1] + x[n - 1]]

(* Partial sums are what their recursion says: numbers, for numbers.       *)
LEMMA SumsFacts ==
  ASSUME NEW x \in [UEs -> Int], NEW k \in 0 .. NumUes, NEW f, Sums(x, f, k)
  PROVE  /\ f[0] = 0
         /\ \A n \in 1 .. k : f[n] = f[n - 1] + x[n - 1]
         /\ f \in [0 .. k -> Int]
<1>1. k \in Nat /\ NumUes \in Nat /\ UEs = 0 .. NumUes - 1
  BY SizeAssumption DEF UEs
<1>2. DOMAIN f = 0 .. k /\ f = [n \in 0 .. k |-> f[n]]
  BY DEF Sums
<1>3. \A n \in 0 .. k : f[n] = IF n = 0 THEN 0 ELSE f[n - 1] + x[n - 1]
  BY DEF Sums
<1>4. f[0] = 0 /\ \A n \in 1 .. k : f[n] = f[n - 1] + x[n - 1]
  BY <1>1, <1>3
<1>5. \A n \in 0 .. k : f[n] \in Int
  <2> DEFINE Bad == {n \in 0 .. k : f[n] \notin Int}
  <2> SUFFICES ASSUME Bad # {} PROVE FALSE
    OBVIOUS
  <2>1. PICK m \in Bad : \A n \in Bad : m <= n
    <3>1. Bad \subseteq Nat
      BY <1>1
    <3> HIDE DEF Bad
    <3> QED
      BY <3>1, LeastNatural
  <2>2. m \in 1 .. k
    BY <1>1, <1>4, <2>1
  <2>3. f[m - 1] \in Int
    <3>1. m - 1 \in 0 .. k /\ ~(m <= m - 1)
      BY <1>1, <2>2
    <3> QED
      BY <2>1, <3>1
  <2>4. x[m - 1] \in Int
    BY <1>1, <2>2
  <2> QED
    BY <1>4, <2>1, <2>2, <2>3, <2>4
<1> QED
  BY <1>2, <1>4, <1>5

(* The recursion of SumOver has a solution, by extending that for k - 1.   *)
LEMMA SumsExist ==
  ASSUME NEW x \in [UEs -> Int]
  PROVE  \E f : Sums(x, f, NumUes)
<1>1. NumUes \in Nat
  BY SizeAssumption
<1> DEFINE Bad == {k \in 0 .. NumUes : ~ \E f : Sums(x, f, k)}
<1> SUFFICES ASSUME Bad # {} PROVE FALSE
  BY <1>1
<1>2. PICK m \in Bad : \A n \in Bad : m <= n
  <2>1. Bad \subseteq Nat
    BY <1>1
  <2> HIDE DEF Bad
  <2> QED
    BY <2>1, LeastNatural
<1>3. m # 0
  <2>1. Sums(x, [n \in 0 .. 0 |-> 0], 0)
    BY DEF Sums
  <2> QED
    BY <1>1, <1>2, <2>1
<1>4. PICK f : Sums(x, f, m - 1)
  <2>1. m - 1 \in 0 .. NumUes /\ ~(m <= m - 1)
    BY <1>1, <1>2, <1>3
  <2> QED
    BY <1>2, <2>1
<1>5. Sums(x, [n \in 0 .. m |-> IF n = m THEN f[m - 1] + x[m - 1]
                                ELSE f[n]], m)
  <2>1. \A n \in 0 .. m - 1 : f[n] = IF n = 0 THEN 0 ELSE f[n - 1] + x[n - 1]
    BY <1>4 DEF Sums
  <2> QED
    BY <1>1, <1>2, <1>3, <2>1 DEF Sums
<1> QED
  BY <1>2, <1>5

LEMMA SumOverIs ==
  ASSUME NEW x \in [UEs -> Int]
  PROVE  \E f : Sums(x, f, NumUes) /\ SumOver(x) = f[NumUes]
BY SumsExist DEF SumOver, Sums

LEMMA SumOverZero == SumOver([u \in UEs |-> 0]) = 0
<1> DEFINE x == [u \in UEs |-> 0]
<1>1. x \in [UEs -> Int] /\ NumUes \in Nat /\ UEs = 0 .. NumUes - 1
  BY SizeAssumption DEF UEs
<1>2. NumUes \in 0 .. NumUes
  BY <1>1
<1> HIDE DEF x
<1>3. PICK f : Sums(x, f, NumUes) /\ SumOver(x) = f[NumUes]
  BY <1>1, SumOverIs
<1>4. f[0] = 0 /\ \A n \in 1 .. NumUes : f[n] = f[n - 1] + x[n - 1]
  BY <1>1, <1>2, <1>3, SumsFacts
<1>5. \A n \in 0 .. NumUes : f[n] = 0
  <2> DEFINE Bad == {n \in 0 .. NumUes : f[n] # 0}
  <2> SUFFICES ASSUME Bad # {} PROVE FALSE
    OBVIOUS
  <2>1. PICK m \in Bad : \A n \in Bad : m <= n
    <3>1. Bad \subseteq Nat
      BY <1>1
    <3> HIDE DEF Bad
    <3> QED
      BY <3>1, LeastNatural
  <2>2. m \in 1 .. NumUes /\ f[m] = f[m - 1] + x[m - 1]
    BY <1>1, <1>4, <2>1
  <2>3. f[m - 1] = 0
    <3>1. m - 1 \in 0 .. NumUes /\ ~(m <= m - 1)
      BY <1>1, <2>2
    <3> QED
      BY <2>1, <3>1
  <2>4. x[m - 1] = 0
    BY <1>1, <2>2 DEF x
  <2> QED
    BY <2>1, <2>2, <2>3, <2>4
<1> QED
  BY <1>1, <1>3, <1>5 DEF x

(* One more at one UE is one more in the sum. *)
LEMMA SumOverUpdate ==
  ASSUME NEW x \in [UEs -> Int], NEW y \in [UEs -> Int], NEW u \in UEs,
         \A v \in UEs : y[v] = IF v = u THEN x[v] + 1 ELSE x[v]
  PROVE  SumOver(y) = SumOver(x) + 1
<1>1. NumUes \in Nat /\ UEs = 0 .. NumUes - 1
  BY SizeAssumption DEF UEs
<1>2. PICK f : Sums(x, f, NumUes) /\ SumOver(x) = f[NumUes]
  BY SumOverIs
<1>3. PICK g : Sums(y, g, NumUes) /\ SumOver(y) = g[NumUes]
  BY SumOverIs
<1>4. /\ f \in [0 .. NumUes -> Int] /\ g \in [0 .. NumUes -> Int]
      /\ f[0] = 0 /\ g[0] = 0
      /\ \A n \in 1 .. NumUes : /\ f[n] = f[n - 1] + x[n - 1]
                               /\ g[n] = g[n - 1] + y[n - 1]
  <2>1. NumUes \in 0 .. NumUes
    BY <1>1
  <2> QED
    BY <1>2, <1>3, <2>1, SumsFacts
<1>5. \A n \in 0 .. NumUes : g[n] = f[n] + (IF n > u THEN 1 ELSE 0)
  <2> DEFINE Bad == {n \in 0 .. NumUes :
                       g[n] # f[n] + (IF n > u THEN 1 ELSE 0)}
  <2> SUFFICES ASSUME Bad # {} PROVE FALSE
    OBVIOUS
  <2>1. PICK m \in Bad : \A n \in Bad : m <= n
    <3>1. Bad \subseteq Nat
      BY <1>1
    <3> HIDE DEF Bad
    <3> QED
      BY <3>1, LeastNatural
  <2>2. m \in 1 .. NumUes
    BY <1>1, <1>4, <2>1
  <2>3. f[m] = f[m - 1] + x[m - 1] /\ g[m] = g[m - 1] + y[m - 1]
    BY <1>4, <2>2
  <2>4. g[m - 1] = f[m - 1] + (IF m - 1 > u THEN 1 ELSE 0)
    <3>1. m - 1 \in 0 .. NumUes /\ ~(m <= m - 1)
      BY <1>1, <2>2
    <3> QED
      BY <2>1, <3>1
  <2>5. y[m - 1] = x[m - 1] + (IF m - 1 = u THEN 1 ELSE 0)
    BY <1>1, <2>2
  <2>6. /\ f[m - 1] \in Int /\ x[m - 1] \in Int
        /\ m \in Nat /\ u \in Nat
    <3>1. /\ m - 1 \in 0 .. NumUes /\ m - 1 \in UEs
          /\ m \in Nat /\ u \in Nat
      BY <1>1, <2>2
    <3>2. f[m - 1] \in Int
      BY <1>4, <3>1
    <3>3. x[m - 1] \in Int
      BY <3>1
    <3> QED
      BY <3>1, <3>2, <3>3
  <2>7. g[m] = f[m - 1] + x[m - 1] + (IF m > u THEN 1 ELSE 0)
    BY <2>3, <2>4, <2>5, <2>6
  <2> QED
    BY <2>1, <2>3, <2>6, <2>7
<1>6. NumUes > u
  BY <1>1
<1> QED
  BY <1>1, <1>2, <1>3, <1>4, <1>5, <1>6

(* A step leaves the counters alone or counts for one UE. *)
LEMMA CountsInNext ==
  ASSUME [Next]_vars
  PROVE  \/ UNCHANGED <<stats, gstats>>
         \/ \E u \in UEs : \E cs \in SUBSET Counter : Count(u, cs)
<1>1. CASE UNCHANGED vars
  BY <1>1 DEF vars
<1>2. CASE BeginCheck
  BY <1>2 DEF BeginCheck
<1>3. ASSUME NEW u \in UEs, CheckHandover(u)
      PROVE  \/ UNCHANGED <<stats, gstats>>
             \/ \E cs \in SUBSET Counter : Count(u, cs)
  <2>1. /\ {"totalReports"} \subseteq Counter
        /\ {"configsExpired"} \subseteq Counter
        /\ {"executionsTriggered"} \subseteq Counter
    BY DEF Counter, GlobalCounter
  <2>2. CASE ReportRlf(u) \/ Report(u)
    BY <2>1, <2>2 DEF ReportRlf, Report, TriggerProcedure, NoProcedure
  <2>3. CASE ExpireConfig(u) \/ Execute(u)
    BY <2>1, <2>3 DEF ExpireConfig, Execute, UeExecutes
  <2>4. CASE \/ SkipUe(u) \/ ClearTrigger(u) \/ StartTrigger(u)
             \/ HoldTrigger(u) \/ KeepWaiting(u) \/ StartExecutionTtt(u)
             \/ HoldExecutionTtt(u)
    BY <2>4 DEF SkipUe, ClearTrigger, StartTrigger, HoldTrigger,
       KeepWaiting, StartExecutionTtt, HoldExecutionTtt, NoProcedure
  <2> QED
    BY <1>3, <2>2, <2>3, <2>4 DEF CheckHandover
<1>4. ASSUME NEW u \in UEs, NEW e \in Event, Signal(u, e)
      PROVE  \/ UNCHANGED <<stats, gstats>>
             \/ \E cs \in SUBSET Counter : Count(u, cs)
  <2>1. /\ {} \subseteq Counter /\ {"configsSent"} \subseteq Counter
        /\ {"configsReceived"} \subseteq Counter
        /\ {"failedAtExecution", "hoFail"} \subseteq Counter
        /\ {"successfulHandovers", "hoCount"} \subseteq Counter
    BY DEF Counter, GlobalCounter
  <2>2. CASE \/ ReportArrived(u, e) \/ SendXnRequest(u, e)
             \/ XnResponse(u, e) \/ SendRrcReconfig(u, e)
    BY <2>1, <2>2 DEF ReportArrived, SendXnRequest, XnResponse,
       SendRrcReconfig, Relay, Dropped
  <2>3. CASE UeStoresConfig(u, e)
    BY <2>1, <2>3 DEF UeStoresConfig, Dropped
  <2>4. CASE ExecutionComplete(u, e)
    BY <2>1, <2>4 DEF ExecutionComplete, Dropped, Conclude, HandleFailure,
       CompleteHandover
  <2> QED
    BY <1>4, <2>2, <2>3, <2>4 DEF Signal
<1> QED
  BY <1>1, <1>2, <1>3, <1>4 DEF Next

(* Count keeps a global counter at the sum of those of the UEs. *)
LEMMA TotalCounted ==
  ASSUME TypeOK, NEW u \in UEs, NEW cs \in SUBSET Counter, Count(u, cs),
         NEW c \in GlobalCounter, gstats[c] = Total(c)
  PROVE  gstats'[c] = Total(c)'
<1> DEFINE x == [v \in UEs |-> stats[v][c]]
           y == [v \in UEs |-> stats'[v][c]]
<1>1. c \in Counter
  BY DEF Counter
<1>2. x \in [UEs -> Int]
  BY <1>1 DEF TypeOK
<1>3. \A v \in UEs :
        y[v] = IF v = u /\ c \in cs THEN x[v] + 1 ELSE x[v]
  BY <1>1 DEF Count, TypeOK
<1>4. y \in [UEs -> Int]
  BY <1>2, <1>3
<1>5. Total(c) = SumOver(x) /\ Total(c)' = SumOver(y)
  BY DEF Total
<1>6. gstats'[c] = IF c \in cs THEN gstats[c] + 1 ELSE gstats[c]
  BY DEF Count
<1>7. CASE c \in cs
  <2>1. \A v \in UEs : y[v] = IF v = u THEN x[v] + 1 ELSE x[v]
    BY <1>3, <1>7
  <2> HIDE DEF x, y
  <2>2. SumOver(y) = SumOver(x) + 1
    BY <1>2, <1>4, <2>1, SumOverUpdate
  <2> QED
    BY <1>5, <1>6, <1>7, <2>2
<1>8. CASE c \notin cs
  <2>1. x = y
    BY <1>3, <1>8
  <2> QED
    BY <1>5, <1>6, <1>8, <2>1
<1> QED
  BY <1>7, <1>8

LEMMA TotalInit == Init => GlobalIsTotal
<1> SUFFICES ASSUME Init, NEW c \in GlobalCounter PROVE gstats[c] = Total(c)
  BY DEF GlobalIsTotal
<1>1. [u \in UEs |-> stats[u][c]] = [u \in UEs |-> 0]
  BY DEF Init, Counter
<1> QED
  BY <1>1, SumOverZero DEF Init, Total

LEMMA TotalNext ==
  ASSUME TypeOK, GlobalIsTotal, [Next]_vars
  PROVE  GlobalIsTotal'
<1> SUFFICES ASSUME NEW c \in GlobalCounter PROVE gstats'[c] = Total(c)'
  BY DEF GlobalIsTotal
<1>1. gstats[c] = Total(c)
  BY DEF GlobalIsTotal
<1>2. CASE UNCHANGED <<stats, gstats>>
  BY <1>1, <1>2 DEF Total
<1>3. CASE \E u \in UEs : \E cs \in SUBSET Counter : Count(u, cs)
  BY <1>1, <1>3, TotalCounted
<1> QED
  BY <1>2, <1>3, CountsInNext

(* The global ChoNtnStatistics and handover count are the sums of those of *)
(* the UEs.                                                                *)
THEOREM GlobalsAreTotals == Spec => []GlobalIsTotal
<1>1. Init => GlobalIsTotal
  BY TotalInit
<1>2. TypeOK /\ GlobalIsTotal /\ [Next]_vars => GlobalIsTotal'
  BY TotalNext
<1> QED
  BY <1>1, <1>2, TypeCorrect, PTL DEF Spec

-------------------------------------------------------------------------------
(* The invariants of ChoProperties for one UE. *)
UeEvents(u) ==
  \A e \in Event : events[u][e] = IF Awaits(u, e) THEN 1 ELSE 0

UeConfig(u) ==
  conf[u].cells = IF proc[u].phase \in {"UE_EVALUATING", "UE_EXECUTING"}
                  THEN {proc[u].target} ELSE {}

UeInterruption(u) ==
  /\ interrupted[u] <=> proc[u].phase = "UE_EXECUTING"
  /\ interrupted[u] => lossForced[u]

UeCells(u) ==
  /\ meas[u].serving = serving[u]
  /\ proc[u].phase # "IDLE" =>
       /\ serving[u] # NoCell
       /\ proc[u].source = serving[u]
       /\ proc[u].target # serving[u]
  /\ proc[u].phase = "UE_EXECUTING" => Measured(u, proc[u].target)

UeCounters(u) ==
  LET c == stats[u] IN
  /\ c["totalReports"] = c["configsSent"] + In(u, Signalling)
  /\ c["configsSent"] =
       c["configsReceived"] + In(u, {"RRC_RECONFIG_DOWNLINK"})
  /\ c["configsReceived"] = c["executionsTriggered"] + c["configsExpired"]
                            + In(u, {"UE_EVALUATING"})
  /\ c["executionsTriggered"] = c["successfulHandovers"]
                    + c["failedAtExecution"] + In(u, {"UE_EXECUTING"})
  /\ c["hoCount"] = c["successfulHandovers"]
  /\ c["hoFail"] = c["failedAtExecution"]

Consistent(u) == /\ UeEvents(u) /\ UeConfig(u) /\ UeInterruption(u)
                 /\ UeCells(u) /\ UeCounters(u)

IInv == TypeOK /\ \A u \in UEs : Consistent(u)

LEMMA IInvImplies ==
  IInv => /\ EventMatchesPhase
          /\ ConfigMatchesPhase
          /\ InterruptionMatchesPhase
          /\ ProcedureLeavesServing
          /\ ProceduresAccounted
<1> SUFFICES ASSUME IInv
             PROVE  /\ EventMatchesPhase
                    /\ ConfigMatchesPhase
                    /\ InterruptionMatchesPhase
                    /\ ProcedureLeavesServing
                    /\ ProceduresAccounted
  OBVIOUS
<1>1. EventMatchesPhase
  BY DEF IInv, Consistent, UeEvents, EventMatchesPhase
<1>2. ConfigMatchesPhase
  BY DEF IInv, Consistent, UeConfig, ConfigMatchesPhase
<1>3. InterruptionMatchesPhase
  BY DEF IInv, Consistent, UeInterruption, InterruptionMatchesPhase
<1>4. ProcedureLeavesServing
  BY DEF IInv, Consistent, UeCells, ProcedureLeavesServing
<1>5. ProceduresAccounted
  BY DEF IInv, Consistent, UeCounters, ProceduresAccounted
<1> QED
  BY <1>1, <1>2, <1>3, <1>4, <1>5

LEMMA CallFields ==
  ASSUME NEW h \in Handler, NEW s \in Cells, NEW t \in Cells
  PROVE  /\ Call(h, s, t).handler = h
         /\ Call(h, s, t).source = s
         /\ Call(h, s, t).target = t
         /\ \A e \in Event :
              (e.handler = h /\ e.source = s /\ e.target = t)
                <=> e = Call(h, s, t)
BY DEF Call, Event

(* A UE whose state a step leaves alone stays consistent. *)
LEMMA Frame ==
  ASSUME NEW u \in UEs, Consistent(u),
         serving'[u] = serving[u], meas'[u] = meas[u], proc'[u] = proc[u],
         conf'[u] = conf[u], interrupted'[u] = interrupted[u],
         lossForced'[u] = lossForced[u], events'[u] = events[u],
         stats'[u] = stats[u], cache'[u] = cache[u]
  PROVE  Consistent(u)'
<1>1. UeEvents(u)'
  BY DEF Consistent, UeEvents, Awaits
<1>2. UeConfig(u)' /\ UeInterruption(u)'
  BY DEF Consistent, UeConfig, UeInterruption
<1>3. UeCells(u)'
  BY DEF Consistent, UeCells, Measured
<1>4. UeCounters(u)'
  BY DEF Consistent, UeCounters, In
<1> QED
  BY <1>1, <1>2, <1>3, <1>4 DEF Consistent

LEMMA ConsistentInit == Init => \A u \in UEs : Consistent(u)
<1> SUFFICES ASSUME Init, NEW u \in UEs PROVE Consistent(u)
  OBVIOUS
<1>1. proc[u].phase = "IDLE"
  BY DEF Init
<1>2. UeEvents(u)
  BY <1>1 DEF Init, UeEvents, Awaits, Awaited
<1>3. UeConfig(u) /\ UeInterruption(u)
  BY <1>1 DEF Init, UeConfig, UeInterruption
<1>4. UeCells(u)
  BY <1>1 DEF Init, UeCells
<1>5. \A c \in Counter : stats[u][c] = 0
  BY DEF Init
<1>6. UeCounters(u)
  BY <1>1, <1>5 DEF UeCounters, In, Signalling, Counter, GlobalCounter
<1> QED
  BY <1>2, <1>3, <1>4, <1>6 DEF Consistent

(* A step that moves neither the procedure nor what hangs on it; an idle   *)
(* UE may lose its cell in it.                                             *)
LEMMA Unmoved ==
  ASSUME NEW u \in UEs, Consistent(u),
         proc'[u].phase = proc[u].phase, proc'[u].source = proc[u].source,
         proc'[u].target = proc[u].target,
         meas'[u].serving = serving'[u],
         serving'[u] = serving[u] \/ proc[u].phase = "IDLE",
         conf'[u] = conf[u], interrupted'[u] = interrupted[u],
         interrupted[u] => lossForced'[u],
         events'[u] = events[u], stats'[u] = stats[u],
         \A s \in Sats : Measured(u, s) => Measured(u, s)'
  PROVE  Consistent(u)'
<1>1. UeEvents(u)'
  BY DEF Consistent, UeEvents, Awaits
<1>2. UeConfig(u)' /\ UeInterruption(u)'
  BY DEF Consistent, UeConfig, UeInterruption
<1>3. UeCells(u)'
  BY DEF Consistent, UeCells, Measured
<1>4. UeCounters(u)'
  BY DEF Consistent, UeCounters, In
<1> QED
  BY <1>1, <1>2, <1>3, <1>4 DEF Consistent

LEMMA ConsistentBeginCheck ==
  ASSUME IInv, BeginCheck, NEW u \in UEs
  PROVE  Consistent(u)'
<1>1. TypeOK /\ Consistent(u)
  BY DEF IInv
<1>2. PICK sel \in [UEs -> Cells] :
        /\ \A v \in UEs : serving[v] # NoCell => sel[v] = serving[v]
        /\ serving' = sel
        /\ meas' = [v \in UEs |-> IF serving[v] = NoCell /\ sel[v] # NoCell
                                  THEN [meas[v] EXCEPT !.serving = sel[v]]
                                  ELSE meas[v]]
        /\ lossForced' = [v \in UEs |->
            ErrorModel(v, cache'[v], sel[v], interrupted[v], lossForced[v])]
  BY DEF BeginCheck
<1>3. UNCHANGED <<proc, conf, interrupted, events, stats>>
  BY DEF BeginCheck
<1>4. meas'[u].serving = serving'[u]
  <2>1. meas[u].serving = serving[u]
    BY <1>1 DEF Consistent, UeCells
  <2>2. CASE serving[u] = NoCell /\ sel[u] # NoCell
    <3>1. meas'[u] = [meas[u] EXCEPT !.serving = sel[u]]
      BY <1>2, <2>2
    <3>2. meas[u] \in MeasState
      BY <1>1, TypeOfUe
    <3> QED
      BY <1>2, <3>1, <3>2 DEF MeasState
  <2>3. CASE ~(serving[u] = NoCell /\ sel[u] # NoCell)
    BY <1>2, <2>1, <2>3
  <2> QED
    BY <2>2, <2>3
<1>5. serving'[u] = serving[u] \/ proc[u].phase = "IDLE"
  BY <1>1, <1>2 DEF Consistent, UeCells
<1>6. interrupted[u] => lossForced'[u]
  BY <1>1, <1>2 DEF Consistent, UeInterruption, ErrorModel
<1>7. \A s \in Sats : Measured(u, s) => Measured(u, s)'
  <2>1. PICK obs \in [UEs -> [Sats -> Metrics]] :
          cache' = [v \in UEs |-> Refreshed(v, obs[v], now')]
    BY DEF BeginCheck
  <2>2. SUFFICES ASSUME NEW s \in Sats, cache[u][s] # Unmeasured
                 PROVE  cache'[u][s] # Unmeasured
    BY DEF Measured
  <2>3. now' \in Time
    BY <1>1, TypeOfUe DEF BeginCheck, Time
  <2>4. [time |-> now', m |-> obs[u][s]] \in CacheEntry
    BY <2>1, <2>3 DEF CacheEntry
  <2>5. cache'[u][s] \in {[time |-> now', m |-> obs[u][s]], cache[u][s]}
    BY <2>1 DEF Refreshed
  <2> QED
    BY <2>2, <2>4, <2>5, CacheAssumption
<1> QED
  BY <1>1, <1>3, <1>4, <1>5, <1>6, <1>7, Unmoved

(* CHO_TriggerProcedure for an idle UE and a target other than its cell.   *)
LEMMA ConsistentTrigger ==
  ASSUME NEW u \in UEs, TypeOK, Consistent(u), proc[u].phase = "IDLE",
         serving[u] # NoCell, NEW t \in Cells, t # serving[u],
         TriggerProcedure(u, serving[u], t),
         meas'[u].serving = serving[u],
         UNCHANGED <<serving, conf, interrupted, lossForced>>
  PROVE  Consistent(u)'
<1>1. serving[u] \in Cells /\ proc[u] \in ProcState
  BY TypeOfUe
<1>2. /\ proc'[u].phase = "MEAS_REPORT_UPLINK"
      /\ proc'[u].source = serving[u]
      /\ proc'[u].target = t
  BY <1>1 DEF TriggerProcedure, ProcState, TypeOK
<1>3. \A e \in Event : events[u][e] = 0
  BY DEF Consistent, UeEvents, Awaits, Awaited
<1>4. "ReportArrived" \in Handler /\ Call("ReportArrived", serving[u], t) \in Event
  BY <1>1, CallType DEF Handler
<1>5. \A e \in Event : events'[u][e] =
        IF e = Call("ReportArrived", serving[u], t) THEN 1 ELSE 0
  BY <1>3, <1>4 DEF TriggerProcedure, Schedule, TypeOK
<1>6. \A e \in Event : Awaits(u, e)' <=> e = Call("ReportArrived", serving[u], t)
  BY <1>1, <1>2, <1>4, CallFields DEF Awaits, Awaited
<1>7. UeEvents(u)'
  BY <1>5, <1>6 DEF UeEvents
<1>8. UeConfig(u)' /\ UeInterruption(u)' /\ UeCells(u)'
  BY <1>2 DEF Consistent, UeConfig, UeInterruption, UeCells
<1>9. UeCounters(u)'
  <2>1. \A c \in Counter : stats[u][c] \in Nat
    BY TypeOfUe
  <2>2. \A c \in Counter : stats'[u][c] =
          IF c = "totalReports" THEN stats[u][c] + 1 ELSE stats[u][c]
    BY DEF TriggerProcedure, Count, TypeOK
  <2> QED
    BY <1>2, <2>1, <2>2
       DEF Consistent, UeCounters, In, Signalling, Counter, GlobalCounter
<1> QED
  BY <1>7, <1>8, <1>9 DEF Consistent

LEMMA ConsistentMeasures ==
  ASSUME IInv, NEW u \in UEs,
         \/ ReportRlf(u) \/ ClearTrigger(u) \/ StartTrigger(u)
         \/ HoldTrigger(u) \/ Report(u)
  PROVE  Consistent(u)'
<1>1. /\ TypeOK /\ Consistent(u) /\ meas[u] \in MeasState
      /\ serving[u] \in Cells /\ meas[u].serving = serving[u]
  BY TypeOfUe DEF IInv, Consistent, UeCells
<1>2. Measures(u)
  BY DEF ReportRlf, ClearTrigger, StartTrigger, HoldTrigger, Report
<1>3. /\ UNCHANGED <<cache, conf, interrupted, lossForced>>
      /\ proc[u].phase = "IDLE" /\ serving[u] # NoCell
  BY <1>2 DEF Measures, MayMeasure
<1>4. meas'[u].serving = serving'[u]
  <2>1. CASE ReportRlf(u)
    <3>1. CASE ForcedReselect
      <4>1. /\ serving' = [serving EXCEPT ![u] = NoCell]
            /\ meas' = [meas EXCEPT ![u] = [meas[u] EXCEPT !.lastTime = now,
                                      !.serving = NoCell, !.active = FALSE]]
        BY <2>1, <3>1 DEF ReportRlf
      <4>2. [meas[u] EXCEPT !.lastTime = now, !.serving = NoCell,
                            !.active = FALSE].serving = NoCell
        BY <1>1 DEF MeasState
      <4> QED
        BY <1>1, <4>1, <4>2 DEF TypeOK
    <3>2. CASE ~ForcedReselect
      <4>1. /\ serving' = serving
            /\ meas' = [meas EXCEPT ![u] = [meas[u] EXCEPT !.lastTime = now]]
        BY <2>1, <3>2 DEF ReportRlf
      <4>2. [meas[u] EXCEPT !.lastTime = now].serving = meas[u].serving
        BY <1>1 DEF MeasState
      <4> QED
        BY <1>1, <4>1, <4>2 DEF TypeOK
    <3> QED
      BY <3>1, <3>2
  <2>2. ASSUME NEW m \in MeasState, m.serving = meas[u].serving,
               meas' = [meas EXCEPT ![u] = m], serving' = serving
        PROVE  meas'[u].serving = serving'[u]
    BY <1>1, <2>2 DEF TypeOK
  <2>3. CASE ClearTrigger(u)
    BY <1>1, <2>3 DEF ClearTrigger, MeasState, TypeOK
  <2>4. CASE StartTrigger(u)
    <3>1. PICK n \in Cells :
            meas' = [meas EXCEPT ![u] = [meas[u] EXCEPT !.lastTime = now,
                       !.active = TRUE, !.start = now, !.candidate = n]]
      BY <2>4 DEF StartTrigger
    <3>2. serving' = serving
      BY <2>4 DEF StartTrigger
    <3> DEFINE m == [meas[u] EXCEPT !.lastTime = now, !.active = TRUE,
                                    !.start = now, !.candidate = n]
    <3>3. m \in MeasState /\ m.serving = meas[u].serving
      BY <1>1 DEF MeasState, TypeOK
    <3>4. meas' = [meas EXCEPT ![u] = m]
      BY <3>1
    <3> HIDE DEF m
    <3> QED
      BY <2>2, <3>2, <3>3, <3>4
  <2>5. CASE HoldTrigger(u)
    BY <1>1, <2>5 DEF HoldTrigger, MeasState, TypeOK
  <2>6. CASE Report(u)
    BY <1>1, <2>6 DEF Report, MeasState, TypeOK
  <2> QED
    BY <2>1, <2>3, <2>4, <2>5, <2>6
<1>5. CASE NoProcedure
  <2>1. interrupted[u] => lossForced'[u]
    BY <1>1, <1>3 DEF Consistent, UeInterruption
  <2>2. \A s \in Sats : Measured(u, s) => Measured(u, s)'
    BY <1>3 DEF Measured
  <2> QED
    BY <1>1, <1>3, <1>4, <1>5, <2>1, <2>2, Unmoved DEF NoProcedure
<1>6. CASE ~NoProcedure
  <2>1. UNCHANGED serving
    BY <1>6 DEF ReportRlf, ClearTrigger, StartTrigger, HoldTrigger, Report
  <2>2. PICK t \in Cells : /\ TriggerProcedure(u, serving[u], t)
                           /\ t # serving[u]
    <3>1. CASE ReportRlf(u)
      BY <1>1, <1>3, <1>6, <3>1, CellFacts DEF ReportRlf
    <3>2. CASE Report(u)
      <4>1. PICK n \in Cells : /\ Persists(u, n)
                               /\ TriggerProcedure(u, serving[u], n)
        BY <1>1, <1>6, <3>2 DEF Report
      <4>2. n # serving[u]
        BY <1>1, <1>3, <4>1 DEF Persists, IsBestNeighbour
      <4> QED
        BY <4>1, <4>2
    <3> QED
      BY <1>6, <3>1, <3>2 DEF ClearTrigger, StartTrigger, HoldTrigger
  <2> QED
    BY <1>1, <1>3, <1>4, <2>1, <2>2, ConsistentTrigger
<1> QED
  BY <1>5, <1>6

(* A counter update seen from one UE. *)
LEMMA Counted ==
  ASSUME TypeOK, NEW u \in UEs, NEW cs \in SUBSET Counter, Count(u, cs)
  PROVE  \A c \in Counter :
           stats'[u][c] = IF c \in cs THEN stats[u][c] + 1 ELSE stats[u][c]
BY DEF Count, TypeOK

(* The actions of a UE that is skipped or evaluates. *)
LEMMA ConsistentExpire ==
  ASSUME TypeOK, NEW u \in UEs, Consistent(u), ExpireConfig(u)
  PROVE  Consistent(u)'
<1>1. /\ proc[u].phase = "UE_EVALUATING"
      /\ UNCHANGED <<cache, serving, meas, interrupted, lossForced, events>>
  BY DEF ExpireConfig, Evaluates
<1>2. proc'[u].phase = "IDLE" /\ conf'[u].cells = {}
  <2>1. proc[u] \in ProcState /\ conf[u] \in ConfState
    BY TypeOfUe
  <2>2. [proc[u] EXCEPT !.phase = "IDLE"].phase = "IDLE"
    BY <2>1 DEF ProcState
  <2>3. [conf[u] EXCEPT !.cells = {}].cells = {}
    BY <2>1 DEF ConfState
  <2>4. proc'[u] = [proc[u] EXCEPT !.phase = "IDLE"]
    BY DEF ExpireConfig, TypeOK
  <2>5. conf'[u] = [conf[u] EXCEPT !.cells = {}]
    BY DEF ExpireConfig, TypeOK
  <2> QED
    BY <2>2, <2>3, <2>4, <2>5
<1>3. UeEvents(u)'
  BY <1>1, <1>2 DEF Consistent, UeEvents, Awaits, Awaited
<1>4. UeConfig(u)' /\ UeInterruption(u)' /\ UeCells(u)'
  BY <1>1, <1>2 DEF Consistent, UeConfig, UeInterruption, UeCells
<1>5. UeCounters(u)'
  <2>1. {"configsExpired"} \in SUBSET Counter
    BY DEF Counter, GlobalCounter
  <2>2. \A c \in Counter : stats'[u][c] =
          IF c = "configsExpired" THEN stats[u][c] + 1 ELSE stats[u][c]
    BY <2>1, Counted DEF ExpireConfig
  <2> QED
    BY <1>1, <1>2, <2>2, TypeOfUe
       DEF Consistent, UeCounters, In, Signalling, Counter, GlobalCounter
<1> QED
  BY <1>3, <1>4, <1>5 DEF Consistent

LEMMA ConsistentExecute ==
  ASSUME TypeOK, NEW u \in UEs, Consistent(u), Execute(u)
  PROVE  Consistent(u)'
<1>1. /\ proc[u].phase = "UE_EVALUATING" /\ ConditionMet(u)
      /\ UNCHANGED <<cache, serving, meas>> /\ UeExecutes(u)
  BY DEF Execute, Evaluates
<1>2. proc[u] \in ProcState /\ conf[u] \in ConfState
  BY TypeOfUe
<1>3. /\ proc'[u].phase = "UE_EXECUTING"
      /\ proc'[u].source = proc[u].source
      /\ proc'[u].target = proc[u].target
  <2>1. proc'[u] = [proc[u] EXCEPT !.phase = "UE_EXECUTING",
                                   !.tttActive = FALSE]
    BY <1>1 DEF UeExecutes, TypeOK
  <2> QED
    BY <1>2, <2>1 DEF ProcState
<1>4. conf'[u].cells = conf[u].cells
  <2>1. conf'[u] = [conf[u] EXCEPT !.pending = TRUE,
                                   !.target = proc[u].target]
    BY <1>1 DEF UeExecutes, TypeOK
  <2> QED
    BY <1>2, <2>1 DEF ConfState
<1>5. /\ Measured(u, proc[u].source) /\ Measured(u, proc[u].target)
      /\ proc[u].source = serving[u]
  BY <1>1 DEF ConditionMet, BothMeasured, Consistent, UeCells
<1>6. interrupted'[u] = TRUE /\ lossForced'[u] = TRUE
  BY <1>1, <1>5 DEF UeExecutes, ErrorModel, Measured, TypeOK
<1> DEFINE e0 == Call("ExecutionComplete", proc[u].source, proc[u].target)
<1>7. UeEvents(u)'
  <2>1. "ExecutionComplete" \in Handler /\ e0 \in Event
    BY <1>2, CallType DEF Handler, ProcState
  <2>2. \A e \in Event : events[u][e] = 0
    BY <1>1 DEF Consistent, UeEvents, Awaits, Awaited
  <2>3. \A e \in Event : events'[u][e] = IF e = e0 THEN 1 ELSE 0
    BY <1>1, <2>1, <2>2 DEF UeExecutes, Schedule, TypeOK
  <2>4. \A e \in Event : Awaits(u, e)' <=> e = e0
    BY <1>2, <1>3, <2>1, CallFields DEF Awaits, Awaited, ProcState
  <2> QED
    BY <2>3, <2>4 DEF UeEvents
<1>8. UeConfig(u)' /\ UeInterruption(u)'
  BY <1>1, <1>3, <1>4, <1>6 DEF Consistent, UeConfig, UeInterruption
<1>9. UeCells(u)'
  BY <1>1, <1>3, <1>5 DEF Consistent, UeCells, Measured
<1>10. UeCounters(u)'
  <2>1. {"executionsTriggered"} \in SUBSET Counter
    BY DEF Counter, GlobalCounter
  <2>2. \A c \in Counter : stats'[u][c] =
          IF c = "executionsTriggered" THEN stats[u][c] + 1 ELSE stats[u][c]
    BY <1>1, <2>1, Counted DEF UeExecutes
  <2> QED
    BY <1>1, <1>3, <2>2, TypeOfUe
       DEF Consistent, UeCounters, In, Signalling, Counter, GlobalCounter
<1> QED
  BY <1>7, <1>8, <1>9, <1>10 DEF Consistent

LEMMA ConsistentEvaluates ==
  ASSUME TypeOK, NEW u \in UEs, Consistent(u),
         \/ SkipUe(u) \/ ExpireConfig(u) \/ KeepWaiting(u)
         \/ StartExecutionTtt(u) \/ HoldExecutionTtt(u) \/ Execute(u)
  PROVE  Consistent(u)'
<1>1. CASE SkipUe(u)
  <2>1. /\ UNCHANGED <<cache, serving, proc, conf, interrupted, lossForced,
                       events, stats>>
        /\ meas[u].serving = serving[u]
    BY <1>1 DEF SkipUe, Consistent, UeCells
  <2>2. meas' = meas
    BY <1>1, <2>1 DEF SkipUe
  <2> QED
    BY <2>1, <2>2, Frame
<1>2. CASE KeepWaiting(u) \/ StartExecutionTtt(u) \/ HoldExecutionTtt(u)
  <2>1. UNCHANGED <<cache, serving, meas, conf, interrupted, lossForced,
                    events, stats>>
    BY <1>2 DEF KeepWaiting, StartExecutionTtt, HoldExecutionTtt, Evaluates
  <2>2. /\ proc'[u].phase = proc[u].phase
        /\ proc'[u].source = proc[u].source
        /\ proc'[u].target = proc[u].target
    <3>1. \/ proc' = proc
          \/ proc' = [proc EXCEPT ![u] = [proc[u] EXCEPT
                        !.tttActive = FALSE, !.tttStart = Never]]
          \/ proc' = [proc EXCEPT ![u] = [proc[u] EXCEPT
                        !.tttActive = TRUE, !.tttStart = now]]
      BY <1>2 DEF KeepWaiting, StartExecutionTtt, HoldExecutionTtt
    <3>2. proc[u] \in ProcState
      BY TypeOfUe
    <3>3. proc'[u] \in {proc[u],
            [proc[u] EXCEPT !.tttActive = FALSE, !.tttStart = Never],
            [proc[u] EXCEPT !.tttActive = TRUE, !.tttStart = now]}
      BY <3>1 DEF TypeOK
    <3> QED
      BY <3>2, <3>3 DEF ProcState
  <2>3. /\ meas'[u].serving = serving'[u]
        /\ interrupted[u] => lossForced'[u]
    BY <2>1 DEF Consistent, UeCells, UeInterruption
  <2>4. \A s \in Sats : Measured(u, s) => Measured(u, s)'
    BY <2>1 DEF Measured
  <2> QED
    BY <2>1, <2>2, <2>3, <2>4, Unmoved
<1> QED
  BY <1>1, <1>2, ConsistentExpire, ConsistentExecute

-------------------------------------------------------------------------------
(* The scheduled events.                                                   *)

(* A dispatched event is the one its UE waits for, and its only one.       *)
LEMMA OnlyEvent ==
  ASSUME TypeOK, NEW u \in UEs, Consistent(u), NEW e \in Event,
         events[u][e] > 0
  PROVE  /\ Awaits(u, e)
         /\ \A f \in Event : events[u][f] = IF f = e THEN 1 ELSE 0
<1>1. Awaits(u, e)
  BY DEF Consistent, UeEvents
<1>2. \A f \in Event : Awaits(u, f) => f = e
  BY <1>1 DEF Awaits, Awaited, Event
<1> QED
  BY <1>1, <1>2 DEF Consistent, UeEvents

(* After it is dispatched there is none; after it is passed on, one. *)
LEMMA AfterEvent ==
  ASSUME TypeOK, NEW u \in UEs, Consistent(u), NEW e \in Event,
         events[u][e] > 0
  PROVE  /\ \A f \in Event : Dispatched(u, e)[u][f] = 0
         /\ \A h \in Handler : h # e.handler =>
              \A f \in Event : Follow(u, e, h)[u][f] =
                IF f = Call(h, e.source, e.target) THEN 1 ELSE 0
<1>1. \A f \in Event : events[u][f] = IF f = e THEN 1 ELSE 0
  BY OnlyEvent
<1>2. \A f \in Event : Dispatched(u, e)[u][f] = 0
  BY <1>1 DEF Dispatched, TypeOK
<1>3. ASSUME NEW h \in Handler, h # e.handler, NEW f \in Event
      PROVE  Follow(u, e, h)[u][f] =
               IF f = Call(h, e.source, e.target) THEN 1 ELSE 0
  <2> DEFINE n == Call(h, e.source, e.target)
  <2>1. e.source \in Cells /\ e.target \in Cells
    BY DEF Event
  <2>2. n \in Event /\ n # e
    BY <1>3, <2>1, CallType, CallFields
  <2>3. Follow(u, e, h) = [events EXCEPT ![u][e] = events[u][e] - 1,
                                         ![u][n] = events[u][n] + 1]
    BY <2>2 DEF Follow
  <2> HIDE DEF n
  <2>4. events \in [UEs -> [Event -> Nat]]
    BY DEF TypeOK
  <2>5. Follow(u, e, h)[u][f] = IF f = n THEN 1 ELSE 0
    BY <1>1, <1>3, <2>2, <2>3, <2>4
  <2> QED
    BY <2>5 DEF n
<1> QED
  BY <1>2, <1>3

LEMMA ConsistentRelay ==
  ASSUME TypeOK, NEW u \in UEs, Consistent(u), NEW e \in Event,
         NEW h, NEW from, NEW to, NEW next,
         <<from, h, to, next>> \in
           {<<"MEAS_REPORT_UPLINK", "ReportArrived",
              "GNB_CHO_DECISION", "SendXnRequest">>,
            <<"GNB_CHO_DECISION", "SendXnRequest",
              "XN_REQUEST", "XnResponse">>,
            <<"XN_REQUEST", "XnResponse",
              "XN_RESPONSE", "SendRrcReconfig">>,
            <<"XN_RESPONSE", "SendRrcReconfig",
              "RRC_RECONFIG_DOWNLINK", "UeStoresConfig">>},
         Dispatch(u, e, h), Relay(u, e, from, to, next)
  PROVE  Consistent(u)'
<1>1. e.handler = h /\ events[u][e] > 0 /\ UNCHANGED cache
  BY DEF Dispatch
<1>2. /\ proc[u].phase = from
      /\ e.source = proc[u].source /\ e.target = proc[u].target
  BY <1>1, OnlyEvent DEF Awaits, Awaited
<1>3. /\ proc' = [proc EXCEPT ![u] = [proc[u] EXCEPT !.phase = to]]
      /\ events' = Follow(u, e, next)
      /\ Count(u, IF to = "RRC_RECONFIG_DOWNLINK" THEN {"configsSent"} ELSE {})
      /\ UNCHANGED <<conf, interrupted, lossForced, serving, meas>>
  BY <1>2 DEF Relay
<1>4. proc[u] \in ProcState /\ next \in Handler /\ next # h
  BY TypeOfUe DEF Handler
<1>5. /\ proc'[u].phase = to
      /\ proc'[u].source = proc[u].source
      /\ proc'[u].target = proc[u].target
  <2>1. proc'[u] = [proc[u] EXCEPT !.phase = to]
    BY <1>3 DEF TypeOK
  <2> QED
    BY <1>4, <2>1 DEF ProcState
<1>6. UeEvents(u)'
  <2>1. e.source \in Cells /\ e.target \in Cells
    BY DEF Event
  <2>2. \A f \in Event : events'[u][f] =
          IF f = Call(next, e.source, e.target) THEN 1 ELSE 0
    BY <1>1, <1>3, <1>4, AfterEvent
  <2>3. \A f \in Event : Awaits(u, f)' <=> f = Call(next, e.source, e.target)
    <3>1. \A f \in Event : <<to, f.handler>> \in Awaited <=> f.handler = next
      BY DEF Awaited
    <3> QED
      BY <1>2, <1>4, <1>5, <2>1, <3>1, CallFields DEF Awaits
  <2> QED
    BY <2>2, <2>3 DEF UeEvents
<1>7. UeConfig(u)' /\ UeInterruption(u)' /\ UeCells(u)'
  BY <1>2, <1>3, <1>5 DEF Consistent, UeConfig, UeInterruption, UeCells
<1>8. UeCounters(u)'
  <2>1. {"configsSent"} \in SUBSET Counter /\ {} \in SUBSET Counter
    BY DEF Counter, GlobalCounter
  <2>2. \A c \in Counter : stats'[u][c] =
          IF c = "configsSent" /\ to = "RRC_RECONFIG_DOWNLINK"
          THEN stats[u][c] + 1 ELSE stats[u][c]
    BY <1>3, <2>1, Counted
  <2> QED
    BY <1>2, <1>5, <2>2, TypeOfUe
       DEF Consistent, UeCounters, In, Signalling, Counter, GlobalCounter
<1> QED
  BY <1>6, <1>7, <1>8 DEF Consistent

LEMMA ConsistentStore ==
  ASSUME TypeOK, NEW u \in UEs, Consistent(u), NEW e \in Event,
         UeStoresConfig(u, e)
  PROVE  Consistent(u)'
<1>1. /\ e.handler = "UeStoresConfig" /\ events[u][e] > 0
      /\ UNCHANGED cache
  BY DEF UeStoresConfig, Dispatch
<1>2. proc[u].phase = "RRC_RECONFIG_DOWNLINK" /\ e.target = proc[u].target
  BY <1>1, OnlyEvent DEF Awaits, Awaited
<1>3. /\ proc' = [proc EXCEPT ![u] = [proc[u] EXCEPT
                    !.phase = "UE_EVALUATING",
                    !.expiry = now + ValidityPeriod,
                    !.tttActive = FALSE, !.tttStart = Never]]
      /\ conf' = [conf EXCEPT ![u].cells = @ \cup {e.target}]
      /\ events' = Dispatched(u, e)
      /\ Count(u, {"configsReceived"})
      /\ UNCHANGED <<interrupted, lossForced, serving, meas>>
  BY <1>2 DEF UeStoresConfig
<1>4. proc[u] \in ProcState /\ conf[u] \in ConfState
  BY TypeOfUe
<1>5. /\ proc'[u].phase = "UE_EVALUATING"
      /\ proc'[u].source = proc[u].source
      /\ proc'[u].target = proc[u].target
  <2>1. proc'[u] = [proc[u] EXCEPT !.phase = "UE_EVALUATING",
                      !.expiry = now + ValidityPeriod,
                      !.tttActive = FALSE, !.tttStart = Never]
    BY <1>3 DEF TypeOK
  <2> QED
    BY <1>4, <2>1 DEF ProcState
<1>6. conf'[u].cells = {proc[u].target}
  <2>1. conf[u].cells = {}
    BY <1>2 DEF Consistent, UeConfig
  <2>2. conf'[u] = [conf[u] EXCEPT !.cells = conf[u].cells \cup {e.target}]
    BY <1>3 DEF TypeOK
  <2> QED
    BY <1>2, <1>4, <2>1, <2>2 DEF ConfState
<1>7. UeEvents(u)'
  <2>1. \A f \in Event : events'[u][f] = 0
    BY <1>1, <1>3, AfterEvent
  <2> QED
    BY <1>5, <2>1 DEF UeEvents, Awaits, Awaited
<1>8. UeConfig(u)' /\ UeInterruption(u)' /\ UeCells(u)'
  BY <1>2, <1>3, <1>5, <1>6
     DEF Consistent, UeConfig, UeInterruption, UeCells
<1>9. UeCounters(u)'
  <2>1. {"configsReceived"} \in SUBSET Counter
    BY DEF Counter, GlobalCounter
  <2>2. \A c \in Counter : stats'[u][c] =
          IF c = "configsReceived" THEN stats[u][c] + 1 ELSE stats[u][c]
    BY <1>3, <2>1, Counted
  <2> QED
    BY <1>2, <1>5, <2>2, TypeOfUe
       DEF Consistent, UeCounters, In, Signalling, Counter, GlobalCounter
<1> QED
  BY <1>7, <1>8, <1>9 DEF Consistent

(* The end of an execution: the UE is idle again and has no configuration, *)
(* interruption or event left, whichever cell it is on.                    *)
LEMMA ConsistentConclude ==
  ASSUME TypeOK, NEW u \in UEs, Consistent(u), NEW e \in Event,
         ExecutionComplete(u, e)
  PROVE  Consistent(u)'
<1>1. /\ e.handler = "ExecutionComplete" /\ events[u][e] > 0
      /\ UNCHANGED cache
  BY DEF ExecutionComplete, Dispatch
<1>2. proc[u].phase = "UE_EXECUTING"
  BY <1>1, OnlyEvent DEF Awaits, Awaited
<1>3. events' = Dispatched(u, e) /\ (HandleFailure(u) \/ CompleteHandover(u, e))
  BY <1>2 DEF ExecutionComplete, Conclude
<1>4. /\ proc[u] \in ProcState /\ conf[u] \in ConfState
      /\ meas[u] \in MeasState /\ meas[u].serving = serving[u]
  BY TypeOfUe DEF Consistent, UeCells
<1>5. proc'[u].phase = "IDLE"
  <2>1. proc'[u] \in {[proc[u] EXCEPT !.phase = "IDLE", !.failed = TRUE],
                      [proc[u] EXCEPT !.phase = "IDLE", !.failed = FALSE]}
    BY <1>3 DEF HandleFailure, CompleteHandover, TypeOK
  <2> QED
    BY <1>4, <2>1 DEF ProcState
<1>6. conf'[u].cells = {}
  <2>1. conf'[u] \in {[conf[u] EXCEPT !.cells = {}],
                      [cells |-> {}, pending |-> FALSE, target |-> NoCell]}
    BY <1>3 DEF HandleFailure, CompleteHandover, TypeOK
  <2> QED
    BY <1>4, <2>1 DEF ConfState
<1>7. interrupted'[u] = FALSE
  BY <1>3 DEF HandleFailure, CompleteHandover, TypeOK
<1>8. meas'[u].serving = serving'[u]
  <2>1. CASE HandleFailure(u)
    BY <1>4, <2>1 DEF HandleFailure
  <2>2. CASE CompleteHandover(u, e)
    <3>1. serving'[u] = e.target
      BY <2>2 DEF CompleteHandover, TypeOK
    <3>2. meas'[u] = [meas[u] EXCEPT !.serving = e.target, !.active = FALSE,
                        !.start = Never, !.candidate = NoCell]
      BY <2>2 DEF CompleteHandover, TypeOK
    <3> QED
      BY <1>4, <3>1, <3>2 DEF MeasState
  <2> QED
    BY <1>3, <2>1, <2>2
<1>9. UeEvents(u)'
  <2>1. \A f \in Event : events'[u][f] = 0
    BY <1>1, <1>3, AfterEvent
  <2> QED
    BY <1>5, <2>1 DEF UeEvents, Awaits, Awaited
<1>10. UeConfig(u)' /\ UeInterruption(u)' /\ UeCells(u)'
  BY <1>5, <1>6, <1>7, <1>8 DEF UeConfig, UeInterruption, UeCells
<1>11. UeCounters(u)'
  <2>1. /\ {"failedAtExecution", "hoFail"} \in SUBSET Counter
        /\ {"successfulHandovers", "hoCount"} \in SUBSET Counter
    BY DEF Counter, GlobalCounter
  <2>2. \/ \A c \in Counter : stats'[u][c] =
             IF c \in {"failedAtExecution", "hoFail"}
             THEN stats[u][c] + 1 ELSE stats[u][c]
        \/ \A c \in Counter : stats'[u][c] =
             IF c \in {"successfulHandovers", "hoCount"}
             THEN stats[u][c] + 1 ELSE stats[u][c]
    <3>1. CASE HandleFailure(u)
      BY <2>1, <3>1, Counted DEF HandleFailure
    <3>2. CASE CompleteHandover(u, e)
      BY <2>1, <3>2, Counted DEF CompleteHandover
    <3> QED
      BY <1>3, <3>1, <3>2
  <2> QED
    BY <1>2, <1>5, <2>2, TypeOfUe
       DEF Consistent, UeCounters, In, Signalling, Counter, GlobalCounter
<1> QED
  BY <1>9, <1>10, <1>11 DEF Consistent

LEMMA ConsistentSignal ==
  ASSUME TypeOK, NEW u \in UEs, Consistent(u), NEW e \in Event, Signal(u, e)
  PROVE  Consistent(u)'
<1>1. CASE ReportArrived(u, e)
  BY <1>1, ConsistentRelay DEF ReportArrived
<1>2. CASE SendXnRequest(u, e)
  BY <1>2, ConsistentRelay DEF SendXnRequest
<1>3. CASE XnResponse(u, e)
  BY <1>3, ConsistentRelay DEF XnResponse
<1>4. CASE SendRrcReconfig(u, e)
  BY <1>4, ConsistentRelay DEF SendRrcReconfig
<1> QED
  BY <1>1, <1>2, <1>3, <1>4, ConsistentStore, ConsistentConclude DEF Signal

-------------------------------------------------------------------------------
(* A step of one UE leaves the others alone.                               *)

LEMMA OthersInCheck ==
  ASSUME TypeOK, NEW u \in UEs, CheckHandover(u), NEW v \in UEs, v # u
  PROVE  /\ serving'[v] = serving[v] /\ meas'[v] = meas[v]
         /\ proc'[v] = proc[v] /\ conf'[v] = conf[v]
         /\ interrupted'[v] = interrupted[v] /\ lossForced'[v] = lossForced[v]
         /\ events'[v] = events[v] /\ stats'[v] = stats[v]
         /\ cache'[v] = cache[v]
<1>1. ASSUME NEW cs, Count(u, cs) PROVE stats'[v] = stats[v]
  BY <1>1 DEF Count, TypeOK
<1>2. ASSUME NEW e PROVE Schedule(u, e)[v] = events[v]
  BY DEF Schedule, TypeOK
<1>3. ASSUME NEW s, NEW t, TriggerProcedure(u, s, t)
      PROVE  proc'[v] = proc[v] /\ events'[v] = events[v] /\ stats'[v] = stats[v]
  BY <1>1, <1>2, <1>3 DEF TriggerProcedure, TypeOK
<1>4. CASE SkipUe(u)
  BY <1>4 DEF SkipUe, TypeOK
<1>5. CASE \/ ReportRlf(u) \/ ClearTrigger(u) \/ StartTrigger(u)
           \/ HoldTrigger(u) \/ Report(u)
  <2>1. UNCHANGED <<cache, conf, interrupted, lossForced>>
    BY <1>5 DEF ReportRlf, ClearTrigger, StartTrigger, HoldTrigger, Report,
                Measures
  <2>2. meas'[v] = meas[v] /\ serving'[v] = serving[v]
    BY <1>5 DEF ReportRlf, ClearTrigger, StartTrigger, HoldTrigger, Report,
                TypeOK
  <2>3. NoProcedure \/ \E s, t : TriggerProcedure(u, s, t)
    BY <1>5 DEF ReportRlf, ClearTrigger, StartTrigger, HoldTrigger, Report
  <2>4. proc'[v] = proc[v] /\ events'[v] = events[v] /\ stats'[v] = stats[v]
    BY <1>3, <2>3 DEF NoProcedure
  <2> QED
    BY <2>1, <2>2, <2>4
<1>6. CASE ExpireConfig(u)
  BY <1>1, <1>6 DEF ExpireConfig, Evaluates, TypeOK
<1>7. CASE KeepWaiting(u) \/ StartExecutionTtt(u) \/ HoldExecutionTtt(u)
  BY <1>7 DEF KeepWaiting, StartExecutionTtt, HoldExecutionTtt, Evaluates,
              TypeOK
<1>8. CASE Execute(u)
  BY <1>1, <1>2, <1>8 DEF Execute, UeExecutes, Evaluates, TypeOK
<1> QED
  BY <1>4, <1>5, <1>6, <1>7, <1>8 DEF CheckHandover

LEMMA OthersInSignal ==
  ASSUME TypeOK, NEW u \in UEs, NEW e \in Event, Signal(u, e),
         NEW v \in UEs, v # u
  PROVE  /\ serving'[v] = serving[v] /\ meas'[v] = meas[v]
         /\ proc'[v] = proc[v] /\ conf'[v] = conf[v]
         /\ interrupted'[v] = interrupted[v] /\ lossForced'[v] = lossForced[v]
         /\ events'[v] = events[v] /\ stats'[v] = stats[v]
         /\ cache'[v] = cache[v]
<1>1. ASSUME NEW cs, Count(u, cs) PROVE stats'[v] = stats[v]
  BY <1>1 DEF Count, TypeOK
<1>2. Dispatched(u, e)[v] = events[v]
  BY DEF Dispatched, TypeOK
<1>3. ASSUME NEW h PROVE Follow(u, e, h)[v] = events[v]
  BY DEF Follow, TypeOK
<1>4. UNCHANGED cache
  BY DEF Signal, ReportArrived, SendXnRequest, XnResponse, SendRrcReconfig,
         UeStoresConfig, ExecutionComplete, Dispatch
<1>5. CASE Dropped(u, e)
  BY <1>2, <1>4, <1>5 DEF Dropped
<1>6. ASSUME NEW from, NEW to, NEW next, Relay(u, e, from, to, next),
             ~Dropped(u, e)
      PROVE  /\ proc'[v] = proc[v] /\ events'[v] = events[v]
             /\ stats'[v] = stats[v]
             /\ UNCHANGED <<conf, interrupted, lossForced, serving, meas>>
  BY <1>1, <1>3, <1>6 DEF Relay, TypeOK
<1>7. CASE ~Dropped(u, e) /\ (\/ ReportArrived(u, e) \/ SendXnRequest(u, e)
                              \/ XnResponse(u, e) \/ SendRrcReconfig(u, e))
  BY <1>4, <1>6, <1>7
     DEF ReportArrived, SendXnRequest, XnResponse, SendRrcReconfig
<1>8. CASE ~Dropped(u, e) /\ UeStoresConfig(u, e)
  BY <1>1, <1>2, <1>4, <1>8 DEF UeStoresConfig, TypeOK
<1>9. CASE ~Dropped(u, e) /\ ExecutionComplete(u, e)
  <2>1. events' = Dispatched(u, e) /\ (HandleFailure(u) \/ CompleteHandover(u, e))
    BY <1>9 DEF ExecutionComplete, Conclude
  <2> QED
    BY <1>1, <1>2, <1>4, <2>1 DEF HandleFailure, CompleteHandover, TypeOK
<1> QED
  BY <1>5, <1>7, <1>8, <1>9 DEF Signal

LEMMA ConsistentNext ==
  ASSUME IInv, Next, NEW v \in UEs
  PROVE  Consistent(v)'
<1>1. TypeOK /\ Consistent(v)
  BY DEF IInv
<1>2. CASE BeginCheck
  BY <1>2, ConsistentBeginCheck
<1>3. ASSUME NEW u \in UEs, CheckHandover(u)
      PROVE  Consistent(v)'
  <2>1. CASE v = u
    BY <1>1, <1>3, <2>1, ConsistentMeasures, ConsistentEvaluates
       DEF CheckHandover
  <2>2. CASE v # u
    BY <1>1, <1>3, <2>2, OthersInCheck, Frame
  <2> QED
    BY <2>1, <2>2
<1>4. ASSUME NEW u \in UEs, NEW e \in Event, Signal(u, e)
      PROVE  Consistent(v)'
  <2>1. CASE v = u
    BY <1>1, <1>4, <2>1, ConsistentSignal
  <2>2. CASE v # u
    BY <1>1, <1>4, <2>2, OthersInSignal, Frame
  <2> QED
    BY <2>1, <2>2
<1> QED
  BY <1>2, <1>3, <1>4 DEF Next

-------------------------------------------------------------------------------
(* The theorems.                                                           *)

LEMMA InvariantNext ==
  ASSUME IInv, [Next]_vars
  PROVE  IInv'
<1>1. CASE Next
  <2>1. TypeOK'
    BY <1>1, TypeBeginCheck, TypeMeasures, TypeEvaluates, TypeSignal
       DEF IInv, Next, CheckHandover
  <2> QED
    BY <1>1, <2>1, ConsistentNext DEF IInv
<1>2. CASE UNCHANGED vars
  <2>1. TypeOK'
    BY <1>2 DEF IInv, TypeOK, vars
  <2>2. ASSUME NEW v \in UEs PROVE Consistent(v)'
    BY <1>2, Frame DEF IInv, vars
  <2> QED
    BY <2>1, <2>2 DEF IInv
<1> QED
  BY <1>1, <1>2

(* The phase guards, the events, the stored configuration, the             *)
(* interruption, the cells and the counters of every UE stay consistent    *)
(* under every handler, in every order in which they can be dispatched.    *)
THEOREM InvariantHolds == Spec => []IInv
<1>1. Init => IInv
  BY TypeInit, ConsistentInit DEF IInv
<1>2. IInv /\ [Next]_vars => IInv'
  BY InvariantNext
<1> QED
  BY <1>1, <1>2, PTL DEF Spec

(* A UE has exactly the one scheduled event its phase waits for, bound to  *)
(* the cells of its procedure: no handler ever runs for an event of an     *)
(* earlier procedure, although Simulator::Cancel is never called.          *)
THEOREM EventsConsistent == Spec => []EventMatchesPhase
BY InvariantHolds, IInvImplies, PTL

(* choConfigs holds the target of the procedure from CHO_Phase5 until the  *)
(* procedure ends, and nothing at any other time.                          *)
THEOREM ConfigsConsistent == Spec => []ConfigMatchesPhase
BY InvariantHolds, IInvImplies, PTL

(* interruptionActive is set exactly during UE_EXECUTING, and the error    *)
(* models then drop every packet.                                          *)
THEOREM InterruptionConsistent == Spec => []InterruptionMatchesPhase
BY InvariantHolds, IInvImplies, PTL

(* The measurement state, the context and the procedure agree on the       *)
(* serving cell, and only a measured other cell is ever executed to.       *)
THEOREM CellsConsistent == Spec => []ProcedureLeavesServing
BY InvariantHolds, IInvImplies, PTL

(* No procedure is lost or counted twice in ChoNtnStatistics.              *)
THEOREM CountersConsistent == Spec => []ProceduresAccounted
BY InvariantHolds, IInvImplies, PTL
===============================================================================
