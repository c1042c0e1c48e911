----------------------------- MODULE ChoStepProofs -----------------------------
(***************************************************************************)
(* What one step does to the procedure and the measurements of one UE,     *)
(* and from that: the action properties of ChoProperties, and the life     *)
(* cycle of ChoLifecycle that the CHO machine implements.                  *)
(***************************************************************************)
EXTENDS ChoInvariantProofs

(* The procedure of u goes on in phase p, or ends. *)
Moves(u, p) ==
  /\ serving'[u] = serving[u]
  /\ proc'[u].phase = p
  /\ proc'[u].source = proc[u].source
  /\ proc'[u].target = proc[u].target
  /\ proc'[u].startTime = proc[u].startTime
  /\ proc'[u].expiry = proc[u].expiry
  /\ proc'[u].failed = proc[u].failed

Reselects(u) == /\ proc[u].phase = "IDLE"
                /\ proc'[u] = proc[u]
                /\ serving'[u] = NoCell

Triggers(u) == /\ proc[u].phase = "IDLE"
               /\ serving[u] # NoCell
               /\ serving'[u] = serving[u]
               /\ proc'[u].phase = "MEAS_REPORT_UPLINK"
               /\ proc'[u].target \in Cells \ {serving[u]}
               /\ proc'[u].startTime = now

Expires(u) == /\ proc[u].phase = "UE_EVALUATING"
              /\ Moves(u, "IDLE")

Executes(u) == /\ proc[u].phase = "UE_EVALUATING"
               /\ Pending(u) /\ ConditionMet(u)
               /\ Moves(u, "UE_EXECUTING")

Waits(u) == /\ Moves(u, proc[u].phase)
            /\ proc[u].phase = "UE_EVALUATING" => Pending(u)

(* What a visit of u does to its procedure. *)
LEMMA WaysOfCheck ==
  ASSUME TypeOK, NEW u \in UEs, Consistent(u), CheckHandover(u)
  PROVE  Waits(u) \/ Reselects(u) \/ Triggers(u) \/ Expires(u) \/ Executes(u)
<1>1. /\ proc[u] \in ProcState /\ proc \in [UEs -> ProcState]
      /\ serving[u] \in Cells /\ serving \in [UEs -> Cells]
  BY TypeOfUe DEF TypeOK
<1>2. meas[u].serving = serving[u]
  BY DEF Consistent, UeCells
<1>3. CASE SkipUe(u)
  BY <1>3 DEF SkipUe, Waits, Moves
<1>4. ASSUME NEW t \in Cells \ {serving[u]}, TriggerProcedure(u, serving[u], t),
             MayMeasure(u), serving' = serving
      PROVE  Triggers(u)
  <2>1. proc'[u] = [proc[u] EXCEPT !.phase = "MEAS_REPORT_UPLINK",
                      !.source = serving[u], !.target = t,
                      !.startTime = now, !.failed = FALSE]
    BY <1>1, <1>4 DEF TriggerProcedure
  <2>2. /\ proc'[u].phase = "MEAS_REPORT_UPLINK" /\ proc'[u].target = t
        /\ proc'[u].startTime = now
    BY <1>1, <2>1 DEF ProcState
  <2> QED
    BY <1>4, <2>2 DEF Triggers, MayMeasure
<1>5. CASE ReportRlf(u)
  <2>1. MayMeasure(u)
    BY <1>5 DEF ReportRlf, Measures
  <2>2. CASE ForcedReselect
    <3>1. serving' = [serving EXCEPT ![u] = NoCell] /\ proc' = proc
      BY <1>5, <2>2 DEF ReportRlf, NoProcedure
    <3> QED
      BY <1>1, <2>1, <3>1 DEF Reselects, MayMeasure
  <2>3. CASE ~ForcedReselect
    <3>1. TriggerProcedure(u, serving[u], NoCell) /\ serving' = serving
      BY <1>2, <1>5, <2>3 DEF ReportRlf
    <3>2. NoCell \in Cells \ {serving[u]}
      BY <2>1, CellFacts DEF MayMeasure
    <3> QED
      BY <1>4, <2>1, <3>1, <3>2
  <2> QED
    BY <2>2, <2>3
<1>6. CASE ClearTrigger(u) \/ StartTrigger(u) \/ HoldTrigger(u)
  <2>1. proc' = proc /\ serving' = serving /\ proc[u].phase = "IDLE"
    BY <1>6 DEF ClearTrigger, StartTrigger, HoldTrigger, Measures, MayMeasure,
                NoProcedure
  <2> QED
    BY <2>1 DEF Waits, Moves
<1>7. CASE Report(u)
  <2>1. MayMeasure(u) /\ serving' = serving
    BY <1>7 DEF Report, Measures
  <2>2. PICK n \in Cells :
          /\ Persists(u, n)
          /\ IF n = NoCell /\ ForcedReselect
             THEN NoProcedure
             ELSE TriggerProcedure(u, serving[u], n)
    BY <1>2, <1>7 DEF Report
  <2>3. CASE n = NoCell /\ ForcedReselect
    BY <2>1, <2>2, <2>3 DEF NoProcedure, MayMeasure, Waits, Moves
  <2>4. CASE ~(n = NoCell /\ ForcedReselect)
    <3>1. n # serving[u]
      BY <1>2, <2>1, <2>2 DEF Persists, IsBestNeighbour, MayMeasure
    <3> QED
      BY <1>4, <2>1, <2>2, <2>4, <3>1
  <2> QED
    BY <2>3, <2>4
<1>8. CASE ExpireConfig(u)
  <2>1. /\ proc[u].phase = "UE_EVALUATING" /\ serving' = serving
        /\ proc'[u] = [proc[u] EXCEPT !.phase = "IDLE"]
    BY <1>1, <1>8 DEF ExpireConfig, Evaluates
  <2> QED
    BY <1>1, <2>1 DEF Expires, Moves, ProcState
<1>9. CASE KeepWaiting(u)
  <2>1. proc[u].phase = "UE_EVALUATING" /\ serving' = serving /\ Pending(u)
    BY <1>9 DEF KeepWaiting, Evaluates
  <2>2. \/ proc'[u] = proc[u]
        \/ proc'[u] = [proc[u] EXCEPT !.tttActive = FALSE, !.tttStart = Never]
    BY <1>1, <1>9 DEF KeepWaiting
  <2> QED
    BY <1>1, <2>1, <2>2 DEF Waits, Moves, ProcState
<1>10. CASE StartExecutionTtt(u) \/ HoldExecutionTtt(u)
  <2>1. proc[u].phase = "UE_EVALUATING" /\ serving' = serving /\ Pending(u)
    BY <1>10 DEF StartExecutionTtt, HoldExecutionTtt, Evaluates
  <2>2. \/ proc'[u] = proc[u]
        \/ proc'[u] = [proc[u] EXCEPT !.tttActive = TRUE, !.tttStart = now]
    BY <1>1, <1>10 DEF StartExecutionTtt, HoldExecutionTtt
  <2> QED
    BY <1>1, <2>1, <2>2 DEF Waits, Moves, ProcState
<1>11. CASE Execute(u)
  <2>1. /\ proc[u].phase = "UE_EVALUATING" /\ serving' = serving
        /\ Pending(u) /\ ConditionMet(u)
        /\ proc'[u] = [proc[u] EXCEPT !.phase = "UE_EXECUTING",
                                      !.tttActive = FALSE]
    BY <1>1, <1>11 DEF Execute, Evaluates, UeExecutes
  <2> QED
    BY <1>1, <2>1 DEF Executes, Moves, ProcState
<1> QED
  BY <1>3, <1>5, <1>6, <1>7, <1>8, <1>9, <1>10, <1>11 DEF CheckHandover

Signalled == {"MEAS_REPORT_UPLINK", "GNB_CHO_DECISION", "XN_REQUEST",
              "XN_RESPONSE", "RRC_RECONFIG_DOWNLINK"}

Relays(u) == /\ proc[u].phase \in Signalled
             /\ \E p \in Signalled : Moves(u, p)

Stores(u) == /\ proc[u].phase \in Signalled
             /\ serving'[u] = serving[u]
             /\ proc'[u].phase = "UE_EVALUATING"
             /\ proc'[u].source = proc[u].source
             /\ proc'[u].target = proc[u].target
             /\ proc'[u].startTime = proc[u].startTime
             /\ proc'[u].expiry = now + ValidityPeriod
             /\ ~proc'[u].tttActive
             /\ proc'[u].failed = proc[u].failed

(* An execution ends, with the UE on cell s. *)
Ends(u, s) == /\ proc[u].phase = "UE_EXECUTING"
              /\ proc'[u].phase = "IDLE"
              /\ proc'[u].target = proc[u].target
              /\ proc'[u].startTime = proc[u].startTime
              /\ proc'[u].expiry = proc[u].expiry
              /\ serving'[u] = s

Fails(u) == Ends(u, serving[u]) /\ proc'[u].failed

Completes(u) == Ends(u, proc[u].target) /\ ~proc'[u].failed

(* What a handler does to the procedure of its UE. *)
LEMMA WaysOfSignal ==
  ASSUME TypeOK, NEW u \in UEs, Consistent(u), NEW e \in Event, Signal(u, e)
  PROVE  Relays(u) \/ Stores(u) \/ Fails(u) \/ Completes(u)
<1>1. /\ proc[u] \in ProcState /\ proc \in [UEs -> ProcState]
      /\ serving \in [UEs -> Cells]
  BY TypeOfUe DEF TypeOK
<1>2. events[u][e] > 0
  BY DEF Signal, ReportArrived, SendXnRequest, XnResponse, SendRrcReconfig,
         UeStoresConfig, ExecutionComplete, Dispatch
<1>3. Awaits(u, e)
  BY <1>2, OnlyEvent
<1>4. ASSUME NEW from \in Signalled, NEW to \in Signalled, NEW next,
             proc[u].phase = from, Relay(u, e, from, to, next)
      PROVE  Relays(u)
  <2>1. /\ proc'[u] = [proc[u] EXCEPT !.phase = to]
        /\ serving' = serving
    BY <1>1, <1>4 DEF Relay
  <2> QED
    BY <1>1, <1>4, <2>1 DEF Relays, Moves, ProcState
<1>5. CASE ReportArrived(u, e)
  <2>1. proc[u].phase = "MEAS_REPORT_UPLINK"
    BY <1>3, <1>5 DEF Awaits, Awaited, ReportArrived, Dispatch
  <2> QED
    BY <1>4, <1>5, <2>1 DEF ReportArrived, Signalled
<1>6. CASE SendXnRequest(u, e)
  <2>1. proc[u].phase = "GNB_CHO_DECISION"
    BY <1>3, <1>6 DEF Awaits, Awaited, SendXnRequest, Dispatch
  <2> QED
    BY <1>4, <1>6, <2>1 DEF SendXnRequest, Signalled
<1>7. CASE XnResponse(u, e)
  <2>1. proc[u].phase = "XN_REQUEST"
    BY <1>3, <1>7 DEF Awaits, Awaited, XnResponse, Dispatch
  <2> QED
    BY <1>4, <1>7, <2>1 DEF XnResponse, Signalled
<1>8. CASE SendRrcReconfig(u, e)
  <2>1. proc[u].phase = "XN_RESPONSE"
    BY <1>3, <1>8 DEF Awaits, Awaited, SendRrcReconfig, Dispatch
  <2> QED
    BY <1>4, <1>8, <2>1 DEF SendRrcReconfig, Signalled
<1>9. CASE UeStoresConfig(u, e)
  <2>1. proc[u].phase = "RRC_RECONFIG_DOWNLINK"
    BY <1>3, <1>9 DEF Awaits, Awaited, UeStoresConfig, Dispatch
  <2>2. /\ proc'[u] = [proc[u] EXCEPT !.phase = "UE_EVALUATING",
                         !.expiry = now + ValidityPeriod,
                         !.tttActive = FALSE, !.tttStart = Never]
        /\ serving' = serving
    BY <1>1, <1>9, <2>1 DEF UeStoresConfig
  <2> QED
    BY <1>1, <2>1, <2>2 DEF Stores, Signalled, ProcState
<1>10. CASE ExecutionComplete(u, e)
  <2>1. proc[u].phase = "UE_EXECUTING" /\ e.target = proc[u].target
    BY <1>3, <1>10 DEF Awaits, Awaited, ExecutionComplete, Dispatch
  <2>2. Conclude(u, e)
    BY <1>10, <2>1 DEF ExecutionComplete
  <2>3. CASE HandleFailure(u)
    <3>1. /\ proc'[u] = [proc[u] EXCEPT !.phase = "IDLE", !.failed = TRUE]
          /\ serving' = serving
      BY <1>1, <2>3 DEF HandleFailure
    <3> QED
      BY <1>1, <2>1, <3>1 DEF Fails, Ends, ProcState
  <2>4. CASE CompleteHandover(u, e)
    <3>1. /\ proc'[u] = [proc[u] EXCEPT !.phase = "IDLE", !.failed = FALSE]
          /\ serving'[u] = e.target
      BY <1>1, <2>4 DEF CompleteHandover
    <3> QED
      BY <1>1, <2>1, <3>1 DEF Completes, Ends, ProcState
  <2> QED
    BY <2>2, <2>3, <2>4 DEF Conclude
<1> QED
  BY <1>5, <1>6, <1>7, <1>8, <1>9, <1>10 DEF Signal

(* What a visit of u does to its measurement state, n being the best       *)
(* neighbour.                                                              *)
ReportsTo(u, n) == /\ proc'[u].phase = "MEAS_REPORT_UPLINK"
                   /\ proc'[u].source = serving[u]
                   /\ proc'[u].target = n
                   /\ proc'[u].startTime = now
                   /\ proc'[u].failed = FALSE

SameTrigger(u) == /\ meas'[u].active = meas[u].active
                  /\ meas'[u].start = meas[u].start
                  /\ meas'[u].candidate = meas[u].candidate

Passes(u) == /\ ~MayMeasure(u)
             /\ meas'[u] = meas[u]
             /\ serving'[u] = serving[u]
             /\ proc[u].phase = "IDLE" => proc'[u] = proc[u]

Loses(u) ==
  /\ MayMeasure(u)
  /\ serving[u] \notin Detected(u)
  /\ IF ForcedReselect
     THEN ~meas'[u].active /\ serving'[u] = NoCell /\ proc'[u] = proc[u]
     ELSE SameTrigger(u) /\ serving'[u] = serving[u] /\ ReportsTo(u, NoCell)

Ranks(u, n) == /\ MayMeasure(u)
               /\ serving'[u] = serving[u]
               /\ serving[u] \in Detected(u)
               /\ IsBestNeighbour(u, n)

Clears(u, n) == /\ Ranks(u, n)
                /\ ~Triggered(u, n)
                /\ ~meas'[u].active
                /\ proc'[u] = proc[u]

Starts(u, n) == /\ Ranks(u, n)
                /\ Triggered(u, n)
                /\ \/ ~meas[u].active
                   \/ /\ ~NtnTrigger(At(u, serving[u]))
                      /\ n # meas[u].candidate
                /\ meas'[u].active
                /\ meas'[u].start = now
                /\ meas'[u].candidate = n
                /\ proc'[u] = proc[u]

Continues(u, n) == /\ Ranks(u, n)
                   /\ Triggered(u, n)
                   /\ meas[u].active
                   /\ \/ NtnTrigger(At(u, serving[u]))
                      \/ n = meas[u].candidate

Holds(u, n) == /\ Continues(u, n)
               /\ now - meas[u].start < TimeToTrigger
               /\ SameTrigger(u)
               /\ proc'[u] = proc[u]

Reports(u, n) == /\ Continues(u, n)
                 /\ now - meas[u].start >= TimeToTrigger
                 /\ ~meas'[u].active
                 /\ IF n = NoCell /\ ForcedReselect THEN proc'[u] = proc[u]
                                                    ELSE ReportsTo(u, n)

LEMMA Reported ==
  ASSUME TypeOK, NEW u \in UEs, NEW n \in Cells,
         TriggerProcedure(u, serving[u], n)
  PROVE  ReportsTo(u, n)
<1>1. proc'[u] = [proc[u] EXCEPT !.phase = "MEAS_REPORT_UPLINK",
                    !.source = serving[u], !.target = n,
                    !.startTime = now, !.failed = FALSE]
  BY DEF TriggerProcedure, TypeOK
<1> QED
  BY <1>1, TypeOfUe DEF ProcState, ReportsTo

LEMMA WaysOfMeasuring ==
  ASSUME TypeOK, NEW u \in UEs, Consistent(u), CheckHandover(u)
  PROVE  \/ Passes(u)
         \/ /\ meas'[u].lastTime = now
            /\ \/ Loses(u)
               \/ \E n \in Cells :
                    Clears(u, n) \/ Starts(u, n) \/ Holds(u, n) \/ Reports(u, n)
<1>1. /\ meas[u] \in MeasState /\ meas \in [UEs -> MeasState]
      /\ meas[u].serving = serving[u]
      /\ serving[u] \in Cells /\ serving \in [UEs -> Cells]
  BY TypeOfUe DEF Consistent, UeCells, TypeOK
<1>2. CASE SkipUe(u)
  BY <1>1, <1>2 DEF SkipUe, Passes
<1>3. CASE \/ ExpireConfig(u) \/ KeepWaiting(u) \/ StartExecutionTtt(u)
           \/ HoldExecutionTtt(u) \/ Execute(u)
  BY <1>3 DEF ExpireConfig, KeepWaiting, StartExecutionTtt, HoldExecutionTtt,
     Execute, Evaluates, MayMeasure, Passes
<1>4. CASE ReportRlf(u)
  <2>1. MayMeasure(u) /\ serving[u] \notin Detected(u)
    BY <1>1, <1>4 DEF ReportRlf, Measures
  <2>2. CASE ForcedReselect
    <3>1. /\ serving' = [serving EXCEPT ![u] = NoCell] /\ proc' = proc
          /\ meas'[u] = [meas[u] EXCEPT !.lastTime = now,
                           !.serving = NoCell, !.active = FALSE]
      BY <1>1, <1>4, <2>2 DEF ReportRlf, NoProcedure
    <3> QED
      BY <1>1, <2>1, <2>2, <3>1 DEF Loses, MeasState
  <2>3. CASE ~ForcedReselect
    <3>1. /\ serving' = serving /\ TriggerProcedure(u, serving[u], NoCell)
          /\ meas'[u] = [meas[u] EXCEPT !.lastTime = now]
      BY <1>1, <1>4, <2>3 DEF ReportRlf
    <3>2. ReportsTo(u, NoCell)
      BY <3>1, Reported, CellFacts
    <3> QED
      BY <1>1, <2>1, <2>3, <3>1, <3>2 DEF Loses, SameTrigger, MeasState
  <2> QED
    BY <2>2, <2>3
<1>5. CASE ClearTrigger(u)
  <2>1. /\ MayMeasure(u) /\ serving[u] \in Detected(u)
        /\ serving' = serving /\ proc' = proc
        /\ meas'[u] = [meas[u] EXCEPT !.lastTime = now, !.active = FALSE,
                         !.start = Never, !.candidate = NoCell]
    BY <1>1, <1>5 DEF ClearTrigger, Measures, NoProcedure
  <2>2. PICK n \in Cells : IsBestNeighbour(u, n) /\ ~Triggered(u, n)
    BY <1>5 DEF ClearTrigger
  <2>3. Clears(u, n) /\ meas'[u].lastTime = now
    BY <1>1, <2>1, <2>2 DEF Clears, Ranks, MeasState
  <2> QED
    BY <2>3
<1>6. CASE StartTrigger(u)
  <2>1. PICK n \in Cells :
          /\ IsBestNeighbour(u, n) /\ Triggered(u, n)
          /\ \/ ~meas[u].active
             \/ /\ ~NtnTrigger(At(u, serving[u]))
                /\ n # meas[u].candidate
          /\ meas' = [meas EXCEPT ![u] = [@ EXCEPT !.lastTime = now,
                        !.active = TRUE, !.start = now, !.candidate = n]]
    BY <1>1, <1>6 DEF StartTrigger
  <2>2. /\ MayMeasure(u) /\ serving[u] \in Detected(u)
        /\ serving' = serving /\ proc' = proc
        /\ meas'[u] = [meas[u] EXCEPT !.lastTime = now, !.active = TRUE,
                         !.start = now, !.candidate = n]
    BY <1>1, <1>6, <2>1 DEF StartTrigger, Measures, NoProcedure
  <2>3. Starts(u, n) /\ meas'[u].lastTime = now
    BY <1>1, <2>1, <2>2 DEF Starts, Ranks, MeasState
  <2> QED
    BY <2>3
<1>7. CASE HoldTrigger(u)
  <2>1. PICK n \in Cells : Persists(u, n)
    BY <1>7 DEF HoldTrigger
  <2>2. /\ MayMeasure(u)
        /\ serving' = serving /\ proc' = proc
        /\ now - meas[u].start < TimeToTrigger
        /\ meas'[u] = [meas[u] EXCEPT !.lastTime = now]
    BY <1>1, <1>7 DEF HoldTrigger, Measures, NoProcedure
  <2>3. Holds(u, n) /\ meas'[u].lastTime = now
    BY <1>1, <2>1, <2>2
       DEF Holds, Continues, Ranks, Persists, SameTrigger, MeasState
  <2> QED
    BY <2>3
<1>8. CASE Report(u)
  <2>1. PICK n \in Cells :
          /\ Persists(u, n)
          /\ IF n = NoCell /\ ForcedReselect
             THEN NoProcedure
             ELSE TriggerProcedure(u, serving[u], n)
    BY <1>1, <1>8 DEF Report
  <2>2. /\ MayMeasure(u) /\ serving' = serving
        /\ now - meas[u].start >= TimeToTrigger
        /\ meas'[u] = [meas[u] EXCEPT !.lastTime = now, !.active = FALSE]
    BY <1>1, <1>8 DEF Report, Measures
  <2>3. IF n = NoCell /\ ForcedReselect THEN proc'[u] = proc[u]
                                        ELSE ReportsTo(u, n)
    BY <2>1, Reported DEF NoProcedure
  <2>4. Continues(u, n)
    BY <1>1, <2>1, <2>2 DEF Continues, Ranks, Persists
  <2>5. Reports(u, n) /\ meas'[u].lastTime = now
    BY <1>1, <2>2, <2>3, <2>4 DEF Reports, MeasState
  <2> QED
    BY <2>5
<1> QED
  BY <1>2, <1>3, <1>4, <1>5, <1>6, <1>7, <1>8 DEF CheckHandover

(* A procedure starts nowhere but in the visit of its UE. *)
LEMMA TriggeredByCheck ==
  ASSUME IInv, Next, NEW u \in UEs,
         proc[u].phase = "IDLE", proc'[u].phase # "IDLE"
  PROVE  CheckHandover(u)
<1>1. TypeOK /\ Consistent(u)
  BY DEF IInv
<1>2. ~BeginCheck
  BY DEF BeginCheck
<1>3. ASSUME NEW w \in UEs, NEW e \in Event, Signal(w, e)
      PROVE  FALSE
  <2>1. w = u
    BY <1>1, <1>3, OthersInSignal
  <2> QED
    BY <1>1, <1>3, <2>1, WaysOfSignal
       DEF Relays, Stores, Fails, Completes, Ends, Signalled
<1>4. \A w \in UEs : CheckHandover(w) => w = u
  BY <1>1, OthersInCheck
<1> QED
  BY <1>2, <1>3, <1>4 DEF Next

-------------------------------------------------------------------------------
(* The three ways a step can change the serving cell of one UE. *)
ServingChange(u) ==
  \/ serving[u] = NoCell /\ turn = NumUes /\ turn' = 0
  \/ /\ proc[u].phase = "UE_EXECUTING"
     /\ conf[u].cells = {serving'[u]}
     /\ TargetViable(u, serving'[u])
  \/ ForcedReselect /\ proc[u].phase = "IDLE" /\ serving'[u] = NoCell

LEMMA ServingStep ==
  ASSUME IInv, Next, NEW v \in UEs, serving'[v] # serving[v]
  PROVE  ServingChange(v)
<1>1. TypeOK /\ Consistent(v)
  BY DEF IInv
<1>2. CASE BeginCheck
  <2>1. turn = NumUes /\ turn' = 0
    BY <1>2 DEF BeginCheck
  <2>2. serving[v] # NoCell => serving'[v] = serving[v]
    BY <1>2 DEF BeginCheck
  <2> QED
    BY <2>1, <2>2 DEF ServingChange
<1>3. ASSUME NEW u \in UEs, CheckHandover(u)
      PROVE  ServingChange(v)
  <2>1. v = u
    BY <1>1, <1>3, OthersInCheck
  <2>2. ReportRlf(v)
    BY <1>3, <2>1 DEF CheckHandover, SkipUe, ClearTrigger, StartTrigger,
       HoldTrigger, Report, ExpireConfig, KeepWaiting, StartExecutionTtt,
       HoldExecutionTtt, Execute, Evaluates
  <2>3. /\ ForcedReselect /\ proc[v].phase = "IDLE"
        /\ serving' = [serving EXCEPT ![v] = NoCell]
    BY <2>2 DEF ReportRlf, Measures, MayMeasure
  <2> QED
    BY <1>1, <2>3 DEF ServingChange, TypeOK
<1>4. ASSUME NEW u \in UEs, NEW e \in Event, Signal(u, e)
      PROVE  ServingChange(v)
  <2>1. v = u
    BY <1>1, <1>4, OthersInSignal
  <2>2. ExecutionComplete(v, e) /\ ~Dropped(v, e)
    BY <1>4, <2>1 DEF Signal, ReportArrived, SendXnRequest, XnResponse,
       SendRrcReconfig, UeStoresConfig, Relay, Dropped
  <2>3. /\ e.handler = "ExecutionComplete" /\ events[v][e] > 0
        /\ TargetViable(v, e.target) /\ CompleteHandover(v, e)
    BY <2>2 DEF ExecutionComplete, Dispatch, Conclude, HandleFailure
  <2>4. proc[v].phase = "UE_EXECUTING" /\ proc[v].target = e.target
    BY <1>1, <2>3, OnlyEvent DEF Awaits, Awaited
  <2>5. conf[v].cells = {e.target}
    BY <1>1, <2>4 DEF Consistent, UeConfig
  <2>6. serving'[v] = e.target
    BY <1>1, <2>3 DEF CompleteHandover, TypeOK
  <2> QED
    BY <2>3, <2>4, <2>5, <2>6 DEF ServingChange
<1> QED
  BY <1>2, <1>3, <1>4 DEF Next

(* A failure is counted at the end of an execution only. *)
LEMMA FailureCounted ==
  ASSUME IInv, Next, NEW u \in UEs,
         stats'[u]["failedAtExecution"] # stats[u]["failedAtExecution"]
  PROVE  proc[u].phase = "UE_EXECUTING"
<1>1. TypeOK /\ "failedAtExecution" \in Counter
  BY DEF IInv, Counter, GlobalCounter
<1>2. ASSUME NEW cs, "failedAtExecution" \notin cs, Count(u, cs) PROVE FALSE
  <2>1. stats'[u] = [c \in Counter |-> IF c \in cs THEN stats[u][c] + 1
                                                  ELSE stats[u][c]]
    BY <1>1, <1>2 DEF Count, TypeOK
  <2> QED
    BY <1>1, <1>2, <2>1
<1>3. CASE BeginCheck
  BY <1>3 DEF BeginCheck
<1>4. ASSUME NEW w \in UEs, CheckHandover(w) PROVE FALSE
  <2>1. CheckHandover(u)
    BY <1>1, <1>4, OthersInCheck
  <2>2. CASE ReportRlf(u) \/ Report(u)
    BY <1>2, <2>2 DEF ReportRlf, Report, TriggerProcedure, NoProcedure
  <2>3. CASE ExpireConfig(u) \/ Execute(u)
    BY <1>2, <2>3 DEF ExpireConfig, Execute, UeExecutes
  <2>4. CASE \/ SkipUe(u) \/ ClearTrigger(u) \/ StartTrigger(u)
             \/ HoldTrigger(u) \/ KeepWaiting(u) \/ StartExecutionTtt(u)
             \/ HoldExecutionTtt(u)
    BY <2>4 DEF SkipUe, ClearTrigger, StartTrigger, HoldTrigger,
       KeepWaiting, StartExecutionTtt, HoldExecutionTtt, NoProcedure
  <2> QED
    BY <2>1, <2>2, <2>3, <2>4 DEF CheckHandover
<1>5. ASSUME NEW w \in UEs, NEW e \in Event, Signal(w, e)
      PROVE  proc[u].phase = "UE_EXECUTING"
  <2>1. Signal(u, e)
    BY <1>1, <1>5, OthersInSignal
  <2>2. CASE \/ ReportArrived(u, e) \/ SendXnRequest(u, e)
             \/ XnResponse(u, e) \/ SendRrcReconfig(u, e)
    BY <1>2, <2>2 DEF ReportArrived, SendXnRequest, XnResponse,
       SendRrcReconfig, Relay, Dropped
  <2>3. CASE UeStoresConfig(u, e)
    BY <1>2, <2>3 DEF UeStoresConfig, Dropped
  <2>4. CASE ExecutionComplete(u, e)
    BY <2>4 DEF ExecutionComplete, Dropped
  <2> QED
    BY <2>1, <2>2, <2>3, <2>4 DEF Signal
<1> QED
  BY <1>3, <1>4, <1>5 DEF Next

(* A UE changes its cell only to the one its stored configuration names,   *)
(* at the end of an execution and if CHO_IsLinkViable accepts it; apart    *)
(* from its first cell and the reselection of an idle UE.                  *)
THEOREM CellChangesByHandover == Spec => ServingChangesByHandover
<1>1. IInv /\ [Next]_vars =>
        [\A u \in UEs : serving'[u] # serving[u] =>
           \/ serving[u] = NoCell /\ turn = NumUes /\ turn' = 0
           \/ /\ proc[u].phase = "UE_EXECUTING"
              /\ conf[u].cells = {serving'[u]}
              /\ TargetViable(u, serving'[u])
           \/ ForcedReselect /\ proc[u].phase = "IDLE" /\ serving'[u] = NoCell
        ]_vars
  BY ServingStep DEF ServingChange
<1> QED
  BY <1>1, InvariantHolds, PTL DEF Spec, ServingChangesByHandover

-------------------------------------------------------------------------------
(* Stranding.                                                              *)

(* Only the start of a check moves the clock and refreshes the caches.     *)
LEMMA ClockAndCache ==
  ASSUME Next, ~BeginCheck
  PROVE  now' = now /\ cache' = cache
<1>1. ASSUME NEW u \in UEs, CheckHandover(u)
      PROVE  now' = now /\ cache' = cache
  <2>1. Measures(u) \/ Evaluates(u) => now' = now /\ cache' = cache
    BY DEF Measures, Evaluates
  <2>2. SkipUe(u) => now' = now /\ cache' = cache
    BY DEF SkipUe
  <2> QED
    BY <1>1, <2>1, <2>2 DEF CheckHandover, ReportRlf, ClearTrigger,
       StartTrigger, HoldTrigger, Report, ExpireConfig, KeepWaiting,
       StartExecutionTtt, HoldExecutionTtt, Execute
<1>2. ASSUME NEW u \in UEs, NEW e \in Event, Signal(u, e)
      PROVE  now' = now /\ cache' = cache
  <2>1. \A h : Dispatch(u, e, h) => now' = now /\ cache' = cache
    BY DEF Dispatch
  <2> QED
    BY <1>2, <2>1 DEF Signal, ReportArrived, SendXnRequest, XnResponse,
       SendRrcReconfig, UeStoresConfig, ExecutionComplete
<1> QED
  BY <1>1, <1>2 DEF Next

(* A stranded UE is never serving-cell-detecting, executing or executable. *)
LEMMA StrandedFacts ==
  ASSUME TypeOK, NEW u \in UEs, Consistent(u), Stranded(u)
  PROVE  /\ meas[u].serving \notin Detected(u)
         /\ proc[u].phase # "UE_EXECUTING"
         /\ proc[u].phase # "IDLE" => ~ConditionMet(u)
         /\ serving[u] # NoCell
<1>1. serving[u] \in Sats /\ now > EndTime[serving[u]]
  BY DEF Stranded
<1>2. meas[u].serving = serving[u]
  BY DEF Consistent, UeCells
<1>3. now \in Int /\ EndTime[serving[u]] \in Nat
  BY <1>1, TypeOfUe, TimeAssumption
<1>4. meas[u].serving \notin Detected(u)
  BY <1>1, <1>2, <1>3 DEF Detected, Visible
<1>5. proc[u].phase # "IDLE" => proc[u].target \notin Sats
  BY CellFacts DEF Stranded
<1>6. proc[u].phase # "UE_EXECUTING"
  BY <1>5 DEF Consistent, UeCells, Measured
<1>7. proc[u].phase # "IDLE" => ~ConditionMet(u)
  BY <1>5 DEF ConditionMet, BothMeasured, Measured
<1> QED
  BY <1>1, <1>4, <1>6, <1>7, CellFacts

LEMMA StrandedStep ==
  ASSUME IInv, Next, ~ForcedReselect, NEW v \in UEs, Stranded(v)
  PROVE  serving'[v] = serving[v] /\ Stranded(v)'
<1>1. TypeOK /\ Consistent(v)
  BY DEF IInv
<1>2. /\ meas[v].serving \notin Detected(v)
      /\ proc[v].phase # "UE_EXECUTING"
      /\ proc[v].phase # "IDLE" => ~ConditionMet(v)
      /\ serving[v] # NoCell
  BY <1>1, StrandedFacts
<1>3. serving'[v] = serving[v]
  BY <1>2, ServingStep DEF ServingChange
<1>4. now' > EndTime[serving[v]]
  <2>1. now' = now \/ now' = now + 1
    BY ClockAndCache DEF BeginCheck
  <2>2. now \in Int /\ EndTime[serving[v]] \in Nat /\ now > EndTime[serving[v]]
    BY <1>1, TypeOfUe, TimeAssumption DEF Stranded
  <2> QED
    BY <2>1, <2>2
<1>5. proc'[v].phase = "IDLE" \/ proc'[v].target = NoCell
  <2>1. proc[v] \in ProcState
    BY <1>1, TypeOfUe
  <2>2. SUFFICES ASSUME proc'[v] # proc[v]
                 PROVE  proc'[v].phase = "IDLE" \/ proc'[v].target = NoCell
    BY DEF Stranded
  <2>3. CASE BeginCheck
    BY <2>2, <2>3 DEF BeginCheck
  <2>4. ASSUME NEW u \in UEs, CheckHandover(u)
        PROVE  proc'[v].phase = "IDLE" \/ proc'[v].target = NoCell
    <3>1. v = u
      BY <1>1, <2>2, <2>4, OthersInCheck
    <3>2. \/ ReportRlf(v) \/ ExpireConfig(v) \/ KeepWaiting(v)
      BY <1>2, <2>2, <2>4, <3>1
         DEF CheckHandover, SkipUe, ClearTrigger, StartTrigger, HoldTrigger,
             Report, Persists, StartExecutionTtt, HoldExecutionTtt, Execute,
             Evaluates, NoProcedure
    <3>3. CASE ReportRlf(v)
      <4>1. proc'[v] = [proc[v] EXCEPT !.phase = "MEAS_REPORT_UPLINK",
              !.source = meas[v].serving, !.target = NoCell,
              !.startTime = now, !.failed = FALSE]
        BY <1>1, <3>3 DEF ReportRlf, TriggerProcedure, TypeOK
      <4> QED
        BY <2>1, <4>1 DEF ProcState
    <3>4. CASE ExpireConfig(v)
      <4>1. proc'[v] = [proc[v] EXCEPT !.phase = "IDLE"]
        BY <1>1, <3>4 DEF ExpireConfig, TypeOK
      <4> QED
        BY <2>1, <4>1 DEF ProcState
    <3>5. CASE KeepWaiting(v)
      <4>1. /\ proc[v].phase = "UE_EVALUATING"
            /\ proc'[v] = [proc[v] EXCEPT !.tttActive = FALSE,
                                          !.tttStart = Never]
        BY <1>1, <2>2, <3>5 DEF KeepWaiting, Evaluates, TypeOK
      <4>2. proc'[v].target = proc[v].target
        BY <2>1, <4>1 DEF ProcState
      <4> QED
        BY <4>1, <4>2 DEF Stranded
    <3> QED
      BY <3>2, <3>3, <3>4, <3>5
  <2>5. ASSUME NEW u \in UEs, NEW e \in Event, Signal(u, e)
        PROVE  proc'[v].phase = "IDLE" \/ proc'[v].target = NoCell
    <3>1. v = u
      BY <1>1, <2>2, <2>5, OthersInSignal
    <3>2. events[v][e] > 0 => Awaits(v, e)
      BY <1>1, OnlyEvent
    <3>3. proc[v].phase # "IDLE" /\ proc[v].target = NoCell
      BY <2>5, <3>1, <3>2
         DEF Signal, ReportArrived, SendXnRequest, XnResponse,
             SendRrcReconfig, UeStoresConfig, ExecutionComplete, Dispatch,
             Awaits, Awaited, Stranded
    <3>4. ~ExecutionComplete(v, e)
      BY <1>2, <3>2 DEF ExecutionComplete, Dispatch, Awaits, Awaited
    <3>5. CASE UeStoresConfig(v, e)
      <4>1. proc'[v] = [proc[v] EXCEPT !.phase = "UE_EVALUATING",
              !.expiry = now + ValidityPeriod, !.tttActive = FALSE,
              !.tttStart = Never]
        BY <1>1, <2>2, <3>5 DEF UeStoresConfig, Dropped, TypeOK
      <4> QED
        BY <2>1, <3>3, <4>1 DEF ProcState
    <3>6. ASSUME NEW from, NEW to, NEW next, Relay(v, e, from, to, next)
          PROVE  proc'[v].target = NoCell
      <4>1. proc'[v] = [proc[v] EXCEPT !.phase = to]
        BY <1>1, <2>2, <3>6 DEF Relay, Dropped, TypeOK
      <4> QED
        BY <2>1, <3>3, <4>1 DEF ProcState
    <3> QED
      BY <2>5, <3>1, <3>4, <3>5, <3>6
         DEF Signal, ReportArrived, SendXnRequest, XnResponse, SendRrcReconfig
  <2> QED
    BY <2>3, <2>4, <2>5 DEF Next
<1> QED
  BY <1>3, <1>4, <1>5 DEF Stranded

(* In the strategies that do not reselect, a UE whose satellite has set    *)
(* while it had no handover to another cell under way never changes its    *)
(* cell again: UE_EvaluateAndReport answers radio link failure with a      *)
(* report that has no neighbour, for ever.                                 *)
THEOREM StrandedIsForever == Spec => StrandedForever
<1>1. IInv /\ [Next]_vars =>
        [\A u \in UEs : ~ForcedReselect /\ Stranded(u) =>
           serving'[u] = serving[u] /\ Stranded(u)']_vars
  BY StrandedStep
<1> QED
  BY <1>1, InvariantHolds, PTL DEF Spec, StrandedForever

-------------------------------------------------------------------------------
(* Executions.                                                             *)

LEMMA ExecutionStep ==
  ASSUME IInv, Next, NEW v \in UEs,
         proc[v].phase # "UE_EXECUTING", proc'[v].phase = "UE_EXECUTING"
  PROVE  Execute(v)
<1>1. TypeOK /\ proc[v] \in ProcState /\ proc \in [UEs -> ProcState]
  BY TypeOfUe DEF IInv, TypeOK
<1>2. ~BeginCheck
  BY DEF BeginCheck
<1>3. ASSUME NEW u \in UEs, CheckHandover(u)
      PROVE  Execute(v)
  <2>1. v = u
    BY <1>1, <1>3, OthersInCheck
  <2>2. ~SkipUe(v) /\ ~ClearTrigger(v) /\ ~StartTrigger(v) /\ ~HoldTrigger(v)
    BY DEF SkipUe, ClearTrigger, StartTrigger, HoldTrigger, NoProcedure
  <2>3. ASSUME NEW s, NEW t, TriggerProcedure(v, s, t)
        PROVE  FALSE
    <3>1. proc'[v] = [proc[v] EXCEPT !.phase = "MEAS_REPORT_UPLINK",
                        !.source = s, !.target = t, !.startTime = now,
                        !.failed = FALSE]
      BY <1>1, <2>3 DEF TriggerProcedure
    <3>2. proc'[v].phase = "MEAS_REPORT_UPLINK"
      BY <1>1, <3>1 DEF ProcState
    <3> QED
      BY <3>2
  <2>4. ~ReportRlf(v) /\ ~Report(v)
    BY <2>3 DEF ReportRlf, Report, NoProcedure
  <2>5. ASSUME ExpireConfig(v)
        PROVE  FALSE
    <3>1. proc'[v] = [proc[v] EXCEPT !.phase = "IDLE"]
      BY <1>1, <2>5 DEF ExpireConfig
    <3> QED
      BY <1>1, <3>1 DEF ProcState
  <2>6. ASSUME NEW a, NEW t,
               proc' = [proc EXCEPT ![v] = [@ EXCEPT !.tttActive = a,
                                                     !.tttStart = t]]
        PROVE  FALSE
    <3>1. proc'[v] = [proc[v] EXCEPT !.tttActive = a, !.tttStart = t]
      BY <1>1, <2>6
    <3> QED
      BY <1>1, <3>1 DEF ProcState
  <2>7. ~KeepWaiting(v) /\ ~StartExecutionTtt(v) /\ ~HoldExecutionTtt(v)
    BY <2>6 DEF KeepWaiting, StartExecutionTtt, HoldExecutionTtt
  <2> QED
    BY <1>3, <2>1, <2>2, <2>4, <2>5, <2>7 DEF CheckHandover
<1>4. ASSUME NEW u \in UEs, NEW e \in Event, Signal(u, e)
      PROVE  FALSE
  <2>1. v = u
    BY <1>1, <1>4, OthersInSignal
  <2>2. ASSUME NEW from, NEW to, NEW next, to # "UE_EXECUTING",
               Relay(v, e, from, to, next)
        PROVE  FALSE
    BY <1>1, <2>2 DEF Relay, Dropped, ProcState
  <2>3. ~UeStoresConfig(v, e)
    <3> SUFFICES ASSUME UeStoresConfig(v, e) PROVE FALSE
      OBVIOUS
    <3>1. ~Dropped(v, e)
      BY DEF Dropped
    <3>2. proc' = [proc EXCEPT ![v] = [proc[v] EXCEPT
            !.phase = "UE_EVALUATING", !.expiry = now + ValidityPeriod,
            !.tttActive = FALSE, !.tttStart = Never]]
      BY <3>1 DEF UeStoresConfig
    <3>3. proc'[v].phase = "UE_EVALUATING"
      BY <1>1, <3>2 DEF ProcState
    <3> QED
      BY <3>3
  <2>4. ~ExecutionComplete(v, e)
    BY DEF ExecutionComplete, Dropped
  <2> QED
    BY <1>4, <2>1, <2>2, <2>3, <2>4
       DEF Signal, ReportArrived, SendXnRequest, XnResponse, SendRrcReconfig
<1> QED
  BY <1>2, <1>3, <1>4 DEF Next

(* Whatever the delays, an execution starts from a configuration that has  *)
(* not expired, and not before its trigger has been active for the         *)
(* execution time-to-trigger.                                              *)
THEOREM ExecutionsInTime == Spec => ExecutionInTime
<1>1. IInv /\ [Next]_vars =>
        [\A u \in UEs :
           proc[u].phase # "UE_EXECUTING" /\ proc'[u].phase = "UE_EXECUTING" =>
             /\ now <= proc[u].expiry
             /\ now - proc[u].tttStart >= ExecutionTtt]_vars
  BY ExecutionStep DEF Execute, Pending
<1> QED
  BY <1>1, InvariantHolds, PTL DEF Spec, ExecutionInTime

-------------------------------------------------------------------------------
(* Freshness of what decisions read, where the trajectories have no gaps.  *)

NoGaps == \A s \in Sats : \A t \in Int : InPass(s, t)

(* Until a satellite sets, its entry is that of the running second.        *)
CacheCurrent ==
  \A u \in UEs : \A s \in Sats : cache[u][s] # Unmeasured =>
    /\ cache[u][s].time >= StartTime[s]
    /\ now <= EndTime[s] => cache[u][s].time = now

LEMMA CacheBeginCheck ==
  ASSUME NoGaps, TypeOK, CacheCurrent, BeginCheck
  PROVE  CacheCurrent'
<1>1. /\ now' = now + 1 /\ now \in Int
      /\ cache \in [UEs -> [Sats -> CacheEntry \cup {Unmeasured}]]
  BY DEF BeginCheck, TypeOK, Time
<1>2. PICK obs \in [UEs -> [Sats -> Metrics]] :
        cache' = [u \in UEs |-> Refreshed(u, obs[u], now')]
  BY DEF BeginCheck
<1> SUFFICES ASSUME NEW u \in UEs, NEW s \in Sats, cache'[u][s] # Unmeasured
             PROVE  /\ cache'[u][s].time >= StartTime[s]
                    /\ now' <= EndTime[s] => cache'[u][s].time = now'
  BY DEF CacheCurrent
<1>3. StartTime[s] \in Nat /\ EndTime[s] \in Nat
  BY TimeAssumption
<1>4. InPass(s, now')
  BY <1>1 DEF NoGaps
<1>5. cache'[u][s] = IF now' >= StartTime[s] /\ now' <= EndTime[s]
                     THEN [time |-> now', m |-> obs[u][s]] ELSE cache[u][s]
  BY <1>2, <1>4 DEF Refreshed
<1>6. CASE now' >= StartTime[s] /\ now' <= EndTime[s]
  BY <1>5, <1>6
<1>7. CASE ~(now' >= StartTime[s] /\ now' <= EndTime[s])
  <2>1. cache'[u][s] = cache[u][s]
    BY <1>5, <1>7
  <2>2. cache[u][s] \in CacheEntry
    BY <1>1, <2>1
  <2>3. /\ cache[u][s].time \in Int
        /\ cache[u][s].time >= StartTime[s]
        /\ now <= EndTime[s] => cache[u][s].time = now
    BY <2>1, <2>2 DEF CacheCurrent, CacheEntry, Time
  <2>4. ~(now' <= EndTime[s])
    BY <1>1, <1>3, <1>7, <2>3
  <2> QED
    BY <2>1, <2>3, <2>4
<1> QED
  BY <1>6, <1>7

LEMMA CacheNext ==
  ASSUME NoGaps, IInv, CacheCurrent, [Next]_vars
  PROVE  CacheCurrent'
<1>1. CASE BeginCheck
  BY <1>1, CacheBeginCheck DEF IInv
<1>2. CASE ~BeginCheck
  <2>1. cache' = cache /\ now' = now
    BY <1>2, ClockAndCache DEF vars
  <2> QED
    BY <2>1 DEF CacheCurrent
<1> QED
  BY <1>1, <1>2

LEMMA SeenIsCurrent ==
  ASSUME CacheCurrent, NEW u \in UEs, NEW s \in Sats,
         Visible(cache[u], s, now)
  PROVE  cache[u][s].time = now
BY DEF CacheCurrent, Visible

(* A first cell is selected by the check that has refreshed the caches.    *)
LEMMA SelectionVisible ==
  ASSUME IInv, Next, NEW v \in UEs, serving[v] = NoCell, serving'[v] # NoCell
  PROVE  /\ BeginCheck
         /\ serving'[v] \in Sats
         /\ Visible(cache'[v], serving'[v], now')
<1>1. ServingChange(v)
  BY ServingStep
<1>2. turn = NumUes /\ turn' = 0
  <2>1. proc[v].phase # "IDLE" => serving[v] # NoCell
    BY DEF IInv, Consistent, UeCells
  <2> QED
    BY <1>1, <2>1 DEF ServingChange
<1>3. BeginCheck
  <2>1. ASSUME NEW u \in UEs, CheckHandover(u) PROVE FALSE
    <3>1. Visit(u)
      BY <2>1 DEF CheckHandover, SkipUe, ReportRlf, ClearTrigger,
         StartTrigger, HoldTrigger, Report, Measures, ExpireConfig,
         KeepWaiting, StartExecutionTtt, HoldExecutionTtt, Execute, Evaluates
    <3> QED
      BY <1>2, <3>1, SizeAssumption DEF Visit, UEs
  <2>2. ASSUME NEW u \in UEs, NEW e \in Event, Signal(u, e) PROVE FALSE
    <3>1. turn' = turn
      BY <2>2 DEF Signal, ReportArrived, SendXnRequest, XnResponse,
         SendRrcReconfig, UeStoresConfig, ExecutionComplete, Dispatch
    <3> QED
      BY <1>2, <3>1, SizeAssumption
  <2> QED
    BY <2>1, <2>2 DEF Next
<1>4. IsSelected(cache'[v], serving'[v], now')
  BY <1>3 DEF BeginCheck
<1>5. serving'[v] \in Sats /\ Visible(cache'[v], serving'[v], now')
  BY <1>4 DEF IsSelected
<1> QED
  BY <1>3, <1>5

LEMMA FreshSelection ==
  ASSUME IInv, Next, CacheCurrent', NEW v \in UEs,
         serving[v] = NoCell, serving'[v] # NoCell
  PROVE  cache'[v][serving'[v]].time = now'
BY SelectionVisible DEF CacheCurrent, Visible

(* A report with a target names two cells that its check has detected.     *)
LEMMA ReportDetects ==
  ASSUME IInv, Next, NEW v \in UEs,
         proc[v].phase = "IDLE", proc'[v].phase = "MEAS_REPORT_UPLINK",
         proc'[v].target # NoCell, NEW s \in {serving[v], proc'[v].target}
  PROVE  CheckHandover(v) /\ s \in Detected(v)
<1>1. CheckHandover(v)
  BY TriggeredByCheck
<1>2. PICK n \in Cells : Reports(v, n) /\ proc'[v].target = n
  <2>1. ~Passes(v) /\ ~Loses(v)
    BY DEF Passes, Loses, ReportsTo
  <2>2. \A n \in Cells : ~Clears(v, n) /\ ~Starts(v, n) /\ ~Holds(v, n)
    BY DEF Clears, Starts, Holds
  <2>3. \A n : Reports(v, n) => proc'[v].target = n
    BY DEF Reports, ReportsTo
  <2> QED
    BY <1>1, <2>1, <2>2, <2>3, WaysOfMeasuring DEF IInv
<1>3. s \in Detected(v)
  BY <1>2 DEF Reports, Continues, Ranks, IsBestNeighbour
<1> QED
  BY <1>1, <1>3

LEMMA FreshReport ==
  ASSUME IInv, Next, CacheCurrent, NEW v \in UEs,
         proc[v].phase = "IDLE", proc'[v].phase = "MEAS_REPORT_UPLINK",
         proc'[v].target # NoCell, NEW s \in {serving[v], proc'[v].target}
  PROVE  cache[v][s].time = now
BY ReportDetects, SeenIsCurrent DEF Detected

(* Over trajectories without gaps, first cells are selected and targets    *)
(* reported only from metrics of the running second: the visibility        *)
(* filters keep out what the cache still holds of satellites that have set.*)
THEOREM DecisionsAreFresh ==
  ASSUME NoGaps
  PROVE  Spec => FreshDecisions
<1>1. Init => CacheCurrent
  BY DEF Init, CacheCurrent
<1>2. IInv /\ CacheCurrent /\ [Next]_vars => CacheCurrent'
  BY CacheNext
<1>3. IInv /\ CacheCurrent /\ CacheCurrent' /\ [Next]_vars =>
        [\A u \in UEs :
           /\ serving[u] = NoCell /\ serving'[u] # NoCell =>
                cache'[u][serving'[u]].time = now'
           /\ /\ proc[u].phase = "IDLE"
              /\ proc'[u].phase = "MEAS_REPORT_UPLINK"
              /\ proc'[u].target # NoCell
              => \A s \in {serving[u], proc'[u].target} :
                   cache[u][s].time = now]_vars
  BY FreshSelection, FreshReport
<1> QED
  BY <1>1, <1>2, <1>3, InvariantHolds, PTL DEF Spec, FreshDecisions

-------------------------------------------------------------------------------
(* The refinement mapping of ChoProperties, by name. *)
OfferOf(u) == IF proc[u].phase = "IDLE" THEN NoCell ELSE proc[u].target

StageMap == [u \in UEs |-> StageOf(proc[u].phase)]
OfferMap == [u \in UEs |-> OfferOf(u)]

(* Where a step touches the procedure of one UE only, so does its image.   *)
LEMMA MapChanges ==
  ASSUME TypeOK, NEW u \in UEs,
         \A v \in UEs : v # u => proc'[v] = proc[v]
  PROVE  /\ StageMap' = [StageMap EXCEPT ![u] = StageOf(proc'[u].phase)]
         /\ OfferMap' = [OfferMap EXCEPT ![u] = OfferOf(u)']
BY DEF StageMap, OfferMap, OfferOf

LEMMA StageFacts ==
  /\ StageOf("IDLE") = "idle"
  /\ \A p \in Signalled : p # "IDLE" /\ StageOf(p) = "preparing"
  /\ StageOf("UE_EVALUATING") = "configured"
  /\ StageOf("UE_EXECUTING") = "executing"
BY DEF StageOf, Signalled

(* A step that moves the procedure of u, and no other, is one of the life  *)
(* cycle.                                                                  *)
LEMMA LifecycleStep ==
  ASSUME TypeOK, TypeOK', NEW u \in UEs, Consistent(u),
         \A v \in UEs : v # u => serving'[v] = serving[v] /\ proc'[v] = proc[v],
         \/ Waits(u) \/ Reselects(u) \/ Triggers(u) \/ Expires(u) \/ Executes(u)
         \/ Relays(u) \/ Stores(u) \/ Fails(u) \/ Completes(u)
  PROVE  \/ Lifecycle!Next
         \/ serving' = serving /\ StageMap' = StageMap /\ OfferMap' = OfferMap
<1>1. /\ serving \in [UEs -> Cells] /\ serving' \in [UEs -> Cells]
      /\ proc[u] \in ProcState
  BY TypeOfUe DEF TypeOK
<1>2. /\ StageMap' = [StageMap EXCEPT ![u] = StageOf(proc'[u].phase)]
      /\ OfferMap' = [OfferMap EXCEPT ![u] = OfferOf(u)']
  BY MapChanges
<1>3. StageMap[u] = StageOf(proc[u].phase) /\ OfferMap[u] = OfferOf(u)
  BY DEF StageMap, OfferMap
<1>4. serving' = [serving EXCEPT ![u] = serving'[u]]
  BY <1>1
<1>5. /\ StageMap = [StageMap EXCEPT ![u] = StageMap[u]]
      /\ OfferMap = [OfferMap EXCEPT ![u] = OfferMap[u]]
  BY DEF StageMap, OfferMap
<1>6. CASE Waits(u) \/ Relays(u)
  <2>1. /\ serving'[u] = serving[u]
        /\ StageOf(proc'[u].phase) = StageOf(proc[u].phase)
        /\ OfferOf(u)' = OfferOf(u)
    BY <1>6, StageFacts DEF Waits, Relays, Moves, OfferOf
  <2> QED
    BY <1>1, <1>2, <1>3, <1>4, <1>5, <2>1
<1>7. CASE Reselects(u)
  <2>1. StageMap' = StageMap /\ OfferMap' = OfferMap
    BY <1>2, <1>3, <1>5, <1>7 DEF Reselects, OfferOf
  <2>2. Lifecycle!Detach(u)
    BY <1>3, <1>4, <1>7, <2>1, StageFacts
       DEF Lifecycle!Detach, Reselects, StageMap, OfferMap, OfferOf
  <2> QED
    BY <2>2 DEF Lifecycle!Next
<1>8. CASE Triggers(u)
  <2> DEFINE t == proc'[u].target
  <2>1. /\ t \in Sats \cup {NoCell} /\ t # serving[u]
        /\ serving[u] # NoCell /\ serving' = serving
        /\ StageMap[u] = "idle"
        /\ StageMap' = [StageMap EXCEPT ![u] = "preparing"]
        /\ OfferMap' = [OfferMap EXCEPT ![u] = t]
    BY <1>1, <1>2, <1>3, <1>4, <1>8, StageFacts
       DEF Triggers, Signalled, OfferOf, Cells
  <2>2. PICK x \in Sats \cup {NoCell} : x = t
    BY <2>1
  <2>3. Lifecycle!Ask(u, x)
    BY <2>1, <2>2 DEF Lifecycle!Ask, StageMap, OfferMap, OfferOf
  <2> QED
    BY <2>3 DEF Lifecycle!Next
<1>9. CASE Expires(u) \/ Fails(u)
  <2>1. /\ StageMap[u] \in {"configured", "executing"}
        /\ StageMap' = [StageMap EXCEPT ![u] = "idle"]
        /\ OfferMap' = [OfferMap EXCEPT ![u] = NoCell]
        /\ serving' = serving
    <3>1. /\ proc[u].phase \in {"UE_EVALUATING", "UE_EXECUTING"}
          /\ serving'[u] = serving[u] /\ proc'[u].phase = "IDLE"
      BY <1>9 DEF Expires, Fails, Ends, Moves
    <3>2. StageMap[u] \in {"configured", "executing"}
      BY <1>3, <3>1, StageFacts
    <3>3. StageOf(proc'[u].phase) = "idle" /\ OfferOf(u)' = NoCell
      BY <3>1, StageFacts DEF OfferOf
    <3>4. serving' = serving
      BY <1>1, <1>4, <3>1
    <3> QED
      BY <1>2, <3>2, <3>3, <3>4
  <2>2. Lifecycle!Abandon(u)
    BY <2>1 DEF Lifecycle!Abandon, StageMap, OfferMap, OfferOf
  <2> QED
    BY <2>2 DEF Lifecycle!Next
<1>10. CASE Executes(u)
  <2>1. proc[u].target \in Sats
    BY <1>10 DEF Executes, ConditionMet, BothMeasured, Measured
  <2>2. /\ StageMap[u] = "configured"
        /\ StageMap' = [StageMap EXCEPT ![u] = "executing"]
        /\ serving' = serving
    <3>1. /\ proc[u].phase = "UE_EVALUATING" /\ serving'[u] = serving[u]
          /\ proc'[u].phase = "UE_EXECUTING"
      BY <1>10 DEF Executes, Moves
    <3>2. serving' = serving
      BY <1>1, <1>4, <3>1
    <3> QED
      BY <1>2, <1>3, <3>1, <3>2, StageFacts
  <2>3. OfferOf(u) # NoCell /\ OfferOf(u)' = OfferOf(u)
    BY <1>10, <2>1, CellFacts DEF Executes, Moves, OfferOf
  <2>4. OfferMap[u] # NoCell /\ OfferMap' = OfferMap
    BY <1>2, <1>3, <1>5, <2>3
  <2>5. Lifecycle!Start(u)
    BY <2>2, <2>4 DEF Lifecycle!Start, StageMap, OfferMap, OfferOf
  <2> QED
    BY <2>5 DEF Lifecycle!Next
<1>11. CASE Stores(u)
  <2>1. /\ StageMap[u] = "preparing"
        /\ StageMap' = [StageMap EXCEPT ![u] = "configured"]
    <3>1. /\ proc[u].phase \in Signalled
          /\ proc'[u].phase = "UE_EVALUATING"
      BY <1>11 DEF Stores
    <3> QED
      BY <1>2, <1>3, <3>1, StageFacts
  <2>2. OfferOf(u)' = OfferOf(u)
    BY <1>11, StageFacts DEF Stores, OfferOf
  <2>3. OfferMap' = OfferMap
    BY <1>2, <1>3, <1>5, <2>2
  <2>4. serving' = serving
    BY <1>1, <1>4, <1>11 DEF Stores
  <2>5. Lifecycle!Configure(u)
    BY <2>1, <2>3, <2>4 DEF Lifecycle!Configure, StageMap, OfferMap, OfferOf
  <2> QED
    BY <2>5 DEF Lifecycle!Next
<1>12. CASE Completes(u)
  <2>1. /\ StageMap[u] = "executing"
        /\ serving' = [serving EXCEPT ![u] = OfferMap[u]]
        /\ StageMap' = [StageMap EXCEPT ![u] = "idle"]
        /\ OfferMap' = [OfferMap EXCEPT ![u] = NoCell]
    BY <1>1, <1>2, <1>3, <1>4, <1>12, StageFacts
       DEF Completes, Ends, OfferOf
  <2>2. Lifecycle!Succeed(u)
    BY <2>1 DEF Lifecycle!Succeed, StageMap, OfferMap, OfferOf
  <2> QED
    BY <2>2 DEF Lifecycle!Next
<1> QED
  BY <1>6, <1>7, <1>8, <1>9, <1>10, <1>11, <1>12

LEMMA LifecycleInit == Init => Lifecycle!Init
BY DEF Init, Lifecycle!Init, StageOf

(* SelectBestSatellite gives cells to UEs that have none, which are idle.  *)
LEMMA LifecycleAttach ==
  ASSUME IInv, TypeOK', BeginCheck
  PROVE  Lifecycle!Attach
<1>1. serving' \in [UEs -> Sats \cup {NoCell}]
  BY DEF TypeOK, Cells
<1>2. proc' = proc
  BY DEF BeginCheck
<1>3. ASSUME NEW v \in UEs, serving'[v] # serving[v]
      PROVE  serving[v] = NoCell /\ StageOf(proc[v].phase) = "idle"
  <2>1. serving[v] = NoCell
    BY <1>3 DEF BeginCheck
  <2>2. proc[v].phase = "IDLE"
    BY <2>1 DEF IInv, Consistent, UeCells
  <2> QED
    BY <2>1, <2>2, StageFacts
<1>4. \E c \in [UEs -> Sats \cup {NoCell}] :
        /\ \A v \in UEs : c[v] # serving[v] =>
             serving[v] = NoCell /\ StageMap[v] = "idle"
        /\ serving' = c
  BY <1>1, <1>3 DEF StageMap
<1>5. StageMap' = StageMap /\ OfferMap' = OfferMap
  BY <1>2 DEF StageMap, OfferMap, OfferOf
<1> QED
  BY <1>4, <1>5 DEF Lifecycle!Attach, StageMap, OfferMap, OfferOf

LEMMA LifecycleNext ==
  ASSUME IInv, TypeOK', [Next]_vars
  PROVE  \/ Lifecycle!Next
         \/ serving' = serving /\ StageMap' = StageMap /\ OfferMap' = OfferMap
<1>1. TypeOK /\ \A u \in UEs : Consistent(u)
  BY DEF IInv
<1>2. CASE UNCHANGED vars
  BY <1>2 DEF vars, StageMap, OfferMap, OfferOf
<1>3. CASE BeginCheck
  BY <1>3, LifecycleAttach DEF Lifecycle!Next
<1>4. ASSUME NEW u \in UEs, CheckHandover(u)
      PROVE  \/ Lifecycle!Next
             \/ /\ serving' = serving
                /\ StageMap' = StageMap /\ OfferMap' = OfferMap
  <2>1. \A v \in UEs : v # u => serving'[v] = serving[v] /\ proc'[v] = proc[v]
    BY <1>1, <1>4, OthersInCheck
  <2>2. Waits(u) \/ Reselects(u) \/ Triggers(u) \/ Expires(u) \/ Executes(u)
    BY <1>1, <1>4, WaysOfCheck
  <2> QED
    BY <1>1, <2>1, <2>2, LifecycleStep
<1>5. ASSUME NEW u \in UEs, NEW e \in Event, Signal(u, e)
      PROVE  \/ Lifecycle!Next
             \/ /\ serving' = serving
                /\ StageMap' = StageMap /\ OfferMap' = OfferMap
  <2>1. \A v \in UEs : v # u => serving'[v] = serving[v] /\ proc'[v] = proc[v]
    BY <1>1, <1>5, OthersInSignal
  <2>2. Relays(u) \/ Stores(u) \/ Fails(u) \/ Completes(u)
    BY <1>1, <1>5, WaysOfSignal
  <2> QED
    BY <1>1, <2>1, <2>2, LifecycleStep
<1> QED
  BY <1>2, <1>3, <1>4, <1>5 DEF Next

(* The whole machine, its phases, timers, measurements and events, is an   *)
(* implementation of the life cycle, for any strategy and any delay: a UE  *)
(* keeps its cell until it has executed the handover it was configured     *)
(* for, and never has two under way.                                       *)
THEOREM LifecycleImplemented == Spec => ImplementsLifecycle
<1>1. Init => Lifecycle!Init
  BY LifecycleInit
<1>2. IInv /\ IInv' /\ [Next]_vars => [Lifecycle!Next]_Lifecycle!lvars
  <2> SUFFICES ASSUME IInv, IInv', [Next]_vars
               PROVE  [Lifecycle!Next]_Lifecycle!lvars
    OBVIOUS
  <2>1. TypeOK'
    BY DEF IInv
  <2>2. \/ Lifecycle!Next
        \/ serving' = serving /\ StageMap' = StageMap /\ OfferMap' = OfferMap
    BY <2>1, LifecycleNext
  <2> QED
    BY <2>2 DEF Lifecycle!lvars, StageMap, OfferMap, OfferOf
<1> QED
  BY <1>1, <1>2, InvariantHolds, PTL
     DEF Spec, ImplementsLifecycle, Lifecycle!Spec
===============================================================================
