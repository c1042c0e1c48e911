---------------------------- MODULE ChoHistoryProofs ---------------------------
(***************************************************************************)
(* What is recorded beside the CHO machine.  The checks an execution and a *)
(* report have waited, counted by ChoHistory: both last as long as their   *)
(* time to trigger asks for.  And the result log of ChoLog: the context a  *)
(* UE keeps of its last measurement and the predictions still to be        *)
(* evaluated are what the procedure has decided.                           *)
(***************************************************************************)
EXTENDS ChoHistory, ChoLog, ChoTimingProofs

LEMMA HistoryStep == [HistoryNext]_hvars => [Next]_vars
BY DEF HistoryNext, hvars, vars, Next

LEMMA HistoryImplements == HistorySpec => Spec
<1>1. HistoryInit => Init
  BY DEF HistoryInit
<1> QED
  BY <1>1, HistoryStep, PTL DEF HistorySpec, Spec

-------------------------------------------------------------------------------
(* The trigger of an execution.                                            *)

(* What a visit leaves of the execution trigger of a UE that goes on       *)
(* evaluating its configuration.                                           *)
LEMMA EvaluatingVisit ==
  ASSUME TypeOK, NEW u \in UEs, Consistent(u), CheckHandover(u),
         proc'[u].phase = "UE_EVALUATING"
  PROVE  /\ proc[u].phase = "UE_EVALUATING"
         /\ proc'[u].source = proc[u].source
         /\ proc'[u].target = proc[u].target
         /\ IF ConditionMet(u)
            THEN /\ proc'[u].tttActive
                 /\ proc'[u].tttStart = IF proc[u].tttActive
                                        THEN proc[u].tttStart ELSE now
            ELSE proc'[u].tttActive => proc[u].tttActive /\ ~BothMeasured(u)
<1>1. proc[u] \in ProcState /\ proc \in [UEs -> ProcState]
  BY TypeOfUe DEF TypeOK
<1>2. Waits(u) /\ proc[u].phase = "UE_EVALUATING"
  BY WaysOfCheck DEF Waits, Moves, Reselects, Triggers, Expires, Executes
<1>3. ~ExpireConfig(u)
  BY <1>1 DEF ExpireConfig, ProcState
<1>4. ASSUME Execute(u) PROVE FALSE
  <2>1. proc'[u] = [proc[u] EXCEPT !.phase = "UE_EXECUTING",
                                   !.tttActive = FALSE]
    BY <1>1, <1>4 DEF Execute, UeExecutes
  <2> QED
    BY <1>1, <2>1 DEF ProcState
<1>5. KeepWaiting(u) \/ StartExecutionTtt(u) \/ HoldExecutionTtt(u)
  BY <1>2, <1>3, <1>4 DEF CheckHandover, SkipUe, ReportRlf, ClearTrigger,
     StartTrigger, HoldTrigger, Report, Measures, MayMeasure
<1>6. CASE KeepWaiting(u)
  <2>1. proc'[u] = IF BothMeasured(u)
                   THEN [proc[u] EXCEPT !.tttActive = FALSE,
                                        !.tttStart = Never]
                   ELSE proc[u]
    BY <1>1, <1>6 DEF KeepWaiting
  <2>2. ~ConditionMet(u)
    BY <1>6 DEF KeepWaiting
  <2>3. proc'[u].tttActive => proc[u].tttActive /\ ~BothMeasured(u)
    BY <1>1, <2>1 DEF ProcState
  <2> QED
    BY <1>2, <2>2, <2>3 DEF Waits, Moves
<1>7. CASE StartExecutionTtt(u)
  <2>1. /\ ConditionMet(u) /\ ~proc[u].tttActive
        /\ proc'[u] = [proc[u] EXCEPT !.tttActive = TRUE, !.tttStart = now]
    BY <1>1, <1>7 DEF StartExecutionTtt
  <2>2. proc'[u].tttActive /\ proc'[u].tttStart = now
    BY <1>1, <2>1 DEF ProcState
  <2> QED
    BY <1>2, <2>1, <2>2 DEF Waits, Moves
<1>8. CASE HoldExecutionTtt(u)
  BY <1>2, <1>8 DEF HoldExecutionTtt
<1> QED
  BY <1>5, <1>6, <1>7, <1>8

(* While the trigger is active, the cells are measured, and either the     *)
(* condition has held since it started, or the coming visit clears it.     *)
ExecutionHeld(u) ==
  /\ executeHeld[u] \in Nat
  /\ proc[u].phase = "UE_EVALUATING" =>
       /\ proc[u].tttActive =>
            /\ BothMeasured(u)
            /\ Visited(u) => ConditionMet(u)
            /\ ConditionMet(u) => executeHeld[u] > now - proc[u].tttStart
       /\ ~Visited(u) /\ ConditionMet(u) => executeHeld[u] > 0

AllExecutionHeld == \A u \in UEs : ExecutionHeld(u)

LEMMA ExecutionHeldFrame ==
  ASSUME NEW u \in UEs, ExecutionHeld(u), proc'[u] = proc[u], now' = now,
         cache' = cache, Visited(u)' <=> Visited(u),
         executeHeld'[u] = executeHeld[u]
  PROVE  ExecutionHeld(u)'
<1>1. /\ ConditionMet(u)' <=> ConditionMet(u)
      /\ BothMeasured(u)' <=> BothMeasured(u)
  BY DEF ConditionMet, BothMeasured, Measured, At, View
<1> QED
  BY <1>1 DEF ExecutionHeld

LEMMA ExecutionHeldBeginCheck ==
  ASSUME TypeOK, NEW u \in UEs, ExecutionHeld(u), BeginCheck, Observe
  PROVE  ExecutionHeld(u)'
<1>1. /\ proc'[u] = proc[u] /\ now' = now + 1 /\ now \in Int
      /\ Visited(u) /\ ~Visited(u)'
  BY MeasInBeginCheck, TypeOfUe
<1>2. executeHeld'[u] =
        IF proc[u].phase = "UE_EVALUATING" /\ ConditionMet(u)'
        THEN executeHeld[u] + 1 ELSE 0
  BY DEF Observe
<1>3. BothMeasured(u) => BothMeasured(u)'
  <2>1. ASSUME NEW s, Measured(u, s) PROVE Measured(u, s)'
    BY <2>1, MeasuredStays
  <2> QED
    BY <1>1, <2>1 DEF BothMeasured
<1>4. proc[u].tttStart \in Int
  BY TypeOfUe DEF ProcState, Time
<1> QED
  BY <1>1, <1>2, <1>3, <1>4 DEF ExecutionHeld

LEMMA ExecutionHeldCheck ==
  ASSUME TypeOK, NEW u \in UEs, Consistent(u), ExecutionHeld(u),
         CheckHandover(u), executeHeld' = executeHeld
  PROVE  ExecutionHeld(u)'
<1>1. /\ now' = now /\ cache' = cache /\ now \in Int
      /\ ~Visited(u) /\ Visited(u)'
  BY CheckKeepsClock, VisitOrder, TypeOfUe
<1>2. SUFFICES ASSUME proc'[u].phase = "UE_EVALUATING", proc'[u].tttActive
               PROVE  /\ BothMeasured(u)' /\ ConditionMet(u)'
                      /\ executeHeld[u] > now - proc'[u].tttStart
  BY <1>1 DEF ExecutionHeld
<1>3. /\ proc[u].phase = "UE_EVALUATING"
      /\ proc'[u].source = proc[u].source
      /\ proc'[u].target = proc[u].target
  BY <1>2, EvaluatingVisit
<1>4. ConditionMet(u)
  BY <1>2, <1>3, EvaluatingVisit DEF ExecutionHeld
<1>5. BothMeasured(u)' /\ ConditionMet(u)'
  BY <1>1, <1>3, <1>4 DEF ConditionMet, BothMeasured, Measured, At, View
<1>6. proc'[u].tttStart = IF proc[u].tttActive THEN proc[u].tttStart ELSE now
  BY <1>2, <1>4, EvaluatingVisit
<1> QED
  BY <1>1, <1>3, <1>4, <1>5, <1>6 DEF ExecutionHeld

LEMMA ExecutionHeldSignal ==
  ASSUME TypeOK, NEW u \in UEs, Consistent(u), ExecutionHeld(u),
         NEW e \in Event, Signal(u, e), executeHeld' = executeHeld
  PROVE  ExecutionHeld(u)'
<1>1. Visited(u)'
  BY SignalKeepsClock, TimesOfUe DEF Visited
<1>2. proc'[u].phase = "UE_EVALUATING" => ~proc'[u].tttActive
  BY WaysOfSignal DEF Relays, Stores, Fails, Completes, Ends, Moves, Signalled
<1> QED
  BY <1>1, <1>2 DEF ExecutionHeld

LEMMA ExecutionHeldInit == HistoryInit => AllExecutionHeld
BY DEF HistoryInit, Init, AllExecutionHeld, ExecutionHeld

LEMMA ExecutionHeldNext ==
  ASSUME IInv, AllExecutionHeld, [HistoryNext]_hvars
  PROVE  AllExecutionHeld'
<1> SUFFICES ASSUME NEW u \in UEs PROVE ExecutionHeld(u)'
  BY DEF AllExecutionHeld
<1>1. TypeOK /\ Consistent(u) /\ ExecutionHeld(u)
  BY DEF IInv, AllExecutionHeld
<1>2. CASE UNCHANGED hvars
  BY <1>1, <1>2, ExecutionHeldFrame DEF hvars, vars, Visited
<1>3. CASE BeginCheck /\ Observe
  BY <1>1, <1>3, ExecutionHeldBeginCheck
<1>4. ASSUME NEW w \in UEs, CheckHandover(w), executeHeld' = executeHeld
      PROVE  ExecutionHeld(u)'
  <2>1. CASE w = u
    BY <1>1, <1>4, <2>1, ExecutionHeldCheck
  <2>2. CASE w # u
    BY <1>1, <1>4, <2>2, ExecutionHeldFrame, OthersInCheck, CheckKeepsClock,
       VisitOrder
  <2> QED
    BY <2>1, <2>2
<1>5. ASSUME NEW w \in UEs, NEW e \in Event, Signal(w, e),
             executeHeld' = executeHeld
      PROVE  ExecutionHeld(u)'
  <2>1. CASE w = u
    BY <1>1, <1>5, <2>1, ExecutionHeldSignal
  <2>2. CASE w # u
    BY <1>1, <1>5, <2>2, ExecutionHeldFrame, OthersInSignal, SignalKeepsClock
       DEF Visited
  <2> QED
    BY <2>1, <2>2
<1> QED
  BY <1>2, <1>3, <1>4, <1>5 DEF HistoryNext

(* CHO_Phase6_UeExecutes starts a handover only when the execution         *)
(* condition was met at every check of the last executionTimeToTrigger     *)
(* seconds: for any strategy, and however long the signalling takes.       *)
THEOREM ExecutionsAfterTtt == HistorySpec => ExecutionAfterTtt
<1>1. HistoryInit => AllExecutionHeld
  BY ExecutionHeldInit
<1>2. IInv /\ AllExecutionHeld /\ [HistoryNext]_hvars => AllExecutionHeld'
  BY ExecutionHeldNext
<1>3. IInv /\ AllExecutionHeld /\ [HistoryNext]_hvars =>
        [\A u \in UEs :
           proc[u].phase # "UE_EXECUTING" /\ proc'[u].phase = "UE_EXECUTING"
           => executeHeld[u] > ExecutionTtt]_hvars
  <2> SUFFICES ASSUME IInv, AllExecutionHeld, HistoryNext, NEW u \in UEs,
                      proc[u].phase # "UE_EXECUTING",
                      proc'[u].phase = "UE_EXECUTING"
               PROVE  executeHeld[u] > ExecutionTtt
    OBVIOUS
  <2>1. Execute(u)
    BY ExecutionStep DEF HistoryNext, Next
  <2>2. /\ proc[u].phase = "UE_EVALUATING" /\ proc[u].tttActive
        /\ ConditionMet(u) /\ now - proc[u].tttStart >= ExecutionTtt
    BY <2>1 DEF Execute, Evaluates
  <2>3. executeHeld[u] \in Nat /\ executeHeld[u] > now - proc[u].tttStart
    BY <2>2 DEF AllExecutionHeld, ExecutionHeld
  <2>4. now - proc[u].tttStart \in Int /\ ExecutionTtt \in Nat
    BY TypeOfUe, TimeAssumption DEF IInv, ProcState, Time
  <2> QED
    BY <2>2, <2>3, <2>4
<1> QED
  BY <1>1, <1>2, <1>3, HistoryImplements, InvariantHolds, PTL
     DEF HistorySpec, ExecutionAfterTtt

-------------------------------------------------------------------------------
(* The trigger of a report.                                                *)

(* What Observe counts for u, given that its best neighbour is unique. *)
LEMMA Observed ==
  ASSUME UniqueBest, TypeOK', Observe, NEW u \in UEs
  PROVE  /\ (\E n \in Cells : Held(u, n)') \/ reportHeld'[u] = NotHeld
         /\ \A n \in Cells : Held(u, n)' =>
              reportHeld'[u] =
                [cell |-> n,
                 checks |-> IF reportHeld[u].cell = n
                            THEN reportHeld[u].checks + 1 ELSE 1,
                 critical |-> IF NtnTrigger(At(u, serving[u]))'
                              THEN reportHeld[u].critical + 1 ELSE 0]
<1>1. reportHeld'[u] =
        IF \E n \in Cells : Held(u, n)'
        THEN LET n == CHOOSE n \in Cells : Held(u, n)'
             IN  [cell |-> n,
                  checks |-> IF reportHeld[u].cell = n
                             THEN reportHeld[u].checks + 1 ELSE 1,
                  critical |-> IF NtnTrigger(At(u, serving[u]))'
                               THEN reportHeld[u].critical + 1 ELSE 0]
        ELSE NotHeld
  BY DEF Observe
<1>2. ASSUME NEW n, NEW m, Held(u, n)', Held(u, m)' PROVE n = m
  <2> DEFINE S == Detected(u)' \ {meas'[u].serving}
  <2>1. S \in SUBSET Sats /\ \A s \in S : cache'[u][s] \in CacheEntry
    BY DEF TypeOK, Detected, Visible
  <2>2. now' \in Time
    BY DEF TypeOK
  <2>3. CASE S = {}
    BY <1>2, <2>3 DEF Held, IsBestNeighbour
  <2>4. CASE S # {}
    <3>1. /\ n \in S /\ m \in S
          /\ Best(View(cache'[u], n, now'), Views(cache'[u], S, now'))
          /\ Best(View(cache'[u], m, now'), Views(cache'[u], S, now'))
      BY <1>2, <2>4 DEF Held, IsBestNeighbour, At
    <3> HIDE DEF S
    <3> QED
      BY <2>1, <2>2, <3>1, OneBest
  <2> QED
    BY <2>3, <2>4
<1>3. ASSUME NEW n \in Cells, Held(u, n)'
      PROVE  n = CHOOSE m \in Cells : Held(u, m)'
  BY <1>2, <1>3
<1> QED
  BY <1>1, <1>3

LEMMA HeldFrame ==
  ASSUME NEW u \in UEs, proc'[u] = proc[u], serving'[u] = serving[u],
         meas'[u].serving = meas[u].serving, cache' = cache, now' = now
  PROVE  \A n \in Cells : Held(u, n)' <=> Held(u, n)
BY DEF Held, Detected, Visible, Fetched, IsBestNeighbour, Triggered, At, View,
       Views

(* What a visit ranks is what was observed for it. *)
LEMMA RankedIsHeld ==
  ASSUME NEW u \in UEs, NEW n, Ranks(u, n), Triggered(u, n)
  PROVE  Held(u, n)
BY DEF Ranks, MayMeasure, Held

(* An active trigger is that of an idle UE, and once the UE is visited its *)
(* candidate has been the best neighbour and has triggered since it        *)
(* started; before that, the check may have observed another neighbour.    *)
ReportHeld(u) ==
  LET r == reportHeld[u]
  IN  /\ r.checks \in Nat
      /\ meas[u].active =>
           /\ proc[u].phase = "IDLE" /\ serving[u] # NoCell
           /\ Visited(u) => /\ r.cell = meas[u].candidate
                            /\ r.checks > now - meas[u].start
      /\ ~Visited(u) =>
           \A n \in Cells : Held(u, n) =>
             /\ r.cell = n
             /\ r.checks > 0
             /\ meas[u].active /\ meas[u].candidate = n =>
                  r.checks > now - meas[u].start

AllReportHeld == \A u \in UEs : ReportHeld(u)

LEMMA ReportHeldFrame ==
  ASSUME NEW u \in UEs, ReportHeld(u), proc'[u] = proc[u],
         serving'[u] = serving[u], meas'[u] = meas[u], cache' = cache,
         now' = now, Visited(u)' <=> Visited(u),
         reportHeld'[u] = reportHeld[u]
  PROVE  ReportHeld(u)'
<1>1. \A n \in Cells : Held(u, n)' <=> Held(u, n)
  BY HeldFrame
<1> QED
  BY <1>1 DEF ReportHeld

LEMMA ReportHeldBeginCheck ==
  ASSUME UniqueBest, TypeOK, TypeOK', NEW u \in UEs, ReportHeld(u),
         BeginCheck, Observe
  PROVE  ReportHeld(u)'
<1>1. /\ proc'[u] = proc[u] /\ now' = now + 1 /\ now \in Int
      /\ Visited(u) /\ ~Visited(u)' /\ SameTrigger(u)
      /\ serving[u] # NoCell => serving'[u] = serving[u]
  BY MeasInBeginCheck, TypeOfUe
<1>2. meas[u].start \in Int
  BY TypeOfUe DEF MeasState, Time
<1>3. ASSUME NEW n \in Cells, Held(u, n)'
      PROVE  /\ reportHeld'[u].cell = n
             /\ reportHeld'[u].checks \in Nat
             /\ reportHeld'[u].checks > 0
             /\ meas'[u].active /\ meas'[u].candidate = n =>
                  reportHeld'[u].checks > now' - meas'[u].start
  <2>1. /\ reportHeld'[u].cell = n
        /\ reportHeld'[u].checks = IF reportHeld[u].cell = n
                                   THEN reportHeld[u].checks + 1 ELSE 1
    <3> DEFINE c == IF NtnTrigger(At(u, serving[u]))'
                    THEN reportHeld[u].critical + 1 ELSE 0
    <3>1. reportHeld'[u] =
            [cell |-> n, checks |-> IF reportHeld[u].cell = n
                                    THEN reportHeld[u].checks + 1 ELSE 1,
             critical |-> c]
      BY <1>3, Observed
    <3> HIDE DEF c
    <3> QED
      BY <3>1
  <2> QED
    BY <1>1, <1>2, <2>1 DEF ReportHeld, SameTrigger
<1>4. reportHeld'[u].checks \in Nat
  BY <1>3, Observed DEF NotHeld
<1>5. meas'[u].active => proc'[u].phase = "IDLE" /\ serving'[u] # NoCell
  BY <1>1 DEF ReportHeld, SameTrigger
<1> QED
  BY <1>1, <1>3, <1>4, <1>5 DEF ReportHeld

LEMMA ReportHeldCheck ==
  ASSUME NtnSilent, ForcedReselect, TypeOK, NEW u \in UEs, Consistent(u),
         Punctual(u), ReportHeld(u), CheckHandover(u),
         reportHeld' = reportHeld
  PROVE  ReportHeld(u)'
<1>1. /\ now' = now /\ now \in Int /\ ~Visited(u) /\ Visited(u)'
  BY CheckKeepsClock, VisitOrder, TypeOfUe
<1>2. SUFFICES ASSUME meas'[u].active
               PROVE  /\ proc'[u].phase = "IDLE" /\ serving'[u] # NoCell
                      /\ reportHeld[u].cell = meas'[u].candidate
                      /\ reportHeld[u].checks > now - meas'[u].start
  BY <1>1 DEF ReportHeld
<1>3. ~Passes(u)
  BY <1>1, <1>2, IdleMeasures DEF Passes, ReportHeld
<1>4. ~Loses(u)
  BY <1>2 DEF Loses
<1>5. PICK n \in Cells : Starts(u, n) \/ Holds(u, n)
  BY <1>2, <1>3, <1>4, WaysOfMeasuring DEF Clears, Reports
<1>6. Held(u, n)
  BY <1>5, RankedIsHeld DEF Starts, Holds, Continues
<1>7. reportHeld[u].cell = n /\ reportHeld[u].checks > 0
  BY <1>1, <1>6 DEF ReportHeld
<1>8. proc'[u].phase = "IDLE" /\ serving'[u] # NoCell
  BY <1>5 DEF Starts, Holds, Continues, Ranks, MayMeasure
<1>9. CASE Starts(u, n)
  BY <1>1, <1>7, <1>8, <1>9 DEF Starts
<1>10. CASE Holds(u, n)
  <2>1. /\ meas[u].active /\ n = meas[u].candidate
        /\ SameTrigger(u)
    BY <1>10 DEF Holds, Continues, NtnSilent
  <2>2. reportHeld[u].checks > now - meas[u].start
    BY <1>1, <1>6, <2>1 DEF ReportHeld
  <2> QED
    BY <1>7, <1>8, <2>1, <2>2 DEF SameTrigger
<1> QED
  BY <1>5, <1>9, <1>10

LEMMA ReportHeldSignal ==
  ASSUME TypeOK, NEW u \in UEs, Consistent(u), ReportHeld(u),
         NEW e \in Event, Signal(u, e), reportHeld' = reportHeld
  PROVE  ReportHeld(u)'
<1>1. Visited(u)'
  BY SignalKeepsClock, TimesOfUe DEF Visited
<1>2. proc[u].phase # "IDLE"
  BY WaysOfSignal DEF Relays, Stores, Fails, Completes, Ends, Signalled
<1>3. ~meas'[u].active
  BY <1>2, MeasInSignal DEF ReportHeld
<1> QED
  BY <1>1, <1>3 DEF ReportHeld

LEMMA ReportHeldInit == HistoryInit => AllReportHeld
<1> SUFFICES ASSUME HistoryInit, NEW u \in UEs PROVE ReportHeld(u)
  BY DEF AllReportHeld
<1>1. /\ reportHeld[u].checks = 0 /\ ~meas[u].active /\ Visited(u)
  BY SizeAssumption DEF HistoryInit, Init, NotHeld, Visited, UEs
<1> QED
  BY <1>1 DEF ReportHeld

LEMMA ReportHeldNext ==
  ASSUME UniqueBest, NtnSilent, ForcedReselect, IInv, IInv', AllPunctual,
         AllReportHeld, [HistoryNext]_hvars
  PROVE  AllReportHeld'
<1> SUFFICES ASSUME NEW u \in UEs PROVE ReportHeld(u)'
  BY DEF AllReportHeld
<1>1. TypeOK /\ TypeOK' /\ Consistent(u) /\ Punctual(u) /\ ReportHeld(u)
  BY DEF IInv, AllPunctual, AllReportHeld
<1>2. CASE UNCHANGED hvars
  BY <1>1, <1>2, ReportHeldFrame DEF hvars, vars, Visited
<1>3. CASE BeginCheck /\ Observe
  BY <1>1, <1>3, ReportHeldBeginCheck
<1>4. ASSUME NEW w \in UEs, CheckHandover(w), reportHeld' = reportHeld
      PROVE  ReportHeld(u)'
  <2>1. CASE w = u
    BY <1>1, <1>4, <2>1, ReportHeldCheck
  <2>2. CASE w # u
    BY <1>1, <1>4, <2>2, ReportHeldFrame, OthersInCheck, CheckKeepsClock,
       VisitOrder
  <2> QED
    BY <2>1, <2>2
<1>5. ASSUME NEW w \in UEs, NEW e \in Event, Signal(w, e),
             reportHeld' = reportHeld
      PROVE  ReportHeld(u)'
  <2>1. CASE w = u
    BY <1>1, <1>5, <2>1, ReportHeldSignal
  <2>2. CASE w # u
    BY <1>1, <1>5, <2>2, ReportHeldFrame, OthersInSignal, SignalKeepsClock
       DEF Visited
  <2> QED
    BY <2>1, <2>2
<1> QED
  BY <1>2, <1>3, <1>4, <1>5 DEF HistoryNext

(* UE_EvaluateAndReport reports a target only when that cell was the best  *)
(* neighbour and met the preparation condition at every check of the last  *)
(* TimeToTrigger seconds: in the strategies that reselect, and whose NTN   *)
(* trigger never fires.                                                    *)
THEOREM ReportsAfterTtt ==
  ASSUME UniqueBest, NtnSilent, ForcedReselect
  PROVE  HistorySpec => ReportAfterTtt
<1>1. HistoryInit => AllReportHeld
  BY ReportHeldInit
<1>2. IInv /\ IInv' /\ AllPunctual /\ AllReportHeld /\ [HistoryNext]_hvars =>
        AllReportHeld'
  BY ReportHeldNext
<1>3. IInv /\ AllPunctual /\ AllReportHeld /\ [HistoryNext]_hvars =>
        [\A u \in UEs :
           /\ proc[u].phase = "IDLE"
           /\ proc'[u].phase = "MEAS_REPORT_UPLINK"
           /\ proc'[u].target # NoCell
           => /\ reportHeld[u].cell = proc'[u].target
              /\ reportHeld[u].checks > TimeToTrigger]_hvars
  <2> SUFFICES ASSUME IInv, AllPunctual, AllReportHeld, HistoryNext,
                      NEW u \in UEs, proc[u].phase = "IDLE",
                      proc'[u].phase = "MEAS_REPORT_UPLINK"
               PROVE  /\ reportHeld[u].cell = proc'[u].target
                      /\ reportHeld[u].checks > TimeToTrigger
    OBVIOUS
  <2>1. CheckHandover(u) /\ TypeOK
    BY TriggeredByCheck DEF HistoryNext, Next, IInv
  <2>2. ~Visited(u)
    BY <2>1, CheckKeepsClock, VisitOrder
  <2>3. PICK n \in Cells : Reports(u, n) /\ ReportsTo(u, n)
    BY <2>1, WaysOfMeasuring
       DEF Passes, Loses, Clears, Starts, Holds, Reports, IInv
  <2>4. /\ Held(u, n) /\ meas[u].active /\ meas[u].candidate = n
        /\ now - meas[u].start >= TimeToTrigger
    BY <2>3, RankedIsHeld DEF Reports, Continues, NtnSilent
  <2>5. /\ reportHeld[u].cell = n /\ reportHeld[u].checks \in Nat
        /\ reportHeld[u].checks > now - meas[u].start
    BY <2>2, <2>4 DEF AllReportHeld, ReportHeld
  <2>6. now - meas[u].start \in Int /\ TimeToTrigger \in Nat
    BY <2>1, TypeOfUe, TimeAssumption DEF MeasState, Time
  <2> QED
    BY <2>3, <2>4, <2>5, <2>6 DEF ReportsTo
<1> QED
  BY <1>1, <1>2, <1>3, HistoryImplements, InvariantHolds, PunctualHolds, PTL
     DEF HistorySpec, ReportAfterTtt

-------------------------------------------------------------------------------
(* The NTN trigger.                                                        *)

(* It asks for a neighbour, so that what it reports has a target. *)
NtnNeedsNeighbour == \A s : ~(NtnTrigger(s) /\ NtnAccepts(s, {}))

(* A UE whose neighbours have triggered at the last c > 0 checks with a    *)
(* serving cell about to stop serving has, once it is visited, a trigger   *)
(* as old as that which has not elapsed, or it has reported.               *)
CriticalHeld(u) ==
  LET c == reportHeld[u].critical
  IN  /\ c \in Nat
      /\ c <= ReportWait + 1
      /\ c > 0 =>
           IF Visited(u)
           THEN \/ proc[u].phase \in Signalled \cup {"UE_EVALUATING"}
                \/ /\ proc[u].phase = "IDLE"
                   /\ meas[u].active
                   /\ c <= now - meas[u].start + 1
                   /\ now - meas[u].start < ReportWait
           ELSE /\ \E n \in Cells : Held(u, n)
                /\ NtnTrigger(At(u, serving[u]))
                /\ IF meas[u].active THEN c <= now - meas[u].start + 1
                                     ELSE c = 1

AllCriticalHeld == \A u \in UEs : CriticalHeld(u)

LEMMA ReportWaitFacts ==
  /\ ReportWait \in Nat /\ ReportWait > 0
  /\ TimeToTrigger \in Nat /\ TimeToTrigger <= ReportWait
BY TimeAssumption DEF ReportWait

LEMMA CriticalHeldFrame ==
  ASSUME NEW u \in UEs, CriticalHeld(u), proc'[u] = proc[u],
         serving'[u] = serving[u], meas'[u] = meas[u], cache' = cache,
         now' = now, Visited(u)' <=> Visited(u),
         reportHeld'[u] = reportHeld[u]
  PROVE  CriticalHeld(u)'
<1>1. (\E n \in Cells : Held(u, n))' <=> \E n \in Cells : Held(u, n)
  BY HeldFrame
<1>2. At(u, serving[u])' = At(u, serving[u])
  BY DEF At, View
<1> QED
  BY <1>1, <1>2 DEF CriticalHeld

LEMMA CriticalHeldBeginCheck ==
  ASSUME UniqueBest, TypeOK, TypeOK', NEW u \in UEs, Punctual(u),
         CriticalHeld(u), BeginCheck, Observe
  PROVE  CriticalHeld(u)'
<1> DEFINE c == reportHeld[u].critical
           d == reportHeld'[u].critical
<1>1. /\ proc'[u] = proc[u] /\ now' = now + 1 /\ now \in Int
      /\ Visited(u) /\ ~Visited(u)' /\ SameTrigger(u)
  BY MeasInBeginCheck, TypeOfUe
<1>2. meas[u].start \in Int /\ c \in Nat
  BY TypeOfUe DEF MeasState, Time, CriticalHeld
<1>3. \/ d = 0
      \/ /\ d = c + 1
         /\ \E n \in Cells : Held(u, n)'
         /\ NtnTrigger(At(u, serving[u]))'
  <2>1. CASE reportHeld'[u] = NotHeld
    BY <2>1 DEF NotHeld
  <2>2. ASSUME NEW n \in Cells, Held(u, n)'
        PROVE  d = IF NtnTrigger(At(u, serving[u]))' THEN c + 1 ELSE 0
    <3> DEFINE k == IF reportHeld[u].cell = n
                    THEN reportHeld[u].checks + 1 ELSE 1
    <3>1. reportHeld'[u] =
            [cell |-> n, checks |-> k,
             critical |-> IF NtnTrigger(At(u, serving[u]))'
                          THEN reportHeld[u].critical + 1 ELSE 0]
      BY <2>2, Observed
    <3> HIDE DEF k
    <3> QED
      BY <3>1
  <2> QED
    BY <2>1, <2>2, Observed
<1>4. CASE d = 0
  BY <1>1, <1>4, ReportWaitFacts DEF CriticalHeld
<1>5. CASE /\ d = c + 1
           /\ \E n \in Cells : Held(u, n)'
           /\ NtnTrigger(At(u, serving[u]))'
  <2>1. proc[u].phase = "IDLE"
    BY <1>1, <1>5 DEF Held
  <2>2. c > 0 => /\ meas[u].active
                 /\ c <= now - meas[u].start + 1
                 /\ now - meas[u].start < ReportWait
    BY <1>1, <2>1 DEF CriticalHeld, Signalled
  <2>3. meas[u].active => meas[u].start <= now
    BY DEF Punctual
  <2>4. d <= ReportWait + 1
    BY <1>1, <1>2, <1>5, <2>2, ReportWaitFacts
  <2>5. IF meas'[u].active THEN d <= now' - meas'[u].start + 1 ELSE d = 1
    BY <1>1, <1>2, <1>5, <2>2, <2>3 DEF SameTrigger
  <2>6. d \in Nat
    BY <1>2, <1>5
  <2> HIDE DEF d
  <2>7. d \in Nat /\ d <= (ReportWait + 1)
    BY <2>4, <2>6
  <2> QED
    BY <1>1, <1>5, <2>5, <2>7 DEF CriticalHeld, d
<1> QED
  BY <1>3, <1>4, <1>5

LEMMA CriticalHeldCheck ==
  ASSUME UniqueBest, NtnNeedsNeighbour, TypeOK, NEW u \in UEs, Consistent(u),
         Punctual(u), CriticalHeld(u), CheckHandover(u),
         reportHeld' = reportHeld
  PROVE  CriticalHeld(u)'
<1> DEFINE c == reportHeld[u].critical
<1>1. /\ now' = now /\ now \in Int /\ ~Visited(u) /\ Visited(u)'
  BY CheckKeepsClock, VisitOrder, TypeOfUe
<1>2. meas[u].start \in Int /\ c \in Nat
  BY TypeOfUe DEF MeasState, Time, CriticalHeld
<1>3. SUFFICES ASSUME c > 0
               PROVE  \/ proc'[u].phase \in Signalled
                      \/ /\ proc'[u].phase = "IDLE"
                         /\ meas'[u].active
                         /\ c <= now - meas'[u].start + 1
                         /\ now - meas'[u].start < ReportWait
  BY <1>1 DEF CriticalHeld
<1>4. /\ \E n \in Cells : Held(u, n)
      /\ NtnTrigger(At(u, serving[u]))
      /\ IF meas[u].active THEN c <= now - meas[u].start + 1 ELSE c = 1
  BY <1>1, <1>3 DEF CriticalHeld
<1>5. PICK m \in Cells : Held(u, m)
  BY <1>4
<1>6. MayMeasure(u) /\ serving[u] \in Detected(u)
  BY <1>1, <1>5, IdleMeasures, CellFacts DEF Held, Detected
<1>7. PICK n \in Cells :
        Clears(u, n) \/ Starts(u, n) \/ Holds(u, n) \/ Reports(u, n)
  BY <1>6, WaysOfMeasuring DEF Passes, Loses
<1>8. n = m
  BY <1>5, <1>7, OneNeighbour
     DEF Clears, Starts, Holds, Reports, Continues, Ranks, Held
<1>9. Triggered(u, n)
  BY <1>5, <1>8 DEF Held
<1>10. CASE Clears(u, n)
  BY <1>9, <1>10 DEF Clears
<1>11. CASE Starts(u, n)
  <2>1. /\ ~meas[u].active /\ meas'[u].active /\ meas'[u].start = now
        /\ proc'[u].phase = "IDLE"
    BY <1>4, <1>6, <1>11 DEF Starts, MayMeasure
  <2> QED
    BY <1>1, <1>4, <2>1, ReportWaitFacts
<1>12. CASE Holds(u, n)
  <2>1. /\ meas[u].active /\ meas'[u].active
        /\ meas'[u].start = meas[u].start
        /\ now - meas[u].start < TimeToTrigger
        /\ proc'[u].phase = "IDLE"
    BY <1>6, <1>12 DEF Holds, Continues, SameTrigger, MayMeasure
  <2> QED
    BY <1>1, <1>2, <1>4, <2>1, ReportWaitFacts
<1>13. CASE Reports(u, n)
  <2>1. n # NoCell
    BY <1>9 DEF Triggered, NtnNeedsNeighbour
  <2>2. proc'[u].phase = "MEAS_REPORT_UPLINK"
    BY <1>13, <2>1 DEF Reports, ReportsTo
  <2> QED
    BY <2>2 DEF Signalled
<1> QED
  BY <1>7, <1>10, <1>11, <1>12, <1>13

LEMMA CriticalHeldSignal ==
  ASSUME TypeOK, NEW u \in UEs, Consistent(u), CriticalHeld(u),
         NEW e \in Event, Signal(u, e), reportHeld' = reportHeld
  PROVE  CriticalHeld(u)'
<1>1. Visited(u) /\ Visited(u)'
  BY SignalKeepsClock, TimesOfUe DEF Visited
<1>2. proc[u].phase \in Signalled =>
        proc'[u].phase \in Signalled \cup {"UE_EVALUATING"}
  BY WaysOfSignal DEF Relays, Stores, Fails, Completes, Ends, Moves, Signalled
<1>3. proc[u].phase \in Signalled \cup {"UE_EXECUTING"}
  BY WaysOfSignal DEF Relays, Stores, Fails, Completes, Ends
<1>4. /\ "UE_EXECUTING" \notin Signalled \cup {"UE_EVALUATING", "IDLE"}
      /\ "IDLE" \notin Signalled \cup {"UE_EXECUTING"}
      /\ "UE_EVALUATING" \notin Signalled \cup {"UE_EXECUTING"}
  BY DEF Signalled
<1> QED
  BY <1>1, <1>2, <1>3, <1>4 DEF CriticalHeld

LEMMA CriticalHeldInit == HistoryInit => AllCriticalHeld
<1> SUFFICES ASSUME HistoryInit, NEW u \in UEs PROVE CriticalHeld(u)
  BY DEF AllCriticalHeld
<1>1. reportHeld[u].critical = 0
  BY DEF HistoryInit, NotHeld
<1> QED
  BY <1>1, ReportWaitFacts DEF CriticalHeld

LEMMA CriticalHeldNext ==
  ASSUME UniqueBest, NtnNeedsNeighbour, IInv, IInv', AllPunctual,
         AllCriticalHeld, [HistoryNext]_hvars
  PROVE  AllCriticalHeld'
<1> SUFFICES ASSUME NEW u \in UEs PROVE CriticalHeld(u)'
  BY DEF AllCriticalHeld
<1>1. TypeOK /\ TypeOK' /\ Consistent(u) /\ Punctual(u) /\ CriticalHeld(u)
  BY DEF IInv, AllPunctual, AllCriticalHeld
<1>2. CASE UNCHANGED hvars
  BY <1>1, <1>2, CriticalHeldFrame DEF hvars, vars, Visited
<1>3. CASE BeginCheck /\ Observe
  BY <1>1, <1>3, CriticalHeldBeginCheck
<1>4. ASSUME NEW w \in UEs, CheckHandover(w), reportHeld' = reportHeld
      PROVE  CriticalHeld(u)'
  <2>1. CASE w = u
    BY <1>1, <1>4, <2>1, CriticalHeldCheck
  <2>2. CASE w # u
    BY <1>1, <1>4, <2>2, CriticalHeldFrame, OthersInCheck, CheckKeepsClock,
       VisitOrder
  <2> QED
    BY <2>1, <2>2
<1>5. ASSUME NEW w \in UEs, NEW e \in Event, Signal(w, e),
             reportHeld' = reportHeld
      PROVE  CriticalHeld(u)'
  <2>1. CASE w = u
    BY <1>1, <1>5, <2>1, CriticalHeldSignal
  <2>2. CASE w # u
    BY <1>1, <1>5, <2>2, CriticalHeldFrame, OthersInSignal, SignalKeepsClock
       DEF Visited
  <2> QED
    BY <2>1, <2>2
<1> QED
  BY <1>2, <1>3, <1>4, <1>5 DEF HistoryNext

(* Where the NTN trigger asks for a neighbour, a UE whose serving cell is  *)
(* about to stop serving reports after TimeToTrigger seconds of neighbours *)
(* that trigger, whichever of them is the best at each check.              *)
THEOREM CriticalReportsInTime ==
  ASSUME UniqueBest, NtnNeedsNeighbour
  PROVE  HistorySpec => []CriticalReportInTime
<1>1. HistoryInit => AllCriticalHeld
  BY CriticalHeldInit
<1>2. IInv /\ IInv' /\ AllPunctual /\ AllCriticalHeld /\ [HistoryNext]_hvars
        => AllCriticalHeld'
  BY CriticalHeldNext
<1>3. AllCriticalHeld => CriticalReportInTime
  BY DEF AllCriticalHeld, CriticalHeld, CriticalReportInTime
<1> QED
  BY <1>1, <1>2, <1>3, HistoryImplements, InvariantHolds, PunctualHolds, PTL
     DEF HistorySpec

-------------------------------------------------------------------------------
(* The result log.                                                         *)

Logged == [source : Cells, target : Cells, time : Int]

LogTypeOK ==
  /\ hoContext \in [UEs -> Logged]
  /\ pendingEvals \in [UEs -> SUBSET Logged]
  /\ evalEvents \in [UEs -> SUBSET Logged]

LEMMA LogStep == [LogNext]_lvars => [Next]_vars
BY DEF LogNext, lvars, vars, Next, EvaluatePendingPrediction

LEMMA LogImplements == LogSpec => Spec
<1>1. LogInit => Init
  BY DEF LogInit
<1> QED
  BY <1>1, LogStep, PTL DEF LogSpec, Spec

(* What the log does at the visit of u. *)
LEMMA WaysOfLogging ==
  ASSUME TypeOK, NEW u \in UEs, Consistent(u), LogCheck(u)
  PROVE  \/ UNCHANGED <<hoContext, pendingEvals, evalEvents>> /\ ~MayMeasure(u)
         \/ /\ MayMeasure(u)
            /\ hoContext' = [hoContext EXCEPT ![u] = None]
            /\ UNCHANGED <<pendingEvals, evalEvents>>
            /\ serving[u] \in Detected(u) => IsBestNeighbour(u, NoCell)
         \/ /\ MayMeasure(u) /\ serving[u] \in Detected(u)
            /\ \E n \in Sats : IsBestNeighbour(u, n) /\ LogNeighbour(u, n)
<1>1. meas[u].serving = serving[u]
  BY DEF Consistent, UeCells
<1> QED
  BY <1>1 DEF LogCheck, LogMeasurement

LEMMA NeighbourDetected ==
  ASSUME NEW u \in UEs, NEW n \in Sats, IsBestNeighbour(u, n)
  PROVE  n \in Detected(u)
BY CellFacts DEF IsBestNeighbour

LEMMA LogTypeInit == LogInit => LogTypeOK
BY CellFacts DEF LogInit, LogTypeOK, None, Logged, Never

LEMMA LogTypeCheck ==
  ASSUME TypeOK, LogTypeOK, NEW u \in UEs, Consistent(u), LogCheck(u)
  PROVE  LogTypeOK'
<1>1. None \in Logged
  BY CellFacts DEF None, Logged, Never
<1>2. ASSUME NEW n \in Sats, LogNeighbour(u, n)
      PROVE  LogTypeOK'
  <2> DEFINE d == Decision(meas[u].serving, n)
  <2>1. d \in Logged
    BY CellFacts, TypeOfUe DEF Decision, Logged, MeasState
  <2>2. /\ pendingEvals' = [pendingEvals EXCEPT ![u] = @ \cup {d}]
        /\ evalEvents' = [evalEvents EXCEPT ![u] = @ \cup {d}]
        /\ \E x \in {d, None} : hoContext' = [hoContext EXCEPT ![u] = x]
    BY <1>2 DEF LogNeighbour
  <2> HIDE DEF d
  <2> QED
    BY <1>1, <2>1, <2>2 DEF LogTypeOK
<1> QED
  BY <1>1, <1>2, WaysOfLogging DEF LogTypeOK

LEMMA LogTypeNext ==
  ASSUME IInv, LogTypeOK, [LogNext]_lvars
  PROVE  LogTypeOK'
<1>1. CASE UNCHANGED <<hoContext, pendingEvals, evalEvents>>
  BY <1>1 DEF LogTypeOK
<1>2. ASSUME NEW u \in UEs, LogCheck(u) PROVE LogTypeOK'
  BY <1>2, LogTypeCheck DEF IInv
<1>3. ASSUME NEW u \in UEs, LogSignal(u) PROVE LogTypeOK'
  BY <1>3, CellFacts DEF LogSignal, LogTypeOK, None, Logged, Never
<1>4. ASSUME NEW u \in UEs, NEW d, EvaluatePendingPrediction(u, d)
      PROVE  LogTypeOK'
  BY <1>4 DEF EvaluatePendingPrediction, LogTypeOK
<1> QED
  BY <1>1, <1>2, <1>3, <1>4 DEF LogNext, lvars

-------------------------------------------------------------------------------
(* The pending predictions.                                                *)

AllEvaluable ==
  \A u \in UEs : \A d \in evalEvents[u] :
    Measured(u, d.source) /\ Measured(u, d.target)

PendingInv == pendingEvals = evalEvents /\ AllEvaluable

LEMMA EvaluableStays ==
  ASSUME IInv, AllEvaluable, [Next]_vars, NEW u \in UEs, NEW d \in evalEvents[u]
  PROVE  Measured(u, d.source)' /\ Measured(u, d.target)'
<1>1. TypeOK /\ Measured(u, d.source) /\ Measured(u, d.target)
  BY DEF IInv, AllEvaluable
<1>2. CASE BeginCheck
  BY <1>1, <1>2, MeasuredStays
<1>3. CASE cache' = cache
  BY <1>1, <1>3 DEF Measured
<1>4. BeginCheck \/ cache' = cache
  BY CheckKeepsClock, SignalKeepsClock DEF Next, vars
<1> QED
  BY <1>2, <1>3, <1>4

(* A measurement adds a prediction about two cells it has detected. *)
LEMMA PendingCheck ==
  ASSUME IInv, LogTypeOK, PendingInv, NEW u \in UEs, CheckHandover(u),
         LogCheck(u)
  PROVE  PendingInv'
<1>1. TypeOK /\ Consistent(u) /\ meas[u].serving = serving[u]
  BY DEF IInv, Consistent, UeCells
<1>2. \A v \in UEs : \A d \in evalEvents[v] :
        Measured(v, d.source)' /\ Measured(v, d.target)'
  BY EvaluableStays DEF PendingInv, Next
<1>3. CASE UNCHANGED <<pendingEvals, evalEvents>>
  BY <1>2, <1>3 DEF PendingInv, AllEvaluable
<1>4. ASSUME NEW n \in Sats, serving[u] \in Detected(u),
             IsBestNeighbour(u, n), LogNeighbour(u, n)
      PROVE  PendingInv'
  <2> DEFINE d == Decision(meas[u].serving, n)
  <2>1. /\ pendingEvals' = [pendingEvals EXCEPT ![u] = @ \cup {d}]
        /\ evalEvents' = [evalEvents EXCEPT ![u] = @ \cup {d}]
    BY <1>4 DEF LogNeighbour
  <2>2. d.source = serving[u] /\ d.target = n
    BY <1>1 DEF Decision
  <2>3. \A s \in {serving[u], n} : Measured(u, s)'
    <3>1. \A s \in {serving[u], n} : s \in Detected(u)
      BY <1>4, NeighbourDetected
    <3>2. cache' = cache
      BY CheckKeepsClock
    <3> QED
      BY <3>1, <3>2 DEF Measured, Detected, Visible
  <2> HIDE DEF d
  <2>4. pendingEvals' = evalEvents'
    BY <2>1 DEF PendingInv
  <2>5. \A v \in UEs : evalEvents'[v] \subseteq
                         evalEvents[v] \cup (IF v = u THEN {d} ELSE {})
    BY <2>1 DEF LogTypeOK
  <2>6. ASSUME NEW v \in UEs, NEW f \in evalEvents'[v]
        PROVE  Measured(v, f.source)' /\ Measured(v, f.target)'
    <3>1. f \in evalEvents[v] \/ (v = u /\ f = d)
      BY <2>5
    <3> QED
      BY <1>2, <2>2, <2>3, <3>1
  <2> QED
    BY <2>4, <2>6 DEF PendingInv, AllEvaluable
<1> QED
  BY <1>1, <1>3, <1>4, WaysOfLogging

(* The comparison of a prediction finds that prediction and no other. *)
LEMMA PendingEvaluated ==
  ASSUME LogTypeOK, PendingInv, NEW u \in UEs, NEW d,
         EvaluatePendingPrediction(u, d)
  PROVE  PendingInv'
<1>1. {p \in evalEvents[u] : ~SamePrediction(p, d)} = evalEvents[u] \ {d}
  BY DEF SamePrediction
<1>2. /\ pendingEvals' = evalEvents' /\ cache' = cache
      /\ evalEvents' = [evalEvents EXCEPT ![u] = @ \ {d}]
  BY <1>1 DEF EvaluatePendingPrediction, PendingInv, vars
<1>3. \A v \in UEs : evalEvents'[v] \subseteq evalEvents[v]
  BY <1>2 DEF LogTypeOK
<1> QED
  BY <1>2, <1>3 DEF PendingInv, AllEvaluable, Measured

LEMMA PendingNext ==
  ASSUME IInv, LogTypeOK, PendingInv, [LogNext]_lvars
  PROVE  PendingInv'
<1>1. CASE UNCHANGED <<pendingEvals, evalEvents>>
  <2>1. AllEvaluable'
    BY <1>1, LogStep, EvaluableStays DEF PendingInv, AllEvaluable
  <2> QED
    BY <1>1, <2>1 DEF PendingInv
<1>2. ASSUME NEW u \in UEs, CheckHandover(u), LogCheck(u) PROVE PendingInv'
  BY <1>2, PendingCheck
<1>3. ASSUME NEW u \in UEs, NEW d, EvaluatePendingPrediction(u, d)
      PROVE  PendingInv'
  BY <1>3, PendingEvaluated
<1> QED
  BY <1>1, <1>2, <1>3 DEF LogNext, lvars, LogSignal

LEMMA LogTypeHolds == LogSpec => []LogTypeOK
<1>1. LogInit => LogTypeOK
  BY LogTypeInit
<1>2. IInv /\ LogTypeOK /\ [LogNext]_lvars => LogTypeOK'
  BY LogTypeNext
<1> QED
  BY <1>1, <1>2, LogImplements, InvariantHolds, PTL DEF LogSpec

(* EvaluatePendingPrediction removes from g_pendingPredictionEvals the     *)
(* prediction it was scheduled for, and finds both cells in the cache.     *)
THEOREM PendingPredictions == LogSpec => []PendingMatchesScheduled
<1>1. LogInit => PendingInv
  BY DEF LogInit, PendingInv, AllEvaluable
<1>2. IInv /\ LogTypeOK /\ PendingInv /\ [LogNext]_lvars => PendingInv'
  BY PendingNext
<1>3. PendingInv => PendingMatchesScheduled
  BY DEF PendingInv, AllEvaluable, PendingMatchesScheduled
<1> QED
  BY <1>1, <1>2, <1>3, LogImplements, LogTypeHolds, InvariantHolds, PTL
     DEF LogSpec

-------------------------------------------------------------------------------
(* The context of a procedure.                                             *)

ContextOf(u) == IF proc[u].target = NoCell THEN None
                ELSE [source |-> proc[u].source, target |-> proc[u].target,
                      time |-> proc[u].startTime]

(* A procedure started in an earlier check than the one that visits its UE *)
(* next, so that a measurement after a failure is later than its start.    *)
Remembers(u) ==
  /\ proc[u].phase # "IDLE" => ~proc[u].failed /\ hoContext[u] = ContextOf(u)
  /\ proc[u].failed /\ meas[u].lastTime <= proc[u].startTime =>
       hoContext[u] = None
  /\ proc[u].failed \/ proc[u].phase # "IDLE" =>
       proc[u].startTime <= now - (IF Visited(u) THEN 0 ELSE 1)

AllRemember == \A u \in UEs : Remembers(u)

LEMMA RemembersFrame ==
  ASSUME NEW u \in UEs, Remembers(u), proc'[u] = proc[u],
         meas'[u] = meas[u], now' = now, Visited(u)' <=> Visited(u),
         hoContext'[u] = hoContext[u]
  PROVE  Remembers(u)'
BY DEF Remembers, ContextOf

LEMMA RemembersBeginCheck ==
  ASSUME TypeOK, NEW u \in UEs, Remembers(u), BeginCheck,
         hoContext' = hoContext
  PROVE  Remembers(u)'
<1>1. /\ proc'[u] = proc[u] /\ now' = now + 1
      /\ Visited(u) /\ ~Visited(u)' /\ meas'[u].lastTime = meas[u].lastTime
  BY MeasInBeginCheck
<1> QED
  BY <1>1, TimesOfUe DEF Remembers, ContextOf

(* What a measurement leaves in the context: the decision for its best     *)
(* neighbour n if the preparation condition holds, and else nothing.       *)
LEMMA ContextMeasured ==
  ASSUME UniqueBest, TypeOK, LogTypeOK, NEW u \in UEs, Consistent(u),
         LogCheck(u), NEW n \in Cells, Ranks(u, n)
  PROVE  hoContext'[u] =
           IF n # NoCell /\ Prepare(At(u, serving[u]), At(u, n))
           THEN Decision(serving[u], n) ELSE None
<1>1. /\ meas[u].serving = serving[u] /\ IsBestNeighbour(u, n)
      /\ MayMeasure(u) /\ serving[u] \in Detected(u)
  BY DEF Consistent, UeCells, Ranks
<1>2. ASSUME NEW m \in Sats, IsBestNeighbour(u, m), LogNeighbour(u, m)
      PROVE  hoContext'[u] =
               IF n # NoCell /\ Prepare(At(u, serving[u]), At(u, n))
               THEN Decision(serving[u], n) ELSE None
  <2>1. m = n
    BY <1>1, <1>2, OneNeighbour
  <2> QED
    BY <1>1, <1>2, <2>1, CellFacts DEF LogNeighbour, LogTypeOK
<1>3. ASSUME hoContext' = [hoContext EXCEPT ![u] = None],
             IsBestNeighbour(u, NoCell)
      PROVE  hoContext'[u] = None /\ n = NoCell
  <2>1. n = NoCell
    BY <1>1, <1>3, OneNeighbour
  <2> QED
    BY <1>3, <2>1 DEF LogTypeOK
<1> QED
  BY <1>1, <1>2, <1>3, WaysOfLogging

LEMMA RemembersCheck ==
  ASSUME UniqueBest, NtnSilent, TypeOK, LogTypeOK, NEW u \in UEs,
         Consistent(u), Remembers(u), CheckHandover(u), LogCheck(u)
  PROVE  Remembers(u)'
<1>1. /\ now' = now /\ now \in Int /\ ~Visited(u) /\ Visited(u)'
      /\ meas[u].serving = serving[u]
  BY CheckKeepsClock, VisitOrder, TypeOfUe DEF Consistent, UeCells
<1>2. proc[u].startTime \in Int /\ meas[u].lastTime \in Int
  BY TimesOfUe
<1>3. CASE Passes(u)
  <2>1. hoContext' = hoContext /\ meas'[u] = meas[u]
    BY <1>3, WaysOfLogging DEF Passes
  <2>2. CASE proc'[u] = proc[u]
    BY <1>1, <1>2, <2>1, <2>2 DEF Remembers, ContextOf
  <2>3. CASE proc'[u] # proc[u]
    <3>1. /\ proc[u].phase # "IDLE" /\ proc'[u].failed = proc[u].failed
          /\ proc'[u].source = proc[u].source
          /\ proc'[u].target = proc[u].target
          /\ proc'[u].startTime = proc[u].startTime
      BY <1>3, <2>3, WaysOfCheck
         DEF Passes, Waits, Reselects, Triggers, Expires, Executes, Moves
    <3> QED
      BY <1>1, <1>2, <2>1, <3>1 DEF Remembers, ContextOf
  <2> QED
    BY <2>2, <2>3
<1>4. ASSUME meas'[u].lastTime = now, proc'[u] = proc[u], MayMeasure(u)
      PROVE  Remembers(u)'
  BY <1>1, <1>2, <1>4 DEF Remembers, MayMeasure
<1>5. ASSUME NEW n, ReportsTo(u, n),
             hoContext'[u] = IF n = NoCell THEN None
                             ELSE Decision(serving[u], n)
      PROVE  Remembers(u)'
  <2>1. /\ proc'[u].phase = "MEAS_REPORT_UPLINK" /\ ~proc'[u].failed
        /\ proc'[u].source = serving[u] /\ proc'[u].target = n
        /\ proc'[u].startTime = now
    BY <1>5 DEF ReportsTo
  <2>2. hoContext'[u] = ContextOf(u)'
    BY <1>5, <2>1 DEF ContextOf, Decision
  <2> QED
    BY <1>1, <2>1, <2>2 DEF Remembers
<1>6. CASE Loses(u) /\ meas'[u].lastTime = now
  <2>1. CASE ForcedReselect
    BY <1>4, <1>6, <2>1 DEF Loses
  <2>2. CASE ~ForcedReselect
    <3>1. hoContext'[u] = None
      BY <1>6, WaysOfLogging DEF Loses, LogTypeOK
    <3> QED
      BY <1>5, <1>6, <2>2, <3>1 DEF Loses
  <2> QED
    BY <2>1, <2>2
<1>7. ASSUME NEW n \in Cells, meas'[u].lastTime = now,
             Clears(u, n) \/ Starts(u, n) \/ Holds(u, n)
      PROVE  Remembers(u)'
  BY <1>4, <1>7 DEF Clears, Starts, Holds, Continues, Ranks
<1>8. ASSUME NEW n \in Cells, meas'[u].lastTime = now, Reports(u, n)
      PROVE  Remembers(u)'
  <2>1. /\ Ranks(u, n) /\ Triggered(u, n) /\ MayMeasure(u)
        /\ proc'[u] = proc[u] \/ ReportsTo(u, n)
    BY <1>8 DEF Reports, Continues, Ranks
  <2>2. n # NoCell => Prepare(At(u, serving[u]), At(u, n))
    BY <1>1, <2>1 DEF Triggered, NtnSilent
  <2>3. hoContext'[u] = IF n = NoCell THEN None ELSE Decision(serving[u], n)
    BY <2>1, <2>2, ContextMeasured
  <2> QED
    BY <1>4, <1>5, <1>8, <2>1, <2>3
<1> QED
  BY <1>3, <1>6, <1>7, <1>8, WaysOfMeasuring

LEMMA RemembersSignal ==
  ASSUME TypeOK, LogTypeOK, NEW u \in UEs, Consistent(u), Remembers(u),
         NEW e \in Event, Signal(u, e), LogSignal(u)
  PROVE  Remembers(u)'
<1>1. /\ now' = now /\ now \in Int /\ Visited(u) /\ Visited(u)'
  BY SignalKeepsClock, TimesOfUe DEF Visited
<1>2. hoContext'[u] =
        IF proc[u].phase = "UE_EXECUTING" /\ proc'[u].phase = "IDLE"
        THEN None ELSE hoContext[u]
  BY DEF LogSignal, LogTypeOK
<1>3. CASE Relays(u) \/ Stores(u)
  <2>1. /\ proc[u].phase \in Signalled
        /\ proc'[u].source = proc[u].source
        /\ proc'[u].target = proc[u].target
        /\ proc'[u].startTime = proc[u].startTime
        /\ proc'[u].failed = proc[u].failed
    BY <1>3 DEF Relays, Stores, Moves
  <2>2. /\ proc[u].phase # "IDLE" /\ proc[u].phase # "UE_EXECUTING"
    BY <2>1 DEF Signalled
  <2> QED
    BY <1>1, <1>2, <2>1, <2>2 DEF Remembers, ContextOf
<1>4. CASE Fails(u) \/ Completes(u)
  <2>1. /\ proc[u].phase = "UE_EXECUTING" /\ proc'[u].phase = "IDLE"
        /\ proc'[u].startTime = proc[u].startTime
    BY <1>4 DEF Fails, Completes, Ends
  <2> QED
    BY <1>1, <1>2, <2>1 DEF Remembers
<1> QED
  BY <1>3, <1>4, WaysOfSignal

LEMMA RemembersNext ==
  ASSUME UniqueBest, NtnSilent, IInv, LogTypeOK, AllRemember, [LogNext]_lvars
  PROVE  AllRemember'
<1> SUFFICES ASSUME NEW u \in UEs PROVE Remembers(u)'
  BY DEF AllRemember
<1>1. TypeOK /\ Consistent(u) /\ Remembers(u)
  BY DEF IInv, AllRemember
<1>2. CASE UNCHANGED <<vars, hoContext>>
  BY <1>1, <1>2, RemembersFrame DEF vars, Visited
<1>3. CASE BeginCheck /\ hoContext' = hoContext
  BY <1>1, <1>3, RemembersBeginCheck
<1>4. ASSUME NEW w \in UEs, CheckHandover(w), LogCheck(w)
      PROVE  Remembers(u)'
  <2>1. CASE w = u
    BY <1>1, <1>4, <2>1, RemembersCheck
  <2>2. CASE w # u
    <3>1. hoContext'[u] = hoContext[u]
      <4>1. hoContext' = hoContext \/ \E x : hoContext' =
                                               [hoContext EXCEPT ![w] = x]
        BY <1>4 DEF LogCheck, LogMeasurement, LogNeighbour
      <4> QED
        BY <2>2, <4>1 DEF LogTypeOK
    <3> QED
      BY <1>1, <1>4, <2>2, <3>1, RemembersFrame, OthersInCheck,
         CheckKeepsClock, VisitOrder
  <2> QED
    BY <2>1, <2>2
<1>5. ASSUME NEW w \in UEs, NEW e \in Event, Signal(w, e), LogSignal(w)
      PROVE  Remembers(u)'
  <2>1. CASE w = u
    BY <1>1, <1>5, <2>1, RemembersSignal
  <2>2. CASE w # u
    <3>1. hoContext'[u] = hoContext[u]
      BY <1>5, <2>2 DEF LogSignal, LogTypeOK
    <3> QED
      BY <1>1, <1>5, <2>2, <3>1, RemembersFrame, OthersInSignal,
         SignalKeepsClock DEF Visited
  <2> QED
    BY <2>1, <2>2
<1> QED
  BY <1>2, <1>3, <1>4, <1>5 DEF LogNext, lvars, EvaluatePendingPrediction

LEMMA RemembersInit == LogInit => AllRemember
BY DEF LogInit, Init, AllRemember, Remembers

(* hoContext is that of the measurement whose report started the procedure *)
(* for as long as the procedure runs, and reset by the one that fails: in  *)
(* the strategies whose NTN trigger never fires, so that what is reported  *)
(* meets the preparation condition, and however long the signalling takes. *)
THEOREM ContextIsOfProcedure ==
  ASSUME UniqueBest, NtnSilent
  PROVE  LogSpec => []ContextOfProcedure
<1>1. LogInit => AllRemember
  BY RemembersInit
<1>2. IInv /\ LogTypeOK /\ AllRemember /\ [LogNext]_lvars => AllRemember'
  BY RemembersNext
<1>3. AllRemember => ContextOfProcedure
  BY DEF AllRemember, Remembers, ContextOf, ContextOfProcedure
<1> QED
  BY <1>1, <1>2, <1>3, LogImplements, LogTypeHolds, InvariantHolds, PTL
     DEF LogSpec
===============================================================================
