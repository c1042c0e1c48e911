------------------------------- MODULE SnrProofs -------------------------------
(***************************************************************************)
(* The SNR strategy, and its TDCHO variant: the measurement of TDCHO takes *)
(* the place of that of ChoProcedure, so that TdchoSpec does not imply     *)
(* Spec.  It keeps the invariants of the CHO machine and implements the    *)
(* same life cycle; what is its own are the history of samples and the     *)
(* predictions, and the cache its measurements overwrite.                  *)
(***************************************************************************)
EXTENDS TdchoCho, ChoTimingProofs

(* A measurement of a detectable serving cell; n is the best neighbour.    *)
TdchoMeasures(u) == \/ TdchoClearTrigger(u)
                    \/ TdchoStartTrigger(u)
                    \/ TdchoHoldTrigger(u)
                    \/ TdchoReport(u)

Asks(u, n) == /\ proc'[u].phase # "IDLE"
              /\ A3(u, n)
              /\ TriggerProcedure(u, serving[u], n)

LEMMA BestIsCandidate ==
  ASSUME NEW u \in UEs, NEW n, n # NoCell, IsBestCandidate(u, n)
  PROVE  n \in Candidates(u)
BY DEF IsBestCandidate

LEMMA CandidateSeen ==
  ASSUME TypeOK, NEW u \in UEs, NEW n \in Candidates(u)
  PROVE  /\ n \in Detected(u) /\ n \in Sats /\ n # serving[u]
         /\ now <= EndTime[n] /\ cache[u][n] \in CacheEntry
BY DetectedCached, DetectedAlive DEF Candidates

LEMMA WaysOfTdcho ==
  ASSUME TypeOK, NEW u \in UEs, TdchoMeasures(u)
  PROVE  \E n \in Cells :
           /\ Evaluated(u, n)
           /\ \E m \in MeasState : /\ meas' = [meas EXCEPT ![u] = m]
                                   /\ m.serving = meas[u].serving
           /\ \/ NoProcedure
              \/ n \in Candidates(u) /\ Asks(u, n)
<1>1. meas[u] \in MeasState /\ now \in Time /\ Never \in Time
  BY TypeOfUe DEF Time, Never
<1>2. CASE TdchoClearTrigger(u)
  <2>1. PICK n \in Cells : Evaluated(u, n)
    BY <1>2 DEF TdchoClearTrigger
  <2> DEFINE m == [meas[u] EXCEPT !.lastTime = now, !.active = FALSE,
                     !.start = Never, !.candidate = NoCell]
  <2>2. m \in MeasState /\ m.serving = meas[u].serving
    BY <1>1, CellFacts DEF MeasState
  <2>3. meas' = [meas EXCEPT ![u] = m] /\ NoProcedure
    BY <1>2 DEF TdchoClearTrigger
  <2> QED
    BY <2>1, <2>2, <2>3
<1>3. CASE TdchoStartTrigger(u)
  <2>1. PICK n \in Sats :
          /\ Evaluated(u, n)
          /\ meas' = [meas EXCEPT ![u] = [meas[u] EXCEPT !.lastTime = now,
                        !.active = TRUE, !.start = now, !.candidate = n]]
    BY <1>3 DEF TdchoStartTrigger
  <2> DEFINE m == [meas[u] EXCEPT !.lastTime = now, !.active = TRUE,
                     !.start = now, !.candidate = n]
  <2>2. m \in MeasState /\ m.serving = meas[u].serving /\ n \in Cells
    BY <1>1, CellFacts DEF MeasState
  <2>3. NoProcedure
    BY <1>3 DEF TdchoStartTrigger
  <2> QED
    BY <2>1, <2>2, <2>3
<1>4. CASE TdchoHoldTrigger(u) \/ TdchoReport(u)
  <2> DEFINE n == meas[u].candidate
  <2>1. n \in Cells /\ Evaluated(u, n) /\ A3(u, n)
    BY <1>1, <1>4 DEF TdchoHoldTrigger, TdchoReport, TdchoPersists, MeasState
  <2>2. PICK b \in BOOLEAN :
          meas' = [meas EXCEPT ![u] = [meas[u] EXCEPT !.lastTime = now,
                                                      !.active = b]]
    <3>1. [meas[u] EXCEPT !.lastTime = now] =
            [meas[u] EXCEPT !.lastTime = now, !.active = meas[u].active]
      BY <1>1 DEF MeasState
    <3>2. meas[u].active \in BOOLEAN
      BY <1>1 DEF MeasState
    <3>3. CASE TdchoHoldTrigger(u)
      <4>1. meas' = [meas EXCEPT ![u] = [meas[u] EXCEPT !.lastTime = now]]
        BY <3>3 DEF TdchoHoldTrigger
      <4> QED
        BY <3>1, <3>2, <4>1
    <3>4. CASE TdchoReport(u)
      BY <3>4 DEF TdchoReport
    <3> QED
      BY <1>4, <3>3, <3>4
  <2> DEFINE m == [meas[u] EXCEPT !.lastTime = now, !.active = b]
  <2>3. m \in MeasState /\ m.serving = meas[u].serving
    BY <1>1 DEF MeasState
  <2>4. NoProcedure \/ TriggerProcedure(u, serving[u], n)
    BY <1>4 DEF TdchoHoldTrigger, TdchoReport
  <2>5. n \in Candidates(u)
    BY <2>1, BestIsCandidate DEF Evaluated, A3
  <2>6. TriggerProcedure(u, serving[u], n) => proc'[u].phase # "IDLE"
    <3>1. proc[u] \in ProcState /\ proc \in [UEs -> ProcState]
      BY TypeOfUe DEF TypeOK
    <3> QED
      BY <3>1 DEF TriggerProcedure, ProcState
  <2>7. n \in Cells /\ Evaluated(u, n)
    BY <2>1
  <2>8. NoProcedure \/ (n \in Candidates(u) /\ Asks(u, n))
    BY <2>1, <2>4, <2>5, <2>6 DEF Asks
  <2> HIDE DEF n, m
  <2> QED
    BY <2>2, <2>3, <2>7, <2>8 DEF m
<1> QED
  BY <1>2, <1>3, <1>4 DEF TdchoMeasures

(* Reread computes the channel of the previous second for the satellites   *)
(* in r, and leaves everything else in the cache and the history alone.    *)
Rereads(u) == {s \in Sats : /\ s \in Candidates(u) \cup {serving[u]}
                            /\ Candidates(u) # {}
                            /\ Previous >= 0 /\ Previous >= StartTime[s]}

LEMMA RereadIs ==
  ASSUME TypeOK, NEW u \in UEs, serving[u] \in Detected(u), Reread(u)
  PROVE  \E draw \in [Rereads(u) -> Metrics] :
           /\ \A s \in Rereads(u) : draw[s] \in Channel(u, s, Previous)
           /\ cache' = [cache EXCEPT ![u] = [s \in Sats |->
                IF s \in Rereads(u) THEN [time |-> Previous, m |-> draw[s]]
                                    ELSE cache[u][s]]]
           /\ history' = [history EXCEPT ![u] = [s \in Sats |->
                IF s \in Rereads(u)
                THEN Sampled(history[u][s], Previous, draw[s].snr)
                ELSE history[u][s]]]
<1> DEFINE R == {s \in IF Candidates(u) = {} THEN {}
                       ELSE Candidates(u) \cup {serving[u]} :
                   Previous >= 0 /\ Previous >= StartTime[s]}
<1>1. Rereads(u) = R
  BY CandidateSeen, DetectedCached DEF Rereads
<1>2. PICK draw \in [R -> Metrics] :
        /\ \A s \in R : draw[s] \in Channel(u, s, Previous)
        /\ cache' = [cache EXCEPT ![u] = [s \in Sats |->
             IF s \in R THEN [time |-> Previous, m |-> draw[s]]
                        ELSE cache[u][s]]]
        /\ history' = [history EXCEPT ![u] = [s \in Sats |->
             IF s \in R THEN Sampled(history[u][s], Previous, draw[s].snr)
                        ELSE history[u][s]]]
  BY DEF Reread
<1> HIDE DEF R
<1> QED
  BY <1>1, <1>2

LEMMA RereadCache ==
  ASSUME TypeOK, NEW u \in UEs, serving[u] \in Detected(u), Reread(u)
  PROVE  /\ cache' \in [UEs -> [Sats -> CacheEntry \cup {Unmeasured}]]
         /\ \A v \in UEs : v # u => cache'[v] = cache[v]
         /\ \A s \in Sats : Measured(u, s) => Measured(u, s)'
<1>1. PICK draw \in [Rereads(u) -> Metrics] :
        cache' = [cache EXCEPT ![u] = [s \in Sats |->
          IF s \in Rereads(u) THEN [time |-> Previous, m |-> draw[s]]
                              ELSE cache[u][s]]]
  BY RereadIs
<1>2. cache \in [UEs -> [Sats -> CacheEntry \cup {Unmeasured}]]
  BY DEF TypeOK
<1>3. Previous \in Time
  BY TimeAssumption DEF TypeOK, Previous, Time
<1>4. \A s \in Rereads(u) : [time |-> Previous, m |-> draw[s]] \in CacheEntry
  BY <1>3 DEF CacheEntry
<1>5. \A s \in Sats :
        cache'[u][s] = IF s \in Rereads(u)
                       THEN [time |-> Previous, m |-> draw[s]] ELSE cache[u][s]
  BY <1>1, <1>2
<1>6. \A s \in Sats : Measured(u, s) => Measured(u, s)'
  BY <1>4, <1>5, CacheAssumption DEF Measured
<1> QED
  BY <1>1, <1>2, <1>4, <1>6

-------------------------------------------------------------------------------
(* The machine around the measurement: the invariant of ChoInvariantProofs *)
(* and the life cycle.                                                     *)
LEMMA TdchoKeepsNext ==
  ASSUME TdchoNext
  PROVE  Next \/ \E u \in UEs : TdchoMeasures(u)
<1>1. CASE Shared
  BY <1>1 DEF Shared, Next, CheckHandover
<1> QED
  BY <1>1 DEF TdchoNext, TdchoBeginCheck, Next, TdchoMeasures

(* What a measurement does to one UE, seen from the others and itself.     *)
LEMMA MeasurementStep ==
  ASSUME TypeOK, NEW u \in UEs, TdchoMeasures(u)
  PROVE  /\ Visit(u) /\ MayMeasure(u) /\ serving[u] \in Detected(u) /\ Reread(u)
         /\ UNCHANGED <<now, serving, conf, interrupted, lossForced, lines>>
         /\ meas'[u].serving = meas[u].serving
         /\ \A v \in UEs : v # u =>
              /\ meas'[v] = meas[v] /\ proc'[v] = proc[v]
              /\ events'[v] = events[v] /\ stats'[v] = stats[v]
              /\ cache'[v] = cache[v]
         /\ \/ NoProcedure
            \/ \E n \in Candidates(u) : Asks(u, n)
<1>1. PICK n \in Cells :
        /\ Evaluated(u, n)
        /\ \E m \in MeasState : /\ meas' = [meas EXCEPT ![u] = m]
                                /\ m.serving = meas[u].serving
        /\ \/ NoProcedure
           \/ n \in Candidates(u) /\ Asks(u, n)
  BY WaysOfTdcho
<1>2. /\ Visit(u) /\ MayMeasure(u) /\ serving[u] \in Detected(u) /\ Reread(u)
      /\ UNCHANGED <<now, serving, conf, interrupted, lossForced, lines>>
  BY <1>1 DEF Evaluated
<1>3. meas'[u].serving = meas[u].serving
  BY <1>1 DEF TypeOK
<1>4. ASSUME NEW v \in UEs, v # u
      PROVE  /\ meas'[v] = meas[v] /\ proc'[v] = proc[v]
             /\ events'[v] = events[v] /\ stats'[v] = stats[v]
             /\ cache'[v] = cache[v]
  <2>1. meas'[v] = meas[v] /\ cache'[v] = cache[v]
    BY <1>1, <1>2, <1>4, RereadCache DEF TypeOK
  <2>2. CASE NoProcedure
    BY <2>1, <2>2 DEF NoProcedure
  <2>3. CASE TriggerProcedure(u, serving[u], n)
    BY <1>4, <2>1, <2>3 DEF TriggerProcedure, Schedule, Count, TypeOK
  <2> QED
    BY <1>1, <2>2, <2>3 DEF Asks
<1> QED
  BY <1>1, <1>2, <1>3, <1>4

LEMMA TdchoTypeOK ==
  ASSUME TypeOK, NEW u \in UEs, TdchoMeasures(u)
  PROVE  TypeOK'
<1>1. PICK n \in Cells :
        /\ Evaluated(u, n)
        /\ \E m \in MeasState : meas' = [meas EXCEPT ![u] = m]
        /\ \/ NoProcedure
           \/ TriggerProcedure(u, serving[u], n)
  BY WaysOfTdcho DEF Asks
<1>2. /\ now' = now /\ serving' = serving /\ conf' = conf
      /\ interrupted' = interrupted /\ lossForced' = lossForced
      /\ Visit(u) /\ serving[u] \in Detected(u) /\ Reread(u)
  BY <1>1 DEF Evaluated
<1>3. turn' \in 0 .. NumUes
  BY <1>2, SizeAssumption DEF Visit, UEs
<1>4. cache' \in [UEs -> [Sats -> CacheEntry \cup {Unmeasured}]]
  BY <1>2, RereadCache
<1>5. /\ proc' \in [UEs -> ProcState]
      /\ events' \in [UEs -> [Event -> Nat]]
      /\ stats' \in [UEs -> [Counter -> Nat]]
      /\ gstats' \in [GlobalCounter -> Nat]
  <2>1. CASE NoProcedure
    BY <2>1 DEF NoProcedure, TypeOK
  <2>2. CASE TriggerProcedure(u, serving[u], n)
    <3>1. /\ \E p \in ProcState : proc' = [proc EXCEPT ![u] = p]
          /\ events' \in [UEs -> [Event -> Nat]]
          /\ stats' \in [UEs -> [Counter -> Nat]]
          /\ gstats' \in [GlobalCounter -> Nat]
      BY <1>1, <2>2, TypeTrigger, TypeOfUe
    <3> QED
      BY <3>1 DEF TypeOK
  <2> QED
    BY <1>1, <2>1, <2>2
<1>6. meas' \in [UEs -> MeasState]
  BY <1>1 DEF TypeOK
<1> QED
  BY <1>2, <1>3, <1>4, <1>5, <1>6 DEF TypeOK

LEMMA TdchoConsistent ==
  ASSUME IInv, NEW u \in UEs, TdchoMeasures(u), NEW v \in UEs
  PROVE  Consistent(v)'
<1>1. /\ TypeOK /\ Consistent(u) /\ Consistent(v)
      /\ meas[u].serving = serving[u]
  BY DEF IInv, Consistent, UeCells
<1>2. CASE v # u
  BY <1>1, <1>2, MeasurementStep, Frame
<1>3. CASE v = u
  <2>1. /\ serving[u] \in Detected(u) /\ Reread(u) /\ MayMeasure(u)
        /\ UNCHANGED <<serving, conf, interrupted, lossForced>>
        /\ meas'[u].serving = serving[u]
        /\ \/ NoProcedure
           \/ \E n \in Candidates(u) : Asks(u, n)
    BY <1>1, MeasurementStep
  <2>2. \A s \in Sats : Measured(u, s) => Measured(u, s)'
    BY <1>1, <2>1, RereadCache
  <2>3. CASE NoProcedure
    <3>1. interrupted[u] => lossForced'[u]
      BY <1>1, <2>1 DEF Consistent, UeInterruption
    <3> QED
      BY <1>1, <1>3, <2>1, <2>2, <2>3, <3>1, Unmoved DEF NoProcedure
  <2>4. ASSUME NEW n \in Candidates(u), Asks(u, n)
        PROVE  Consistent(u)'
    <3>1. n \in Cells /\ n # serving[u]
      BY <1>1, CandidateSeen, CellFacts
    <3>2. proc[u].phase = "IDLE" /\ serving[u] # NoCell
      BY <2>1 DEF MayMeasure
    <3> QED
      BY <1>1, <2>1, <2>4, <3>1, <3>2, ConsistentTrigger DEF Asks
  <2> QED
    BY <1>3, <2>1, <2>3, <2>4
<1> QED
  BY <1>2, <1>3

(* Measuring with trends and with the cache of the previous second keeps   *)
(* every UE consistent, in every order of visits and events.               *)
THEOREM TdchoInvariantHolds == TdchoSpec => []IInv
<1>1. TdchoInit => IInv
  BY TypeInit, ConsistentInit DEF TdchoInit, IInv
<1>2. IInv /\ [TdchoNext]_tvars => IInv'
  <2> SUFFICES ASSUME IInv, [TdchoNext]_tvars PROVE IInv'
    OBVIOUS
  <2>1. ASSUME NEW u \in UEs, TdchoMeasures(u) PROVE IInv'
    BY <2>1, TdchoTypeOK, TdchoConsistent DEF IInv
  <2>2. CASE [Next]_vars
    BY <2>2, InvariantNext
  <2> QED
    BY <2>1, <2>2, TdchoKeepsNext DEF tvars
<1> QED
  BY <1>1, <1>2, PTL DEF TdchoSpec

(* A measurement asks for a handover, or leaves the procedure alone. *)
LEMMA TdchoTriggers ==
  ASSUME TypeOK, NEW u \in UEs, TdchoMeasures(u)
  PROVE  Waits(u) \/ Triggers(u)
<1>1. /\ proc[u].phase = "IDLE" /\ serving[u] # NoCell /\ serving' = serving
      /\ NoProcedure \/ \E n \in Candidates(u) : Asks(u, n)
  BY MeasurementStep DEF MayMeasure
<1>2. CASE NoProcedure
  BY <1>1, <1>2 DEF NoProcedure, Waits, Moves
<1>3. ASSUME NEW n \in Candidates(u), Asks(u, n)
      PROVE  Triggers(u)
  <2>1. n \in Cells \ {serving[u]}
    BY CandidateSeen, CellFacts
  <2>2. ReportsTo(u, n)
    BY <1>3, <2>1, Reported DEF Asks
  <2> QED
    BY <1>1, <2>1, <2>2 DEF Triggers, ReportsTo
<1> QED
  BY <1>1, <1>2, <1>3

(* The TDCHO variant, too, keeps a UE on its cell until it has executed    *)
(* the handover it was configured for, and never has two under way.        *)
THEOREM TdchoLifecycle == TdchoSpec => ImplementsLifecycle
<1>1. TdchoInit => Lifecycle!Init
  BY LifecycleInit DEF TdchoInit
<1>2. IInv /\ IInv' /\ [TdchoNext]_tvars => [Lifecycle!Next]_Lifecycle!lvars
  <2> SUFFICES ASSUME IInv, IInv', [TdchoNext]_tvars
               PROVE  [Lifecycle!Next]_Lifecycle!lvars
    OBVIOUS
  <2>1. TypeOK /\ TypeOK' /\ \A u \in UEs : Consistent(u)
    BY DEF IInv
  <2>2. ASSUME NEW u \in UEs, TdchoMeasures(u)
        PROVE  \/ Lifecycle!Next
               \/ /\ serving' = serving
                  /\ StageMap' = StageMap /\ OfferMap' = OfferMap
    <3>1. \A v \in UEs : v # u => serving'[v] = serving[v] /\ proc'[v] = proc[v]
      BY <2>1, <2>2, MeasurementStep
    <3>2. Waits(u) \/ Triggers(u)
      BY <2>1, <2>2, TdchoTriggers
    <3> QED
      BY <2>1, <3>1, <3>2, LifecycleStep
  <2>3. \/ Lifecycle!Next
        \/ serving' = serving /\ StageMap' = StageMap /\ OfferMap' = OfferMap
    BY <2>1, <2>2, TdchoKeepsNext, LifecycleNext DEF tvars
  <2> QED
    BY <2>3 DEF Lifecycle!lvars, StageMap, OfferMap, OfferOf
<1> QED
  BY <1>1, <1>2, TdchoInvariantHolds, PTL
     DEF TdchoSpec, ImplementsLifecycle, Lifecycle!Spec

-------------------------------------------------------------------------------
(* The cache.                                                              *)

(* A check visits a UE, and an execution ends, before a measurement can    *)
(* have put the previous second back into the cache; the cells of the UE   *)
(* and of its procedure have been measured.                                *)
Reads(u) == ~Visited(u) \/ proc[u].phase = "UE_EXECUTING"

CellsOf(u) == ({serving[u]} \cup
                 IF proc[u].phase = "IDLE" THEN {} ELSE {proc[u].target})
              \cap Sats

CacheFits(u) ==
  /\ \A s \in Sats : cache[u][s] # Unmeasured =>
       /\ StartTime[s] <= cache[u][s].time /\ cache[u][s].time <= now
       /\ Reads(u) /\ now <= EndTime[s] => cache[u][s].time = now
  /\ \A s \in CellsOf(u) : Measured(u, s)

AllFit == \A u \in UEs : CacheFits(u)

LEMMA TimeCached ==
  ASSUME TypeOK, NEW u \in UEs, NEW s \in Sats, cache[u][s] # Unmeasured
  PROVE  cache[u][s] \in CacheEntry /\ cache[u][s].time \in Int
<1>1. cache[u][s] \in CacheEntry
  BY DEF TypeOK
<1> QED
  BY <1>1 DEF CacheEntry, Time

(* A refresh reaches the satellites within their trajectories. *)
LEMMA RefreshIs ==
  ASSUME NoGaps, TypeOK, BeginCheck
  PROVE  \E obs \in [UEs -> [Sats -> Metrics]] :
           \A u \in UEs : \A s \in Sats :
             cache'[u][s] = IF now' >= StartTime[s] /\ now' <= EndTime[s]
                            THEN [time |-> now', m |-> obs[u][s]]
                            ELSE cache[u][s]
<1>1. now' = now + 1 /\ now \in Int
  BY DEF BeginCheck, TypeOK, Time
<1>2. PICK obs \in [UEs -> [Sats -> Metrics]] :
        cache' = [u \in UEs |-> Refreshed(u, obs[u], now')]
  BY DEF BeginCheck
<1>3. \A s \in Sats : InPass(s, now')
  BY <1>1 DEF NoGaps
<1>4. \A u \in UEs : \A s \in Sats :
        cache'[u][s] = IF now' >= StartTime[s] /\ now' <= EndTime[s]
                       THEN [time |-> now', m |-> obs[u][s]] ELSE cache[u][s]
  BY <1>2, <1>3 DEF Refreshed
<1> QED
  BY <1>4

LEMMA FitsBeginCheck ==
  ASSUME NoGaps, TypeOK, NEW u \in UEs, Consistent(u), CacheFits(u), BeginCheck
  PROVE  CacheFits(u)'
<1>1. now' = now + 1 /\ now \in Int /\ proc' = proc
  BY DEF BeginCheck, TypeOK, Time
<1>2. PICK obs \in [UEs -> [Sats -> Metrics]] :
        \A s \in Sats :
          cache'[u][s] = IF now' >= StartTime[s] /\ now' <= EndTime[s]
                         THEN [time |-> now', m |-> obs[u][s]]
                         ELSE cache[u][s]
  BY RefreshIs
<1>3. ASSUME NEW s \in Sats, cache'[u][s] # Unmeasured
      PROVE  /\ StartTime[s] <= cache'[u][s].time /\ cache'[u][s].time <= now'
             /\ now' <= EndTime[s] => cache'[u][s].time = now'
  <2>1. StartTime[s] \in Nat /\ EndTime[s] \in Nat
    BY TimeAssumption
  <2>2. CASE now' >= StartTime[s] /\ now' <= EndTime[s]
    <3>1. cache'[u][s] = [time |-> now', m |-> obs[u][s]]
      BY <1>2, <2>2
    <3>2. cache'[u][s].time = now'
      BY <3>1
    <3> QED
      BY <1>1, <2>1, <2>2, <3>2
  <2>3. CASE ~(now' >= StartTime[s] /\ now' <= EndTime[s])
    <3>1. cache'[u][s] = cache[u][s]
      BY <1>2, <2>3
    <3>2. /\ cache[u][s].time \in Int
          /\ StartTime[s] <= cache[u][s].time /\ cache[u][s].time <= now
      BY <1>3, <3>1, TimeCached DEF CacheFits
    <3> QED
      BY <1>1, <2>1, <2>3, <3>1, <3>2
  <2> QED
    BY <2>2, <2>3
<1>4. \A s \in Sats : Measured(u, s) => Measured(u, s)'
  BY MeasuredStays DEF Measured
<1>5. ASSUME NEW s \in CellsOf(u)' PROVE Measured(u, s)'
  <2>1. CASE s \in CellsOf(u)
    BY <1>4, <2>1 DEF CacheFits, CellsOf
  <2>2. CASE s \notin CellsOf(u)
    <3>1. s \in Sats /\ s = serving'[u] /\ serving'[u] # serving[u]
      BY <1>1, <2>2, <1>5 DEF CellsOf
    <3>2. IsSelected(cache'[u], s, now')
      BY <3>1 DEF BeginCheck
    <3> QED
      BY <3>1, <3>2, CellFacts DEF IsSelected, Visible, Measured
  <2> QED
    BY <2>1, <2>2
<1> QED
  BY <1>3, <1>5 DEF CacheFits

(* A step of the CHO machine that leaves the clock and the cache alone. *)
LEMMA FitsMoved ==
  ASSUME NEW u \in UEs, CacheFits(u), now' = now, cache'[u] = cache[u],
         Reads(u)' => Reads(u),
         \A s \in CellsOf(u)' : s \in CellsOf(u) \/ Measured(u, s)
  PROVE  CacheFits(u)'
<1>1. \A s \in Sats : Measured(u, s)' <=> Measured(u, s)
  BY DEF Measured
<1>2. \A s \in CellsOf(u)' : s \in Sats
  BY DEF CellsOf
<1> QED
  BY <1>1, <1>2 DEF CacheFits

LEMMA FitsCheck ==
  ASSUME TypeOK, NEW u \in UEs, Consistent(u), CacheFits(u), CheckHandover(u)
  PROVE  CacheFits(u)'
<1>1. now' = now /\ cache' = cache /\ Reads(u)
  BY CheckKeepsClock, VisitOrder DEF Reads
<1>2. ASSUME NEW s \in CellsOf(u)' PROVE s \in CellsOf(u) \/ Measured(u, s)
  <2>1. CASE ~Triggers(u)
    BY <1>2, <2>1, WaysOfCheck, CellFacts
       DEF Waits, Reselects, Expires, Executes, Moves, CellsOf
  <2>2. CASE Triggers(u)
    <3>1. PICK n \in Cells :
            /\ proc'[u].target = n
            /\ n = NoCell \/ IsBestNeighbour(u, n)
      BY <2>2, WaysOfMeasuring DEF Triggers, Passes, Loses, Clears, Starts,
         Holds, Reports, Continues, Ranks, ReportsTo
    <3>2. n \in Sats => Measured(u, n)
      BY <3>1, CellFacts DEF IsBestNeighbour, Detected, Visible, Measured
    <3>3. s \in Sats /\ (s = serving[u] \/ s = n)
      BY <1>2, <2>2, <3>1 DEF CellsOf, Triggers
    <3> QED
      BY <3>2, <3>3 DEF CellsOf
  <2> QED
    BY <2>1, <2>2
<1> QED
  BY <1>1, <1>2, FitsMoved

LEMMA FitsSignal ==
  ASSUME TypeOK, NEW u \in UEs, Consistent(u), CacheFits(u),
         NEW e \in Event, Signal(u, e)
  PROVE  CacheFits(u)'
<1>1. now' = now /\ cache' = cache /\ Visited(u)'
  BY SignalKeepsClock, TimesOfUe DEF Visited
<1>2. /\ proc'[u].phase # "UE_EXECUTING"
      /\ \A s \in CellsOf(u)' : s \in CellsOf(u)
  BY WaysOfSignal DEF Relays, Stores, Fails, Completes, Ends, Moves, Signalled,
     CellsOf
<1> QED
  BY <1>1, <1>2, FitsMoved DEF Reads

LEMMA FitsMeasures ==
  ASSUME TypeOK, NEW u \in UEs, CacheFits(u), TdchoMeasures(u)
  PROVE  CacheFits(u)'
<1>1. /\ now' = now /\ serving' = serving /\ proc[u].phase = "IDLE"
      /\ Visit(u) /\ serving[u] \in Detected(u) /\ Reread(u)
      /\ NoProcedure \/ \E n \in Candidates(u) : Asks(u, n)
  BY MeasurementStep DEF MayMeasure
<1>2. /\ \/ proc'[u].phase = "IDLE"
         \/ proc'[u].phase = "MEAS_REPORT_UPLINK" /\ proc'[u].target \in Candidates(u)
  <2>1. CASE NoProcedure
    BY <1>1, <2>1 DEF NoProcedure
  <2>2. ASSUME NEW n \in Candidates(u), Asks(u, n)
        PROVE  proc'[u].phase = "MEAS_REPORT_UPLINK" /\ proc'[u].target = n
    <3>1. ReportsTo(u, n)
      BY <2>2, CandidateSeen, CellFacts, Reported DEF Asks
    <3> QED
      BY <3>1 DEF ReportsTo
  <2> QED
    BY <1>1, <2>1, <2>2
<1>3. ~Reads(u)'
  BY <1>1, <1>2, VisitOrder DEF Reads
<1>4. ASSUME NEW s \in CellsOf(u)' PROVE Measured(u, s)'
  <2>1. s \in CellsOf(u) \/ s \in Candidates(u)
    BY <1>1, <1>2, <1>4 DEF CellsOf
  <2>2. s \in Sats /\ Measured(u, s)
    BY <1>4, <2>1 DEF CellsOf, CacheFits, Candidates, Detected, Visible,
       Measured
  <2> QED
    BY <1>1, <2>2, RereadCache
<1>5. ASSUME NEW s \in Sats, cache'[u][s] # Unmeasured
      PROVE  StartTime[s] <= cache'[u][s].time /\ cache'[u][s].time <= now
  <2>1. PICK draw \in [Rereads(u) -> Metrics] :
          cache' = [cache EXCEPT ![u] = [r \in Sats |->
            IF r \in Rereads(u) THEN [time |-> Previous, m |-> draw[r]]
                                ELSE cache[u][r]]]
    BY <1>1, RereadIs
  <2>2. cache'[u][s] = IF s \in Rereads(u)
                       THEN [time |-> Previous, m |-> draw[s]]
                       ELSE cache[u][s]
    BY <2>1 DEF TypeOK
  <2>3. CASE s \in Rereads(u)
    <3>1. cache'[u][s].time = Previous
      BY <2>2, <2>3
    <3>2. StartTime[s] <= Previous
      BY <2>3, TimeAssumption, TimesOfUe DEF Rereads, Previous
    <3> QED
      BY <3>1, <3>2, TimeAssumption, TimesOfUe DEF Previous
  <2>4. CASE s \notin Rereads(u)
    BY <1>5, <2>2, <2>4 DEF CacheFits
  <2> QED
    BY <2>3, <2>4
<1> QED
  BY <1>1, <1>3, <1>4, <1>5 DEF CacheFits

LEMMA FitsNext ==
  ASSUME NoGaps, IInv, AllFit, [TdchoNext]_tvars
  PROVE  AllFit'
<1> SUFFICES ASSUME NEW u \in UEs PROVE CacheFits(u)'
  BY DEF AllFit
<1>1. TypeOK /\ Consistent(u) /\ CacheFits(u)
  BY DEF IInv, AllFit
<1>2. ASSUME now' = now, cache'[u] = cache[u], proc'[u] = proc[u],
             serving'[u] = serving[u], Visited(u)' <=> Visited(u)
      PROVE  CacheFits(u)'
  <2>1. (Reads(u)' => Reads(u)) /\ CellsOf(u)' = CellsOf(u)
    BY <1>2 DEF Reads, CellsOf
  <2> QED
    BY <1>1, <1>2, <2>1, FitsMoved
<1>3. CASE UNCHANGED vars
  BY <1>2, <1>3 DEF vars, Visited
<1>4. CASE BeginCheck
  BY <1>1, <1>4, FitsBeginCheck
<1>5. ASSUME NEW w \in UEs, CheckHandover(w) PROVE CacheFits(u)'
  BY <1>1, <1>2, <1>5, FitsCheck, OthersInCheck, CheckKeepsClock, VisitOrder
<1>6. ASSUME NEW w \in UEs, NEW e \in Event, Signal(w, e) PROVE CacheFits(u)'
  BY <1>1, <1>2, <1>6, FitsSignal, OthersInSignal, SignalKeepsClock DEF Visited
<1>7. ASSUME NEW w \in UEs, TdchoMeasures(w) PROVE CacheFits(u)'
  BY <1>1, <1>2, <1>7, FitsMeasures, MeasurementStep, VisitOrder
<1> QED
  BY <1>3, <1>4, <1>5, <1>6, <1>7, TdchoKeepsNext DEF tvars, Next

LEMMA FitsInit == Init => AllFit
<1> SUFFICES ASSUME Init, NEW u \in UEs PROVE CacheFits(u)
  BY DEF AllFit
<1> QED
  BY CellFacts DEF Init, CacheFits, CellsOf

(* Every refresh comes in time: the invariant behind the next theorem.     *)
THEOREM TdchoCacheFits ==
  ASSUME NoGaps
  PROVE  TdchoSpec => []AllFit
<1>1. TdchoInit => AllFit
  BY FitsInit DEF TdchoInit
<1>2. IInv /\ AllFit /\ [TdchoNext]_tvars => AllFit'
  BY FitsNext
<1> QED
  BY <1>1, <1>2, TdchoInvariantHolds, PTL DEF TdchoSpec

(* CHO_CheckExecutionCondition and CHO_IsLinkViable read the channel of    *)
(* this second, or the last one of a satellite that has set, although the  *)
(* measurement that reported the target put an older one into the cache.   *)
THEOREM ExecutionsReadThisSecond ==
  ASSUME NoGaps
  PROVE  TdchoSpec => ExecutionReadsThisSecond
<1>1. IInv /\ AllFit /\ [TdchoNext]_tvars =>
        [\A u \in UEs :
           \/ proc[u].phase = "UE_EVALUATING" /\ turn = u
           \/ proc[u].phase = "UE_EXECUTING" /\ proc'[u] # proc[u]
           => \A s \in {proc[u].source, proc[u].target} \cap Sats :
                cache[u][s].time = now \/ EndTime[s] < now]_tvars
  <2> SUFFICES ASSUME IInv, AllFit, NEW u \in UEs,
                      \/ proc[u].phase = "UE_EVALUATING" /\ turn = u
                      \/ proc[u].phase = "UE_EXECUTING",
                      NEW s \in {proc[u].source, proc[u].target} \cap Sats
               PROVE  cache[u][s].time = now \/ EndTime[s] < now
    OBVIOUS
  <2>1. TypeOK /\ Consistent(u) /\ CacheFits(u)
    BY DEF IInv, AllFit
  <2>2. Reads(u)
    BY <2>1, TimesOfUe DEF Reads, Visited
  <2>3. s \in CellsOf(u)
    BY <2>1 DEF CellsOf, Consistent, UeCells
  <2>4. cache[u][s] # Unmeasured
    BY <2>1, <2>3 DEF CacheFits, Measured
  <2>5. now \in Int /\ EndTime[s] \in Nat
    BY <2>1, TimesOfUe, TimeAssumption
  <2> QED
    BY <2>1, <2>2, <2>4, <2>5 DEF CacheFits
<1> QED
  BY <1>1, TdchoInvariantHolds, TdchoCacheFits, PTL
     DEF TdchoSpec, ExecutionReadsThisSecond

-------------------------------------------------------------------------------
(* What ChoProcedure promises of its own measurement, for that of TDCHO.   *)

(* A measurement moves no procedure but that of its UE, by a report of a   *)
(* candidate, and counts nothing else.                                     *)
LEMMA TdchoProcedure ==
  ASSUME TypeOK, NEW u \in UEs, TdchoMeasures(u),
         NEW v \in UEs, proc'[v] # proc[v]
  PROVE  /\ v = u /\ proc[v].phase = "IDLE"
         /\ \E n \in Candidates(v) : ReportsTo(v, n)
<1>1. v = u
  BY MeasurementStep
<1>2. proc[v].phase = "IDLE"
  BY <1>1, MeasurementStep DEF MayMeasure
<1>3. PICK n \in Candidates(v) : Asks(v, n)
  BY <1>1, MeasurementStep DEF NoProcedure
<1>4. ReportsTo(v, n)
  BY <1>3, CandidateSeen, CellFacts, Reported DEF Asks
<1> QED
  BY <1>1, <1>2, <1>4

LEMMA TdchoCounts ==
  ASSUME TypeOK, NEW u \in UEs, TdchoMeasures(u)
  PROVE  UNCHANGED <<stats, gstats>> \/ Count(u, {"totalReports"})
<1>1. NoProcedure \/ \E n \in Candidates(u) : Asks(u, n)
  BY MeasurementStep
<1>2. NoProcedure => UNCHANGED <<stats, gstats>>
  BY DEF NoProcedure
<1>3. ASSUME NEW n, Asks(u, n) PROVE Count(u, {"totalReports"})
  BY <1>3 DEF Asks, TriggerProcedure
<1> QED
  BY <1>1, <1>2, <1>3

(* The properties of single states that the inductive invariant contains.  *)
THEOREM TdchoStates ==
  TdchoSpec => [](/\ EventMatchesPhase /\ ConfigMatchesPhase
                  /\ InterruptionMatchesPhase /\ ProcedureLeavesServing
                  /\ ProceduresAccounted)
BY IInvImplies, TdchoInvariantHolds, PTL

(* The global counters of TDCHO are the sums of those of its UEs. *)
THEOREM TdchoTotals == TdchoSpec => []GlobalIsTotal
<1>1. TdchoInit => GlobalIsTotal
  BY TotalInit DEF TdchoInit
<1>2. IInv /\ GlobalIsTotal /\ [TdchoNext]_tvars => GlobalIsTotal'
  <2> SUFFICES ASSUME TypeOK, GlobalIsTotal, [TdchoNext]_tvars
               PROVE  GlobalIsTotal'
    BY DEF IInv
  <2>1. CASE [Next]_vars
    BY <2>1, TotalNext
  <2>2. ASSUME NEW u \in UEs, TdchoMeasures(u)
        PROVE  GlobalIsTotal'
    <3> SUFFICES ASSUME NEW c \in GlobalCounter PROVE gstats'[c] = Total(c)'
      BY DEF GlobalIsTotal
    <3>1. gstats[c] = Total(c)
      BY DEF GlobalIsTotal
    <3>2. CASE UNCHANGED <<stats, gstats>>
      BY <3>1, <3>2 DEF Total
    <3>3. CASE Count(u, {"totalReports"})
      <4>1. {"totalReports"} \in SUBSET Counter
        BY DEF Counter, GlobalCounter
      <4> QED
        BY <3>1, <3>3, <4>1, TotalCounted
    <3> QED
      BY <2>2, <3>2, <3>3, TdchoCounts
  <2> QED
    BY <2>1, <2>2, TdchoKeepsNext DEF tvars
<1> QED
  BY <1>1, <1>2, TdchoInvariantHolds, PTL DEF TdchoSpec

(* A UE of TDCHO changes its cell by a handover to the cell its stored     *)
(* configuration names, and in no other way.                               *)
THEOREM TdchoCellChanges == TdchoSpec => ServingChangesByHandover
<1>1. IInv /\ [TdchoNext]_tvars =>
        [\A u \in UEs : serving'[u] # serving[u] =>
           \/ serving[u] = NoCell /\ turn = NumUes /\ turn' = 0
           \/ /\ proc[u].phase = "UE_EXECUTING"
              /\ conf[u].cells = {serving'[u]}
              /\ TargetViable(u, serving'[u])
           \/ ForcedReselect /\ proc[u].phase = "IDLE" /\ serving'[u] = NoCell
        ]_vars
  <2> SUFFICES ASSUME IInv, TdchoNext, NEW v \in UEs, serving'[v] # serving[v]
               PROVE  ServingChange(v)
    BY DEF tvars, ServingChange
  <2>1. ~\E u \in UEs : TdchoMeasures(u)
    BY MeasurementStep DEF IInv
  <2> QED
    BY <2>1, TdchoKeepsNext, ServingStep
<1> QED
  BY <1>1, TdchoInvariantHolds, PTL DEF TdchoSpec, ServingChangesByHandover

(* A report does not start an execution: those of TDCHO start from a valid *)
(* configuration, after the execution time-to-trigger.                     *)
THEOREM TdchoExecutions == TdchoSpec => ExecutionInTime
<1>1. IInv /\ [TdchoNext]_tvars =>
        [\A u \in UEs :
           proc[u].phase # "UE_EXECUTING" /\ proc'[u].phase = "UE_EXECUTING" =>
             /\ now <= proc[u].expiry
             /\ now - proc[u].tttStart >= ExecutionTtt]_vars
  <2> SUFFICES ASSUME IInv, TdchoNext, NEW v \in UEs,
                      proc[v].phase # "UE_EXECUTING",
                      proc'[v].phase = "UE_EXECUTING"
               PROVE  /\ now <= proc[v].expiry
                      /\ now - proc[v].tttStart >= ExecutionTtt
    BY DEF tvars
  <2>1. ~\E u \in UEs : TdchoMeasures(u)
    BY TdchoProcedure DEF IInv, ReportsTo
  <2> QED
    BY <2>1, TdchoKeepsNext, ExecutionStep DEF Execute, Pending
<1> QED
  BY <1>1, TdchoInvariantHolds, PTL DEF TdchoSpec, ExecutionInTime

(* The fall-back of TDCHO to a report without a target strands its UEs     *)
(* like those of the SNR strategy.                                         *)
THEOREM TdchoStranded == TdchoSpec => StrandedForever
<1>1. IInv /\ [TdchoNext]_tvars =>
        [\A u \in UEs : ~ForcedReselect /\ Stranded(u) =>
           serving'[u] = serving[u] /\ Stranded(u)']_vars
  <2> SUFFICES ASSUME IInv, TdchoNext, NEW v \in UEs,
                      ~ForcedReselect, Stranded(v)
               PROVE  serving'[v] = serving[v] /\ Stranded(v)'
    BY DEF tvars
  <2>1. ASSUME NEW u \in UEs, TdchoMeasures(u)
        PROVE  serving'[v] = serving[v] /\ Stranded(v)'
    <3>1. TypeOK /\ Consistent(v) /\ meas[v].serving = serving[v]
      BY DEF IInv, Consistent, UeCells
    <3>2. /\ now' = now /\ serving' = serving
          /\ serving[u] \in Detected(u)
      BY <2>1, <3>1, MeasurementStep
    <3>3. u # v
      BY <3>1, <3>2, StrandedFacts
    <3>4. proc'[v] = proc[v]
      BY <2>1, <3>1, <3>3, TdchoProcedure
    <3> QED
      BY <3>2, <3>4 DEF Stranded
  <2> QED
    BY <2>1, TdchoKeepsNext, StrandedStep
<1> QED
  BY <1>1, TdchoInvariantHolds, PTL DEF TdchoSpec, StrandedForever

(* Until its visit a UE of TDCHO sees what the check has refreshed. *)
LEMMA DetectedNow ==
  ASSUME IInv, NEW u \in UEs, CacheFits(u), ~Visited(u),
         NEW s \in Detected(u)
  PROVE  cache[u][s].time = now
<1>1. s \in Sats /\ cache[u][s] # Unmeasured /\ now <= EndTime[s]
  BY DEF Detected, Visible
<1> QED
  BY <1>1 DEF CacheFits, Reads

(* The older channel a trend query leaves behind is not what the next      *)
(* check selects or reports from.                                          *)
THEOREM TdchoDecisionsAreFresh ==
  ASSUME NoGaps
  PROVE  TdchoSpec => FreshDecisions
<1>1. IInv /\ AllFit /\ AllFit' /\ [TdchoNext]_tvars =>
        [\A u \in UEs :
           /\ serving[u] = NoCell /\ serving'[u] # NoCell =>
                cache'[u][serving'[u]].time = now'
           /\ /\ proc[u].phase = "IDLE"
              /\ proc'[u].phase = "MEAS_REPORT_UPLINK"
              /\ proc'[u].target # NoCell
              => \A s \in {serving[u], proc'[u].target} :
                   cache[u][s].time = now]_vars
  <2> SUFFICES ASSUME IInv, AllFit, AllFit', TdchoNext, NEW v \in UEs
               PROVE  /\ serving[v] = NoCell /\ serving'[v] # NoCell =>
                           cache'[v][serving'[v]].time = now'
                      /\ /\ proc[v].phase = "IDLE"
                         /\ proc'[v].phase = "MEAS_REPORT_UPLINK"
                         /\ proc'[v].target # NoCell
                         => \A s \in {serving[v], proc'[v].target} :
                              cache[v][s].time = now
    BY DEF tvars
  <2>1. TypeOK /\ CacheFits(v) /\ CacheFits(v)'
    BY DEF IInv, AllFit
  <2>2. ASSUME serving[v] = NoCell, serving'[v] # NoCell
        PROVE  cache'[v][serving'[v]].time = now'
    <3>1. Next
      BY <2>1, <2>2, TdchoKeepsNext, MeasurementStep
    <3>2. /\ BeginCheck /\ serving'[v] \in Sats
          /\ Visible(cache'[v], serving'[v], now')
      BY <2>2, <3>1, SelectionVisible
    <3>3. Reads(v)'
      BY <2>1, <3>2, MeasInBeginCheck DEF Reads
    <3> QED
      BY <2>1, <3>2, <3>3 DEF CacheFits, Visible
  <2>3. ASSUME proc[v].phase = "IDLE",
               proc'[v].phase = "MEAS_REPORT_UPLINK",
               proc'[v].target # NoCell,
               NEW s \in {serving[v], proc'[v].target}
        PROVE  cache[v][s].time = now
    <3>1. CASE Next
      <4>1. CheckHandover(v) /\ s \in Detected(v)
        BY <2>3, <3>1, ReportDetects
      <4>2. ~Visited(v)
        BY <2>1, <4>1, CheckKeepsClock, VisitOrder
      <4> QED
        BY <2>1, <4>1, <4>2, DetectedNow
    <3>2. ASSUME NEW u \in UEs, TdchoMeasures(u)
          PROVE  cache[v][s].time = now
      <4>1. u = v /\ proc'[v].target \in Candidates(v)
        <5>1. proc'[v] # proc[v]
          BY <2>3
        <5>2. u = v /\ \E n \in Candidates(v) : ReportsTo(v, n)
          BY <2>1, <3>2, <5>1, TdchoProcedure
        <5> QED
          BY <5>2 DEF ReportsTo
      <4>2. Visit(v) /\ serving[v] \in Detected(v)
        BY <2>1, <3>2, <4>1, MeasurementStep
      <4>3. s \in Detected(v)
        BY <2>1, <2>3, <4>1, <4>2, CandidateSeen
      <4>4. ~Visited(v)
        BY <2>1, <4>2, VisitOrder
      <4> QED
        BY <2>1, <4>3, <4>4, DetectedNow
    <3> QED
      BY <3>1, <3>2, TdchoKeepsNext
  <2> QED
    BY <2>2, <2>3
<1> QED
  BY <1>1, TdchoInvariantHolds, TdchoCacheFits, PTL
     DEF TdchoSpec, FreshDecisions

-------------------------------------------------------------------------------
(* Times, losses and targets in TDCHO.                                     *)

LEMMA TdchoOnTime ==
  ASSUME TypeOK, Timely, NEW w \in UEs, TdchoMeasures(w), NEW u \in UEs
  PROVE  OnTime(u)'
<1>1. OnTime(u) /\ now' = now /\ Visit(w)
  BY MeasurementStep DEF Timely
<1>2. CASE u # w
  <2>1. proc'[u] = proc[u] /\ cache'[u] = cache[u]
    BY <1>2, MeasurementStep
  <2> QED
    BY <1>1, <1>2, <2>1, OnTimeFrame, VisitOrder
<1>3. CASE u = w
  <2>1. proc[u].phase = "IDLE" /\ Visited(u)'
    BY <1>1, <1>3, MeasurementStep, VisitOrder DEF MayMeasure
  <2>2. CASE proc'[u] = proc[u]
    BY <2>1, <2>2 DEF OnTime, Signalled
  <2>3. CASE proc'[u] # proc[u]
    <3>1. /\ proc'[u].phase = "MEAS_REPORT_UPLINK"
          /\ proc'[u].startTime = now
      BY <1>3, <2>3, TdchoProcedure DEF ReportsTo
    <3> QED
      BY <1>1, <2>1, <3>1 DEF OnTime, Signalled
  <2> QED
    BY <2>2, <2>3
<1> QED
  BY <1>2, <1>3

(* With signalling that fits between two checks, the procedures of TDCHO   *)
(* keep to the same times.                                                 *)
THEOREM TdchoTimely ==
  ASSUME ~Overrun
  PROVE  TdchoSpec => []Timely
<1>1. TdchoInit => Timely
  BY TimelyInit DEF TdchoInit
<1>2. IInv /\ Timely /\ [TdchoNext]_tvars => Timely'
  <2> SUFFICES ASSUME IInv, Timely, [TdchoNext]_tvars PROVE Timely'
    OBVIOUS
  <2>1. CASE [Next]_vars
    BY <2>1, TimelyNext
  <2>2. ASSUME NEW w \in UEs, TdchoMeasures(w) PROVE Timely'
    BY <2>2, TdchoOnTime DEF Timely, IInv
  <2> QED
    BY <2>1, <2>2, TdchoKeepsNext DEF tvars
<1> QED
  BY <1>1, <1>2, TdchoInvariantHolds, PTL DEF TdchoSpec

(* No procedure of TDCHO outlives the validity of its configuration. *)
THEOREM TdchoProceduresBounded ==
  ASSUME ~Overrun
  PROVE  TdchoSpec => []ProcedureBounded
BY TimelyBounded, TdchoInvariantHolds, TdchoTimely, PTL

(* An execution of TDCHO, too, is judged on the metrics that started it:   *)
(* no measurement comes between the two that could overwrite them.         *)
THEOREM TdchoExecutionsSeeDecision ==
  ASSUME ~Overrun
  PROVE  TdchoSpec => []ExecutionSeesDecisionMetrics
<1>1. Timely => ExecutionSeesDecisionMetrics
  BY DEF Timely, OnTime, ExecutionSeesDecisionMetrics
<1> QED
  BY <1>1, TdchoTimely, PTL

(* TDCHO, too, keeps to the literal period of its measConfig. *)
LEMMA TdchoLastTime ==
  ASSUME TypeOK, NEW u \in UEs, TdchoMeasures(u)
  PROVE  meas'[u].lastTime = now
<1>1. meas[u] \in MeasState /\ meas \in [UEs -> MeasState]
  BY TypeOfUe DEF TypeOK
<1>2. CASE TdchoClearTrigger(u)
  BY <1>1, <1>2 DEF TdchoClearTrigger, MeasState
<1>3. CASE TdchoStartTrigger(u)
  <2>1. PICK n \in Sats :
          meas' = [meas EXCEPT ![u] = [@ EXCEPT !.lastTime = now,
                     !.active = TRUE, !.start = now, !.candidate = n]]
    BY <1>3 DEF TdchoStartTrigger
  <2>2. meas'[u] = [meas[u] EXCEPT !.lastTime = now, !.active = TRUE,
                                   !.start = now, !.candidate = n]
    BY <1>1, <2>1
  <2> QED
    BY <1>1, <2>2 DEF MeasState
<1>4. CASE TdchoHoldTrigger(u)
  BY <1>1, <1>4 DEF TdchoHoldTrigger, MeasState
<1>5. CASE TdchoReport(u)
  BY <1>1, <1>5 DEF TdchoReport, MeasState
<1> QED
  BY <1>2, <1>3, <1>4, <1>5 DEF TdchoMeasures

(* TDCHO reads --measurementPeriod for the second its trends compare with, *)
(* not for when to measure: it, too, respects no more than one second.     *)
THEOREM TdchoMeasurementsAreSpaced ==
  ASSUME MeasurementPeriod <= UeMeasurementPeriod
  PROVE  TdchoSpec => MeasurementPeriodRespected
<1>1. IInv /\ [TdchoNext]_tvars =>
        [\A u \in UEs :
           meas[u].lastTime # Never /\ meas'[u].lastTime # meas[u].lastTime =>
             meas'[u].lastTime - meas[u].lastTime >= MeasurementPeriod]_vars
  <2> SUFFICES ASSUME IInv, TdchoNext, NEW u \in UEs,
                      meas'[u].lastTime # meas[u].lastTime
               PROVE  meas'[u].lastTime - meas[u].lastTime >= MeasurementPeriod
    BY DEF tvars
  <2>1. TypeOK
    BY DEF IInv
  <2>2. ASSUME NEW w \in UEs, TdchoMeasures(w)
        PROVE  /\ meas'[u].lastTime = now
               /\ now - meas[u].lastTime >= UeMeasurementPeriod
    <3>1. w = u
      BY <2>1, <2>2, MeasurementStep
    <3> QED
      BY <2>1, <2>2, <3>1, MeasurementStep, TdchoLastTime DEF MayMeasure
  <2>3. /\ meas'[u].lastTime = now
        /\ now - meas[u].lastTime >= 1
    BY <2>2, TdchoKeepsNext, MeasurementSpaced DEF UeMeasurementPeriod
  <2>4. meas[u].lastTime \in Int /\ now \in Int
    BY <2>1, TimesOfUe
  <2> QED
    BY <2>3, <2>4, TimeAssumption DEF UeMeasurementPeriod
<1> QED
  BY <1>1, TdchoInvariantHolds, PTL DEF TdchoSpec, MeasurementPeriodRespected

(* A candidate of TDCHO has been detected: its trajectory has not expired. *)
LEMMA TdchoTargetUp ==
  ASSUME TypeOK, AllTargetsWereUp, NEW w \in UEs, TdchoMeasures(w),
         NEW u \in UEs
  PROVE  TargetWasUp(u)'
<1>1. CASE proc'[u] = proc[u]
  BY <1>1 DEF AllTargetsWereUp, TargetWasUp
<1>2. CASE proc'[u] # proc[u]
  <2>1. PICK n \in Candidates(u) : ReportsTo(u, n)
    BY <1>2, TdchoProcedure
  <2>2. now <= EndTime[n]
    BY <2>1, CandidateSeen
  <2> QED
    BY <2>1, <2>2 DEF ReportsTo, TargetWasUp
<1> QED
  BY <1>1, <1>2

(* The invariant behind the next theorem. *)
THEOREM TdchoTargetsWereUp == TdchoSpec => []AllTargetsWereUp
<1>1. TdchoInit => AllTargetsWereUp
  BY DEF TdchoInit, Init, AllTargetsWereUp, TargetWasUp
<1>2. IInv /\ AllTargetsWereUp /\ [TdchoNext]_tvars => AllTargetsWereUp'
  <2> SUFFICES ASSUME IInv, AllTargetsWereUp, [TdchoNext]_tvars
               PROVE  AllTargetsWereUp'
    OBVIOUS
  <2>1. CASE [Next]_vars
    BY <2>1, TargetUpNext
  <2>2. ASSUME NEW w \in UEs, TdchoMeasures(w) PROVE AllTargetsWereUp'
    BY <2>2, TdchoTargetUp DEF AllTargetsWereUp, IInv
  <2> QED
    BY <2>1, <2>2, TdchoKeepsNext DEF tvars
<1> QED
  BY <1>1, <1>2, TdchoInvariantHolds, PTL DEF TdchoSpec

(* The cell a handover of TDCHO ends at was up when it was reported, and   *)
(* has set no longer than the validity of a configuration ago.             *)
THEOREM TdchoRecentCells ==
  ASSUME ~Overrun
  PROVE  TdchoSpec => HandoverToRecentCell
<1>1. IInv /\ Timely /\ AllTargetsWereUp /\ [TdchoNext]_tvars =>
        [\A u \in UEs :
           proc[u].phase = "UE_EXECUTING" /\ serving'[u] # serving[u] =>
             now <= EndTime[serving'[u]] + ValidityPeriod]_vars
  <2> SUFFICES ASSUME IInv, Timely, AllTargetsWereUp, TdchoNext, NEW u \in UEs,
                      proc[u].phase = "UE_EXECUTING", serving'[u] # serving[u]
               PROVE  now <= EndTime[serving'[u]] + ValidityPeriod
    BY DEF tvars
  <2>1. Next
    BY TdchoKeepsNext, MeasurementStep DEF IInv
  <2> QED
    BY <2>1, RecentCell
<1> QED
  BY <1>1, TdchoInvariantHolds, TdchoTimely, TdchoTargetsWereUp, PTL
     DEF TdchoSpec, HandoverToRecentCell

(* The loss a failed execution of TDCHO leaves behind ends with the next   *)
(* check.                                                                  *)
THEOREM TdchoLossesPass == TdchoSpec => []AllLossPasses
<1>1. TdchoInit => AllLossPasses
  BY DEF TdchoInit, Init, AllLossPasses, LossPasses
<1>2. IInv /\ AllLossPasses /\ [TdchoNext]_tvars => AllLossPasses'
  <2> SUFFICES ASSUME IInv, AllLossPasses, [TdchoNext]_tvars
               PROVE  AllLossPasses'
    OBVIOUS
  <2>1. CASE [Next]_vars
    BY <2>1, LossNext
  <2>2. ASSUME NEW w \in UEs, TdchoMeasures(w), NEW u \in UEs
        PROVE  LossPasses(u)'
    <3>1. TypeOK /\ LossPasses(u)
      BY DEF IInv, AllLossPasses
    <3>2. /\ serving' = serving /\ interrupted' = interrupted
          /\ lossForced' = lossForced
          /\ Visit(w) /\ serving[w] \in Detected(w) /\ Reread(w)
          /\ u # w => cache'[u] = cache[u]
      BY <2>2, <3>1, MeasurementStep
    <3>3. turn # NumUes
      BY <3>1, <3>2, TimesOfUe DEF Visit
    <3>4. PICK s \in Cells : s = serving[u]
      BY <3>1, TypeOfUe
    <3>5. Measured(u, s) => Measured(u, s)'
      <4>1. CASE u = w
        BY <3>1, <3>2, <4>1, RereadCache DEF Measured
      <4>2. CASE u # w
        BY <3>2, <4>2 DEF Measured
      <4> QED
        BY <4>1, <4>2
    <3>6. serving'[u] # NoCell => Measured(u, s)'
      BY <3>1, <3>2, <3>4, <3>5 DEF LossPasses
    <3>7. ~(lossForced'[u] /\ ~interrupted'[u])
      BY <3>1, <3>2, <3>3 DEF LossPasses
    <3> QED
      BY <3>2, <3>4, <3>6, <3>7 DEF LossPasses, Measured
  <2> QED
    BY <2>1, <2>2, TdchoKeepsNext DEF tvars, AllLossPasses
<1> QED
  BY <1>1, <1>2, TdchoInvariantHolds, PTL DEF TdchoSpec

-------------------------------------------------------------------------------
(* The history of samples.                                                 *)

WindowAssumption == TrendWindow \in Nat \ {0}

Snrs   == {m.snr : m \in Metrics}
Sample == [time : Int, snr : Snrs]

(* h holds the samples of consecutive seconds, the last of them t. *)
Consecutive(h, t) ==
  /\ h \in Seq(Sample) /\ h # <<>> /\ Len(h) <= 2 * TrendWindow
  /\ \A i \in DOMAIN h : h[i].time + Len(h) - i = t

LEMMA SampleFacts ==
  ASSUME NEW h \in Seq(Sample), NEW i \in DOMAIN h
  PROVE  h[i] \in Sample /\ h[i].time \in Int
<1>1. h[i] \in Sample
  OBVIOUS
<1> QED
  BY <1>1 DEF Sample

LEMMA LastOfConsecutive ==
  ASSUME NEW t \in Int, NEW h, Consecutive(h, t)
  PROVE  /\ Len(h) \in Nat \ {0} /\ DOMAIN h = 1 .. Len(h)
         /\ Len(h) \in DOMAIN h /\ h[Len(h)].time = t
<1>1. h \in Seq(Sample) /\ h # <<>>
  BY DEF Consecutive
<1>2. Len(h) \in Nat \ {0} /\ DOMAIN h = 1 .. Len(h)
  BY <1>1
<1>3. /\ h[Len(h)].time \in Int
      /\ h[Len(h)].time + Len(h) - Len(h) = t
  BY <1>1, <1>2, SampleFacts DEF Consecutive
<1> QED
  BY <1>2, <1>3

LEMMA SuffixIs ==
  ASSUME NEW n \in Nat \ {0}, NEW h \in Seq(Sample), Len(h) > n
  PROVE  LET k == Len(h) - n
             s == Suffix(h, n)
         IN  /\ s \in Seq(Sample) /\ Len(s) = n /\ DOMAIN s = 1 .. n
             /\ \A i \in 1 .. n : i + k \in DOMAIN h /\ s[i] = h[i + k]
<1>1. Len(h) \in Nat /\ DOMAIN h = 1 .. Len(h)
  OBVIOUS
<1>2. Suffix(h, n) = SubSeq(h, Len(h) - n + 1, Len(h))
  BY <1>1 DEF Suffix
<1> DEFINE k == Len(h) - n
           s == SubSeq(h, k + 1, Len(h))
<1>3. k \in Nat /\ k + 1 \in 1 .. Len(h) /\ Len(h) = k + n
  BY <1>1
<1> HIDE DEF k
<1>4. s \in Seq(Sample) /\ Len(s) = n /\ DOMAIN s = 1 .. n
  BY <1>1, <1>3
<1>5. \A i \in 1 .. n : i + k \in DOMAIN h /\ s[i] = h[i + k]
  BY <1>1, <1>3
<1> QED
  BY <1>2, <1>4, <1>5 DEF k

LEMMA SuffixConsecutive ==
  ASSUME WindowAssumption, NEW t \in Int, NEW h \in Seq(Sample), h # <<>>,
         \A i \in DOMAIN h : h[i].time + Len(h) - i = t
  PROVE  Consecutive(Suffix(h, 2 * TrendWindow), t)
<1>1. PICK n \in Nat \ {0} : n = 2 * TrendWindow
  BY DEF WindowAssumption
<1>2. CASE Len(h) <= n
  BY <1>1, <1>2 DEF Suffix, Consecutive
<1>3. CASE Len(h) > n
  <2> DEFINE k == Len(h) - n
             s == Suffix(h, n)
  <2>1. /\ s \in Seq(Sample) /\ Len(s) = n /\ DOMAIN s = 1 .. n
        /\ \A i \in 1 .. n : i + k \in DOMAIN h /\ s[i] = h[i + k]
    BY <1>3, SuffixIs
  <2>2. k \in Int /\ Len(h) = n + k
    OBVIOUS
  <2> HIDE DEF k, s
  <2>3. ASSUME NEW i \in 1 .. n PROVE s[i].time + n - i = t
    <3>1. /\ h[i + k].time \in Int
          /\ h[i + k].time + Len(h) - (i + k) = t
      BY <2>1, SampleFacts
    <3> QED
      BY <2>1, <2>2, <3>1
  <2>4. s # <<>> /\ Len(s) <= n
    BY <2>1
  <2>5. \A i \in DOMAIN s : s[i].time + Len(s) - i = t
    BY <2>1, <2>3
  <2>6. s = Suffix(h, 2 * TrendWindow)
    BY <1>1 DEF s
  <2>7. Consecutive(s, t)
    BY <1>1, <2>1, <2>4, <2>5 DEF Consecutive
  <2> QED
    BY <2>6, <2>7
<1>4. Len(h) \in Nat
  OBVIOUS
<1> QED
  BY <1>2, <1>3, <1>4

(* A sample of the next second is appended, ... *)
LEMMA SampledNext ==
  ASSUME WindowAssumption, NEW t \in Int, NEW h,
         h = <<>> \/ Consecutive(h, t - 1),
         NEW x \in Snrs
  PROVE  Consecutive(Sampled(h, t, x), t)
<1> DEFINE a == [time |-> t, snr |-> x]
           g == Append(h, a)
<1>1. h \in Seq(Sample) /\ a \in Sample /\ Len(h) \in Nat
  <2>1. a \in Sample
    BY DEF Sample
  <2>2. <<>> \in Seq(Sample)
    OBVIOUS
  <2>3. h \in Seq(Sample)
    BY <2>2, Zenon DEF Consecutive
  <2> QED
    BY <2>1, <2>3
<1>2. Len(h) > 0 => h[Len(h)].time = t - 1
  BY LastOfConsecutive
<1>3. Sampled(h, t, x) = Suffix(g, 2 * TrendWindow)
  BY <1>2 DEF Sampled
<1>4. /\ g \in Seq(Sample) /\ g # <<>> /\ Len(g) = Len(h) + 1
      /\ DOMAIN g = 1 .. Len(h) + 1 /\ DOMAIN h = 1 .. Len(h)
      /\ \A i \in 1 .. Len(h) : g[i] = h[i]
      /\ g[Len(h) + 1] = a
  BY <1>1
<1>5. ASSUME NEW i \in DOMAIN g PROVE g[i].time + Len(g) - i = t
  <2>1. CASE i = Len(h) + 1
    BY <1>1, <1>4, <2>1
  <2>2. CASE i \in 1 .. Len(h)
    <3>1. h[i].time \in Int
      BY <1>1, <1>4, <2>2, SampleFacts
    <3>2. h[i].time + Len(h) - i = t - 1
      BY <1>4, <2>2 DEF Consecutive
    <3> QED
      BY <1>1, <1>4, <2>2, <3>1, <3>2
  <2> QED
    BY <1>1, <1>4, <2>1, <2>2
<1> HIDE DEF g
<1> QED
  BY <1>3, <1>4, <1>5, SuffixConsecutive

(* ... one of the same second takes its place, an older one is ignored.    *)
LEMMA SampledAgain ==
  ASSUME WindowAssumption, NEW t \in Int, NEW h, Consecutive(h, t),
         NEW p \in Int, p <= t, NEW x \in Snrs
  PROVE  Consecutive(Sampled(h, p, x), t)
<1> DEFINE n == Len(h)
           a == [time |-> p, snr |-> x]
           o == SubSeq(h, 1, n - 1)
           g == Append(o, a)
<1>1. /\ h \in Seq(Sample) /\ a \in Sample
      /\ n \in Nat \ {0} /\ n \in DOMAIN h /\ h[n].time = t
      /\ DOMAIN h = 1 .. n
  <2>1. a \in Sample
    BY DEF Sample
  <2> QED
    BY <2>1, LastOfConsecutive DEF Consecutive
<1>2. CASE p < t
  BY <1>1, <1>2 DEF Sampled
<1>3. CASE p = t
  <2>1. Sampled(h, p, x) = Suffix(g, 2 * TrendWindow)
    BY <1>1, <1>3 DEF Sampled
  <2>2. /\ o \in Seq(Sample) /\ Len(o) = n - 1
        /\ \A i \in 1 .. n - 1 : o[i] = h[i]
    BY <1>1
  <2>a. a \in Sample /\ n \in Nat \ {0}
    BY <1>1
  <2> HIDE DEF o, a, n
  <2>3. /\ g \in Seq(Sample) /\ g # <<>> /\ Len(g) = n /\ DOMAIN g = 1 .. n
        /\ \A i \in 1 .. n - 1 : g[i] = h[i]
        /\ g[n] = a
    BY <2>2, <2>a
  <2>4. ASSUME NEW i \in DOMAIN g PROVE g[i].time + Len(g) - i = t
    <3>1. CASE i = n
      BY <1>3, <2>3, <2>a, <3>1 DEF a
    <3>2. CASE i \in 1 .. n - 1
      <4>1. h[i].time + n - i = t
        BY <1>1, <2>a, <3>2 DEF Consecutive, n
      <4> QED
        BY <2>3, <3>2, <4>1
    <3> QED
      BY <2>3, <2>a, <3>1, <3>2
  <2> HIDE DEF g
  <2> QED
    BY <2>1, <2>3, <2>4, SuffixConsecutive
<1> QED
  BY <1>2, <1>3

(* What the verification finds: the last sample, if it is close enough.    *)
LEMMA SampleOfConsecutive ==
  ASSUME NEW t \in Int, NEW h, Consecutive(h, t), NEW d \in Int, t <= d
  PROVE  SampleAt(h, d) = IF d - t <= 2 THEN t ELSE Never
<1> DEFINE n == Len(h)
           Near == {i \in DOMAIN h : /\ Off(d, h[i]) <= 2
                                     /\ \A j \in DOMAIN h :
                                          Off(d, h[i]) <= Off(d, h[j])}
<1>1. n \in Nat \ {0} /\ n \in DOMAIN h /\ h[n].time = t /\ DOMAIN h = 1 .. n
  BY LastOfConsecutive DEF Consecutive
<1>2. ASSUME NEW i \in DOMAIN h
      PROVE  h[i].time \in Int /\ Off(d, h[i]) = d - t + n - i
  <2>1. h[i].time \in Int /\ h[i].time + n - i = t
    BY <1>1, SampleFacts DEF Consecutive
  <2> QED
    BY <1>1, <2>1 DEF Off
<1>3. ASSUME NEW i \in Near PROVE i = n
  <2>1. Off(d, h[i]) <= Off(d, h[n]) /\ i \in 1 .. n
    BY <1>1
  <2> QED
    BY <1>1, <1>2, <2>1
<1>4. d - t <= 2 => n \in Near
  BY <1>1, <1>2
<1>5. Near # {} => d - t <= 2
  BY <1>1, <1>2, <1>3
<1>6. SampleAt(h, d) = IF Near = {} THEN Never
        ELSE h[CHOOSE i \in Near : \A j \in Near : i <= j].time
  BY DEF SampleAt
<1>7. CASE d - t <= 2
  <2>1. Near = {n}
    BY <1>3, <1>4, <1>7
  <2> HIDE DEF Near
  <2>2. (CHOOSE i \in Near : \A j \in Near : i <= j) = n
    BY <1>1, <2>1
  <2> QED
    BY <1>1, <1>6, <1>7, <2>1, <2>2
<1>8. CASE ~(d - t <= 2)
  BY <1>5, <1>6, <1>8
<1> QED
  BY <1>7, <1>8

(* The clock, the cache and the records move in a refresh and, but for the *)
(* clock, in a measurement.                                                *)
LEMMA RecordsInNext ==
  ASSUME TypeOK, TdchoNext
  PROVE  \/ TdchoBeginCheck
         \/ \E u \in UEs : TdchoMeasures(u)
         \/ UNCHANGED <<now, cache, history, pending, lines>>
<1>1. CASE Shared
  <2>1. ASSUME NEW u \in UEs, CheckHandover(u)
        PROVE  now' = now /\ cache' = cache
    BY <2>1, CheckKeepsClock
  <2>2. ASSUME NEW u \in UEs, NEW e \in Event, Signal(u, e)
        PROVE  now' = now /\ cache' = cache
    BY <2>2, SignalKeepsClock
  <2> QED
    BY <1>1, <2>1, <2>2 DEF Shared, CheckHandover
<1> QED
  BY <1>1 DEF TdchoNext, TdchoMeasures

(* What waits to be verified is about a satellite and not yet due. *)
Prognosis == [kind : {"validation", "followup"}, cell : Sats,
              time : Int, due : Int]

Waiting(p) ==
  /\ p \in Prognosis
  /\ now < p.due
  /\ p.kind = "validation" => p.due = p.time + ValidationDelay

AllWaiting == /\ pending \in [UEs -> SUBSET Prognosis]
              /\ \A u \in UEs : \A p \in pending[u] : Waiting(p)

LEMMA NewPrediction ==
  ASSUME NEW t \in Int, NEW s \in Sats, NEW d \in Nat \ {0},
         NEW k \in {"validation", "followup"},
         k = "validation" => d = ValidationDelay
  PROVE  LET p == Prediction(k, s, t, t + d)
         IN  /\ p \in Prognosis
             /\ t < p.due
             /\ p.kind = "validation" => p.due = p.time + ValidationDelay
<1> DEFINE p == Prediction(k, s, t, t + d)
<1>1. p = [kind |-> k, cell |-> s, time |-> t, due |-> t + d]
  BY DEF Prediction
<1>2. p.kind = k /\ p.time = t /\ p.due = t + d
  BY <1>1
<1>3. t + d \in Int
  OBVIOUS
<1>4. p \in Prognosis
  BY <1>1, <1>3 DEF Prognosis
<1> HIDE DEF p
<1> QED
  BY <1>2, <1>4 DEF p

LEMMA WaitingNext ==
  ASSUME IInv, AllWaiting, [TdchoNext]_tvars
  PROVE  AllWaiting'
<1>1. TypeOK /\ now \in Int
  BY DEF IInv, TypeOK, Time
<1>2. CASE TdchoBeginCheck
  <2>1. pending' = [u \in UEs |->
          {p \in pending[u] : ~Forget(p, history'[u][p.cell], now')}]
    BY <1>2 DEF TdchoBeginCheck, Verify
  <2>2. now' = now + 1
    BY <1>2 DEF TdchoBeginCheck, BeginCheck
  <2>3. ASSUME NEW u \in UEs
        PROVE  pending'[u] \in SUBSET Prognosis
    BY <2>1 DEF AllWaiting
  <2>4. ASSUME NEW u \in UEs, NEW p \in pending'[u]
        PROVE  Waiting(p)'
    <3>1. p \in pending[u] /\ ~(now' >= p.due)
      BY <2>1, <2>4 DEF Forget
    <3>2. Waiting(p)
      BY <3>1 DEF AllWaiting
    <3>3. p.due \in Int
      BY <3>2 DEF Waiting, Prognosis
    <3> QED
      BY <1>1, <2>2, <3>1, <3>2, <3>3 DEF Waiting
  <2> QED
    BY <2>1, <2>3, <2>4 DEF AllWaiting
<1>3. ASSUME NEW u \in UEs, TdchoMeasures(u) PROVE AllWaiting'
  <2>1. PICK n \in Cells : Evaluated(u, n)
    BY <1>1, <1>3, WaysOfTdcho
  <2> DEFINE V == {Prediction("validation", r, now, now + ValidationDelay) :
                     r \in Candidates(u)}
             F == {Prediction("followup", serving[u], now, now + h) :
                     h \in IF n # NoCell /\ Degrading(u) THEN FollowupHorizons
                                                        ELSE {}}
  <2>2. pending' = [pending EXCEPT ![u] = pending[u] \cup V \cup F]
    BY <2>1 DEF Evaluated
  <2>3. now' = now /\ serving[u] \in Sats
    BY <1>1, <2>1, DetectedCached DEF Evaluated
  <2>4. ASSUME NEW p \in V PROVE Waiting(p)'
    <3>1. PICK r \in Candidates(u) :
            p = Prediction("validation", r, now, now + ValidationDelay)
      BY <2>4
    <3>2. r \in Sats
      BY <1>1, CandidateSeen
    <3> QED
      BY <1>1, <2>3, <3>1, <3>2, DelayAssumption, NewPrediction DEF Waiting
  <2>5. ASSUME NEW p \in F PROVE Waiting(p)'
    <3>1. PICK h \in FollowupHorizons :
            p = Prediction("followup", serving[u], now, now + h)
      BY <2>5
    <3> QED
      BY <1>1, <2>3, <3>1, DelayAssumption, NewPrediction DEF Waiting
  <2>6. ASSUME NEW v \in UEs, NEW p \in pending[v] PROVE Waiting(p)'
    BY <2>3, <2>6 DEF AllWaiting, Waiting
  <2>7. \A p \in V \cup F : p \in Prognosis
    BY <2>4, <2>5 DEF Waiting
  <2> HIDE DEF V, F
  <2>8. pending' \in [UEs -> SUBSET Prognosis]
    BY <2>2, <2>7 DEF AllWaiting
  <2>9. ASSUME NEW v \in UEs, NEW p \in pending'[v]
        PROVE  p \in pending[v] \/ p \in V \cup F
    BY <2>2, <2>9 DEF AllWaiting
  <2> QED
    BY <2>4, <2>5, <2>6, <2>8, <2>9 DEF AllWaiting
<1>4. CASE UNCHANGED <<now, cache, history, pending, lines>>
  BY <1>4 DEF AllWaiting, Waiting
<1>5. CASE UNCHANGED tvars
  BY <1>4, <1>5 DEF tvars, vars
<1> QED
  BY <1>1, <1>2, <1>3, <1>4, <1>5, RecordsInNext

LEMMA AllWait == TdchoSpec => []AllWaiting
<1>1. TdchoInit => AllWaiting
  BY DEF TdchoInit, AllWaiting
<1>2. IInv /\ AllWaiting /\ [TdchoNext]_tvars => AllWaiting'
  BY WaitingNext
<1> QED
  BY <1>1, <1>2, TdchoInvariantHolds, PTL DEF TdchoSpec

(* VerifyPendingMeasurements and VerifyPendingServingSnrFollowups leave    *)
(* nothing behind that was due, found in the history or not.               *)
THEOREM NothingIsOverdue == TdchoSpec => []NothingOverdue
<1>1. AllWaiting => NothingOverdue
  BY DEF AllWaiting, Waiting, NothingOverdue
<1> QED
  BY <1>1, AllWait, PTL

(* The second of the latest sample of satellite s. *)
Latest(s, t) == IF t <= EndTime[s] THEN t ELSE EndTime[s]

SamplesFit(h, s, t) == IF t < StartTime[s] THEN h = <<>>
                       ELSE Consecutive(h, Latest(s, t))

AllSampled == /\ history \in [UEs -> [Sats -> Seq(Sample)]]
              /\ \A u \in UEs : \A s \in Sats :
                   SamplesFit(history[u][s], s, now)

(* No trajectory ends before it starts. *)
PassAssumption == \A s \in Sats : StartTime[s] <= EndTime[s]

LEMMA SamplesInCheck ==
  ASSUME NoGaps, WindowAssumption, PassAssumption, TypeOK, AllFit, AllSampled,
         TdchoBeginCheck, NEW u \in UEs, NEW s \in Sats
  PROVE  SamplesFit(history'[u][s], s, now')
<1>1. now' = now + 1 /\ now \in Int
  BY DEF TdchoBeginCheck, BeginCheck, TypeOK, Time
<1>2. PICK obs \in [UEs -> [Sats -> Metrics]] :
        cache'[u][s] = IF now' >= StartTime[s] /\ now' <= EndTime[s]
                       THEN [time |-> now', m |-> obs[u][s]]
                       ELSE cache[u][s]
  BY RefreshIs DEF TdchoBeginCheck
<1>3. history'[u][s] = IF cache'[u][s] # Unmeasured /\ cache'[u][s].time = now'
                       THEN Sampled(history[u][s], now', cache'[u][s].m.snr)
                       ELSE history[u][s]
  BY DEF TdchoBeginCheck
<1>4. /\ StartTime[s] \in Nat /\ EndTime[s] \in Nat
      /\ StartTime[s] <= EndTime[s]
  BY TimeAssumption DEF PassAssumption
<1>5. SamplesFit(history[u][s], s, now)
  BY DEF AllSampled
<1>6. CASE now' >= StartTime[s] /\ now' <= EndTime[s]
  <2>1. cache'[u][s] = [time |-> now', m |-> obs[u][s]]
    BY <1>2, <1>6
  <2>2. /\ cache'[u][s].time = now'
        /\ cache'[u][s].m = obs[u][s] /\ cache'[u][s].m \in Metrics
    BY <2>1
  <2>3. cache'[u][s] \in CacheEntry
    BY <1>1, <2>1 DEF CacheEntry, Time
  <2>4. cache'[u][s] # Unmeasured
    BY <2>3, CacheAssumption
  <2>5. cache'[u][s].m.snr \in Snrs
    BY <2>2 DEF Snrs
  <2>6. history[u][s] = <<>> \/ Consecutive(history[u][s], now' - 1)
    <3>1. CASE now < StartTime[s]
      BY <1>5, <3>1 DEF SamplesFit
    <3>2. CASE now >= StartTime[s]
      <4>1. Latest(s, now) = now' - 1
        BY <1>1, <1>4, <1>6 DEF Latest
      <4> QED
        BY <1>1, <1>4, <1>5, <3>2, <4>1 DEF SamplesFit
    <3> QED
      BY <1>1, <1>4, <3>1, <3>2
  <2>7. /\ now' \in Int
        /\ history'[u][s] = Sampled(history[u][s], now', cache'[u][s].m.snr)
    BY <1>1, <1>3, <2>2, <2>4
  <2>8. Consecutive(history'[u][s], now')
    BY <2>5, <2>6, <2>7, SampledNext
  <2> QED
    BY <1>1, <1>4, <1>6, <2>8 DEF SamplesFit, Latest
<1>7. CASE ~(now' >= StartTime[s] /\ now' <= EndTime[s])
  <2>1. cache'[u][s] = cache[u][s]
    BY <1>2, <1>7
  <2>2. cache[u][s] # Unmeasured =>
          cache[u][s].time \in Int /\ cache[u][s].time <= now
    BY TimeCached DEF AllFit, CacheFits
  <2>3. history'[u][s] = history[u][s]
    BY <1>1, <1>3, <2>1, <2>2
  <2>4. now' < StartTime[s] => now < StartTime[s]
    BY <1>1, <1>4
  <2>5. now' > EndTime[s] =>
          now >= StartTime[s] /\ Latest(s, now) = Latest(s, now')
    BY <1>1, <1>4 DEF Latest
  <2> QED
    BY <1>1, <1>4, <1>5, <1>7, <2>3, <2>4, <2>5 DEF SamplesFit
<1> QED
  BY <1>6, <1>7

(* The channel of the previous second has its sample already. *)
LEMMA SamplesInMeasurement ==
  ASSUME WindowAssumption, TypeOK, AllSampled, NEW w \in UEs, TdchoMeasures(w),
         NEW u \in UEs, NEW s \in Sats
  PROVE  SamplesFit(history'[u][s], s, now')
<1>1. now' = now /\ serving[w] \in Detected(w) /\ Reread(w) /\ now \in Int
  BY MeasurementStep, TimesOfUe
<1>2. SamplesFit(history[u][s], s, now)
  BY DEF AllSampled
<1>3. PICK draw \in [Rereads(w) -> Metrics] :
        history' = [history EXCEPT ![w] = [r \in Sats |->
          IF r \in Rereads(w) THEN Sampled(history[w][r], Previous, draw[r].snr)
                              ELSE history[w][r]]]
  BY <1>1, RereadIs
<1>4. CASE u = w /\ s \in Rereads(w)
  <2>1. history'[u][s] = Sampled(history[u][s], Previous, draw[s].snr)
    BY <1>3, <1>4 DEF AllSampled
  <2>2. s \in Detected(w)
    BY <1>1, <1>4, CandidateSeen DEF Rereads
  <2>3. now <= EndTime[s]
    BY <2>2, DetectedAlive
  <2>4. /\ StartTime[s] \in Nat /\ EndTime[s] \in Nat
        /\ MeasurementPeriod \in Nat
    BY TimeAssumption
  <2>5. Previous \in Int /\ Previous <= now /\ StartTime[s] <= now
    BY <1>1, <1>4, <2>4 DEF Rereads, Previous
  <2>6. Latest(s, now) = now
    BY <2>3 DEF Latest
  <2>7. Consecutive(history[u][s], now)
    BY <1>1, <1>2, <2>4, <2>5, <2>6 DEF SamplesFit
  <2>8. draw[s] \in Metrics /\ draw[s].snr \in Snrs
    BY <1>4 DEF Snrs
  <2>9. Consecutive(history'[u][s], now)
    BY <1>1, <2>1, <2>5, <2>7, <2>8, SampledAgain
  <2> QED
    BY <1>1, <2>4, <2>5, <2>6, <2>9 DEF SamplesFit
<1>5. CASE ~(u = w /\ s \in Rereads(w))
  <2>1. history'[u][s] = history[u][s]
    BY <1>3, <1>5 DEF AllSampled
  <2> QED
    BY <1>1, <1>2, <2>1
<1> QED
  BY <1>4, <1>5

LEMMA SampledNextStep ==
  ASSUME NoGaps, WindowAssumption, PassAssumption,
         IInv, AllFit, AllSampled, [TdchoNext]_tvars
  PROVE  AllSampled'
<1>1. TypeOK /\ now \in Int
  BY DEF IInv, TypeOK, Time
<1>2. CASE UNCHANGED <<now, cache, history, pending, lines>>
  BY <1>2 DEF AllSampled
<1>3. CASE UNCHANGED tvars
  BY <1>2, <1>3 DEF tvars, vars
<1>4. CASE TdchoNext /\ ~UNCHANGED <<now, cache, history, pending, lines>>
  <2>1. TdchoBeginCheck \/ \E w \in UEs : TdchoMeasures(w)
    BY <1>1, <1>4, RecordsInNext
  <2>2. ASSUME NEW u \in UEs, NEW s \in Sats
        PROVE  SamplesFit(history'[u][s], s, now')
    BY <1>1, <2>1, SamplesInCheck, SamplesInMeasurement
  <2>3. ASSUME NEW u \in UEs, NEW s \in Sats
        PROVE  history'[u][s] \in Seq(Sample)
    <3>1. <<>> \in Seq(Sample)
      OBVIOUS
    <3>2. history'[u][s] = <<>> \/ history'[u][s] \in Seq(Sample)
      BY <2>2 DEF SamplesFit, Consecutive
    <3> QED
      BY <3>1, <3>2
  <2>4. history' \in [UEs -> [Sats -> Seq(Sample)]]
    <3>1. CASE TdchoBeginCheck
      BY <2>3, <3>1 DEF TdchoBeginCheck
    <3>2. ASSUME NEW w \in UEs, TdchoMeasures(w)
          PROVE  history' \in [UEs -> [Sats -> Seq(Sample)]]
      <4>1. serving[w] \in Detected(w) /\ Reread(w)
        BY <1>1, <3>2, MeasurementStep
      <4>2. PICK draw \in [Rereads(w) -> Metrics] :
              history' = [history EXCEPT ![w] = [r \in Sats |->
                IF r \in Rereads(w)
                THEN Sampled(history[w][r], Previous, draw[r].snr)
                ELSE history[w][r]]]
        BY <1>1, <4>1, RereadIs
      <4> DEFINE f == [r \in Sats |->
                         IF r \in Rereads(w)
                         THEN Sampled(history[w][r], Previous, draw[r].snr)
                         ELSE history[w][r]]
      <4>3. DOMAIN f = Sats /\ f = [r \in Sats |-> f[r]]
        OBVIOUS
      <4>4. history' = [history EXCEPT ![w] = f]
        BY <4>2
      <4> HIDE DEF f
      <4>5. history'[w] = f
        BY <4>4 DEF AllSampled
      <4>6. f \in [Sats -> Seq(Sample)]
        BY <2>3, <4>3, <4>5
      <4> QED
        BY <4>4, <4>6 DEF AllSampled
    <3> QED
      BY <2>1, <3>1, <3>2
  <2> QED
    BY <2>2, <2>4 DEF AllSampled
<1> QED
  BY <1>2, <1>3, <1>4

LEMMA AllAreSampled ==
  ASSUME NoGaps, WindowAssumption, PassAssumption
  PROVE  TdchoSpec => []AllSampled
<1>1. TdchoInit => AllSampled
  <2> SUFFICES ASSUME TdchoInit PROVE AllSampled
    OBVIOUS
  <2>1. <<>> \in Seq(Sample)
    OBVIOUS
  <2>2. now = -1 /\ \A s \in Sats : StartTime[s] \in Nat
    BY TimeAssumption DEF TdchoInit, Init, Never
  <2> QED
    BY <2>1, <2>2 DEF TdchoInit, AllSampled, SamplesFit
<1>2. IInv /\ AllFit /\ AllSampled /\ [TdchoNext]_tvars => AllSampled'
  BY SampledNextStep
<1> QED
  BY <1>1, <1>2, TdchoInvariantHolds, TdchoCacheFits, PTL DEF TdchoSpec

(* UpdateSnrHistory keeps, for every satellite that has risen, the samples *)
(* of its latest consecutive seconds, however often GetDistanceTrend       *)
(* computes the channel of the past again.                                 *)
THEOREM HistoryIsConsecutive ==
  ASSUME NoGaps, WindowAssumption, PassAssumption
  PROVE  TdchoSpec => []HistoryConsecutive
<1>1. TypeOK /\ AllSampled => HistoryConsecutive
  <2> SUFFICES ASSUME TypeOK, AllSampled, NEW u \in UEs, NEW s \in Sats
               PROVE  LET h == history[u][s]
                      IN  /\ Len(h) <= 2 * TrendWindow
                          /\ StartTime[s] <= now =>
                               /\ h # <<>>
                               /\ \A i \in DOMAIN h :
                                    h[i].time + Len(h) - i =
                                      (IF now <= EndTime[s] THEN now
                                                            ELSE EndTime[s])
    BY DEF HistoryConsecutive
  <2>1. SamplesFit(history[u][s], s, now)
    BY DEF AllSampled
  <2>2. now \in Int /\ StartTime[s] \in Nat
    BY TimeAssumption DEF TypeOK, Time
  <2>3. CASE now < StartTime[s]
    BY <2>1, <2>2, <2>3 DEF SamplesFit, WindowAssumption
  <2>4. CASE StartTime[s] <= now
    BY <2>1, <2>2, <2>4 DEF SamplesFit, Consecutive, Latest
  <2> QED
    BY <2>2, <2>3, <2>4
<1>2. IInv => TypeOK
  BY DEF IInv
<1> QED
  BY <1>1, <1>2, TdchoInvariantHolds, AllAreSampled, PTL

(* What the verification of second t finds for a prediction due then. *)
LEMMA SampleFound ==
  ASSUME NEW t \in Int, NEW s \in Sats, NEW h, SamplesFit(h, s, t),
         PassAssumption
  PROVE  LET x == SampleAt(h, t)
         IN  x # Never => /\ t <= EndTime[s] => x = t
                          /\ x \in Int /\ x <= t /\ t <= x + 2
<1>1. StartTime[s] \in Nat /\ EndTime[s] \in Nat
  BY TimeAssumption
<1>2. CASE t < StartTime[s]
  <2>1. h = <<>>
    BY <1>2 DEF SamplesFit
  <2>2. DOMAIN h = {}
    BY <2>1
  <2>3. SampleAt(h, t) = Never
    BY <2>2 DEF SampleAt
  <2> QED
    BY <2>3
<1>3. CASE t >= StartTime[s]
  <2>1. Consecutive(h, Latest(s, t))
    BY <1>1, <1>3 DEF SamplesFit
  <2>2. /\ Latest(s, t) \in Int /\ Latest(s, t) <= t
        /\ t <= EndTime[s] => Latest(s, t) = t
    BY <1>1 DEF Latest
  <2>3. SampleAt(h, t) = IF t - Latest(s, t) <= 2 THEN Latest(s, t) ELSE Never
    BY <2>1, <2>2, SampleOfConsecutive
  <2> QED
    BY <2>2, <2>3
<1> QED
  BY <1>1, <1>2, <1>3

(* A delay longer than what GetSnrAtTime tolerates. *)
LongDelay == ValidationDelay > 2

LEMMA VerifiedInCheck ==
  ASSUME LongDelay, PassAssumption, TypeOK, AllWaiting, AllSampled',
         TdchoBeginCheck
  PROVE  ValidatedByLaterSample'
<1> SUFFICES ASSUME NEW u \in UEs, NEW l \in lines'[u]
             PROVE  /\ l.of.due = now'
                    /\ l.sample # Never /\ now' <= EndTime[l.of.cell] =>
                         l.sample = now'
                    /\ l.of.kind = "validation" => /\ l.of.time < l.sample
                                                   /\ now' <= l.sample + 2
  BY DEF ValidatedByLaterSample
<1>1. now' = now + 1 /\ now' \in Int /\ now \in Int
  BY DEF TdchoBeginCheck, BeginCheck, TypeOK, Time
<1>2. PICK p \in pending[u] :
        /\ l = [of |-> p, sample |-> SampleAt(history'[u][p.cell], p.due)]
        /\ now' >= p.due
        /\ SampleAt(history'[u][p.cell], p.due) # Never \/ p.kind = "followup"
  BY DEF TdchoBeginCheck, Verify
<1>3. p \in Prognosis /\ Waiting(p)
  BY DEF AllWaiting
<1>4. p.cell \in Sats /\ p.time \in Int /\ p.due \in Int
  BY <1>3 DEF Prognosis
<1>5. p.due = now'
  BY <1>1, <1>2, <1>3, <1>4 DEF Waiting
<1> DEFINE x == SampleAt(history'[u][p.cell], now')
<1>6. l.of = p /\ l.sample = x
  BY <1>2, <1>5
<1>7. SamplesFit(history'[u][p.cell], p.cell, now')
  BY <1>4 DEF AllSampled
<1>8. x # Never => /\ now' <= EndTime[p.cell] => x = now'
                   /\ x \in Int /\ x <= now' /\ now' <= x + 2
  BY <1>1, <1>4, <1>7, SampleFound
<1>9. p.kind = "validation" => x # Never
  BY <1>2, <1>5
<1> HIDE DEF x
<1>10. p.kind = "validation" => p.time < x /\ now' <= x + 2
  BY <1>1, <1>3, <1>4, <1>5, <1>8, <1>9, DelayAssumption DEF Waiting, LongDelay
<1> QED
  BY <1>5, <1>6, <1>8, <1>10

(* The logged error of a validation is the difference to a later sample,   *)
(* of the second it was meant for while the satellite is up.               *)
THEOREM ValidatedLater ==
  ASSUME NoGaps, WindowAssumption, PassAssumption, LongDelay
  PROVE  TdchoSpec => []ValidatedByLaterSample
<1>1. TdchoInit => ValidatedByLaterSample
  BY DEF TdchoInit, ValidatedByLaterSample
<1>2. IInv /\ AllWaiting /\ AllSampled' /\ ValidatedByLaterSample
        /\ [TdchoNext]_tvars => ValidatedByLaterSample'
  <2> SUFFICES ASSUME IInv, AllWaiting, AllSampled', ValidatedByLaterSample,
                      [TdchoNext]_tvars
               PROVE  ValidatedByLaterSample'
    OBVIOUS
  <2>1. TypeOK
    BY DEF IInv
  <2>2. CASE now' = now /\ lines' = lines
    BY <2>2 DEF ValidatedByLaterSample
  <2>3. CASE TdchoBeginCheck
    BY <2>1, <2>3, VerifiedInCheck
  <2>4. ASSUME NEW w \in UEs, TdchoMeasures(w) PROVE now' = now /\ lines' = lines
    BY <2>1, <2>4, MeasurementStep
  <2> QED
    BY <2>1, <2>2, <2>3, <2>4, RecordsInNext DEF tvars, vars
<1> QED
  BY <1>1, <1>2, TdchoInvariantHolds, AllWait, AllAreSampled, PTL DEF TdchoSpec

-------------------------------------------------------------------------------
(* The ranking of the candidates.                                          *)

(* What is in the cache is the channel of the second it was computed for.  *)
FromChannel ==
  \A u \in UEs : \A s \in Sats :
    cache[u][s] # Unmeasured =>
      cache[u][s].m \in Channel(u, s, cache[u][s].time)

LEMMA FromChannelNext ==
  ASSUME NoGaps, IInv, AllFit, FromChannel, [TdchoNext]_tvars
  PROVE  FromChannel'
<1> SUFFICES ASSUME NEW u \in UEs, NEW s \in Sats, cache'[u][s] # Unmeasured
             PROVE  cache'[u][s].m \in Channel(u, s, cache'[u][s].time)
  BY DEF FromChannel
<1>1. TypeOK
  BY DEF IInv
<1>2. CASE cache'[u][s] = cache[u][s]
  BY <1>2 DEF FromChannel
<1>3. CASE TdchoBeginCheck
  <2>1. PICK obs \in [UEs -> [Sats -> Metrics]] :
          cache'[u][s] = IF now' >= StartTime[s] /\ now' <= EndTime[s]
                         THEN [time |-> now', m |-> obs[u][s]]
                         ELSE cache[u][s]
    BY <1>1, <1>3, RefreshIs DEF TdchoBeginCheck
  <2>2. CASE now' >= StartTime[s] /\ now' <= EndTime[s]
    <3>1. cache'[u][s] = [time |-> now', m |-> obs[u][s]]
      BY <2>1, <2>2
    <3>2. cache'[u][s].time = now'
      BY <3>1
    <3> QED
      BY <1>3, <3>2 DEF TdchoBeginCheck
  <2> QED
    BY <1>2, <2>1, <2>2
<1>4. ASSUME NEW w \in UEs, TdchoMeasures(w)
      PROVE  cache'[u][s].m \in Channel(u, s, cache'[u][s].time)
  <2>1. PICK draw \in [Rereads(w) -> Metrics] :
          /\ \A r \in Rereads(w) : draw[r] \in Channel(w, r, Previous)
          /\ cache' = [cache EXCEPT ![w] = [r \in Sats |->
               IF r \in Rereads(w) THEN [time |-> Previous, m |-> draw[r]]
                                   ELSE cache[w][r]]]
    BY <1>1, <1>4, MeasurementStep, RereadIs
  <2>2. CASE u = w /\ s \in Rereads(w)
    <3>1. cache'[u][s] = [time |-> Previous, m |-> draw[s]]
      BY <1>1, <2>1, <2>2 DEF TypeOK
    <3>2. cache'[u][s].time = Previous /\ cache'[u][s].m = draw[s]
      BY <3>1
    <3> QED
      BY <2>1, <2>2, <3>2
  <2>3. CASE ~(u = w /\ s \in Rereads(w))
    BY <1>1, <1>2, <2>1, <2>3 DEF TypeOK
  <2> QED
    BY <2>2, <2>3
<1> QED
  BY <1>1, <1>2, <1>3, <1>4, RecordsInNext DEF tvars, vars

LEMMA AllFromChannel ==
  ASSUME NoGaps
  PROVE  TdchoSpec => []FromChannel
<1>1. TdchoInit => FromChannel
  BY DEF TdchoInit, Init, FromChannel
<1>2. IInv /\ AllFit /\ FromChannel /\ [TdchoNext]_tvars => FromChannel'
  BY FromChannelNext
<1> QED
  BY <1>1, <1>2, TdchoInvariantHolds, TdchoCacheFits, PTL DEF TdchoSpec

(* A draw of the fading changes the SNR, never the distance, which is that *)
(* of the interpolated positions.                                          *)
OnlyFadingIsDrawn ==
  /\ \A m \in Metrics : m.snr \in Int /\ m.distance \in Int
  /\ \A u \in UEs : \A s \in Sats : \A t \in Int :
       \A m \in Channel(u, s, t) : \A k \in Channel(u, s, t) :
         m.distance = k.distance

(* A report names the best candidate, or no cell at all. *)
LEMMA ReportsBest ==
  ASSUME IInv, TdchoNext, NEW u \in UEs, proc[u].phase = "IDLE",
         proc'[u].phase = "MEAS_REPORT_UPLINK", proc'[u].target # NoCell
  PROVE  \E n \in Cells : /\ n = proc'[u].target /\ n \in Candidates(u)
                          /\ Evaluated(u, n)
<1>1. TypeOK
  BY DEF IInv
<1>2. ASSUME NEW w \in UEs, TdchoMeasures(w)
      PROVE  \E n \in Cells : /\ n = proc'[u].target /\ n \in Candidates(u)
                              /\ Evaluated(u, n)
  <2>1. TdchoMeasures(u)
    BY <1>1, <1>2, MeasurementStep
  <2>2. PICK n \in Cells :
          /\ Evaluated(u, n)
          /\ NoProcedure \/ (n \in Candidates(u) /\ Asks(u, n))
    BY <1>1, <2>1, WaysOfTdcho
  <2>3. ~NoProcedure
    BY DEF NoProcedure
  <2>4. ReportsTo(u, n)
    BY <1>1, <2>2, <2>3, Reported DEF Asks
  <2> QED
    BY <2>2, <2>3, <2>4 DEF ReportsTo
<1>3. CASE ~\E w \in UEs : TdchoMeasures(w)
  <2>1. Next /\ (TdchoBeginCheck \/ Shared)
    BY <1>3, TdchoKeepsNext DEF TdchoNext, TdchoMeasures
  <2>2. CheckHandover(u)
    BY <2>1, TriggeredByCheck
  <2>3. ReportRlf(u) /\ TriggerProcedure(u, meas[u].serving, NoCell)
    <3>1. ~TdchoBeginCheck
      BY DEF TdchoBeginCheck, BeginCheck
    <3>2. PICK w \in UEs : \/ SkipUe(w) \/ ReportRlf(w) \/ ExpireConfig(w)
                           \/ KeepWaiting(w) \/ StartExecutionTtt(w)
                           \/ HoldExecutionTtt(w) \/ Execute(w)
                           \/ \E e \in Event : Signal(w, e)
      BY <2>1, <3>1 DEF Shared
    <3>3. Visit(u)
      BY <2>2, CheckKeepsClock
    <3>4. turn # NumUes
      BY <3>3, <1>1, TimesOfUe DEF Visit
    <3>5. ~\E e \in Event : Signal(w, e)
      BY <3>4, SignalKeepsClock
    <3>6. w = u
      BY <1>1, <3>2, <3>5, OthersInCheck DEF CheckHandover
    <3> QED
      BY <3>2, <3>5, <3>6 DEF SkipUe, ReportRlf, NoProcedure, ExpireConfig,
         KeepWaiting, StartExecutionTtt, HoldExecutionTtt, Execute, Evaluates
  <2>4. ReportsTo(u, NoCell)
    <3>1. meas[u].serving = serving[u]
      BY <2>3 DEF ReportRlf, Measures, MayMeasure
    <3> QED
      BY <1>1, <2>3, <3>1, CellFacts, Reported
  <2> QED
    BY <2>4 DEF ReportsTo
<1> QED
  BY <1>2, <1>3

LEMMA TrendIsMove ==
  ASSUME OnlyFadingIsDrawn, IInv, AllFit, FromChannel, NEW u \in UEs,
         ~Visited(u), NEW r \in Candidates(u),
         Previous >= 0, Previous >= StartTime[r],
         serving[u] \in Detected(u), Reread(u)
  PROVE  LET move == DistanceAt(u, r, now) - DistanceAt(u, r, Previous)
         IN  move \in Int /\ (DistanceTrend(u, cache[u], r) > 0 <=> move > 0)
<1>1. TypeOK /\ now \in Int
  BY DEF IInv, TypeOK, Time
<1>2. /\ r \in Sats /\ now <= EndTime[r] /\ cache[u][r] \in CacheEntry
      /\ cache[u][r] # Unmeasured
  BY <1>1, CandidateSeen, CacheAssumption
<1>3. cache[u][r].time = now
  BY <1>2 DEF AllFit, CacheFits, Reads
<1>4. cache[u][r].m \in Channel(u, r, now) /\ cache[u][r].m \in Metrics
  BY <1>2, <1>3 DEF FromChannel, CacheEntry
<1>5. DistanceAt(u, r, now) = cache[u][r].m.distance
  <2>1. (CHOOSE m \in Channel(u, r, now) : TRUE) \in Channel(u, r, now)
    BY <1>4
  <2> QED
    BY <1>1, <1>2, <1>4, <2>1 DEF DistanceAt, OnlyFadingIsDrawn
<1>6. cache[u][r].m.distance \in Int
  BY <1>4 DEF OnlyFadingIsDrawn
<1>7. StartTime[r] \in Nat /\ Previous \in Int
  BY <1>1, <1>2, TimeAssumption DEF Previous
<1>10. DistanceAt(u, r, Previous) \in Int
  <2>1. PICK draw \in [Rereads(u) -> Metrics] :
          \A s \in Rereads(u) : draw[s] \in Channel(u, s, Previous)
    BY <1>1, RereadIs
  <2>2. r \in Rereads(u)
    BY <1>2 DEF Rereads
  <2>3. draw[r] \in Channel(u, r, Previous) /\ draw[r].distance \in Int
    BY <2>1, <2>2 DEF OnlyFadingIsDrawn
  <2>4. (CHOOSE m \in Channel(u, r, Previous) : TRUE)
          \in Channel(u, r, Previous)
    BY <2>3
  <2> QED
    BY <1>2, <1>7, <2>3, <2>4 DEF DistanceAt, OnlyFadingIsDrawn
<1>8. CASE Previous = now
  <2>1. DistanceTrend(u, cache[u], r)
          = cache[u][r].m.distance - cache[u][r].m.distance
    BY <1>3, <1>7, <1>8 DEF DistanceTrend, PreviousDistance
  <2>2. DistanceAt(u, r, Previous) = cache[u][r].m.distance
    BY <1>5, <1>8
  <2> QED
    BY <1>5, <1>6, <2>1, <2>2
<1>9. CASE Previous # now
  <2>1. PreviousDistance(u, cache[u], r) = DistanceAt(u, r, Previous)
    BY <1>3, <1>7, <1>9 DEF PreviousDistance
  <2>2. DistanceTrend(u, cache[u], r)
          = DistanceAt(u, r, now) - DistanceAt(u, r, Previous)
    BY <1>5, <1>7, <2>1 DEF DistanceTrend
  <2> QED
    BY <1>5, <1>6, <1>10, <2>2
<1> QED
  BY <1>8, <1>9

LEMMA BestPrefersApproaching ==
  ASSUME OnlyFadingIsDrawn, IInv, NEW u \in UEs,
         NEW n \in Candidates(u), IsBestCandidate(u, n),
         NEW r \in Candidates(u),
         DistanceTrend(u, cache[u], n) > 0, ~(DistanceTrend(u, cache[u], r) > 0)
  PROVE  Fetched(u, n).snr >= Fetched(u, r).snr + 2
<1> DEFINE V == {Rated(u, s) : s \in Candidates(u)}
<1>1. \A s \in Candidates(u) : Fetched(u, s).snr \in Int
  <2> TAKE s \in Candidates(u)
  <2>1. cache[u][s] \in CacheEntry
    BY CandidateSeen DEF IInv
  <2> QED
    BY <2>1 DEF OnlyFadingIsDrawn, CacheEntry, Fetched
<1>2. /\ Rated(u, n) \in V /\ Rated(u, r) \in V
      /\ Rated(u, n).metric = Fetched(u, n).snr - 2
      /\ Rated(u, r).metric = Fetched(u, r).snr - 0
  BY DEF Rated, EvalMetric
<1>3. FirstBest(Rated(u, n), V, {p \in V \X V : p[1].metric > p[2].metric})
  BY <1>2 DEF IsBestCandidate
<1> DEFINE a == Rated(u, n)
           b == Rated(u, r)
<1>4. /\ a.metric \in Int /\ b.metric \in Int
      /\ a.metric = Fetched(u, n).snr - 2 /\ b.metric = Fetched(u, r).snr
  BY <1>1, <1>2
<1>5. a \in V /\ b \in V
  BY <1>2
<1> HIDE DEF V, a, b
<1>6. \/ a.metric > b.metric
      \/ ~(b.metric > a.metric)
  BY <1>3, <1>5 DEF FirstBest, a
<1> QED
  BY <1>1, <1>4, <1>6

(* EvaluateCandidate: a satellite that moves away is reported only when it *)
(* is better by the penalty than every candidate that comes closer.        *)
THEOREM ReportsPreferApproaching ==
  ASSUME NoGaps, OnlyFadingIsDrawn
  PROVE  TdchoSpec => ReportPrefersApproaching
<1>1. IInv /\ AllFit /\ FromChannel /\ [TdchoNext]_tvars =>
        [\A u \in UEs :
           /\ proc[u].phase = "IDLE" /\ proc'[u].phase = "MEAS_REPORT_UPLINK"
           /\ proc'[u].target # NoCell
           /\ Previous >= 0
           => LET n == proc'[u].target
                  Away(s) == DistanceAt(u, s, now) - DistanceAt(u, s, Previous)
              IN  \A r \in Candidates(u) :
                    /\ Previous >= StartTime[n] /\ Previous >= StartTime[r]
                    /\ Away(n) > 0 /\ Away(r) <= 0
                    => Fetched(u, n).snr >= Fetched(u, r).snr + 2]_tvars
  <2> SUFFICES ASSUME IInv, AllFit, FromChannel, TdchoNext, NEW u \in UEs,
                      proc[u].phase = "IDLE",
                      proc'[u].phase = "MEAS_REPORT_UPLINK",
                      proc'[u].target # NoCell, Previous >= 0,
                      NEW r \in Candidates(u),
                      Previous >= StartTime[proc'[u].target],
                      Previous >= StartTime[r],
                      DistanceAt(u, proc'[u].target, now)
                        - DistanceAt(u, proc'[u].target, Previous) > 0,
                      DistanceAt(u, r, now) - DistanceAt(u, r, Previous) <= 0
               PROVE  Fetched(u, proc'[u].target).snr >= Fetched(u, r).snr + 2
    OBVIOUS
  <2>1. PICK n \in Cells : /\ n = proc'[u].target /\ n \in Candidates(u)
                           /\ Evaluated(u, n)
    BY ReportsBest
  <2>2. /\ ~Visited(u) /\ IsBestCandidate(u, n)
        /\ serving[u] \in Detected(u) /\ Reread(u)
    BY <2>1, VisitOrder DEF IInv, Evaluated
  <2>3. /\ DistanceTrend(u, cache[u], n) > 0
        /\ ~(DistanceTrend(u, cache[u], r) > 0)
    BY <2>1, <2>2, TrendIsMove
  <2> QED
    BY <2>1, <2>2, <2>3, BestPrefersApproaching
<1> QED
  BY <1>1, TdchoInvariantHolds, TdchoCacheFits, AllFromChannel, PTL
     DEF TdchoSpec, ReportPrefersApproaching

-------------------------------------------------------------------------------
(* The SNR strategy itself.                                                *)

(* The operator ChoProcedure leaves open that decides about executions is  *)
(* the one of this strategy.                                               *)
StrategyIsSnr == \A s, t : ExecuteNow(s, t) <=> SnrExecuteNow(s, t)

(* The ranking of this strategy has one winner, and no NTN trigger: the    *)
(* hypotheses of the theorems on time-to-trigger and context.              *)
LEMMA SnrRanking ==
  ASSUME \A v, V : Best(v, V) <=> SnrBest(v, V),
         \A s : NtnTrigger(s) <=> SnrNtnTrigger(s),
         \A m \in Metrics : m.snr \in Int
  PROVE  UniqueBest /\ NtnSilent
<1>1. ASSUME NEW V \in SUBSET Seen, NEW v \in V, NEW w \in V,
             Best(v, V), Best(w, V)
      PROVE  v.cell = w.cell
  <2>1. /\ v.cell \in Int /\ w.cell \in Int
        /\ v.m.snr \in Int /\ w.m.snr \in Int
    BY DEF Seen, Sats
  <2>2. /\ FirstBest(v, V, SnrBeats(V))
        /\ FirstBest(w, V, SnrBeats(V))
    BY <1>1 DEF SnrBest
  <2>3. ~(<<v, w>> \in SnrBeats(V) /\ <<w, v>> \in SnrBeats(V))
    BY <2>1 DEF SnrBeats
  <2> QED
    BY <2>1, <2>2, <2>3, FirstBestUnique
<1> QED
  BY <1>1 DEF UniqueBest, NtnSilent, SnrNtnTrigger

(* The viability check asks no more of the SINR than the detection does.   *)
ViableIfDetected ==
  /\ StrategyIsSnr /\ ChoExecutionOffset \in Nat
  /\ MinSnr \in Int /\ MinViableSinr \in Int /\ MinViableSinr <= MinSnr
  /\ \A m \in Metrics : m.snr \in Int

LEMMA FailureNotSnr ==
  ASSUME ViableIfDetected, IInv, Timely, Next, NEW u \in UEs,
         stats'[u]["failedAtExecution"] > stats[u]["failedAtExecution"]
  PROVE  Fetched(u, proc[u].target).snr >= MinViableSinr
<1> DEFINE s == Fetched(u, proc[u].source)
           t == Fetched(u, proc[u].target)
<1>1. /\ s \in Metrics /\ t \in Metrics
      /\ t.snr - s.snr >= ChoExecutionOffset /\ s.snr > MinSnr
  BY FailsOnCondition
     DEF EndsOnCondition, ViableIfDetected, StrategyIsSnr, SnrExecuteNow
<1>2. s.snr \in Int /\ t.snr \in Int
  BY <1>1 DEF ViableIfDetected
<1> HIDE DEF s, t
<1>3. t.snr >= MinViableSinr
  BY <1>1, <1>2 DEF ViableIfDetected
<1> QED
  BY <1>3 DEF t

(* A target that CHO_CheckExecutionCondition accepts is above minViableSinr*)
(* because the serving cell is above g_minSNR: CHO_IsLinkViable rejects it *)
(* for its distance or its elevation only.                                 *)
THEOREM FailuresAreNotSnr ==
  ASSUME ViableIfDetected, ~Overrun
  PROVE  Spec => FailureIsNotSnr
<1>1. IInv /\ Timely /\ [Next]_vars =>
        [\A u \in UEs :
           stats'[u]["failedAtExecution"] > stats[u]["failedAtExecution"] =>
             Fetched(u, proc[u].target).snr >= MinViableSinr]_vars
  BY FailureNotSnr
<1> QED
  BY <1>1, InvariantHolds, TimelyHolds, PTL DEF Spec, FailureIsNotSnr

(* The same holds of TDCHO, although its measurements have put the channel *)
(* of an earlier second into the cache.                                    *)
THEOREM TdchoFailuresAreNotSnr ==
  ASSUME ViableIfDetected, ~Overrun
  PROVE  TdchoSpec => FailureIsNotSnr
<1>1. IInv /\ Timely /\ [TdchoNext]_tvars =>
        [\A u \in UEs :
           stats'[u]["failedAtExecution"] > stats[u]["failedAtExecution"] =>
             Fetched(u, proc[u].target).snr >= MinViableSinr]_vars
  <2> SUFFICES ASSUME IInv, Timely, TdchoNext, NEW u \in UEs,
                      stats'[u]["failedAtExecution"]
                        > stats[u]["failedAtExecution"]
               PROVE  Fetched(u, proc[u].target).snr >= MinViableSinr
    BY TypeOfUe DEF tvars, IInv, Counter, GlobalCounter
  <2>1. TypeOK
    BY DEF IInv
  <2>2. ASSUME NEW w \in UEs, TdchoMeasures(w)
        PROVE  FALSE
    <3>1. "failedAtExecution" \in Counter
      BY DEF Counter, GlobalCounter
    <3>2. stats[u]["failedAtExecution"] \in Nat
      BY <2>1, <3>1, TypeOfUe
    <3>3. ASSUME Count(w, {"totalReports"})
          PROVE  stats'[u]["failedAtExecution"] = stats[u]["failedAtExecution"]
      BY <2>1, <3>1, <3>3 DEF Count, TypeOK
    <3>4. stats'[u]["failedAtExecution"] = stats[u]["failedAtExecution"]
      BY <2>1, <2>2, <3>3, TdchoCounts
    <3> QED
      BY <3>2, <3>4
  <2> QED
    BY <2>2, TdchoKeepsNext, FailureNotSnr
<1> QED
  BY <1>1, TdchoInvariantHolds, TdchoTimely, PTL
     DEF TdchoSpec, FailureIsNotSnr
===============================================================================
