-------------------------------- MODULE TdchoCho -------------------------------
(***************************************************************************)
(* The TDCHO strategy of SNR-CHO-Multi-TDCHO.cc.  The procedure, the first *)
(* cell, the execution and the viability are those of SNR-CHO-Multi.cc;    *)
(* the measurement is replaced: neighbours are ranked with a penalty for   *)
(* moving away, and a falling SNR of the serving cell lowers the margin of *)
(* the report.  Both rest on the past: a history of samples, and a second  *)
(* computation of the channel for the previous second, which overwrites    *)
(* the cache.  What was decided is compared with later samples.            *)
(***************************************************************************)
EXTENDS SnrCho, Sequences

LOCAL INSTANCE SequencesExt

CONSTANTS
  Channel(_, _, _),       \* the metrics of UE u, satellite s at second t
  FarAway,                \* the distance of a satellite outside its pass
  TrendWindow,            \* g_trendWindowSize
  TrendHandoverMargin,    \* g_trendHandoverMargin
  ServingTrendThreshold,  \* g_servingTrendThreshold
  ValidationDelay,        \* the 5.0 of a PendingMeasurementValidation
  FollowupHorizons        \* the 1.0, 3.0, 5.0 of PendingServingSnrFollowup

(* Both are looked up at a later check than the one that makes them. *)
ASSUME DelayAssumption == /\ ValidationDelay \in Nat \ {0}
                          /\ FollowupHorizons \subseteq Nat \ {0}

VARIABLES
  history,   \* ue.snrHistory: the last samples [time, snr] of each satellite
  pending,   \* g_pendingMeasurementValidations, g_pendingServingSnrFollowups
  lines,     \* what their verification has logged in the last check
  hoDebug    \* cell and neighbor_dist_trend of the last check's [HO_DEBUG]

tvars == <<vars, history, pending, lines, hoDebug>>

NoLine == [cell |-> NoCell, trend |-> 0]

TdchoInit ==
  /\ Init
  /\ history = [u \in UEs |-> [s \in Sats |-> <<>>]]
  /\ pending = [u \in UEs |-> {}]
  /\ lines = [u \in UEs |-> {}]
  /\ hoDebug = [u \in UEs |-> NoLine]

-------------------------------------------------------------------------------
Suffix(h, n) == IF Len(h) <= n THEN h ELSE SubSeq(h, Len(h) - n + 1, Len(h))

\* Mutant: a sample of the past is appended like any other.
SampledInAnyOrder(h, t, snr) ==
  Suffix(Append(h, [time |-> t, snr |-> snr]), 2 * TrendWindow)

(* UpdateSnrHistory: a sample of the past is ignored, and one of the       *)
(* latest second replaces the latest sample.                               *)
Sampled(h, t, snr) ==
  LET n == Len(h)
      older == IF n > 0 /\ h[n].time = t THEN SubSeq(h, 1, n - 1) ELSE h
  IN  IF n > 0 /\ t < h[n].time THEN h
      ELSE Suffix(Append(older, [time |-> t, snr |-> snr]), 2 * TrendWindow)

SumSnr(h) == FoldSeq(LAMBDA x, y : x.snr + y, 0, h)

(* TrendWindow times GetSnrTrend: zero until two windows are filled.       *)
SnrTrend(h) ==
  IF TrendWindow = 0 \/ Len(h) < 2 * TrendWindow THEN 0
  ELSE SumSnr(Suffix(h, TrendWindow))
       - (SumSnr(Suffix(h, 2 * TrendWindow)) - SumSnr(Suffix(h, TrendWindow)))

Off(t, x) == IF x.time <= t THEN t - x.time ELSE x.time - t

\* Mutant: the first sample that is close enough is taken.
FirstSampleAt(h, t) ==
  LET Near == {i \in DOMAIN h : Off(t, h[i]) <= 2}
  IN  IF Near = {} THEN Never
      ELSE h[CHOOSE i \in Near : \A j \in Near : i <= j].time

(* GetSnrAtTime: the time of the closest sample, or Never.                 *)
SampleAt(h, t) ==
  LET Near == {i \in DOMAIN h : /\ Off(t, h[i]) <= 2
                                /\ \A j \in DOMAIN h :
                                     Off(t, h[i]) <= Off(t, h[j])}
  IN  IF Near = {} THEN Never
      ELSE h[CHOOSE i \in Near : \A j \in Near : i <= j].time

-------------------------------------------------------------------------------
(* A prediction made at second t about the SNR of a cell at second due.    *)
Prediction(kind, s, t, d) == [kind |-> kind, cell |-> s, time |-> t, due |-> d]

\* Mutant: only what was found in the history is removed.
ForgetFound(p, h, t) == t >= p.due /\ SampleAt(h, p.due) # Never

(* Verified predictions are removed, found in the history or not.          *)
Forget(p, h, t) == t >= p.due

(* VerifyPendingMeasurements and VerifyPendingServingSnrFollowups, after   *)
(* the refresh: a follow-up is logged even without a sample.               *)
Verify ==
  LET Sample(u, p) == SampleAt(history'[u][p.cell], p.due)
  IN  /\ lines' = [u \in UEs |->
           {[of |-> p, sample |-> Sample(u, p)] :
              p \in {q \in pending[u] :
                       /\ now' >= q.due
                       /\ Sample(u, q) # Never \/ q.kind = "followup"}}]
      /\ pending' = [u \in UEs |->
           {p \in pending[u] : ~Forget(p, history'[u][p.cell], now')}]

(* The refresh also takes a sample of every satellite it reaches, whose    *)
(* channel depends on its position.                                        *)
TdchoBeginCheck ==
  /\ BeginCheck
  /\ \A u \in UEs : \A s \in Sats :
       cache'[u][s] # Unmeasured /\ cache'[u][s].time = now'
         => cache'[u][s].m \in Channel(u, s, now')
  /\ history' = [u \in UEs |-> [s \in Sats |->
       IF cache'[u][s] # Unmeasured /\ cache'[u][s].time = now'
       THEN Sampled(history[u][s], now', cache'[u][s].m.snr)
       ELSE history[u][s]]]
  /\ Verify
  /\ hoDebug' = [u \in UEs |-> NoLine]

-------------------------------------------------------------------------------
(* UE_EvaluateAndReport.                                                   *)

Previous == now - MeasurementPeriod

DistanceAt(u, s, t) == (CHOOSE m \in Channel(u, s, t) : TRUE).distance

(* What UpdateSatelliteState returns for the previous second: what the     *)
(* cache c holds if it is of that second, or a new computation, or nothing *)
(* before the satellite has risen.                                         *)
PreviousDistance(u, c, s) ==
  IF c[s].time = Previous THEN c[s].m.distance
  ELSE IF Previous < StartTime[s] THEN FarAway
  ELSE DistanceAt(u, s, Previous)

(* GetDistanceTrend, when the cache of the UE is c: positive when the      *)
(* satellite moves away.                                                   *)
DistanceTrend(u, c, s) ==
  IF Previous < 0 THEN 0 ELSE c[s].m.distance - PreviousDistance(u, c, s)

Candidates(u) == {r \in Detected(u) \ {serving[u]} : Fetched(u, r).snr >= 3}

\* Mutant: moving away costs nothing.
MetricIsSnr(u, r) == Fetched(u, r).snr

EvalMetric(u, r) ==
  Fetched(u, r).snr - (IF DistanceTrend(u, cache[u], r) > 0 THEN 2 ELSE 0)

Rated(u, r) == [cell |-> r, metric |-> EvalMetric(u, r)]

IsBestCandidate(u, n) ==
  LET V == {Rated(u, r) : r \in Candidates(u)}
  IN  IF V = {} THEN n = NoCell
      ELSE /\ n \in Candidates(u)
           /\ FirstBest(Rated(u, n), V,
                        {p \in V \X V : p[1].metric > p[2].metric})

Degrading(u) == SnrTrend(history[u][serving[u]])
                  < -(ServingTrendThreshold * TrendWindow)

DynamicMargin(u) ==
  LET margin == TrendHandoverMargin - (IF Degrading(u) THEN 2 ELSE 0)
  IN  IF margin < 1 THEN 1 ELSE margin

A3(u, n) == /\ n # NoCell
            /\ Fetched(u, n).snr > Fetched(u, serving[u]).snr + DynamicMargin(u)

(* Every distance trend asked for, of a candidate or, when there is one,   *)
(* of the serving cell, leaves the channel of the previous second in the   *)
(* cache, with a new draw of the fading.                                   *)
Reread(u) ==
  LET R == {s \in IF Candidates(u) = {} THEN {}
                  ELSE Candidates(u) \cup {serving[u]} :
              Previous >= 0 /\ Previous >= StartTime[s]}
  IN  \E draw \in [R -> Metrics] :
        /\ \A s \in R : draw[s] \in Channel(u, s, Previous)
        /\ cache' = [cache EXCEPT ![u] = [s \in Sats |->
             IF s \in R THEN [time |-> Previous, m |-> draw[s]] ELSE @[s]]]
        /\ history' = [history EXCEPT ![u] = [s \in Sats |->
             IF s \in R THEN Sampled(@[s], Previous, draw[s].snr) ELSE @[s]]]

(* The part of a measurement that does not depend on its outcome: n is the *)
(* best neighbour.  Its trend is logged by a second question.              *)
Evaluated(u, n) ==
  /\ Visit(u)
  /\ MayMeasure(u)
  /\ serving[u] \in Detected(u)
  /\ IsBestCandidate(u, n)
  /\ Reread(u)
  /\ pending' = [pending EXCEPT ![u] = @
       \cup {Prediction("validation", r, now, now + ValidationDelay) :
               r \in Candidates(u)}
       \cup {Prediction("followup", serving[u], now, now + h) :
               h \in IF n # NoCell /\ Degrading(u) THEN FollowupHorizons
                                                  ELSE {}}]
  /\ hoDebug' = IF n = NoCell THEN hoDebug
                ELSE [hoDebug EXCEPT ![u] = [cell |-> n,
                        trend |-> DistanceTrend(u, cache'[u], n)]]
  /\ UNCHANGED <<now, serving, conf, interrupted, lossForced, lines>>

TdchoClearTrigger(u) ==
  /\ \E n \in Cells : Evaluated(u, n) /\ ~A3(u, n)
  /\ meas' = [meas EXCEPT ![u] = [@ EXCEPT !.lastTime = now,
                !.active = FALSE, !.start = Never, !.candidate = NoCell]]
  /\ NoProcedure

TdchoStartTrigger(u) ==
  /\ \E n \in Sats :
       /\ Evaluated(u, n) /\ A3(u, n)
       /\ ~meas[u].active \/ n # meas[u].candidate
       /\ meas' = [meas EXCEPT ![u] = [@ EXCEPT !.lastTime = now,
                     !.active = TRUE, !.start = now, !.candidate = n]]
  /\ NoProcedure

TdchoPersists(u) == /\ meas[u].active
                    /\ Evaluated(u, meas[u].candidate)
                    /\ A3(u, meas[u].candidate)

TdchoHoldTrigger(u) ==
  /\ TdchoPersists(u)
  /\ now - meas[u].start < TimeToTrigger
  /\ meas' = [meas EXCEPT ![u] = [@ EXCEPT !.lastTime = now]]
  /\ NoProcedure

TdchoReport(u) ==
  /\ TdchoPersists(u)
  /\ now - meas[u].start >= TimeToTrigger
  /\ meas' = [meas EXCEPT ![u] = [@ EXCEPT !.lastTime = now,
                                           !.active = FALSE]]
  /\ TriggerProcedure(u, serving[u], meas[u].candidate)

(* Everything but a measurement of a detectable cell is as in the SNR      *)
(* strategy and leaves the records alone.                                  *)
Shared ==
  /\ \/ \E u \in UEs :
          \/ SkipUe(u)
          \/ ReportRlf(u)
          \/ ExpireConfig(u)
          \/ KeepWaiting(u)
          \/ StartExecutionTtt(u)
          \/ HoldExecutionTtt(u)
          \/ Execute(u)
     \/ \E u \in UEs : \E e \in Event : Signal(u, e)
  /\ UNCHANGED <<history, pending, lines, hoDebug>>

TdchoNext ==
  \/ TdchoBeginCheck
  \/ \E u \in UEs : TdchoClearTrigger(u)
  \/ \E u \in UEs : TdchoStartTrigger(u)
  \/ \E u \in UEs : TdchoHoldTrigger(u)
  \/ \E u \in UEs : TdchoReport(u)
  \/ Shared

TdchoSpec == TdchoInit /\ [][TdchoNext]_tvars

-------------------------------------------------------------------------------
(* However often the channel of the past is computed again, the history of *)
(* a satellite ends with its latest second, and its samples are those of   *)
(* consecutive seconds, no more than two windows of them: what GetSnrTrend *)
(* subtracts are neighbouring windows.                                     *)
HistoryConsecutive ==
  \A u \in UEs : \A s \in Sats :
    LET h == history[u][s]
    IN  /\ Len(h) <= 2 * TrendWindow
        /\ StartTime[s] <= now =>
             /\ h # <<>>
             /\ \A i \in DOMAIN h :
                  h[i].time + Len(h) - i =
                    (IF now <= EndTime[s] THEN now ELSE EndTime[s])

(* A prediction is verified by the check of its second and never waits     *)
(* longer, also when its satellite has set in the meantime.                *)
NothingOverdue == \A u \in UEs : \A p \in pending[u] : now < p.due

(* A logged validation compares the recorded SNR with a later sample, of   *)
(* exactly the second it was meant for while the satellite is up, and of   *)
(* its last seconds once it has set.                                       *)
ValidatedByLaterSample ==
  \A u \in UEs : \A l \in lines[u] :
    /\ l.of.due = now
    /\ l.sample # Never /\ now <= EndTime[l.of.cell] => l.sample = now
    /\ l.of.kind = "validation" => /\ l.of.time < l.sample
                                   /\ now <= l.sample + 2

(* The handover condition and the viability check read this second's       *)
(* channel of both cells, although the measurement that reported the       *)
(* target left the previous second's in the cache.                         *)
ExecutionReadsThisSecond ==
  [][\A u \in UEs :
       \/ proc[u].phase = "UE_EVALUATING" /\ turn = u
       \/ proc[u].phase = "UE_EXECUTING" /\ proc'[u] # proc[u]
       => \A s \in {proc[u].source, proc[u].target} \cap Sats :
            cache[u][s].time = now \/ EndTime[s] < now]_tvars

(* A satellite that moves away is reported only when it is better by the   *)
(* penalty than every candidate that comes closer.                         *)
ReportPrefersApproaching ==
  [][\A u \in UEs :
       /\ proc[u].phase = "IDLE" /\ proc'[u].phase = "MEAS_REPORT_UPLINK"
       /\ proc'[u].target # NoCell
       /\ Previous >= 0
       => LET n == proc'[u].target
              Moves(s) == DistanceAt(u, s, now) - DistanceAt(u, s, Previous)
          IN  \A r \in Candidates(u) :
                /\ Previous >= StartTime[n] /\ Previous >= StartTime[r]
                /\ Moves(n) > 0 /\ Moves(r) <= 0
                => Fetched(u, n).snr >= Fetched(u, r).snr + 2]_tvars

(* "Returns distance(t_now) - distance(t_prev) where t_prev = t_now -      *)
(* measurementPeriod": so neighbor_dist_trend in the [HO_DEBUG] line.      *)
TrendIsLogged ==
  \A u \in UEs :
    hoDebug[u].cell # NoCell /\ StartTime[hoDebug[u].cell] <= Previous =>
      hoDebug[u].trend = DistanceAt(u, hoDebug[u].cell, now)
                         - DistanceAt(u, hoDebug[u].cell, Previous)
===============================================================================
