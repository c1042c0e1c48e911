------------------------------- MODULE TopsisCho -------------------------------
(***************************************************************************)
(* The TOPSIS strategy of topsis-CHO-Multi.cc: the operators ChoProcedure  *)
(* leaves open.  The first cell and all conditions are those of the SNR    *)
(* strategy; the best neighbour is chosen by SD-TOPSIS from SNR, elevation *)
(* and distance.  The doubles of the code are scaled to integers here: all *)
(* squared distances of one decision are multiplied by the same number,    *)
(* which leaves the order of the scores alone.                             *)
(***************************************************************************)
EXTENDS ChoProperties, FiniteSetsExt

CONSTANTS
  ReportingOffset,      \* g_reportingOffset
  ChoExecutionOffset,   \* g_choExecutionOffset
  MinSnr,               \* g_minSNR
  MinViableSinr,        \* g_choNtnConfig.minViableSinr
  MaxViableDistance     \* g_choNtnConfig.maxViableDistance

Criteria == {"snr", "elevation", "distance"}

(* sumSquares, and n^2 * sumSquares * stdDevs^2, of a criterion over V.    *)
SumSquares(V, j) == MapThenSumSet(LAMBDA v : v.m[j] * v.m[j], V)
Spread(V, j) ==
  LET sum == MapThenSumSet(LAMBDA v : v.m[j], V)
  IN  Cardinality(V) * SumSquares(V, j) - sum * sum

(* weights[j]^2 / sumSquares[j], up to a factor common to all criteria.    *)
Weight(V, j) ==
  LET Norm(k) == IF Spread(V, k) = 0 THEN 1
                 ELSE SumSquares(V, k) * SumSquares(V, k)
  IN  MapThenFoldSet(LAMBDA x, y : x * y, Spread(V, j), Norm,
                     LAMBDA K : CHOOSE k \in K : TRUE, Criteria \ {j})

Values(V, j) == {v.m[j] : v \in V}

\* Mutant: the smallest value of every criterion is the ideal one.
AllCost(V, j) == Min(Values(V, j))

(* pis and nis: SNR and elevation are benefits, the distance is a cost.    *)
Pis(V, j) == IF j = "distance" THEN Min(Values(V, j)) ELSE Max(Values(V, j))
Nis(V, j) == IF j = "distance" THEN Max(Values(V, j)) ELSE Min(Values(V, j))

(* distPIS^2 or distNIS^2 of every candidate. *)
DistancesTo(ideal, V) ==
  LET weight == [j \in Criteria |-> Weight(V, j)]
      Off(v, j) == v.m[j] - ideal[j]
  IN  [v \in V |-> MapThenSumSet(
         LAMBDA j : weight[j] * Off(v, j) * Off(v, j), Criteria)]

(* FindBestTargetWithSD_TOPSIS keeps the first candidate with the highest  *)
(* score distNIS / (distPIS + distNIS), which is 0 when both vanish: they  *)
(* then do for all candidates.                                             *)
TopsisBest(v, V) ==
  LET pis == DistancesTo([j \in Criteria |-> Pis(V, j)], V)
      nis == DistancesTo([j \in Criteria |-> Nis(V, j)], V)
  IN  FirstBest(v, V, {p \in V \X V :
                         nis[p[1]] * pis[p[2]] > nis[p[2]] * pis[p[1]]})

-------------------------------------------------------------------------------
(* Positions are interpolated over any gap between two trajectory points.  *)
TopsisInPass(s, t) == TRUE

TopsisDetectable(m) == m.snr >= -6

TopsisSelectable(m) == TRUE

TopsisInitial(v, V) ==
  FirstBest(v, V, {p \in V \X V : p[1].m.snr > p[2].m.snr})

TopsisPrepare(s, n) == n.m.snr > s.m.snr - ReportingOffset

TopsisNtnTrigger(s) == FALSE

TopsisNtnAccepts(s, V) == TRUE

TopsisExecuteNow(s, t) == /\ t.m.snr - s.m.snr >= ChoExecutionOffset
                          /\ s.m.snr > MinSnr

TopsisViable(m) == /\ m.snr >= MinViableSinr
                   /\ m.distance <= MaxViableDistance
                   /\ m.elevation >= 0

-------------------------------------------------------------------------------
(* Candidate w is at least as good as v in every criterion and better in   *)
(* one of them.                                                            *)
Dominates(w, v) ==
  /\ w # v
  /\ w.snr >= v.snr /\ w.elevation >= v.elevation /\ w.distance <= v.distance

(* Whatever weights the spread of the candidates yields, also when some or *)
(* all of the standard deviations vanish, a report never names a neighbour *)
(* that another detected neighbour beats in every respect.                 *)
ReportIsNotDominated ==
  [][\A u \in UEs :
       proc[u].phase = "IDLE" /\ proc'[u].phase = "MEAS_REPORT_UPLINK" =>
         \A r \in Detected(u) \ {serving[u]} :
           proc'[u].target # NoCell =>
             ~Dominates(Fetched(u, r), Fetched(u, proc'[u].target))]_vars

(* A neighbour that would satisfy the preparation condition is passed over *)
(* without a trigger only in favour of one that is higher or closer.       *)
QuietOnlyByTradeOff ==
  [][\A u \in UEs :
       /\ MayMeasure(u) /\ turn = u /\ turn' = u + 1
       /\ serving[u] \in Detected(u)
       /\ proc'[u].phase = "IDLE" /\ ~meas'[u].active
       => \A r \in Detected(u) \ {serving[u]} :
            TopsisPrepare(At(u, serving[u]), At(u, r)) =>
              \E n \in Detected(u) \ {serving[u], r} :
                \/ Fetched(u, n).elevation > Fetched(u, r).elevation
                \/ Fetched(u, n).distance < Fetched(u, r).distance
    ]_vars

(* Although the target is ranked by other criteria, a completed handover   *)
(* gains the SNR margin of the execution condition, by the channel of the  *)
(* second in which it completes.                                           *)
HandoverGainsSnr ==
  [][\A u \in UEs :
       proc[u].phase = "UE_EXECUTING" /\ serving'[u] # serving[u] =>
         Fetched(u, serving'[u]).snr - Fetched(u, serving[u]).snr
           >= ChoExecutionOffset]_vars
===============================================================================
