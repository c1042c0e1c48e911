-------------------------------- MODULE SnrCho --------------------------------
(***************************************************************************)
(* The SNR strategy of SNR-CHO-Multi.cc: the operators ChoProcedure leaves *)
(* open.  Metrics are records with the SNR in dB, the elevation in degrees *)
(* and the distance in km.                                                 *)
(***************************************************************************)
EXTENDS ChoProperties

CONSTANTS
  ReportingOffset,      \* g_reportingOffset
  ChoExecutionOffset,   \* g_choExecutionOffset
  MinSnr,               \* g_minSNR
  MinViableSinr,        \* g_choNtnConfig.minViableSinr
  MaxViableDistance     \* g_choNtnConfig.maxViableDistance

(* Positions are interpolated over any gap between two trajectory points.  *)
SnrInPass(s, t) == TRUE

SnrDetectable(m) == m.snr >= -6

SnrSelectable(m) == TRUE

SnrBeats(V) == {p \in V \X V : p[1].m.snr > p[2].m.snr}

(* One loop serves the initial cell and the best neighbour.                *)
SnrBest(v, V) == FirstBest(v, V, SnrBeats(V))

(* UE_EvaluateCHOPreparationCondition: the neighbour may even be worse.    *)
SnrPrepare(s, n) == n.m.snr > s.m.snr - ReportingOffset

SnrNtnTrigger(s) == FALSE

SnrNtnAccepts(s, V) == TRUE

\* Mutant: the serving cell may be below the minimum SNR.
SnrExecuteAnyway(s, t) == t.m.snr - s.m.snr >= ChoExecutionOffset

(* CHO_CheckExecutionCondition, on whatever the cache holds.               *)
SnrExecuteNow(s, t) == /\ t.m.snr - s.m.snr >= ChoExecutionOffset
                       /\ s.m.snr > MinSnr

(* CHO_IsLinkViable, on whatever the cache holds.                          *)
SnrViable(m) == /\ m.snr >= MinViableSinr
                /\ m.distance <= MaxViableDistance
                /\ m.elevation >= 0

(* With g_minSNR no lower than minViableSinr and a positive execution      *)
(* margin, as in the defaults, the viability check at the end of an        *)
(* execution never fails for the SINR it quotes in its failure reason:     *)
(* what it rejects is a target too far away or below the horizon.          *)
FailureIsNotSnr ==
  [][\A u \in UEs :
       stats'[u]["failedAtExecution"] > stats[u]["failedAtExecution"] =>
         Fetched(u, proc[u].target).snr >= MinViableSinr]_vars
===============================================================================
