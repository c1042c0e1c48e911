------------------------------ MODULE DistanceCho -----------------------------
(***************************************************************************)
(* The distance strategy of distance-CHO-Multi.cc: the operators           *)
(* ChoProcedure leaves open.  It drops an undetectable serving cell        *)
(* (ForcedReselect = TRUE) instead of reporting it.  Metrics are records   *)
(* as in SnrCho; offsets are in km.                                        *)
(***************************************************************************)
EXTENDS ChoProperties

CONSTANTS
  ReportingOffset,      \* g_reportingOffset
  ChoExecutionOffset,   \* g_choExecutionOffset
  MaxDistance,          \* g_maxDistance
  MinViableSinr,        \* g_choNtnConfig.minViableSinr
  MaxViableDistance     \* g_choNtnConfig.maxViableDistance

(* Positions are interpolated over any gap between two trajectory points.  *)
DistanceInPass(s, t) == TRUE

DistanceDetectable(m) == m.snr >= -6

DistanceSelectable(m) == m.distance <= MaxDistance /\ m.snr >= -6

DistanceBeats(V) == {p \in V \X V : p[1].m.distance < p[2].m.distance}

(* One loop serves the initial cell and the best neighbour.                *)
DistanceBest(v, V) == FirstBest(v, V, DistanceBeats(V))

DistancePrepare(s, n) == n.m.distance < s.m.distance + ReportingOffset

DistanceNtnTrigger(s) == FALSE

DistanceNtnAccepts(s, V) == TRUE

DistanceExecuteNow(s, t) ==
  /\ s.m.distance - t.m.distance >= ChoExecutionOffset
  /\ s.m.distance < MaxDistance

DistanceViable(m) == /\ m.snr >= MinViableSinr
                     /\ m.distance <= MaxViableDistance
                     /\ m.elevation >= 0
===============================================================================
