----------------------------- MODULE ElevationCho -----------------------------
(***************************************************************************)
(* The elevation strategy of elevation-CHO-Multi.cc: the operators         *)
(* ChoProcedure leaves open.  It drops an undetectable serving cell        *)
(* (ForcedReselect = TRUE).  Metrics are records as in SnrCho.             *)
(*                                                                         *)
(* Both offsets are compared with differences of elevation angles (lines   *)
(* 1167 and 1981) and are therefore degrees here, although README.md:73    *)
(* and the help texts of the options (lines 2316 and 2325) give them in    *)
(* km, and the latter calls the second a distance margin.                  *)
(***************************************************************************)
EXTENDS ChoProperties

CONSTANTS
  ReportingOffset,      \* g_reportingOffset, as degrees
  ChoExecutionOffset,   \* g_choExecutionOffset, as degrees
  MinViableSinr,        \* g_choNtnConfig.minViableSinr
  MaxViableDistance     \* g_choNtnConfig.maxViableDistance

(* Positions are interpolated over any gap between two trajectory points.  *)
ElevationInPass(s, t) == TRUE

ElevationDetectable(m) == m.snr >= -6

ElevationSelectable(m) == m.snr >= -6

ElevationBeats(V) == {p \in V \X V : p[1].m.elevation > p[2].m.elevation}

(* One loop serves the initial cell and the best neighbour.                *)
ElevationBest(v, V) == FirstBest(v, V, ElevationBeats(V))

(* The neighbour may be a little lower than the serving satellite.         *)
ElevationPrepare(s, n) == n.m.elevation > s.m.elevation - ReportingOffset

ElevationNtnTrigger(s) == FALSE

ElevationNtnAccepts(s, V) == TRUE

\* Mutant: the serving satellite may be below the horizon.
ElevationExecuteAnyway(s, t) ==
  t.m.elevation - s.m.elevation >= ChoExecutionOffset

\* Mutant: the margin is the distance in km that the option text promises.
ElevationExecuteNearer(s, t) ==
  /\ s.m.distance - t.m.distance >= ChoExecutionOffset
  /\ s.m.elevation >= 0

ElevationExecuteNow(s, t) ==
  /\ t.m.elevation - s.m.elevation >= ChoExecutionOffset
  /\ s.m.elevation >= 0

ElevationViable(m) == /\ m.snr >= MinViableSinr
                      /\ m.distance <= MaxViableDistance
                      /\ m.elevation >= 0

(* With a positive execution margin, the viability check at the end of an  *)
(* execution never rejects a target because it is below the horizon:       *)
(* although preparation accepts a lower neighbour and the execution        *)
(* condition has no bound on the target, what fails is the SINR or the     *)
(* distance of CHO_IsLinkViable.                                           *)
FailureIsNotHorizon ==
  [][\A u \in UEs :
       stats'[u]["failedAtExecution"] > stats[u]["failedAtExecution"] =>
         Fetched(u, proc[u].target).elevation >= 0]_vars

(* A UE that has been handed over has gained at least the execution margin *)
(* of CHO_CheckExecutionCondition, by the channel of the second in which   *)
(* the handover completes and not only by that of the report that prepared *)
(* it: between the two the neighbour may have sunk below the old cell.     *)
(* The margin is one of degrees, as in the code: of the distance margin in *)
(* km that the texts quoted above describe, nothing is promised, and a     *)
(* handover may well lead to a satellite that is farther away.             *)
HandoverGainsElevation ==
  [][\A u \in UEs :
       proc[u].phase = "UE_EXECUTING" /\ serving'[u] # serving[u] =>
         Fetched(u, serving'[u]).elevation - Fetched(u, serving[u]).elevation
           >= ChoExecutionOffset]_vars
===============================================================================
