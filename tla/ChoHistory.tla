------------------------------ MODULE ChoHistory ------------------------------
(***************************************************************************)
(* The time-to-trigger timers of the code keep a start time and a flag.    *)
(* Two history variables count, check by check, for how long the           *)
(* conditions behind them have really held without a break.                *)
(***************************************************************************)
EXTENDS ChoProperties

VARIABLES
  reportHeld,    \* [cell, checks, critical]: the best neighbour that has
                 \* triggered at the last `checks' checks; the NTN trigger
                 \* held at the last `critical' ones, for any neighbour
  executeHeld    \* checks in a row that met the execution condition

hvars == <<vars, reportHeld, executeHeld>>

NotHeld == [cell |-> NoCell, checks |-> 0, critical |-> 0]

Held(u, n) == /\ proc[u].phase = "IDLE"
              /\ serving[u] \in Detected(u)
              /\ IsBestNeighbour(u, n)
              /\ Triggered(u, n)

(* One more check has refreshed the caches (now', cache' and serving').    *)
Observe ==
  /\ reportHeld' = [u \in UEs |->
       IF \E n \in Cells : Held(u, n)'
       THEN LET n == CHOOSE n \in Cells : Held(u, n)'
            IN  [cell |-> n,
                 checks |-> IF reportHeld[u].cell = n
                            THEN reportHeld[u].checks + 1 ELSE 1,
                 critical |-> IF NtnTrigger(At(u, serving[u]))'
                              THEN reportHeld[u].critical + 1 ELSE 0]
       ELSE NotHeld]
  /\ executeHeld' = [u \in UEs |->
       IF proc[u].phase = "UE_EVALUATING" /\ ConditionMet(u)'
       THEN executeHeld[u] + 1 ELSE 0]

HistoryInit ==
  /\ Init
  /\ reportHeld = [u \in UEs |-> NotHeld]
  /\ executeHeld = [u \in UEs |-> 0]

HistoryNext ==
  \/ BeginCheck /\ Observe
  \/ /\ \/ \E u \in UEs : CheckHandover(u)
        \/ \E u \in UEs : \E e \in Event : Signal(u, e)
     /\ UNCHANGED <<reportHeld, executeHeld>>

HistorySpec == HistoryInit /\ [][HistoryNext]_hvars

(* A measurement report names a target only when that cell has satisfied   *)
(* the preparation condition at every check of the last TimeToTrigger      *)
(* seconds, the "Time-to-trigger duration" of the --timeToTrigger option.  *)
ReportAfterTtt ==
  [][\A u \in UEs :
       /\ proc[u].phase = "IDLE"
       /\ proc'[u].phase = "MEAS_REPORT_UPLINK"
       /\ proc'[u].target # NoCell
       => /\ reportHeld[u].cell = proc'[u].target
          /\ reportHeld[u].checks > TimeToTrigger
    ]_hvars

(* A trigger that starts at one check is first looked at by the next.      *)
ReportWait == IF TimeToTrigger = 0 THEN 1 ELSE TimeToTrigger

(* A UE whose serving satellite is about to stop serving reports as soon   *)
(* as some neighbour, not always the same, has triggered for TimeToTrigger *)
(* seconds: while `ntnTrigger' holds, a change of the best neighbour must  *)
(* not restart the time-to-trigger.                                        *)
CriticalReportInTime ==
  \A u \in UEs : reportHeld[u].critical <= ReportWait + 1

(* A handover is executed only when its condition was met at every check   *)
(* of the last executionTimeToTrigger seconds.                             *)
ExecutionAfterTtt ==
  [][\A u \in UEs :
       proc[u].phase # "UE_EXECUTING" /\ proc'[u].phase = "UE_EXECUTING"
       => executeHeld[u] > ExecutionTtt
    ]_hvars
===============================================================================
