--------------------------------- MODULE ChoLog --------------------------------
(***************************************************************************)
(* What a UE remembers of its decisions for the result log: hoContext, set *)
(* by a measurement and read when a handover completes, and the            *)
(* predictions that are compared with the channel PredictionDelay seconds  *)
(* after the measurement that made them.                                   *)
(***************************************************************************)
EXTENDS ChoProperties

CONSTANT PredictionDelay   \* g_predictionEvalDelay

(* With less than two seconds the order of a prediction and the check of   *)
(* the same second would not be that of this module.                       *)
ASSUME DelayAssumption == PredictionDelay \in Nat \ {0, 1}

VARIABLES
  hoContext,      \* ue.hoContext: a decision, or None
  pendingEvals,   \* g_pendingPredictionEvals, by UE
  evalEvents      \* scheduled calls of EvaluatePendingPrediction

lvars == <<vars, hoContext, pendingEvals, evalEvents>>

(* ResetHoContext; valid is true exactly when the other fields are set.    *)
None == [source |-> NoCell, target |-> NoCell, time |-> Never]

Decision(s, n) == [source |-> s, target |-> n, time |-> now]

LogInit ==
  /\ Init
  /\ hoContext = [u \in UEs |-> None]
  /\ pendingEvals = [u \in UEs |-> {}]
  /\ evalEvents = [u \in UEs |-> {}]

(* A measurement of the serving cell and of a best neighbour n schedules a *)
(* prediction, and is remembered when the preparation condition holds.     *)
LogNeighbour(u, n) ==
  LET d == Decision(meas[u].serving, n)
  IN  /\ pendingEvals' = [pendingEvals EXCEPT ![u] = @ \cup {d}]
      /\ evalEvents' = [evalEvents EXCEPT ![u] = @ \cup {d}]
      /\ hoContext' = [hoContext EXCEPT ![u] =
           IF Prepare(At(u, meas[u].serving), At(u, n)) THEN d ELSE None]

(* Any other one, of an undetectable cell too, forgets the last decision.  *)
LogMeasurement(u) ==
  IF meas[u].serving \in Detected(u) /\ ~IsBestNeighbour(u, NoCell)
  THEN \E n \in Sats : IsBestNeighbour(u, n) /\ LogNeighbour(u, n)
  ELSE /\ hoContext' = [hoContext EXCEPT ![u] = None]
       /\ UNCHANGED <<pendingEvals, evalEvents>>

LogCheck(u) ==
  IF MayMeasure(u) THEN LogMeasurement(u)
  ELSE UNCHANGED <<hoContext, pendingEvals, evalEvents>>

\* Mutant: only a completed handover resets the context.
KeepContextOnFailure(u) ==
  /\ hoContext' = [hoContext EXCEPT ![u] =
       IF serving'[u] # serving[u] THEN None ELSE @]
  /\ UNCHANGED <<pendingEvals, evalEvents>>

(* The last handler of a procedure resets the context, whether it succeeds *)
(* or fails; an expired configuration leaves it as it is.                  *)
LogSignal(u) ==
  /\ hoContext' = [hoContext EXCEPT ![u] =
       IF proc[u].phase = "UE_EXECUTING" /\ proc'[u].phase = "IDLE"
       THEN None ELSE @]
  /\ UNCHANGED <<pendingEvals, evalEvents>>

\* Mutant: entries are compared without their decision time.
SameCells(p, d) == p.source = d.source /\ p.target = d.target

(* The comparison that finds the entry of a prediction in the vector.      *)
SamePrediction(p, d) == p = d

Due(u, d) == d.time + PredictionDelay <= now + 1

(* Scheduled a full second before it, a prediction is evaluated ahead of   *)
(* the check of its second, on the channel of the check before.            *)
EvaluatePendingPrediction(u, d) ==
  /\ turn = NumUes
  /\ d \in evalEvents[u]
  /\ Due(u, d)
  /\ pendingEvals' = [pendingEvals EXCEPT ![u] =
                        {p \in @ : ~SamePrediction(p, d)}]
  /\ evalEvents' = [evalEvents EXCEPT ![u] = @ \ {d}]
  /\ UNCHANGED <<vars, hoContext>>

LogNext ==
  \/ /\ BeginCheck
     /\ \A u \in UEs : \A d \in evalEvents[u] : ~Due(u, d)
     /\ UNCHANGED <<hoContext, pendingEvals, evalEvents>>
  \/ \E u \in UEs : CheckHandover(u) /\ LogCheck(u)
  \/ \E u \in UEs : \E e \in Event : Signal(u, e) /\ LogSignal(u)
  \/ \E u \in UEs : \E d \in evalEvents[u] : EvaluatePendingPrediction(u, d)

LogSpec == LogInit /\ [][LogNext]_lvars

(* The context a completed handover logs is that of the measurement that   *)
(* reported it, many seconds and several handlers ago, also when the       *)
(* signalling runs into the next checks: same cells, same second.  After a *)
(* failure, before the next measurement, there is none.                    *)
ContextOfProcedure ==
  \A u \in UEs :
    /\ proc[u].phase # "IDLE" =>
         hoContext[u] = IF proc[u].target = NoCell THEN None
                        ELSE [source |-> proc[u].source,
                              target |-> proc[u].target,
                              time |-> proc[u].startTime]
    /\ proc[u].failed /\ meas[u].lastTime <= proc[u].startTime =>
         hoContext[u] = None

(* g_pendingPredictionEvals holds exactly the predictions that are still   *)
(* to be evaluated, although each one is found by comparison, and a        *)
(* prediction can always be evaluated: no cache entry is ever removed.     *)
PendingMatchesScheduled ==
  \A u \in UEs :
    /\ pendingEvals[u] = evalEvents[u]
    /\ \A d \in evalEvents[u] : Measured(u, d.source) /\ Measured(u, d.target)
===============================================================================
