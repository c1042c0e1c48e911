---------------------------- MODULE ChoProperties -----------------------------
(***************************************************************************)
(* What the CHO machine of ChoProcedure promises, whatever the strategy.   *)
(***************************************************************************)
EXTENDS ChoProcedure

(* The phases that wait for an event, and the handler that ends each.      *)
Awaited == {<<"MEAS_REPORT_UPLINK", "ReportArrived">>,
            <<"GNB_CHO_DECISION", "SendXnRequest">>,
            <<"XN_REQUEST", "XnResponse">>,
            <<"XN_RESPONSE", "SendRrcReconfig">>,
            <<"RRC_RECONFIG_DOWNLINK", "UeStoresConfig">>,
            <<"UE_EXECUTING", "ExecutionComplete">>}

Awaits(u, e) ==
  /\ <<proc[u].phase, e.handler>> \in Awaited
  /\ e.source = proc[u].source
  /\ e.target = proc[u].target

(* Events are never cancelled, only ignored by the phase guard at the head *)
(* of each handler.  That is safe because a UE has exactly the one event   *)
(* its phase waits for, bound to the cells of its current procedure, and   *)
(* none while it is idle or evaluates: no event outlives its procedure.    *)
EventMatchesPhase ==
  \A u \in UEs : \A e \in Event :
    events[u][e] = IF Awaits(u, e) THEN 1 ELSE 0

(* The stored configurations are those of the running procedure: the map   *)
(* choConfigs holds the target alone from CHO_Phase5 until the procedure   *)
(* succeeds, fails or expires, and nothing at any other time.              *)
ConfigMatchesPhase ==
  \A u \in UEs :
    conf[u].cells = IF proc[u].phase \in {"UE_EVALUATING", "UE_EXECUTING"}
                    THEN {proc[u].target} ELSE {}

(* Traffic is interrupted exactly while the UE executes a handover, and    *)
(* the error models then drop every packet.                                *)
InterruptionMatchesPhase ==
  \A u \in UEs :
    /\ interrupted[u] <=> proc[u].phase = "UE_EXECUTING"
    /\ interrupted[u] => lossForced[u]

(* A procedure moves the UE away from the cell that serves it: measState,  *)
(* context and procedure agree on the source, the target is another cell,  *)
(* and only a procedure with a real, measured target is ever executed.     *)
ProcedureLeavesServing ==
  \A u \in UEs :
    /\ meas[u].serving = serving[u]
    /\ proc[u].phase # "IDLE" =>
         /\ serving[u] # NoCell
         /\ proc[u].source = serving[u]
         /\ proc[u].target # serving[u]
    /\ proc[u].phase = "UE_EXECUTING" => Measured(u, proc[u].target)

Signalling == {"MEAS_REPORT_UPLINK", "GNB_CHO_DECISION", "XN_REQUEST",
               "XN_RESPONSE"}

In(u, phases) == IF proc[u].phase \in phases THEN 1 ELSE 0

(* No procedure is lost or counted twice: what was reported is being       *)
(* prepared or was sent, what was received is being evaluated, was         *)
(* executed or expired, and what was executed succeeded, failed or runs.   *)
ProceduresAccounted ==
  \A u \in UEs :
    LET c == stats[u] IN
    /\ c["totalReports"] = c["configsSent"] + In(u, Signalling)
    /\ c["configsSent"] =
         c["configsReceived"] + In(u, {"RRC_RECONFIG_DOWNLINK"})
    /\ c["configsReceived"] = c["executionsTriggered"] + c["configsExpired"]
                              + In(u, {"UE_EVALUATING"})
    /\ c["executionsTriggered"] = c["successfulHandovers"]
                      + c["failedAtExecution"] + In(u, {"UE_EXECUTING"})
    /\ c["hoCount"] = c["successfulHandovers"]
    /\ c["hoFail"] = c["failedAtExecution"]

(* With signalling that fits between two checks, no procedure outlives its *)
(* configuration: ValidityPeriod seconds after it was triggered it is over *)
(* as soon as the next check has visited the UE.                           *)
ProcedureBounded ==
  \A u \in UEs : proc[u].phase # "IDLE" =>
    now - proc[u].startTime <= ValidityPeriod + (IF turn > u THEN 0 ELSE 1)

(* With signalling that fits between two checks, the viability check at    *)
(* the end of an execution sees the very metrics that started it: it can   *)
(* reject a target only for what the execution condition does not look at. *)
ExecutionSeesDecisionMetrics ==
  \A u \in UEs : proc[u].phase = "UE_EXECUTING" => ConditionMet(u)

(* Where the strategy drops an undetectable serving cell, no UE stays with *)
(* a satellite that has set for longer than one procedure can last.        *)
StrandingBounded ==
  \A u \in UEs : ForcedReselect /\ serving[u] \in Sats =>
    now <= EndTime[serving[u]] + ValidityPeriod + 2

(* The sum of x[u] over all UEs u.                                         *)
SumOver(x) ==
  LET sum[n \in 0 .. NumUes] == IF n = 0 THEN 0 ELSE sum[n - 1] + x[n - 1]
  IN  sum[NumUes]

Total(c) == SumOver([u \in UEs |-> stats[u][c]])

(* The global counters are the sums of the counters of the UEs: every      *)
(* handler that counts does so on both sides.                              *)
GlobalIsTotal == \A c \in GlobalCounter : gstats[c] = Total(c)

(* Where it does not, a UE whose satellite has set while it had no         *)
(* handover to another cell under way is stranded: it reports radio link   *)
(* failure without a target again and again and never changes its cell.    *)
Stranded(u) == /\ serving[u] \in Sats
               /\ now > EndTime[serving[u]]
               /\ proc[u].phase = "IDLE" \/ proc[u].target = NoCell

StrandedForever ==
  [][\A u \in UEs : ~ForcedReselect /\ Stranded(u) =>
       serving'[u] = serving[u] /\ Stranded(u)']_vars

(* A UE changes its serving cell only at the end of an execution, to the   *)
(* cell its one stored configuration names, and gets its first cell only   *)
(* while it has none; a strategy that reselects drops the cell when idle.  *)
ServingChangesByHandover ==
  [][\A u \in UEs : serving'[u] # serving[u] =>
       \/ serving[u] = NoCell /\ turn = NumUes /\ turn' = 0
       \/ /\ proc[u].phase = "UE_EXECUTING"
          /\ conf[u].cells = {serving'[u]}
          /\ TargetViable(u, serving'[u])
       \/ ForcedReselect /\ proc[u].phase = "IDLE" /\ serving'[u] = NoCell
    ]_vars

(* An execution never starts from an expired configuration, and never      *)
(* before its condition trigger has been active for the execution TTT.     *)
ExecutionInTime ==
  [][\A u \in UEs :
       proc[u].phase # "UE_EXECUTING" /\ proc'[u].phase = "UE_EXECUTING" =>
         /\ now <= proc[u].expiry
         /\ now - proc[u].tttStart >= ExecutionTtt
    ]_vars

(* Selections and reports rest on this second's channel: a UE gets its     *)
(* first cell, and reports a target, only from metrics refreshed in the    *)
(* running check, not from what the cache still holds of a satellite that  *)
(* has set.  An execution does read that: see HandoverToLiveCell.          *)
FreshDecisions ==
  [][\A u \in UEs :
       /\ serving[u] = NoCell /\ serving'[u] # NoCell =>
            cache'[u][serving'[u]].time = now'
       /\ /\ proc[u].phase = "IDLE"
          /\ proc'[u].phase = "MEAS_REPORT_UPLINK"
          /\ proc'[u].target # NoCell
          => \A s \in {serving[u], proc'[u].target} : cache[u][s].time = now
    ]_vars

(* The UE measures at most once per --measurementPeriod, the "UE           *)
(* measurement period (seconds)" of the command line.                      *)
MeasurementPeriodRespected ==
  [][\A u \in UEs :
       meas[u].lastTime # Never /\ meas'[u].lastTime # meas[u].lastTime =>
         meas'[u].lastTime - meas[u].lastTime >= MeasurementPeriod]_vars

(* The error models drop every packet only "if this UE is in handover".    *)
LossOnlyInHandover ==
  \A u \in UEs : lossForced[u] => interrupted[u]

(* CHO_IsLinkViable, the "liveness check during execution phase", lets a   *)
(* handover complete only to a satellite whose trajectory has not expired. *)
HandoverToLiveCell ==
  [][\A u \in UEs :
       proc[u].phase = "UE_EXECUTING" /\ serving'[u] # serving[u] =>
         now <= EndTime[serving'[u]]]_vars

(* Seen from outside, the machine is the life cycle of ChoLifecycle.       *)
StageOf(phase) ==
  CASE phase = "IDLE" -> "idle"
    [] phase = "UE_EVALUATING" -> "configured"
    [] phase = "UE_EXECUTING" -> "executing"
    [] OTHER -> "preparing"

Lifecycle == INSTANCE ChoLifecycle WITH
  Ues <- UEs, Cell <- Sats, None <- NoCell,
  cell <- serving,
  stage <- [u \in UEs |-> StageOf(proc[u].phase)],
  offer <- [u \in UEs |-> IF proc[u].phase = "IDLE" THEN NoCell
                          ELSE proc[u].target]

(* The code implements the life cycle: every step of a check, a handler or *)
(* an event is a step of ChoLifecycle or invisible to it.                  *)
ImplementsLifecycle == Lifecycle!Spec

(* Every procedure that starts early enough before the end of the          *)
(* simulation ends: it never waits for a report, a message or a condition  *)
(* that does not come.                                                     *)
ProcedureEnds ==
  \A u \in UEs :
    (proc[u].phase # "IDLE" /\ proc[u].startTime + ValidityPeriod < MaxTime)
      ~> (proc[u].phase = "IDLE")
===============================================================================
