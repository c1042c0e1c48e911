----------------------------- MODULE ChoLifecycle -----------------------------
(***************************************************************************)
(* What conditional handover promises of a set of UEs: a UE keeps its cell *)
(* until it has executed a handover it was configured for, and has at most *)
(* one handover under way.  Signalling, timers and measurements are left   *)
(* to the implementation.                                                  *)
(***************************************************************************)
CONSTANTS Ues,          \* the UE groups
          Cell,         \* the satellites
          None          \* no cell

VARIABLES cell,         \* the cell that serves each UE, or None
          stage,        \* how far the UE's handover has come
          offer         \* the target of that handover

lvars == <<cell, stage, offer>>

Stage == {"idle", "preparing", "configured", "executing"}

Init ==
  /\ cell = [u \in Ues |-> None]
  /\ stage = [u \in Ues |-> "idle"]
  /\ offer = [u \in Ues |-> None]

(* Some UEs that have no cell are given one, all at once.                  *)
Attach ==
  /\ \E c \in [Ues -> Cell \cup {None}] :
       /\ \A u \in Ues : c[u] # cell[u] =>
            cell[u] = None /\ stage[u] = "idle"
       /\ cell' = c
  /\ UNCHANGED <<stage, offer>>

(* An idle UE gives its cell up. *)
Detach(u) ==
  /\ stage[u] = "idle"
  /\ cell' = [cell EXCEPT ![u] = None]
  /\ UNCHANGED <<stage, offer>>

(* A handover to another cell, or to none known yet, is asked for.         *)
Ask(u, t) ==
  /\ stage[u] = "idle"
  /\ cell[u] # None
  /\ t # cell[u]
  /\ stage' = [stage EXCEPT ![u] = "preparing"]
  /\ offer' = [offer EXCEPT ![u] = t]
  /\ UNCHANGED cell

Configure(u) ==
  /\ stage[u] = "preparing"
  /\ stage' = [stage EXCEPT ![u] = "configured"]
  /\ UNCHANGED <<cell, offer>>

Start(u) ==
  /\ stage[u] = "configured"
  /\ offer[u] # None
  /\ stage' = [stage EXCEPT ![u] = "executing"]
  /\ UNCHANGED <<cell, offer>>

(* The configuration expires, or the execution fails. *)
Abandon(u) ==
  /\ stage[u] \in {"configured", "executing"}
  /\ stage' = [stage EXCEPT ![u] = "idle"]
  /\ offer' = [offer EXCEPT ![u] = None]
  /\ UNCHANGED cell

Succeed(u) ==
  /\ stage[u] = "executing"
  /\ cell' = [cell EXCEPT ![u] = offer[u]]
  /\ stage' = [stage EXCEPT ![u] = "idle"]
  /\ offer' = [offer EXCEPT ![u] = None]

Next ==
  \/ Attach
  \/ \E u \in Ues :
       \/ Detach(u)
       \/ \E t \in Cell \cup {None} : Ask(u, t)
       \/ Configure(u)
       \/ Start(u)
       \/ Abandon(u)
       \/ Succeed(u)

Spec == Init /\ [][Next]_lvars
===============================================================================
