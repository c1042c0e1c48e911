------------------------------- MODULE Trajectory ------------------------------
(***************************************************************************)
(* How serving-time-CHO-Multi.cc reads passes and remaining service time   *)
(* off the trajectory of a satellite.  A trajectory is the set T of the    *)
(* seconds of its points (LoadTrajectory: whole seconds, in order); the    *)
(* indices of the code are the points themselves.                          *)
(***************************************************************************)
EXTENDS Integers

CONSTANT GapThreshold   \* TRAJECTORY_GAP_THRESHOLD

ASSUME GapAssumption == GapThreshold \in Nat \ {0}

Front(T) == CHOOSE p \in T : \A q \in T : p <= q
Back(T)  == CHOOSE p \in T : \A q \in T : q <= p

(* The point after point p is so late that it belongs to another pass.     *)
Gap(T, p) == /\ \E q \in T : p < q
             /\ \A q \in T : q <= p \/ p + GapThreshold < q

\* Mutant: the loop stops one second too early.
IsLeftTooEarly(T, t, p) ==
  /\ p \in T
  /\ p < t - 1 \/ \A q \in T : p <= q
  /\ \A q \in T : q <= p \/ t - 1 <= q

(* The left index of FindTrajectoryBracket: its loop advances while the    *)
(* next point is still before t.                                           *)
IsLeft(T, t, p) ==
  /\ p \in T
  /\ IF t \in T /\ \A q \in T : q <= t THEN p = t
     ELSE /\ p < t \/ \A q \in T : p <= q
          /\ \A q \in T : q <= p \/ t <= q

(* FindTrajectoryBracket succeeds: t is not before, after or in a gap.     *)
Bracketed(T, t) ==
  /\ \E p \in T : p <= t
  /\ \E p \in T : t <= p
  /\ ~ \E p \in T : /\ Gap(T, p)
                    /\ p < t
                    /\ \A q \in T : q <= p \/ t < q

\* Mutant: the search does not stop at a gap.
IsTrajectoryEnd(T, p, e) == e \in T /\ p <= e /\ \A q \in T : q <= e

(* The point at which the search that starts at point p ends.              *)
IsSegmentEnd(T, p, e) ==
  /\ e \in T
  /\ p <= e
  /\ Gap(T, e) \/ \A q \in T : q <= e
  /\ \A r \in T : p <= r /\ r < e => ~Gap(T, r)

(* GetSatelliteRemainingServiceTime. *)
RemainingServiceTime(T, t) ==
  IF ~Bracketed(T, t) THEN 0
  ELSE LET left == CHOOSE p \in T : IsLeft(T, t, p)
           end  == CHOOSE e \in T : IsSegmentEnd(T, left, e)
       IN  IF end > t THEN end - t ELSE 0

-------------------------------------------------------------------------------
(* What a pass is, without indices: points p and q belong to the same pass *)
(* when no gap lies between them, and a second belongs to the pass whose   *)
(* points surround it.                                                     *)
SamePass(T, p, q) == \A r \in T : p <= r /\ r < q => ~Gap(T, r)

PassContains(T, t, p, q) == p <= t /\ t <= q /\ SamePass(T, p, q)

InSomePass(T, t) == \E p \in T, q \in T : PassContains(T, t, p, q)

(* The first second of a pass that is not the first one of the trajectory. *)
Reappears(T, t) == /\ t \in T
                   /\ \E p \in T : /\ Gap(T, p)
                                   /\ p < t
                                   /\ \A q \in T : q <= p \/ t <= q

(* e is the end of the pass that second t belongs to. *)
PassEnds(T, t, e) == /\ e \in T
                     /\ Gap(T, e) \/ \A q \in T : q <= e
                     /\ \E p \in T : PassContains(T, t, p, e)
===============================================================================
