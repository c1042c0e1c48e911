------------------------------ MODULE MCTopsisCho ------------------------------
(* Constants for TLC, with each criterion on a scale of two steps.  No     *)
(* link is at or below the minimum SNR.                                    *)
EXTENDS TopsisCho

Link(snr, elevation, distance) ==
  [snr |-> snr, elevation |-> elevation, distance |-> distance]

(* Weak but high and close; strong but far; strong and close but low;      *)
(* good in every respect.                                                  *)
FourLinks == {Link(0, 1, 1), Link(1, 1, 2), Link(1, 0, 1), Link(1, 1, 1)}

BelowZero == -1

(* The last satellite is up for two seconds only. *)
LastRises == [s \in Sats |-> IF s = NumSats THEN 1 ELSE 0]
LastSets  == [s \in Sats |-> IF s = NumSats THEN 2 ELSE 100]
===============================================================================
