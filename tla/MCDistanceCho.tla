----------------------------- MODULE MCDistanceCho ----------------------------
(* Constants for TLC: satellite 1 sets after second 3, the others stay.     *)
EXTENDS DistanceCho

Link(snr, elevation, distance) ==
  [snr |-> snr, elevation |-> elevation, distance |-> distance]

(* Close, distant, close but not viable.                                   *)
ThreeLinks == {Link(5, 60, 600), Link(5, 30, 1200), Link(-3, 60, 600)}

FromStart == [s \in Sats |-> 0]
FirstSets == [s \in Sats |-> IF s = 1 THEN 3 ELSE 100]
===============================================================================
