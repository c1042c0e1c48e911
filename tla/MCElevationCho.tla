---------------------------- MODULE MCElevationCho ----------------------------
(* Constants for TLC: no satellite sets, but all may sink.                 *)
EXTENDS ElevationCho

Link(snr, elevation, distance) ==
  [snr |-> snr, elevation |-> elevation, distance |-> distance]

(* High, low, just below the horizon and far below it.  The high one is in *)
(* a higher orbit and therefore farther away than the low one, so that an  *)
(* elevation gained is not a distance gained.                              *)
FourLinks == {Link(5, 60, 1350), Link(5, 20, 1200),
              Link(5, -3, 1500), Link(5, -20, 2000)}

FromStart == [s \in Sats |-> 0]
NeverSets == [s \in Sats |-> 100]
===============================================================================
