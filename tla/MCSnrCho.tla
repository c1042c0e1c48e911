------------------------------- MODULE MCSnrCho -------------------------------
(* Constants for TLC: satellite 1 sets after second 6, the others stay.    *)
EXTENDS SnrCho

Link(snr, elevation, distance) ==
  [snr |-> snr, elevation |-> elevation, distance |-> distance]

(* Weak, strong, strong but too far, undetectable, below the horizon.      *)
FiveLinks == {Link(1, 40, 900), Link(5, 40, 900), Link(5, 20, 2600),
              Link(-9, 40, 900), Link(5, -3, 900)}

(* Also a detectable link that is not viable for its SNR alone.            *)
SixLinks == FiveLinks \cup {Link(-5, 40, 900)}

(* Only the cases that change a counter. *)
ThreeLinks == {Link(1, 40, 900), Link(5, 40, 900), Link(5, 20, 2600)}

FromStart == [s \in Sats |-> 0]
FirstSets == [s \in Sats |-> IF s = 1 THEN 6 ELSE 100]
SetsEarly == [s \in Sats |-> IF s = 1 THEN 1 ELSE 100]
===============================================================================
