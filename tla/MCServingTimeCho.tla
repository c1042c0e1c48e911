---------------------------- MODULE MCServingTimeCho ---------------------------
(* Constants for TLC: two satellites have two passes each, the third one   *)
(* lasts from before the first gap until after the second has begun.       *)
EXTENDS ServingTimeCho

Link(snr, elevation, distance) ==
  [snr |-> snr, elevation |-> elevation, distance |-> distance]

(* Good, and undetectable. *)
TwoLinks == {Link(5, 60, 600), Link(-9, 40, 900)}

ThreePasses == [s \in Sats |-> CASE s = 1 -> {0, 2, 5, 6, 8, 10, 12, 13}
                                 [] s = 2 -> {0, 1, 4, 6, 8}
                                 [] OTHER -> {1, 3, 5, 7, 9, 10}]
===============================================================================
