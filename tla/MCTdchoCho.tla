------------------------------- MODULE MCTdchoCho ------------------------------
(* Constants for TLC: the first satellite sets after second 7, the third   *)
(* is up from second 2 to 4; the second one moves away in seconds in which *)
(* the third comes closer.                                                 *)
EXTENDS TdchoCho

Link(snr, elevation, distance) ==
  [snr |-> snr, elevation |-> elevation, distance |-> distance]

SixLinks == {Link(snr, 40, distance) : snr \in {1, 4, 5}, distance \in {1, 2}}

(* The first two may be weak or good, the second also better than the      *)
(* third, which is just good enough.                                       *)
Levels(s) == CASE s = 1 -> {1, 4} [] s = 2 -> {1, 4, 5} [] OTHER -> {4}

DistanceOf(s, t) == IF s = 3 THEN 1 + ((t + 1) % 2) ELSE 1 + (t % 2)

Passage(u, s, t) == {Link(snr, 40, DistanceOf(s, t)) : snr \in Levels(s)}

ThirdRises == [s \in Sats |-> IF s = 3 THEN 2 ELSE 0]
TwoSet     == [s \in Sats |-> CASE s = 1 -> 7 [] s = 3 -> 4 [] OTHER -> 100]
===============================================================================
