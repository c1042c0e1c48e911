--------------------------- MODULE MCDistanceHistory ---------------------------
EXTENDS MCDistanceCho, ChoHistory
===============================================================================
