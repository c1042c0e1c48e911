----------------------------- MODULE MCSnrHistory -----------------------------
EXTENDS MCSnrCho, ChoHistory
===============================================================================
