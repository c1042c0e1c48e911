------------------------------- MODULE MCSnrLog -------------------------------
(* The instance of MCSnrCho, with the decisions logged.                    *)
EXTENDS MCSnrCho, ChoLog
===============================================================================
