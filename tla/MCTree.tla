------------------------------- MODULE MCTree -------------------------------
(* Instances of SupervisorTree for TLC.                                    *)
EXTENDS TreeProperties
=============================================================================
