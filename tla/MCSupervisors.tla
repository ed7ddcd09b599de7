--------------------------- MODULE MCSupervisors ---------------------------
(* Instances of Supervisors for TLC.                                       *)
EXTENDS SupervisorsProperties

CONSTANTS s1, s2
=============================================================================
