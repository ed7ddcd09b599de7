---------------------------- MODULE MCRecurring ----------------------------
(* The instances of RecurringSchedule for TLC.                             *)
EXTENDS RecurringProperties
=============================================================================
