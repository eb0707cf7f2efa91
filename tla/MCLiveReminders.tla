---------------------------- MODULE MCLiveReminders ----------------------------
(* Small instance of LiveReminders: two configurations, two registrations.   *)
EXTENDS LiveReminders

CONSTANTS a, b, p1, p2
=============================================================================
