--------------------------- MODULE MCMaintenance ---------------------------
(* Configurations of the maintenance loop for model checking. *)
EXTENDS MaintenanceLoop

\* Passes on a schedule, with graph GC; nobody posts a trigger.
Scheduled == [interval |-> TRUE, gc |-> TRUE, maxPosts |-> 0, maxGarbage |-> 2]

\* interval_hours = 0 and graph GC off: passes begin on triggers alone.
OnDemand == [interval |-> FALSE, gc |-> FALSE, maxPosts |-> 3, maxGarbage |-> 1]

ScheduledOnly == {Scheduled}
EverySetting == {Scheduled, OnDemand}
=============================================================================
