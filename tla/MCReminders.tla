----------------------------- MODULE MCReminders -----------------------------
(* A day of six-hour quarters; reminders are for noon.                      *)
EXTENDS Reminders

MCZones == [switch : 0..3, before : {-1, 2}, after : {-2, 1}]

Noon == [enabled |-> TRUE, time |-> 1, types |-> {"DAILY_TASK"}, channels |-> Channels,
         zone |-> [switch |-> 1, before |-> 1, after |-> 0], silent |-> {}, sprint |-> 2]
MCPreferences == {Noon, [Noon EXCEPT !.enabled = FALSE]}

Pending == [status |-> "ACTIVE", pending |-> 1, done |-> 0, used |-> 0, allowed |-> 3,
            milestones |-> FALSE, rescue |-> FALSE, reports |-> {}, examIn |-> Never,
            reviewed |-> FALSE, proEndsIn |-> Never]
MCSituations == {Pending, [Pending EXCEPT !.status = "FAILED"]}
=============================================================================
