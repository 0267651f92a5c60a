-------------------------- MODULE MCScheduledTasks --------------------------
(* ScheduledTasks for TLC: two schedulers and a run-now command.           *)
EXTENDS ScheduledTasks, TLC

CONSTANTS s1, s2, now1, w1, w2

TwoServers == {s1, s2}
OneCommand == {now1}
TwoWorkers == {w1, w2}
=============================================================================
