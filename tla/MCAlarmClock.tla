---------------------------- MODULE MCAlarmClock -----------------------------
(***************************************************************************)
(* AlarmClock with two hours of four minutes of three seconds, an alarm   *)
(* that moves by two minutes and snoozes for two, and a file of one feed.  *)
(***************************************************************************)
EXTENDS AlarmClock

MCFirstTime == [hour |-> 1, min |-> MINUTES - 1, sec |-> 1]
MCFirstAlarm == [hour |-> 0, min |-> 0, sec |-> 0]
=============================================================================
