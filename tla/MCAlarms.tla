----------------------------- MODULE MCAlarms -----------------------------
(* Instance of Alarms for TLC: an item whose alarms wait for two ticks and *)
(* have two grades, and an item whose alarms are told at once.             *)
EXTENDS Alarms

CONSTANTS i1, i2, slow, quick

MCItemOf == [c \in Cond |-> IF c = slow THEN i1 ELSE i2]
MCValue == 0..2
MCGrade(c, v) == IF c = slow \/ v = 0 THEN v ELSE 1
MCMatch == [c \in Cond |-> [v \in MCValue |-> MCGrade(c, v)]]
MCKeep == [c \in Cond |-> IF c = slow THEN 2 ELSE 0]
===========================================================================
