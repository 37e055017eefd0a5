-------------------------- MODULE MCDisplaySchedule --------------------------
(* Small instances of DisplaySchedule: two messages of different width, the *)
(* second sent when the first has ended, and time for both to be late.      *)
EXTENDS DisplaySchedule

MCAt == [m \in Msg |-> IF m = 1 THEN 2 ELSE 7]
MCLength == [m \in Msg |-> IF m = 1 THEN 3 ELSE 2]
===============================================================================
