--------------------------- MODULE MCScheduledJobs ---------------------------
(* Expressions for TLC. With Period = 3 (5 in the code), second 1 of a period is *)
(* rounded down and second 2 up. One expression rounds forward and goes on       *)
(* beyond the horizon; the other has its only occurrence rounded down, and none  *)
(* left for a timer that starts after it.                                        *)
EXTENDS ScheduledJobs

SomeExpressions == {{3, 5, 9}, {4}}
=============================================================================
