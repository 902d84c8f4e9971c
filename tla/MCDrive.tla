------------------------------- MODULE MCDrive -------------------------------
(* Commands for small instances: a host that stops, halts without enabling, *)
(* follows a mode, and keeps the fault reset on while the drive is enabled. *)
EXTENDS Drive

Stop    == BootCommand
Follow  == [run |-> TRUE, enable |-> TRUE, halt |-> FALSE, reset |-> FALSE, op |-> "torque"]
Halted  == [Follow EXCEPT !.enable = FALSE, !.halt = TRUE]
Sticky  == [Follow EXCEPT !.reset = TRUE]

MCHost   == {Stop, Halted, Sticky}
MCFollow == {Stop, Follow}

(* The status is written by Drive's actions and never read: two values that *)
(* only a slow loop writes are not explored further.                       *)
MCStatuses == calStatus \notin {"zero", "offset"}
==============================================================================
