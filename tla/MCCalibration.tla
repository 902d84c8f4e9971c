---------------------------- MODULE MCCalibration ----------------------------
(* A host that enables, disables and resets the drive while it calibrates  *)
(* it.                                                                     *)
EXTENDS Calibration

Follow == [run |-> TRUE, enable |-> TRUE, halt |-> FALSE, reset |-> FALSE, op |-> "torque"]
Sticky == [Follow EXCEPT !.reset = TRUE]

MCFollow == {BootCommand, Follow}
MCResets == {Follow, Sticky}
==============================================================================
