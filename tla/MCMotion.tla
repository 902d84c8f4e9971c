------------------------------ MODULE MCMotion ------------------------------
(* A host that stops with a reset, moves, halts, and runs the other loops.  *)
EXTENDS Motion

Stop    == [BootCommand EXCEPT !.reset = TRUE]
Run(op) == [run |-> TRUE, enable |-> TRUE, halt |-> FALSE, reset |-> FALSE, op |-> op]

MCCommands == {Stop, Run("position"), Run("velocity"), Run("torque"),
               [Run("position") EXCEPT !.halt = TRUE]}
MCHomes    == {0, 1}
MCTargets  == {0, 2}
MCAxis     == 0 .. 2
==============================================================================
