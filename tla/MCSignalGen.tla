----------------------------- MODULE MCSignalGen -----------------------------
(* Pulses and trains of both signs: limited, linear and in steps, long      *)
(* enough to reach the cruise speed and too short for it, and an amplitude  *)
(* of zero.                                                                 *)
EXTENDS SignalGen

Pulse(amplitude, rate, accel) ==
    [amplitude |-> amplitude, rate |-> rate, dwell |-> 2, pause |-> 1,
     accel |-> accel, continuous |-> FALSE]

Train(amplitude, rate, accel) == [Pulse(amplitude, rate, accel) EXCEPT !.continuous = TRUE]

Pulses == {Pulse(30, 6, 1), Pulse(-30, 6, 1), Pulse(5, 9, 1), Pulse(-31, 9, 3), Pulse(90, 20, 8),
           Pulse(7, 3, 0), Pulse(-4, 0, 1), Pulse(4, -1, -1)}

Trains == {Train(20, 4, 1), Train(-23, 7, 2), Train(7, 3, 0), Train(4, 0, 0)}

MCSignals == Pulses \cup Trains \cup {Pulse(0, 3, 1), Train(0, 3, 1)}
==============================================================================
