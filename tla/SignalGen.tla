------------------------------ MODULE SignalGen ------------------------------
(***************************************************************************)
(* The test-signal generator (src/src/mc_signal_gen.c) as the medium loop  *)
(* drives it (src/src/mc_scheduler.c): the shape that module Motion leaves *)
(* out.                                                                    *)
(*                                                                         *)
(* Numbers are whole: positions in steps, velocities in steps a tick, the  *)
(* acceleration limit in steps a tick squared, times in ticks.  The braking *)
(* speed is rounded down to a whole one where the code's is a rounded      *)
(* float.  A velocity or current signal is the same with no limit.         *)
(***************************************************************************)
EXTENDS Integers

CONSTANT Signals    \* the parameters (0x2910) a test may be fired with

ASSUME SignalsAssumption ==
    Signals \subseteq [amplitude : Int, rate : Int, dwell : Int, pause : Int,
                       accel : Int, continuous : BOOLEAN]

VARIABLES
    gen,     \* s_sig_gen
    armed,   \* want # MC_IF_TEST_MODE_OFF: armed, its loop enabled and no trip
    fire     \* g_mc_inject.request_test_fire

Generators == [state : {"idle", "ramp", "dwell"}, peak : Int, rate : Nat, dwell : Nat,
               pause : Nat, accel : Nat, continuous : BOOLEAN, target : Int,
               toPeak : BOOLEAN, value : Int, vel : Int, elapsed : Nat]

vars == <<gen, armed, fire>>

Init == /\ gen = [state |-> "idle", peak |-> 0, rate |-> 0, dwell |-> 0, pause |-> 0,
                  accel |-> 0, continuous |-> FALSE, target |-> 0, toPeak |-> FALSE,
                  value |-> 0, vel |-> 0, elapsed |-> 0]
        /\ armed = FALSE /\ fire = FALSE

Active(g) == g.state # "idle"

-----------------------------------------------------------------------------
(* MC_SignalGen_Start and MC_SignalGen_Stop *)

(* Mutant: a negative parameter is taken as it is.                         *)
AsGiven(x) == x

AtLeastZero(x) == IF x > 0 THEN x ELSE 0

Start(s) == [state |-> "ramp", peak |-> s.amplitude, rate |-> AtLeastZero(s.rate),
             dwell |-> AtLeastZero(s.dwell), pause |-> AtLeastZero(s.pause),
             accel |-> AtLeastZero(s.accel), continuous |-> s.continuous,
             target |-> s.amplitude, toPeak |-> TRUE, value |-> 0, vel |-> 0,
             elapsed |-> 0]

(* Mutant: a stop does not turn the ramp around.                           *)
StopOnwards(g) == [g EXCEPT !.continuous = FALSE,
                            !.state = IF g.value = 0 THEN "idle" ELSE "ramp"]

Stop(g) == [g EXCEPT !.continuous = FALSE, !.target = 0, !.toPeak = FALSE,
                     !.state = IF g.value = 0 THEN "idle" ELSE "ramp"]

-----------------------------------------------------------------------------
(* A ramp: one tick towards the target *)

Abs(x)   == IF x < 0 THEN -x ELSE x
Dir(g)   == IF g.target >= g.value THEN 1 ELSE -1
ToGo(g)  == g.target - g.value

(* Mutant: the braking distance is taken for half of what it is.           *)
CruiseLate(g) ==
    CHOOSE v \in 0 .. g.rate :
        /\ v * v <= 4 * g.accel * Abs(ToGo(g))
        /\ v = g.rate \/ (v + 1) * (v + 1) > 4 * g.accel * Abs(ToGo(g))

(* The largest speed up to the rate from which the signal can still stop.  *)
Cruise(g) ==
    CHOOSE v \in 0 .. g.rate :
        /\ v * v <= 2 * g.accel * Abs(ToGo(g))
        /\ v = g.rate \/ (v + 1) * (v + 1) > 2 * g.accel * Abs(ToGo(g))

Clamp(x, lo, hi) == IF x < lo THEN lo ELSE IF x > hi THEN hi ELSE x

Accelerated(g) == Clamp(Dir(g) * Cruise(g), g.vel - g.accel, g.vel + g.accel)

(* It reached or passed the target, seen from where it started.            *)
Passed(g, value) == (g.target - value) * Dir(g) <= 0

(* No rate: an edge.                                                       *)
Step(g) == [g EXCEPT !.value = g.target, !.vel = 0]

(* approach(): it never passes the target.                                 *)
Linear(g) == LET v    == IF g.target > g.value THEN g.rate ELSE -g.rate
                 next == g.value + v
             IN  [g EXCEPT !.value = IF (g.target - next) * v <= 0 THEN g.target ELSE next,
                           !.vel = v]

Trapezoid(g) == LET next == g.value + Accelerated(g)
                IN  [g EXCEPT !.value = IF Passed(g, next) THEN g.target ELSE next,
                              !.vel = Accelerated(g)]

Moved(g) == CASE g.rate <= 0                -> Step(g)
              [] g.rate > 0 /\ g.accel > 0  -> Trapezoid(g)
              [] g.rate > 0 /\ g.accel <= 0 -> Linear(g)

(* Mutant: a ramp ends when it passes its target, still moving.            *)
ReachedMoving(g) == Moved(g).value = g.target

(* A trapezoid holds at its target until it has stopped.                   *)
Reached(g) == /\ Moved(g).value = g.target
              /\ g.rate > 0 /\ g.accel > 0 => Moved(g).vel = 0

Ramp(g) == LET m == Moved(g)
           IN  CASE Reached(g) /\ (g.toPeak \/ g.continuous) ->
                        [m EXCEPT !.state = "dwell", !.elapsed = 0]
                 [] Reached(g) /\ ~g.toPeak /\ ~g.continuous -> [m EXCEPT !.state = "idle"]
                 [] OTHER -> m

-----------------------------------------------------------------------------
(* A dwell: at a peak, or the pause at zero between two pulses *)

Hold(g) == IF g.target # 0 THEN g.dwell ELSE g.pause

(* Mutant: the next pulse has the sign of the last.                        *)
FlippedSame(g) == [g EXCEPT !.target = g.peak, !.toPeak = TRUE, !.state = "ramp"]

Flipped(g) == [g EXCEPT !.peak = -g.peak, !.target = -g.peak,
                        !.toPeak = TRUE, !.state = "ramp"]

Returning(g) == [g EXCEPT !.target = 0, !.toPeak = FALSE, !.state = "ramp"]

Dwell(g) == LET held == [g EXCEPT !.value = g.target, !.vel = 0, !.elapsed = g.elapsed + 1]
            IN  CASE held.elapsed < Hold(g)                   -> held
                  [] held.elapsed >= Hold(g) /\ g.target # 0  -> Returning(held)
                  [] held.elapsed >= Hold(g) /\ g.target = 0  -> Flipped(held)

Updated(g) == CASE g.state = "ramp"  -> Ramp(g)
                [] g.state = "dwell" -> Dwell(g)
                [] g.state = "idle"  -> [g EXCEPT !.value = 0, !.vel = 0]

-----------------------------------------------------------------------------
(* The medium tick *)

(* The host, the mode manager and the fast loop.                           *)
Rearm == armed' = ~armed /\ UNCHANGED <<gen, fire>>

(* The slow loop passes a trigger on.                                      *)
Trigger == fire' = TRUE /\ UNCHANGED <<gen, armed>>

(* The parameters are read when the trigger is taken.                      *)
Fire == /\ armed /\ fire
        /\ \E s \in Signals : gen' = Updated(Start(s))

Run == /\ armed /\ ~fire
       /\ gen' = Updated(gen)

(* The generator is stopped again at every tick and a trigger is dropped.  *)
Disarmed == /\ ~armed
            /\ gen' = Updated(IF Active(gen) THEN Stop(gen) ELSE gen)

Overlay == /\ Fire \/ Run \/ Disarmed
           /\ fire' = FALSE /\ UNCHANGED armed

Next == Rearm \/ Trigger \/ Overlay

(* The medium tick is a timer interrupt: it always comes.                  *)
Spec == Init /\ [][Next]_vars /\ WF_vars(Overlay)

-----------------------------------------------------------------------------
(* Properties *)

(* Type invariant of the module.                                           *)
TypeOK ==
    /\ gen \in Generators
    /\ gen.target \in {0, gen.peak}
    /\ armed \in BOOLEAN /\ fire \in BOOLEAN

(* Wherever a ramp is stopped, the signal leaves the range between zero    *)
(* and its peak by less than one tick of travel at the cruise speed.       *)
NearItsBand ==
    LET slack == IF gen.accel > 0 /\ gen.rate > 0 THEN gen.rate - 1 ELSE 0
    IN  /\ \E end \in {0, gen.peak} : gen.value <= end + slack
        /\ \E end \in {0, gen.peak} : gen.value >= end - slack

(* The feed-forward velocity of a limited signal changes by no more than   *)
(* the limit in a tick, dwells, flips and ends included (ADR-032), unless  *)
(* it is fired again or stopped just as it passes zero.                    *)
AccelLimited ==
    [][(armed /\ fire) \/ (~armed /\ gen.value = 0) \/ gen.accel = 0
         \/ Abs(gen'.vel - gen.vel) <= gen.accel]_vars

(* A disarmed generator comes to rest at zero, however it was moving.      *)
StopEnds == <>[]~armed => <>[](gen.state = "idle" /\ gen.value = 0)

(* A train left alone keeps reaching both its peaks.                       *)
TrainAlternates ==
    <>[](armed /\ ~fire /\ Active(gen) /\ gen.continuous)
        => /\ []<>(gen.value = gen.peak /\ gen.peak >= 0)
           /\ []<>(gen.value = gen.peak /\ gen.peak <= 0)
==============================================================================
