-------------------------- MODULE SignalGen_proofs --------------------------
(***************************************************************************)
(* Proofs about SignalGen, for any set of test parameters.                 *)
(*                                                                         *)
(* A ramp changes its velocity by at most the limit; a dwell, an end and   *)
(* an edge drop the velocity altogether.  The acceleration is limited all  *)
(* the same because a limited signal that is not ramping, or that has no   *)
(* rate, has no velocity left (Rested): a trapezoid is not done before.    *)
(*                                                                         *)
(* That the signal overruns its band by less than one tick of travel is a  *)
(* matter of squares.  At the position x with velocity w, braking by a a   *)
(* tick, the signal comes to rest at x + w (w - a) / 2a; Excess is 2a times *)
(* how far that is past the band.  A tick of braking does not change it    *)
(* (Braking), and a tick at no more than the braking speed makes it at     *)
(* most a times the velocity (Approaching).  So it never exceeds a times   *)
(* the rate, which keeps the signal itself nearer than the rate (Overrun), *)
(* also where a stop or a landing turns a moving ramp around.              *)
(*                                                                         *)
(* What the two liveness properties rest on is proved of the ticks         *)
(* themselves: every tick of a ramp that is not done brings it nearer in a *)
(* well-founded order (Nearer), so that no sequence of ticks is a ramp for *)
(* ever, a stopped signal comes to rest, and a train goes from peak to     *)
(* peak.  That the ticks go on coming is the fairness of Overlay.          *)
(***************************************************************************)
EXTENDS SignalGen, WellFoundedInduction, NaturalsInduction, TLAPS

Rested(g) == g.accel > 0 /\ (g.state # "ramp" \/ g.rate = 0) => g.vel = 0

Sound(g) == g \in Generators /\ g.target \in {0, g.peak} /\ Rested(g)

(* 2a times how far past hi a signal at x comes to rest.                   *)
Excess(x, w, hi, a) == 2 * a * (x - hi) + w * w - a * w

Braked(x, w, hi, a, r) == /\ x <= hi + r - 1 /\ w <= r
                          /\ w > 0 => Excess(x, w, hi, a) <= a * r

Above(g) == AtLeastZero(g.peak)      \* how far the band goes up from zero
Below(g) == AtLeastZero(-g.peak)     \* and down

Limited(g) == g.accel > 0 /\ g.rate > 0

Banded(g) ==
    /\ Limited(g) => /\ Braked(g.value, g.vel, Above(g), g.accel, g.rate)
                     /\ Braked(-g.value, -g.vel, Below(g), g.accel, g.rate)
    /\ ~Limited(g) => g.value <= Above(g) /\ -g.value <= Below(g)

IInv == Sound(gen) /\ armed \in BOOLEAN /\ fire \in BOOLEAN

(* What one update may do to the velocity of a limited signal.             *)
Smooth(g, h) == h.accel = g.accel /\ (g.accel > 0 => Abs(h.vel - g.vel) <= g.accel)
-----------------------------------------------------------------------------
(* A set of natural numbers has a least one.                               *)
LEMMA LeastNat ==
    ASSUME NEW T, T \subseteq Nat, T # {}
    PROVE  \E k \in T : \A j \in T : k <= j
  <1>1. PICK k \in T : \A j \in T : <<j, k>> \notin OpToRel(<, Nat)
    BY WFMin, NatLessThanWellFounded, Zenon
  <1>2. \A j \in T : ~(j < k)
    BY <1>1, Zenon DEF OpToRel
  <1> QED
    BY <1>2

(* There is a largest speed whose square is within a bound.                *)
LEMMA IntegerRoot ==
    ASSUME NEW r \in Nat, NEW c \in Nat
    PROVE  \E v \in 0 .. r : v * v <= c /\ (v = r \/ (v + 1) * (v + 1) > c)
  <1> DEFINE T == {k \in Nat : k <= r /\ (r - k) * (r - k) <= c}
  <1>1. r \in T
    OBVIOUS
  <1>2. PICK k \in T : \A j \in T : k <= j
    <2>1. T \subseteq Nat /\ T # {}
      BY <1>1
    <2> HIDE DEF T
    <2> QED
      BY <2>1, LeastNat
  <1>3. \A j \in T : ~ (j < k)
    BY <1>2
  <1>4. CASE k = 0
    BY <1>4
  <1>5. CASE k # 0
    <2>1. k - 1 \in Nat /\ k - 1 <= r /\ k - 1 < k
      BY <1>5
    <2>2. k - 1 \notin T
      BY <1>3, <2>1
    <2>3. ~((r - (k - 1)) * (r - (k - 1)) <= c)
      BY <2>1, <2>2
    <2>4. r - (k - 1) = (r - k) + 1
      OBVIOUS
    <2>5. ~(((r - k) + 1) * ((r - k) + 1) <= c)
      BY <2>3, <2>4
    <2>6. r - k \in 0 .. r
      OBVIOUS
    <2> DEFINE v == r - k
    <2>7. v \in 0 .. r /\ v * v <= c /\ ~((v + 1) * (v + 1) <= c)
      BY <2>5, <2>6
    <2>8. (v + 1) * (v + 1) \in Int
      BY <2>6
    <2> HIDE DEF v
    <2> QED
      BY <2>7, <2>8
  <1> QED
    BY <1>4, <1>5

(* The braking speed exists and never exceeds the rate.                    *)
LEMMA CruiseBounded ==
    ASSUME NEW g \in Generators
    PROVE  /\ Cruise(g) \in 0 .. g.rate
           /\ Cruise(g) * Cruise(g) <= 2 * g.accel * Abs(ToGo(g))
  <1> DEFINE c == 2 * g.accel * Abs(ToGo(g))
  <1>1. g.rate \in Nat /\ g.accel \in Nat /\ g.target \in Int /\ g.value \in Int
    BY DEF Generators
  <1>2. Abs(ToGo(g)) \in Nat
    BY <1>1 DEF Abs, ToGo
  <1>3. c \in Nat
    BY <1>1, <1>2
  <1>4. \E v \in 0 .. g.rate : v * v <= c /\ (v = g.rate \/ (v + 1) * (v + 1) > c)
    BY <1>1, <1>3, IntegerRoot
  <1> QED
    BY <1>4, Zenon DEF Cruise

(* The velocity of a limited ramp.                                         *)
LEMMA AcceleratedWithin ==
    ASSUME NEW g \in Generators
    PROVE  Accelerated(g) \in Int /\ Abs(Accelerated(g) - g.vel) <= g.accel
  <1>1. g.rate \in Nat /\ g.accel \in Nat /\ g.vel \in Int
    BY DEF Generators
  <1>2. Cruise(g) \in Int
    BY <1>1, CruiseBounded
  <1>3. Dir(g) * Cruise(g) \in Int
    BY <1>2 DEF Dir
  <1> QED
    BY <1>1, <1>3 DEF Accelerated, Clamp, Abs

(* One tick of a ramp writes the value and the velocity.                   *)
Ramps(g, h) == /\ h.value \in Int /\ h.vel \in Int
               /\ h = [g EXCEPT !.value = h.value, !.vel = h.vel]
               /\ g.accel > 0 => Abs(h.vel - g.vel) <= g.accel
               /\ g.rate = 0 => h.vel = 0

-----------------------------------------------------------------------------
(* What the compound updates of a generator are made of keeps its type.    *)
LEMMA StateTyped ==
    ASSUME NEW g \in Generators, NEW s \in {"idle", "ramp", "dwell"}
    PROVE  [g EXCEPT !.state = s] \in Generators
  BY DEF Generators

LEMMA StopTyped == ASSUME NEW g \in Generators PROVE Stop(g) \in Generators
  <1> DEFINE a == [g EXCEPT !.continuous = FALSE]
             b == [a EXCEPT !.target = 0]
             c == [b EXCEPT !.toPeak = FALSE]
  <1>1. Stop(g) = [c EXCEPT !.state = IF g.value = 0 THEN "idle" ELSE "ramp"]
    BY DEF Stop
  <1>2. a \in Generators
    BY DEF Generators
  <1> HIDE DEF a
  <1>3. b \in Generators
    BY <1>2 DEF Generators
  <1> HIDE DEF b
  <1>4. c \in Generators
    BY <1>3 DEF Generators
  <1> HIDE DEF c
  <1> QED
    BY <1>1, <1>4, StateTyped

LEMMA ReturningTyped == ASSUME NEW g \in Generators PROVE Returning(g) \in Generators
  <1> DEFINE a == [g EXCEPT !.target = 0]
             b == [a EXCEPT !.toPeak = FALSE]
  <1>1. Returning(g) = [b EXCEPT !.state = "ramp"]
    BY DEF Returning
  <1>2. a \in Generators
    BY DEF Generators
  <1> HIDE DEF a
  <1>3. b \in Generators
    BY <1>2 DEF Generators
  <1> HIDE DEF b
  <1> QED
    BY <1>1, <1>3, StateTyped

LEMMA FlippedTyped == ASSUME NEW g \in Generators PROVE Flipped(g) \in Generators
  <1> DEFINE p == -g.peak
             a == [g EXCEPT !.peak = p]
             b == [a EXCEPT !.target = p]
             c == [b EXCEPT !.toPeak = TRUE]
  <1>1. Flipped(g) = [c EXCEPT !.state = "ramp"]
    BY DEF Flipped
  <1>2. p \in Int
    BY DEF Generators
  <1> HIDE DEF p
  <1>3. a \in Generators
    BY <1>2 DEF Generators
  <1> HIDE DEF a
  <1>4. b \in Generators
    BY <1>2, <1>3 DEF Generators
  <1> HIDE DEF b
  <1>5. c \in Generators
    BY <1>4 DEF Generators
  <1> HIDE DEF c
  <1> QED
    BY <1>1, <1>5, StateTyped

LEMMA HeldTyped ==
    ASSUME NEW g \in Generators, NEW x \in Int, NEW n \in Nat
    PROVE  [g EXCEPT !.value = x, !.vel = 0, !.elapsed = n] \in Generators
  <1> DEFINE a == [g EXCEPT !.value = x]
             b == [a EXCEPT !.vel = 0]
  <1>1. a \in Generators
    BY DEF Generators
  <1> HIDE DEF a
  <1>2. b \in Generators
    BY <1>1 DEF Generators
  <1> HIDE DEF b
  <1>3. [b EXCEPT !.elapsed = n] \in Generators
    BY <1>2 DEF Generators
  <1> QED
    BY <1>3 DEF a, b

LEMMA ZeroTyped ==
    ASSUME NEW g \in Generators
    PROVE  [g EXCEPT !.value = 0, !.vel = 0] \in Generators
  <1> DEFINE a == [g EXCEPT !.value = 0]
  <1>1. a \in Generators
    BY DEF Generators
  <1> HIDE DEF a
  <1>2. [a EXCEPT !.vel = 0] \in Generators
    BY <1>1 DEF Generators
  <1> QED
    BY <1>2 DEF a

LEMMA MovedTyped ==
    ASSUME NEW g \in Generators, NEW h, Ramps(g, h)
    PROVE  h \in Generators
  <1> DEFINE a == [g EXCEPT !.value = h.value]
  <1>1. a \in Generators
    BY DEF Ramps, Generators
  <1>2. h = [a EXCEPT !.vel = h.vel]
    BY DEF Ramps
  <1> HIDE DEF a
  <1>3. h.vel \in Int
    BY DEF Ramps
  <1> DEFINE w == h.vel
  <1> HIDE DEF w
  <1>4. [a EXCEPT !.vel = w] \in Generators
    BY <1>1, <1>3 DEF Generators, w
  <1> QED
    BY <1>2, <1>4 DEF w

LEMMA EndedTyped ==
    ASSUME NEW g \in Generators
    PROVE  [g EXCEPT !.state = "dwell", !.elapsed = 0] \in Generators
  <1> DEFINE a == [g EXCEPT !.state = "dwell"]
  <1>1. a \in Generators
    BY StateTyped
  <1> HIDE DEF a
  <1>2. [a EXCEPT !.elapsed = 0] \in Generators
    BY <1>1 DEF Generators
  <1> QED
    BY <1>2 DEF a
-----------------------------------------------------------------------------
LEMMA RampsOf ==
    ASSUME NEW g \in Generators, NEW x \in Int, NEW w \in Int,
           g.accel > 0 => Abs(w - g.vel) <= g.accel,
           g.rate = 0 => w = 0
    PROVE  Ramps(g, [g EXCEPT !.value = x, !.vel = w])
  <1> DEFINE h == [g EXCEPT !.value = x, !.vel = w]
  <1>1. h.value = x /\ h.vel = w
    BY DEF Generators
  <1>2. h = [g EXCEPT !.value = h.value, !.vel = h.vel]
    BY <1>1
  <1> HIDE DEF h
  <1>3. Ramps(g, h)
    BY <1>1, <1>2 DEF Ramps
  <1> QED
    BY <1>3 DEF h

LEMMA MovedSound == ASSUME NEW g \in Generators, Rested(g) PROVE Ramps(g, Moved(g))
  <1>1. /\ g.rate \in Nat /\ g.accel \in Nat /\ g.vel \in Int
        /\ g.target \in Int /\ g.value \in Int
    BY DEF Generators
  <1>2. CASE g.rate = 0
    <2>1. Moved(g) = [g EXCEPT !.value = g.target, !.vel = 0]
      BY <1>2 DEF Moved, Step
    <2>2. g.accel > 0 => Abs(0 - g.vel) <= g.accel
      BY <1>1, <1>2 DEF Rested, Abs
    <2> DEFINE x == g.target
               w == 0
    <2>3. x \in Int /\ w \in Int /\ (g.accel > 0 => Abs(w - g.vel) <= g.accel) /\ w = 0
      BY <1>1, <2>2
    <2>4. Moved(g) = [g EXCEPT !.value = x, !.vel = w]
      BY <2>1
    <2> HIDE DEF x, w
    <2> QED
      BY <2>3, <2>4, RampsOf
  <1>3. CASE g.rate > 0 /\ g.accel > 0
    <2> DEFINE w == Accelerated(g)
               x == IF Passed(g, g.value + w) THEN g.target ELSE g.value + w
    <2>1. w \in Int /\ Abs(w - g.vel) <= g.accel
      BY AcceleratedWithin
    <2>2. Moved(g) = [g EXCEPT !.value = x, !.vel = w]
      BY <1>1, <1>3 DEF Moved, Trapezoid
    <2>3. x \in Int
      BY <1>1, <2>1
    <2>4. g.rate # 0
      BY <1>3
    <2> HIDE DEF w, x
    <2> QED
      BY <2>1, <2>2, <2>3, <2>4, RampsOf
  <1>4. CASE g.rate > 0 /\ g.accel = 0
    <2> DEFINE w == IF g.target > g.value THEN g.rate ELSE -g.rate
               x == IF (g.target - (g.value + w)) * w <= 0 THEN g.target ELSE g.value + w
    <2>1. w \in Int
      BY <1>1
    <2>2. Moved(g) = [g EXCEPT !.value = x, !.vel = w]
      BY <1>1, <1>4 DEF Moved, Linear
    <2>3. x \in Int
      BY <1>1, <2>1
    <2>4. g.rate # 0 /\ ~(g.accel > 0)
      BY <1>4
    <2> HIDE DEF w, x
    <2> QED
      BY <2>1, <2>2, <2>3, <2>4, RampsOf
  <1> QED
    BY <1>1, <1>2, <1>3, <1>4

LEMMA RampSound ==
    ASSUME NEW g, Sound(g), g.state = "ramp"
    PROVE  Sound(Ramp(g)) /\ Smooth(g, Ramp(g))
  <1> DEFINE m == Moved(g)
  <1>1. g \in Generators /\ Rested(g) /\ g.target \in {0, g.peak}
    BY DEF Sound
  <1>2. Ramps(g, m)
    BY <1>1, MovedSound
  <1>3. /\ m \in Generators /\ m.target \in {0, m.peak} /\ m.accel = g.accel
        /\ m.rate = g.rate /\ m.state = "ramp" /\ m.value \in Int /\ m.vel \in Int
        /\ g.accel > 0 => Abs(m.vel - g.vel) <= g.accel
        /\ g.rate = 0 => m.vel = 0
    <2> HIDE DEF m
    <2> QED
      BY <1>1, <1>2 DEF Ramps, Generators
  <1>4. g.rate \in Nat /\ g.accel \in Nat
    BY <1>1 DEF Generators
  <1>5. CASE Reached(g)
    <2>1. g.accel > 0 => m.vel = 0
      BY <1>3, <1>4, <1>5 DEF Reached
    <2>2. Ramp(g) \in {[m EXCEPT !.state = "dwell", !.elapsed = 0], [m EXCEPT !.state = "idle"]}
      <3>1. g.toPeak \in BOOLEAN /\ g.continuous \in BOOLEAN
        BY <1>1 DEF Generators
      <3> QED
        BY <1>5, <3>1 DEF Ramp
    <2> HIDE DEF m
    <2>3. \A h \in {[m EXCEPT !.state = "dwell", !.elapsed = 0], [m EXCEPT !.state = "idle"]} :
              h.target = m.target /\ h.peak = m.peak /\ h.accel = m.accel /\ h.vel = m.vel
      BY <1>3 DEF Generators
    <2>4. Ramp(g) \in Generators
      BY <1>3, <2>2, EndedTyped, StateTyped
    <2> QED
      BY <1>3, <2>1, <2>2, <2>3, <2>4 DEF Sound, Rested, Smooth
  <1>6. CASE ~Reached(g)
    <2>1. Ramp(g) = m
      BY <1>6 DEF Ramp
    <2> HIDE DEF m
    <2> QED
      BY <1>3, <2>1 DEF Sound, Rested, Smooth
  <1> QED
    BY <1>5, <1>6

LEMMA DwellSound ==
    ASSUME NEW g, Sound(g), g.state = "dwell"
    PROVE  Sound(Dwell(g)) /\ Smooth(g, Dwell(g))
  <1> DEFINE held == [g EXCEPT !.value = g.target, !.vel = 0, !.elapsed = g.elapsed + 1]
  <1>1. /\ g \in Generators /\ g.target \in {0, g.peak} /\ g.accel \in Nat /\ g.vel \in Int
        /\ g.accel > 0 => g.vel = 0
    BY DEF Sound, Rested, Generators
  <1>2. /\ held \in Generators /\ held.target = g.target /\ held.peak = g.peak
        /\ held.accel = g.accel /\ held.vel = 0 /\ held.elapsed \in Int
    <2>1. g.target \in Int /\ g.elapsed + 1 \in Nat
      BY <1>1 DEF Generators
    <2>2. held \in Generators
      BY <1>1, <2>1, HeldTyped
    <2>3. /\ held.target = g.target /\ held.peak = g.peak /\ held.accel = g.accel
          /\ held.vel = 0 /\ held.elapsed = g.elapsed + 1
      BY <1>1 DEF Generators
    <2> HIDE DEF held
    <2> QED
      BY <2>1, <2>2, <2>3
  <1>3. Hold(g) \in Int
    BY <1>1 DEF Hold, Generators
  <1>4. Dwell(g) \in {held, Returning(held), Flipped(held)}
    BY <1>2, <1>3 DEF Dwell
  <1>5. g.accel > 0 => Abs(0 - g.vel) <= g.accel
    BY <1>1 DEF Abs
  <1> HIDE DEF held
  <1>6. Sound(held) /\ Smooth(g, held)
    BY <1>1, <1>2, <1>5 DEF Sound, Rested, Smooth
  <1>7. Sound(Returning(held)) /\ Smooth(g, Returning(held))
    <2>1. /\ Returning(held).target = 0 /\ Returning(held).accel = held.accel
          /\ Returning(held).vel = held.vel
      BY <1>2 DEF Returning, Generators
    <2> QED
      BY <1>1, <1>2, <1>5, <2>1, ReturningTyped DEF Sound, Rested, Smooth
  <1>8. Sound(Flipped(held)) /\ Smooth(g, Flipped(held))
    <2>1. /\ Flipped(held).target = Flipped(held).peak
          /\ Flipped(held).accel = held.accel /\ Flipped(held).vel = held.vel
      BY <1>2 DEF Flipped, Generators
    <2> QED
      BY <1>1, <1>2, <1>5, <2>1, FlippedTyped DEF Sound, Rested, Smooth
  <1> QED
    BY <1>4, <1>6, <1>7, <1>8

LEMMA UpdatedSound ==
    ASSUME NEW g, Sound(g)
    PROVE  Sound(Updated(g)) /\ Smooth(g, Updated(g))
  <1>1. g \in Generators /\ g.state \in {"idle", "ramp", "dwell"} /\ g.accel \in Nat
    BY DEF Sound, Generators
  <1>2. CASE g.state = "ramp"
    BY <1>2, RampSound DEF Updated
  <1>3. CASE g.state = "dwell"
    BY <1>3, DwellSound DEF Updated
  <1>4. CASE g.state = "idle"
    <2>1. Updated(g) = [g EXCEPT !.value = 0, !.vel = 0]
      BY <1>4 DEF Updated
    <2>2. g.accel > 0 => g.vel = 0
      BY <1>4 DEF Sound, Rested
    <2>3. g.accel > 0 => Abs(0 - g.vel) <= g.accel
      BY <1>1, <2>2 DEF Abs
    <2>4. /\ Updated(g) \in Generators /\ Updated(g).vel = 0 /\ Updated(g).accel = g.accel
          /\ Updated(g).target = g.target /\ Updated(g).peak = g.peak
      <3>1. Updated(g) \in Generators
        BY <1>1, <2>1, ZeroTyped
      <3> QED
        BY <1>1, <2>1, <3>1 DEF Generators
    <2> QED
      BY <2>3, <2>4 DEF Sound, Rested, Smooth
  <1> QED
    BY <1>1, <1>2, <1>3, <1>4

LEMMA StartSound == ASSUME NEW s \in Signals PROVE Sound(Start(s))
  <1>1. s \in [amplitude : Int, rate : Int, dwell : Int, pause : Int,
               accel : Int, continuous : BOOLEAN]
    BY SignalsAssumption
  <1>2. \A x \in Int : AtLeastZero(x) \in Nat
    BY DEF AtLeastZero
  <1>3. Start(s) \in Generators
    BY <1>1, <1>2 DEF Start, Generators
  <1> QED
    BY <1>3 DEF Start, Sound, Rested

(* Stopping keeps the velocity, except that of a signal at zero.           *)
LEMMA StopSound ==
    ASSUME NEW g, Sound(g), Active(g), g.value # 0
    PROVE  Sound(Stop(g)) /\ Stop(g).vel = g.vel /\ Stop(g).accel = g.accel
  <1>1. g \in Generators
    BY DEF Sound
  <1>2. Stop(g) \in Generators
    BY <1>1, StopTyped
  <1>3. Stop(g).target = 0 /\ Stop(g).vel = g.vel /\ Stop(g).accel = g.accel
        /\ Stop(g).rate = g.rate /\ Stop(g).state = "ramp"
    BY <1>1 DEF Stop, Generators
  <1> QED
    BY <1>2, <1>3 DEF Sound, Rested

(* A signal stopped at zero is idle, and rests after the update.           *)
LEMMA StopAtZero ==
    ASSUME NEW g, Sound(g), g.value = 0
    PROVE  Sound(Updated(Stop(g)))
  <1>1. Stop(g) \in Generators
    BY StopTyped DEF Sound
  <1>2. Stop(g).state = "idle" /\ Stop(g).target = 0
    BY DEF Sound, Stop, Generators
  <1> DEFINE h == Stop(g)
  <1> HIDE DEF h
  <1>3. h \in Generators /\ h.state = "idle" /\ h.target = 0
    BY <1>1, <1>2 DEF h
  <1>4. Updated(h) = [h EXCEPT !.value = 0, !.vel = 0]
    BY <1>3 DEF Updated
  <1>5. Updated(h) \in Generators
    BY <1>3, <1>4, ZeroTyped
  <1>6. Updated(h).vel = 0 /\ Updated(h).target = 0
    BY <1>3, <1>4 DEF Generators
  <1>7. Sound(Updated(h))
    BY <1>5, <1>6 DEF Sound, Rested
  <1> QED
    BY <1>7 DEF h
-----------------------------------------------------------------------------
(* A tick of braking leaves the signal to come to rest where it would.     *)
LEMMA Braking ==
    ASSUME NEW x \in Int, NEW w \in Int, NEW y \in Int, NEW hi \in Int, NEW a \in Int, a > 0,
           y <= x + (w - a)
    PROVE  Excess(y, w - a, hi, a) <= Excess(x, w, hi, a)
  <1>1. 2 * a * (y - hi) <= 2 * a * (x + (w - a) - hi)
    <2>1. \A m, n \in Int, k \in Nat : m <= n => k * m <= k * n
      OBVIOUS
    <2>2. 2 * a \in Nat /\ y - hi \in Int /\ x + (w - a) - hi \in Int /\ y - hi <= x + (w - a) - hi
      OBVIOUS
    <2> QED
      BY <2>1, <2>2
  <1>2. 2 * a * (x + (w - a) - hi) + (w - a) * (w - a) - a * (w - a)
          = 2 * a * (x - hi) + w * w - a * w
    OBVIOUS
  <1>3. 2 * a * (y - hi) \in Int /\ 2 * a * (x + (w - a) - hi) \in Int
        /\ (w - a) * (w - a) - a * (w - a) \in Int
    OBVIOUS
  <1> QED
    BY <1>1, <1>2, <1>3 DEF Excess

(* So does a tick at a speed v from which it can still stop, but for the   *)
(* travel of the tick.                                                     *)
LEMMA Approaching ==
    ASSUME NEW x \in Int, NEW v \in Int, NEW y \in Int, NEW t \in Int, NEW hi \in Int,
           NEW a \in Int, a > 0, NEW r \in Int, v > 0, v <= r,
           t <= hi, y <= x + v, v * v <= 2 * a * (t - x)
    PROVE  Excess(y, v, hi, a) <= a * r
  <1>0. \A m, n \in Int, k \in Nat : m <= n => k * m <= k * n
    OBVIOUS
  <1>1. 2 * a * (y - hi) <= 2 * a * (x + v - t)
    <2>1. 2 * a \in Nat /\ y - hi \in Int /\ x + v - t \in Int /\ y - hi <= x + v - t
      OBVIOUS
    <2> QED
      BY <1>0, <2>1
  <1>2. 2 * a * (x + v - t) + 2 * a * (t - x) = 2 * (a * v)
    OBVIOUS
  <1>3. a * v <= a * r
    BY <1>0
  <1>4. 2 * a * (y - hi) \in Int /\ 2 * a * (x + v - t) \in Int /\ 2 * a * (t - x) \in Int
        /\ a * v \in Int /\ a * r \in Int /\ v * v \in Int
    OBVIOUS
  <1> QED
    BY <1>1, <1>2, <1>3, <1>4 DEF Excess

(* A signal whose excess is bounded is near its band.                      *)
LEMMA Overrun ==
    ASSUME NEW x \in Int, NEW w \in Int, NEW hi \in Int, NEW a \in Int, a > 0,
           NEW r \in Int, w > 0, w <= r, Excess(x, w, hi, a) <= a * r
    PROVE  x <= hi + r - 1
  <1> SUFFICES ASSUME x - hi >= r PROVE FALSE
    OBVIOUS
  <1>0. \A m, n \in Int, k \in Nat : m <= n => k * m <= k * n
    OBVIOUS
  <1>1. 2 * a * (x - hi) >= 2 * a * r
    <2>1. 2 * a \in Nat /\ x - hi \in Int
      OBVIOUS
    <2> QED
      BY <1>0, <2>1
  <1>2. a * w <= a * r
    BY <1>0
  <1>3. w * w > 0
    OBVIOUS
  <1>4. 2 * a * r = 2 * (a * r)
    OBVIOUS
  <1>5. 2 * a * (x - hi) \in Int /\ a * w \in Int /\ a * r \in Int /\ w * w \in Int
    OBVIOUS
  <1> QED
    BY <1>1, <1>2, <1>3, <1>4, <1>5 DEF Excess

(* One tick of a trapezoid, seen in the direction of hi: x and w become y  *)
(* and v, the target is t, and c is the signed cruise speed.               *)
Ticks(x, w, y, v, t, c, hi, a, r) ==
    /\ x \in Int /\ w \in Int /\ y \in Int /\ v \in Int /\ t \in Int /\ c \in Int
    /\ hi \in Int /\ a \in Int /\ a > 0 /\ r \in Int /\ r > 0 /\ t <= hi
    /\ v = Clamp(c, w - a, w + a) /\ c <= r
    /\ c > 0 => c * c <= 2 * a * (t - x)
    /\ v > 0 => y <= x + v
    /\ v <= 0 => y <= x \/ y = t

LEMMA TickBraked ==
    ASSUME NEW x, NEW w, NEW y, NEW v, NEW t, NEW c, NEW hi, NEW a, NEW r,
           Ticks(x, w, y, v, t, c, hi, a, r), Braked(x, w, hi, a, r)
    PROVE  Braked(y, v, hi, a, r)
  <1> USE DEF Ticks
  <1>1. v <= r
    BY DEF Clamp, Braked
  <1>2. CASE v <= 0
    BY <1>1, <1>2 DEF Braked
  <1>3. CASE v > 0
    <2>1. Excess(y, v, hi, a) <= a * r
      <3>1. CASE v = w - a
        <4>1. w > 0 /\ Excess(x, w, hi, a) <= a * r
          BY <1>3, <3>1 DEF Braked
        <4>2. Excess(y, w - a, hi, a) <= Excess(x, w, hi, a)
          BY <1>3, <3>1, Braking
        <4>3. Excess(y, w - a, hi, a) \in Int /\ Excess(x, w, hi, a) \in Int /\ a * r \in Int
          BY DEF Excess
        <4> QED
          BY <3>1, <4>1, <4>2, <4>3
      <3>2. CASE v <= c
        <4>1. v * v <= c * c
          <5>1. \A m, n \in Nat : m <= n => m * m <= n * n
            OBVIOUS
          <5> QED
            BY <1>3, <3>2, <5>1
        <4>2. v * v <= 2 * a * (t - x)
          <5>1. c * c <= 2 * a * (t - x)
            BY <1>3, <3>2
          <5>2. v * v \in Int /\ c * c \in Int /\ 2 * a * (t - x) \in Int
            OBVIOUS
          <5> QED
            BY <4>1, <5>1, <5>2
        <4> QED
          BY <1>1, <1>3, <4>2, Approaching
      <3> QED
        BY <3>1, <3>2 DEF Clamp
    <2>2. y <= hi + r - 1
      BY <1>1, <1>3, <2>1, Overrun
    <2> QED
      BY <1>1, <2>1, <2>2 DEF Braked
  <1> QED
    BY <1>2, <1>3

(* Only five fields matter to the band.                                    *)
LEMMA SameBand ==
    ASSUME NEW g, NEW h, Banded(g), h.accel = g.accel, h.rate = g.rate,
           h.peak = g.peak, h.value = g.value, h.vel = g.vel
    PROVE  Banded(h)
  BY DEF Banded, Limited, Above, Below

(* A signal at rest at an end of its band.                                 *)
LEMMA RestBanded ==
    ASSUME NEW g \in Generators, g.vel = 0, g.value \in {0, g.peak}
    PROVE  Banded(g)
  BY DEF Banded, Limited, Braked, Above, Below, AtLeastZero, Generators

LEMMA MovedBanded ==
    ASSUME NEW g \in Generators, g.target \in {0, g.peak}, Banded(g)
    PROVE  Banded(Moved(g))
  <1>1. /\ g.rate \in Nat /\ g.accel \in Nat /\ g.vel \in Int
        /\ g.target \in Int /\ g.value \in Int /\ g.peak \in Int
    BY DEF Generators
  <1>2. /\ Above(g) \in Int /\ Below(g) \in Int
        /\ g.target <= Above(g) /\ -g.target <= Below(g)
    BY <1>1 DEF Above, Below, AtLeastZero
  <1> DEFINE m == Moved(g)
  <1>3. /\ m.rate = g.rate /\ m.accel = g.accel /\ m.peak = g.peak
    BY <1>1 DEF Moved, Step, Trapezoid, Linear, Generators
  <1>4. CASE Limited(g)
    <2> DEFINE c == Dir(g) * Cruise(g)
               v == Accelerated(g)
               y == IF Passed(g, g.value + v) THEN g.target ELSE g.value + v
    <2>1. m.value = y /\ m.vel = v
      BY <1>1, <1>4 DEF Moved, Trapezoid, Limited, Generators
    <2>2. /\ v \in Int /\ c \in Int /\ Cruise(g) \in 0 .. g.rate
          /\ Cruise(g) * Cruise(g) <= 2 * g.accel * Abs(ToGo(g))
      BY <1>1, AcceleratedWithin, CruiseBounded DEF Dir
    <2>3. y \in Int
      BY <1>1, <2>2
    <2>4. /\ v = Clamp(c, g.vel - g.accel, g.vel + g.accel)
          /\ -v = Clamp(-c, -g.vel - g.accel, -g.vel + g.accel)
      BY <1>1, <2>2 DEF Accelerated, Clamp
    <2>5. c <= g.rate /\ -c <= g.rate
      BY <1>1, <2>2 DEF Dir
    <2>6. c > 0 => c * c <= 2 * g.accel * (g.target - g.value)
      BY <1>1, <2>2 DEF Dir, Abs, ToGo
    <2>7. -c > 0 => (-c) * (-c) <= 2 * g.accel * (-g.target - (-g.value))
      <3> SUFFICES ASSUME -c > 0 PROVE (-c) * (-c) <= 2 * g.accel * (-g.target - (-g.value))
        OBVIOUS
      <3>1. Dir(g) = -1 /\ -c = Cruise(g)
        BY <1>1, <2>2 DEF Dir
      <3>2. Abs(ToGo(g)) = -g.target - (-g.value)
        BY <1>1, <3>1 DEF Dir, Abs, ToGo
      <3> QED
        BY <2>2, <3>1, <3>2
    <2>8. /\ v > 0 => y <= g.value + v
          /\ v <= 0 => y <= g.value \/ y = g.target
          /\ -v > 0 => -y <= -g.value + -v
          /\ -v <= 0 => -y <= -g.value \/ -y = -g.target
      BY <1>1, <2>2 DEF Passed, Dir
    <2>9. g.accel \in Int /\ g.accel > 0 /\ g.rate \in Int /\ g.rate > 0
      BY <1>1, <1>4 DEF Limited
    <2> HIDE DEF c, v, y, m
    <2>10. Braked(y, v, Above(g), g.accel, g.rate)
      <3>1. Ticks(g.value, g.vel, y, v, g.target, c, Above(g), g.accel, g.rate)
        BY <1>1, <1>2, <2>2, <2>3, <2>4, <2>5, <2>6, <2>8, <2>9 DEF Ticks
      <3>2. Braked(g.value, g.vel, Above(g), g.accel, g.rate)
        BY <1>4 DEF Banded
      <3> QED
        BY <3>1, <3>2, TickBraked, Zenon
    <2>11. Braked(-y, -v, Below(g), g.accel, g.rate)
      <3>1. Ticks(-g.value, -g.vel, -y, -v, -g.target, -c, Below(g), g.accel, g.rate)
        BY <1>1, <1>2, <2>2, <2>3, <2>4, <2>5, <2>7, <2>8, <2>9 DEF Ticks
      <3>2. Braked(-g.value, -g.vel, Below(g), g.accel, g.rate)
        BY <1>4 DEF Banded
      <3> QED
        BY <3>1, <3>2, TickBraked, Zenon
    <2> QED
      BY <1>3, <1>4, <2>1, <2>10, <2>11 DEF Banded, Limited, Above, Below, m
  <1>5. CASE ~Limited(g)
    <2>1. g.value <= Above(g) /\ -g.value <= Below(g)
      BY <1>5 DEF Banded
    <2>2. m.value <= Above(g) /\ -m.value <= Below(g)
      <3>1. CASE g.rate = 0
        <4>1. m = [g EXCEPT !.value = g.target, !.vel = 0]
          BY <1>1, <3>1 DEF Moved, Step
        <4>2. m.value = g.target
          BY <4>1 DEF Generators
        <4> QED
          BY <1>2, <4>2
      <3>2. CASE g.rate > 0 /\ g.accel = 0
        <4> DEFINE v == IF g.target > g.value THEN g.rate ELSE -g.rate
                   y == IF (g.target - (g.value + v)) * v <= 0
                        THEN g.target ELSE g.value + v
        <4>1. m.value = y
          BY <1>1, <3>2 DEF Moved, Linear, Generators
        <4>2. y <= Above(g) /\ -y <= Below(g)
          <5>1. CASE g.target > g.value
            BY <1>1, <1>2, <2>1, <3>2, <5>1
          <5>2. CASE ~(g.target > g.value)
            BY <1>1, <1>2, <2>1, <3>2, <5>2
          <5> QED
            BY <5>1, <5>2
        <4> QED
          BY <4>1, <4>2
      <3> QED
        BY <1>1, <1>5, <3>1, <3>2 DEF Limited
    <2> HIDE DEF m
    <2> QED
      BY <1>3, <1>5, <2>2 DEF Banded, Limited, Above, Below, m
  <1> QED
    BY <1>4, <1>5

LEMMA UpdatedBanded ==
    ASSUME NEW g, Sound(g), Banded(g)
    PROVE  Banded(Updated(g))
  <1>1. g \in Generators /\ g.target \in {0, g.peak} /\ g.state \in {"idle", "ramp", "dwell"}
    BY DEF Sound, Generators
  <1>2. Sound(Updated(g))
    BY UpdatedSound
  <1>3. CASE g.state = "ramp"
    <2> DEFINE m == Moved(g)
    <2>1. Banded(m)
      BY <1>1, MovedBanded
    <2>2. Updated(g) = Ramp(g)
      BY <1>3 DEF Updated
    <2>3. /\ Ramp(g).accel = m.accel /\ Ramp(g).rate = m.rate /\ Ramp(g).peak = m.peak
          /\ Ramp(g).value = m.value /\ Ramp(g).vel = m.vel
      <3>1. m \in Generators
        BY <1>1, MovedSound, MovedTyped DEF Sound, Ramps
      <3>2. Ramp(g) \in {m, [m EXCEPT !.state = "dwell", !.elapsed = 0],
                            [m EXCEPT !.state = "idle"]}
        BY DEF Ramp
      <3> HIDE DEF m
      <3> QED
        BY <3>1, <3>2 DEF Generators
    <2> HIDE DEF m
    <2> QED
      BY <2>1, <2>2, <2>3, SameBand
  <1>4. CASE g.state = "dwell"
    <2> DEFINE held == [g EXCEPT !.value = g.target, !.vel = 0, !.elapsed = g.elapsed + 1]
    <2>1. /\ held.peak = g.peak /\ held.target = g.target /\ held.value = g.target
          /\ held.vel = 0
      BY <1>1 DEF Generators
    <2>2. held \in Generators
      <3>1. g.target \in Int /\ g.elapsed + 1 \in Nat
        BY <1>1 DEF Generators
      <3> QED
        BY <1>1, <3>1, HeldTyped
    <2>3. \/ Updated(g) = held
          \/ Updated(g) = Returning(held)
          \/ (Updated(g) = Flipped(held) /\ g.target = 0)
      <3>1. Hold(g) \in Int /\ held.elapsed \in Int
        BY <1>1, <2>2 DEF Hold, Generators
      <3> QED
        BY <1>4, <3>1 DEF Updated, Dwell
    <2> HIDE DEF held
    <2>4. /\ Returning(held).peak = held.peak /\ Returning(held).value = held.value
          /\ Returning(held).vel = 0
      BY <2>1, <2>2 DEF Returning, Generators
    <2>5. Flipped(held).value = held.value /\ Flipped(held).vel = 0
      BY <2>1, <2>2 DEF Flipped, Generators
    <2>6. Updated(g).vel = 0 /\ Updated(g).value \in {0, Updated(g).peak}
      BY <1>1, <2>1, <2>3, <2>4, <2>5
    <2>7. Updated(g) \in Generators
      BY <1>2 DEF Sound
    <2> QED
      BY <2>6, <2>7, RestBanded
  <1>5. CASE g.state = "idle"
    <2>1. Updated(g) = [g EXCEPT !.value = 0, !.vel = 0]
      BY <1>5 DEF Updated
    <2>2. Updated(g).value = 0 /\ Updated(g).vel = 0
      BY <1>1, <2>1 DEF Generators
    <2>3. Updated(g) \in Generators
      BY <1>2 DEF Sound
    <2> QED
      BY <2>2, <2>3, RestBanded
  <1> QED
    BY <1>1, <1>3, <1>4, <1>5
-----------------------------------------------------------------------------
LEMMA Initially == Init => IInv
  <1>1. Init => gen \in Generators
    BY DEF Init, Generators
  <1>2. Init => gen.target = 0 /\ gen.accel = 0
    BY DEF Init
  <1>3. Init => armed \in BOOLEAN /\ fire \in BOOLEAN
    BY DEF Init
  <1> QED
    BY <1>1, <1>2, <1>3 DEF IInv, Sound, Rested

(* What one step does, with and without the cases AccelLimited excepts.    *)
LEMMA Inductive ==
    ASSUME IInv, [Next]_vars
    PROVE  IInv' /\ (\/ armed /\ fire
                     \/ ~armed /\ gen.value = 0
                     \/ Smooth(gen, gen'))
  <1>1. Sound(gen) /\ armed \in BOOLEAN /\ fire \in BOOLEAN
    BY DEF IInv
  <1>2. CASE gen' = gen /\ armed' \in BOOLEAN /\ fire' \in BOOLEAN
    <2>1. gen.vel \in Int /\ gen.accel \in Nat
      BY <1>1 DEF Sound, Generators
    <2> QED
      BY <1>1, <1>2, <2>1 DEF IInv, Smooth, Abs
  <1>3. CASE Overlay
    <2>1. armed' = armed /\ fire' = FALSE
      BY <1>3 DEF Overlay
    <2>2. CASE Fire
      <3>1. PICK s \in Signals : gen' = Updated(Start(s))
        BY <2>2 DEF Fire
      <3>2. Sound(gen')
        BY <3>1, StartSound, UpdatedSound
      <3> QED
        BY <1>1, <2>1, <2>2, <3>2 DEF IInv, Fire
    <2>3. CASE Run
      <3>1. Sound(gen') /\ Smooth(gen, gen')
        BY <1>1, <2>3, UpdatedSound DEF Run
      <3> QED
        BY <1>1, <2>1, <3>1 DEF IInv
    <2>4. CASE Disarmed /\ ~Active(gen)
      <3>1. Sound(gen') /\ Smooth(gen, gen')
        BY <1>1, <2>4, UpdatedSound DEF Disarmed
      <3> QED
        BY <1>1, <2>1, <3>1 DEF IInv
    <2>5. CASE Disarmed /\ Active(gen) /\ gen.value # 0
      <3>1. gen' = Updated(Stop(gen))
        BY <2>5 DEF Disarmed
      <3>2. Sound(Stop(gen)) /\ Stop(gen).vel = gen.vel /\ Stop(gen).accel = gen.accel
        BY <1>1, <2>5, StopSound
      <3>3. Sound(gen') /\ Smooth(Stop(gen), gen')
        BY <3>1, <3>2, UpdatedSound
      <3> QED
        BY <1>1, <2>1, <3>2, <3>3 DEF IInv, Smooth
    <2>6. CASE Disarmed /\ Active(gen) /\ gen.value = 0
      <3>1. Sound(gen')
        BY <1>1, <2>6, StopAtZero DEF Disarmed
      <3> QED
        BY <1>1, <2>1, <2>6, <3>1 DEF IInv, Disarmed
    <2> QED
      BY <1>3, <2>2, <2>3, <2>4, <2>5, <2>6 DEF Overlay
  <1> QED
    BY <1>1, <1>2, <1>3 DEF Next, Rearm, Trigger, vars

LEMMA InductiveBand ==
    ASSUME IInv, Banded(gen), [Next]_vars
    PROVE  Banded(gen)'
  <1>1. Sound(gen)
    BY DEF IInv
  <1>2. CASE gen' = gen
    BY <1>2, SameBand
  <1>3. CASE Fire
    <2>1. PICK s \in Signals : gen' = Updated(Start(s))
      BY <1>3 DEF Fire
    <2>2. Sound(Start(s))
      BY StartSound
    <2>3. Start(s).vel = 0 /\ Start(s).value = 0
      BY DEF Start
    <2>4. Banded(Start(s))
      BY <2>2, <2>3, RestBanded DEF Sound
    <2> QED
      BY <2>1, <2>2, <2>4, UpdatedBanded
  <1>4. CASE Run \/ (Disarmed /\ ~Active(gen))
    BY <1>1, <1>4, UpdatedBanded DEF Run, Disarmed
  <1>5. CASE Disarmed /\ Active(gen) /\ gen.value # 0
    <2>1. gen' = Updated(Stop(gen))
      BY <1>5 DEF Disarmed
    <2>2. Sound(Stop(gen))
      BY <1>1, <1>5, StopSound
    <2>3. /\ Stop(gen).accel = gen.accel /\ Stop(gen).rate = gen.rate
          /\ Stop(gen).peak = gen.peak /\ Stop(gen).value = gen.value
          /\ Stop(gen).vel = gen.vel
      BY <1>1 DEF Stop, Sound, Generators
    <2>4. Banded(Stop(gen))
      BY <2>3, SameBand
    <2> QED
      BY <2>1, <2>2, <2>4, UpdatedBanded
  <1>6. CASE Disarmed /\ Active(gen) /\ gen.value = 0
    <2> DEFINE h == Stop(gen)
    <2>1. h \in Generators
      BY <1>1, StopTyped DEF Sound
    <2>2. h.state = "idle"
      BY <1>1, <1>6 DEF Stop, Sound, Generators
    <2>3. gen' = Updated(h)
      BY <1>6 DEF Disarmed
    <2> HIDE DEF h
    <2>4. gen' = [h EXCEPT !.value = 0, !.vel = 0]
      BY <2>2, <2>3 DEF Updated
    <2>5. gen' \in Generators
      BY <2>1, <2>4, ZeroTyped
    <2>6. gen'.value = 0 /\ gen'.vel = 0
      BY <2>1, <2>4 DEF Generators
    <2> QED
      BY <2>5, <2>6, RestBanded
  <1>7. gen' = gen \/ Fire \/ Run \/ Disarmed
    BY DEF Next, Overlay, Rearm, Trigger, vars
  <1> QED
    BY <1>2, <1>3, <1>4, <1>5, <1>6, <1>7

LEMMA Invariant == Spec => []IInv
  <1>1. IInv /\ [Next]_vars => IInv'
    BY Inductive
  <1> QED
    BY <1>1, Initially, PTL DEF Spec

(* The generator is always in a state its type allows, and its target is   *)
(* zero or its peak.                                                       *)
THEOREM TypeCorrect == Spec => []TypeOK
  <1>1. IInv => TypeOK
    BY DEF IInv, Sound, TypeOK
  <1> QED
    BY <1>1, Invariant, PTL

(* The feed-forward velocity of a signal with an acceleration limit never  *)
(* changes by more than the limit in a tick (ADR-032), for any amplitude,  *)
(* rate and limit, through landings, dwells, flips and ends, unless the    *)
(* signal is fired again or stopped just as it passes zero.                *)
THEOREM AccelerationBounded == Spec => AccelLimited
  <1>1. IInv /\ [Next]_vars =>
            [(armed /\ fire) \/ (~armed /\ gen.value = 0) \/ gen.accel = 0
               \/ Abs(gen'.vel - gen.vel) <= gen.accel]_vars
    <2>1. IInv => gen.accel \in Nat
      BY DEF IInv, Sound, Generators
    <2> QED
      BY <2>1, Inductive DEF Smooth
  <1> QED
    BY <1>1, Invariant, PTL DEF Spec, AccelLimited

(* Wherever a signal is stopped or lands, it leaves the range between zero *)
(* and its peak by less than one tick of travel at the cruise speed, and   *)
(* one without an acceleration limit not at all.                           *)
THEOREM OverrunBounded == Spec => []NearItsBand
  <1>1. Init => Banded(gen)
    <2>1. Init => gen \in Generators /\ gen.vel = 0 /\ gen.value = 0
      BY DEF Init, Generators
    <2> QED
      BY <2>1, RestBanded
  <1>2. IInv /\ Banded(gen) /\ [Next]_vars => Banded(gen)'
    BY InductiveBand
  <1>3. IInv /\ Banded(gen) => NearItsBand
    <2> SUFFICES ASSUME IInv, Banded(gen) PROVE NearItsBand
      OBVIOUS
    <2>1. gen.peak \in Int /\ gen.value \in Int /\ gen.rate \in Nat /\ gen.accel \in Nat
      BY DEF IInv, Sound, Generators
    <2> DEFINE slack == IF gen.accel > 0 /\ gen.rate > 0 THEN gen.rate - 1 ELSE 0
    <2>2. /\ gen.value <= AtLeastZero(gen.peak) + slack
          /\ gen.value >= -AtLeastZero(-gen.peak) - slack
      BY <2>1 DEF Banded, Limited, Braked, Above, Below, AtLeastZero
    <2>3. slack \in Int
      BY <2>1
    <2> HIDE DEF slack
    <2>4. /\ \E end \in {0, gen.peak} : gen.value <= end + slack
          /\ \E end \in {0, gen.peak} : gen.value >= end - slack
      BY <2>1, <2>2, <2>3 DEF AtLeastZero
    <2> QED
      BY <2>4 DEF NearItsBand, slack
  <1> QED
    BY <1>1, <1>2, <1>3, Invariant, PTL DEF Spec
-----------------------------------------------------------------------------
(* Getting there.  A ramp that has not reached its target is nearer to it  *)
(* after a tick: it comes from above, overshoots below if it must, returns *)
(* from there and stops (Side); on one side of the target it first loses   *)
(* the velocity that takes it away (Away) and then closes in.              *)

Side(g) == CASE g.value > g.target                -> 3
             [] g.value = g.target /\ g.vel < 0   -> 2
             [] g.value < g.target                -> 1
             [] g.value = g.target /\ g.vel >= 0  -> 0

Away(g) == CASE g.value > g.target -> AtLeastZero(g.vel)
             [] g.value < g.target -> AtLeastZero(-g.vel)
             [] g.value = g.target -> Abs(g.vel)

Nearer(h, g) ==
    \/ Side(h) < Side(g)
    \/ Side(h) = Side(g) /\ Away(h) < Away(g)
    \/ Side(h) = Side(g) /\ Away(h) = Away(g) /\ Abs(ToGo(h)) < Abs(ToGo(g))

LEMMA RankTyped ==
    ASSUME NEW g \in Generators
    PROVE  Side(g) \in Nat /\ Away(g) \in Nat /\ Abs(ToGo(g)) \in Nat
  <1>1. g.value \in Int /\ g.target \in Int /\ g.vel \in Int
    BY DEF Generators
  <1>2. Side(g) \in {0, 1, 2, 3}
    BY <1>1 DEF Side
  <1>3. Away(g) \in Nat
    BY <1>1 DEF Away, AtLeastZero, Abs
  <1>4. Abs(ToGo(g)) \in Nat
    BY <1>1 DEF Abs, ToGo
  <1> QED
    BY <1>2, <1>3, <1>4

(* Away from its target a signal may move: the braking speed is not zero.  *)
LEMMA CruiseMoves ==
    ASSUME NEW g \in Generators, Limited(g)
    PROVE  /\ g.value # g.target => Cruise(g) >= 1
           /\ g.value = g.target => Cruise(g) = 0
  <1>1. /\ g.rate \in Nat /\ g.accel \in Nat /\ g.rate > 0 /\ g.accel > 0
        /\ g.target \in Int /\ g.value \in Int
    BY DEF Generators, Limited
  <1> DEFINE d == Abs(ToGo(g))
             c == 2 * g.accel * d
  <1>2. d \in Nat /\ (g.value # g.target => d >= 1) /\ (g.value = g.target => d = 0)
    BY <1>1 DEF Abs, ToGo
  <1>3. c \in Nat /\ (g.value # g.target => c >= 1) /\ (g.value = g.target => c = 0)
    <2>1. \A m, n \in Nat : m >= 1 /\ n >= 1 => m * n >= 1
      OBVIOUS
    <2>2. 2 * g.accel \in Nat /\ 2 * g.accel >= 1
      BY <1>1
    <2> HIDE DEF d
    <2>3. 2 * g.accel * d \in Nat
      BY <1>1, <1>2
    <2> QED
      BY <1>2, <2>1, <2>2, <2>3
  <1>4. /\ Cruise(g) \in 0 .. g.rate
        /\ Cruise(g) * Cruise(g) <= c
        /\ Cruise(g) = g.rate \/ (Cruise(g) + 1) * (Cruise(g) + 1) > c
    <2>1. \E v \in 0 .. g.rate : v * v <= c /\ (v = g.rate \/ (v + 1) * (v + 1) > c)
      <3> HIDE DEF c
      <3> QED
        BY <1>1, <1>3, IntegerRoot
    <2> QED
      BY <2>1, Zenon DEF Cruise
  <1> DEFINE v == Cruise(g)
  <1>5. v \in Nat /\ v * v <= c /\ (v = g.rate \/ (v + 1) * (v + 1) > c)
    BY <1>1, <1>4
  <1> HIDE DEF c, v
  <1>6. v = 0 => ~((v + 1) * (v + 1) > c) \/ c = 0
    BY <1>3, <1>5
  <1>7. v # 0 => v * v >= 1
    BY <1>5
  <1>8. (g.value # g.target => v >= 1) /\ (g.value = g.target => v = 0)
    BY <1>1, <1>3, <1>5, <1>6, <1>7
  <1> QED
    BY <1>8 DEF v

(* One tick of a trapezoid that is not done, in the four places it can be. *)
LEMMA TrapezoidNearer ==
    ASSUME NEW g \in Generators, Limited(g), NEW h \in Generators,
           h = Trapezoid(g), ~(h.value = g.target /\ h.vel = 0)
    PROVE  Nearer(h, g)
  <1> DEFINE v == Accelerated(g)
             k == Cruise(g)
  <1>1. /\ g.accel \in Nat /\ g.accel > 0 /\ g.vel \in Int
        /\ g.target \in Int /\ g.value \in Int /\ v \in Int /\ k \in Nat
    BY AcceleratedWithin, CruiseBounded DEF Generators, Limited
  <1>2. /\ h.value = (IF Passed(g, g.value + v) THEN g.target ELSE g.value + v)
        /\ h.vel = v /\ h.target = g.target
    BY DEF Trapezoid, Generators
  <1>3. (g.value # g.target => k >= 1) /\ (g.value = g.target => k = 0)
    BY CruiseMoves
  <1>4. v = Clamp(Dir(g) * k, g.vel - g.accel, g.vel + g.accel)
    BY DEF Accelerated
  <1> HIDE DEF v, k
  <1>5. CASE g.value > g.target
    <2>1. v = Clamp(-k, g.vel - g.accel, g.vel + g.accel)
      BY <1>1, <1>4, <1>5 DEF Dir
    <2>2. (g.vel > 0 => v < g.vel) /\ (g.vel <= 0 => v < 0)
      BY <1>1, <1>3, <1>5, <2>1 DEF Clamp
    <2>3. CASE h.value = g.target
      <3>1. v <= 0
        BY <1>1, <1>2, <1>5, <2>3 DEF Passed, Dir
      <3>2. Side(g) = 3 /\ Side(h) = 2
        BY <1>1, <1>2, <1>5, <2>3, <3>1 DEF Side
      <3> QED
        BY <3>2 DEF Nearer
    <2>4. CASE h.value # g.target
      <3>1. h.value = g.value + v /\ h.value > g.target
        BY <1>1, <1>2, <1>5, <2>4 DEF Passed, Dir
      <3>2. Side(g) = 3 /\ Side(h) = 3
        BY <1>1, <1>2, <1>5, <3>1 DEF Side
      <3>3. Away(g) = AtLeastZero(g.vel) /\ Away(h) = AtLeastZero(v)
        BY <1>1, <1>2, <1>5, <3>1 DEF Away
      <3>4. g.vel <= 0 => Abs(ToGo(h)) < Abs(ToGo(g))
        BY <1>1, <1>2, <1>5, <2>2, <3>1 DEF Abs, ToGo
      <3> QED
        BY <1>1, <2>2, <3>2, <3>3, <3>4 DEF Nearer, AtLeastZero
    <2> QED
      BY <2>3, <2>4
  <1>6. CASE g.value < g.target
    <2>1. v = Clamp(k, g.vel - g.accel, g.vel + g.accel)
      BY <1>1, <1>4, <1>6 DEF Dir
    <2>2. (g.vel < 0 => v > g.vel) /\ (g.vel >= 0 => v > 0)
      BY <1>1, <1>3, <1>6, <2>1 DEF Clamp
    <2>3. CASE h.value = g.target
      <3>1. v >= 0
        BY <1>1, <1>2, <1>6, <2>3 DEF Passed, Dir
      <3>2. Side(g) = 1 /\ Side(h) = 0
        BY <1>1, <1>2, <1>6, <2>3, <3>1 DEF Side
      <3> QED
        BY <3>2 DEF Nearer
    <2>4. CASE h.value # g.target
      <3>1. h.value = g.value + v /\ h.value < g.target
        BY <1>1, <1>2, <1>6, <2>4 DEF Passed, Dir
      <3>2. Side(g) = 1 /\ Side(h) = 1
        BY <1>1, <1>2, <1>6, <3>1 DEF Side
      <3>3. Away(g) = AtLeastZero(-g.vel) /\ Away(h) = AtLeastZero(-v)
        BY <1>1, <1>2, <1>6, <3>1 DEF Away
      <3>4. g.vel >= 0 => Abs(ToGo(h)) < Abs(ToGo(g))
        BY <1>1, <1>2, <1>6, <2>2, <3>1 DEF Abs, ToGo
      <3> QED
        BY <1>1, <2>2, <3>2, <3>3, <3>4 DEF Nearer, AtLeastZero
    <2> QED
      BY <2>3, <2>4
  <1>7. CASE g.value = g.target
    <2>1. v = Clamp(0, g.vel - g.accel, g.vel + g.accel)
      BY <1>1, <1>3, <1>4, <1>7 DEF Dir
    <2>2. CASE g.vel < 0
      <3>1. v <= 0
        BY <1>1, <2>1, <2>2 DEF Clamp
      <3>2. v # 0
        BY <1>1, <1>2, <1>7, <3>1 DEF Passed, Dir
      <3>3. h.value = g.value + v /\ v < 0
        BY <1>1, <1>2, <1>7, <3>1, <3>2 DEF Passed, Dir
      <3>4. Side(g) = 2 /\ Side(h) = 1
        BY <1>1, <1>2, <1>7, <2>2, <3>3 DEF Side
      <3> QED
        BY <3>4 DEF Nearer
    <2>3. CASE g.vel >= 0
      <3>1. v >= 0 /\ (g.vel > 0 => v < g.vel) /\ (g.vel = 0 => v = 0)
        BY <1>1, <2>1, <2>3 DEF Clamp
      <3>2. h.value = g.target
        BY <1>1, <1>2, <1>7, <3>1 DEF Passed, Dir
      <3>3. v < g.vel
        BY <1>1, <1>2, <2>3, <3>1, <3>2
      <3>4. Side(g) = 0 /\ Side(h) = 0
        BY <1>1, <1>2, <1>7, <2>3, <3>1, <3>2 DEF Side
      <3>5. Away(g) = g.vel /\ Away(h) = v
        BY <1>1, <1>2, <1>7, <2>3, <3>1, <3>2 DEF Away, Abs
      <3> QED
        BY <3>3, <3>4, <3>5 DEF Nearer
    <2> QED
      BY <1>1, <2>2, <2>3
  <1> QED
    BY <1>1, <1>5, <1>6, <1>7

LEMMA MovedNearer ==
    ASSUME NEW g, Sound(g), ~Reached(g)
    PROVE  Nearer(Moved(g), g)
  <1>1. /\ g \in Generators /\ g.rate \in Nat /\ g.accel \in Nat /\ g.vel \in Int
        /\ g.target \in Int /\ g.value \in Int
    BY DEF Sound, Generators
  <1>2. Moved(g) \in Generators
    BY <1>1, MovedSound, MovedTyped DEF Sound
  <1>3. CASE g.rate = 0
    <2>1. Moved(g) = [g EXCEPT !.value = g.target, !.vel = 0]
      BY <1>3 DEF Moved, Step
    <2>2. Moved(g).value = g.target
      BY <1>1, <2>1 DEF Generators
    <2> QED
      BY <1>3, <2>2 DEF Reached
  <1>4. CASE Limited(g)
    <2>1. Moved(g) = Trapezoid(g)
      BY <1>1, <1>4 DEF Moved, Limited
    <2>2. ~(Moved(g).value = g.target /\ Moved(g).vel = 0)
      BY DEF Reached
    <2> QED
      BY <1>1, <1>2, <1>4, <2>1, <2>2, TrapezoidNearer
  <1>5. CASE g.rate > 0 /\ g.accel = 0
    <2> DEFINE v == IF g.target > g.value THEN g.rate ELSE -g.rate
               h == Moved(g)
    <2>1. /\ h.value = (IF (g.target - (g.value + v)) * v <= 0
                        THEN g.target ELSE g.value + v)
          /\ h.vel = v /\ h.target = g.target
      BY <1>1, <1>5 DEF Moved, Linear, Generators
    <2>2. h.value # g.target
      BY <1>5 DEF Reached
    <2> SUFFICES Nearer(h, g)
      OBVIOUS
    <2> HIDE DEF h
    <2>3. h.value = g.value + v
      BY <2>1, <2>2
    <2>4. CASE g.target > g.value
      <3>1. v = g.rate /\ h.value < g.target
        <4>1. ~((g.target - (g.value + g.rate)) * g.rate <= 0)
          BY <1>1, <2>1, <2>2, <2>4
        <4>2. g.target - (g.value + g.rate) \in Int
          BY <1>1
        <4>3. \A m \in Int, n \in Nat : m <= 0 => m * n <= 0
          OBVIOUS
        <4>4. ~(g.target - (g.value + g.rate) <= 0)
          BY <1>1, <4>1, <4>2, <4>3
        <4> QED
          BY <1>1, <2>3, <2>4, <4>2, <4>4
      <3>2. Side(g) = 1 /\ Side(h) = 1
        BY <1>1, <2>1, <2>3, <2>4, <3>1 DEF Side
      <3>3. Away(g) = AtLeastZero(-g.vel) /\ Away(h) = AtLeastZero(-g.rate)
        BY <1>1, <2>1, <2>3, <2>4, <3>1 DEF Away
      <3>4. Abs(ToGo(h)) < Abs(ToGo(g))
        BY <1>1, <1>5, <2>1, <2>3, <2>4, <3>1 DEF Abs, ToGo
      <3> QED
        BY <1>1, <3>2, <3>3, <3>4 DEF Nearer, AtLeastZero
    <2>5. CASE g.target <= g.value
      <3>1. v = -g.rate
        BY <1>1, <2>5
      <3>2. h.value > g.target
        <4>1. ~((g.target - (g.value - g.rate)) * (-g.rate) <= 0)
          BY <1>1, <2>1, <2>2, <3>1
        <4>2. g.target - (g.value - g.rate) \in Int
          BY <1>1
        <4>3. \A m \in Int, n \in Nat : m >= 0 => m * (-n) <= 0
          OBVIOUS
        <4>4. ~(g.target - (g.value - g.rate) >= 0)
          BY <1>1, <4>1, <4>2, <4>3
        <4> QED
          BY <1>1, <2>3, <3>1, <4>2, <4>4
      <3>3. g.value > g.target
        BY <1>1, <2>3, <3>1, <3>2
      <3>4. Side(g) = 3 /\ Side(h) = 3
        BY <1>1, <2>1, <2>3, <3>1, <3>2, <3>3 DEF Side
      <3>5. Away(g) = AtLeastZero(g.vel) /\ Away(h) = AtLeastZero(-g.rate)
        BY <1>1, <2>1, <2>3, <3>1, <3>2, <3>3 DEF Away
      <3>6. Abs(ToGo(h)) < Abs(ToGo(g))
        BY <1>1, <1>5, <2>1, <2>3, <3>1, <3>2, <3>3 DEF Abs, ToGo
      <3> QED
        BY <1>1, <3>4, <3>5, <3>6 DEF Nearer, AtLeastZero
    <2> QED
      BY <1>1, <2>4, <2>5
  <1> QED
    BY <1>1, <1>3, <1>4, <1>5 DEF Limited

-----------------------------------------------------------------------------
(* Natural numbers, in place of an induction. *)

LEMMA Onwards ==
    ASSUME NEW A, NEW n \in Nat, n \in A, \A m \in Nat : m \in A => m + 1 \in A
    PROVE  \A m \in Nat : m >= n => m \in A
  <1> DEFINE T == {m \in Nat : m >= n /\ m \notin A}
  <1>1. SUFFICES ASSUME T # {} PROVE FALSE
    OBVIOUS
  <1>2. PICK k \in T : \A j \in T : k <= j
    <2>1. T \subseteq Nat
      OBVIOUS
    <2> HIDE DEF T
    <2> QED
      BY <1>1, <2>1, LeastNat
  <1>3. k - 1 \in Nat /\ k - 1 >= n /\ k - 1 \notin T
    BY <1>2
  <1>4. (k - 1) + 1 = k
    BY <1>2
  <1> QED
    BY <1>2, <1>3, <1>4

LEMMA Exits ==
    ASSUME NEW A, NEW n \in Nat, n \in A, ~ \A m \in Nat : m >= n => m \in A
    PROVE  \E m \in Nat : m >= n /\ m \in A /\ m + 1 \notin A
  <1> DEFINE B == {m \in Nat : m >= n /\ m \in A}
  <1>1. SUFFICES ASSUME \A m \in Nat : m \in B => m + 1 \in B PROVE FALSE
    OBVIOUS
  <1>2. n \in B
    OBVIOUS
  <1> HIDE DEF B
  <1>3. \A m \in Nat : m >= n => m \in B
    BY <1>1, <1>2, Onwards
  <1> QED
    BY <1>3 DEF B

(* Three counts do not fall for ever in the order of the dictionary.       *)
LEMMA NoEndlessDescent ==
    ASSUME NEW p \in [Nat -> Nat], NEW q \in [Nat -> Nat], NEW d \in [Nat -> Nat],
           \A k \in Nat : \/ p[k + 1] < p[k]
                          \/ p[k + 1] = p[k] /\ q[k + 1] < q[k]
                          \/ p[k + 1] = p[k] /\ q[k + 1] = q[k] /\ d[k + 1] < d[k]
    PROVE  FALSE
  <1> DEFINE P == {p[k] : k \in Nat}
  <1>1. PICK i \in Nat : \A k \in Nat : p[i] <= p[k]
    <2>1. P \subseteq Nat /\ P # {}
      OBVIOUS
    <2>2. PICK x \in P : \A y \in P : x <= y
      <3> HIDE DEF P
      <3> QED
        BY <2>1, LeastNat
    <2> QED
      BY <2>2
  <1> DEFINE A == {k \in Nat : p[k] = p[i]}
             Q == {q[k] : k \in A}
  <1>2. PICK j \in A : \A k \in A : q[j] <= q[k]
    <2>1. Q \subseteq Nat /\ Q # {}
      OBVIOUS
    <2>2. PICK x \in Q : \A y \in Q : x <= y
      <3> HIDE DEF Q
      <3> QED
        BY <2>1, LeastNat
    <2> QED
      BY <2>2
  <1>3. \A k \in A : k + 1 \in A
    BY <1>1
  <1> DEFINE B == {k \in A : q[k] = q[j]}
             D == {d[k] : k \in B}
  <1>4. PICK l \in B : \A k \in B : d[l] <= d[k]
    <2>1. D \subseteq Nat /\ D # {}
      BY <1>2
    <2>2. PICK x \in D : \A y \in D : x <= y
      <3> HIDE DEF D
      <3> QED
        BY <2>1, LeastNat
    <2> QED
      BY <2>2
  <1>5. l + 1 \in A
    BY <1>3, <1>4
  <1>6. l + 1 \in B
    BY <1>2, <1>4, <1>5
  <1> QED
    BY <1>4, <1>5, <1>6

-----------------------------------------------------------------------------
(* What one tick of a ramp, a dwell and a stopped signal comes to. *)

(* What a tick never writes while the signal stays in its ramp or dwell.   *)
Same(h, g) == /\ h.peak = g.peak /\ h.target = g.target /\ h.toPeak = g.toPeak
              /\ h.continuous = g.continuous /\ h.dwell = g.dwell /\ h.pause = g.pause

RampEnd(g) == IF g.toPeak \/ g.continuous THEN "dwell" ELSE "idle"

LEMMA RampTick ==
    ASSUME NEW g, Sound(g), g.state = "ramp", NEW h, h = Ramp(g)
    PROVE  /\ Same(h, g)
           /\ \/ h.state = "ramp" /\ Nearer(h, g)
              \/ h.state = RampEnd(g) /\ h.value = g.target
  <1> DEFINE m == Moved(g)
  <1>1. g \in Generators /\ g.toPeak \in BOOLEAN /\ g.continuous \in BOOLEAN
    BY DEF Sound, Generators
  <1>2. Ramps(g, m)
    BY <1>1, MovedSound DEF Sound
  <1>3. m \in Generators
    BY <1>1, <1>2, MovedTyped
  <1>4. Same(m, g) /\ m.state = "ramp"
    <2> HIDE DEF m
    <2> QED
      BY <1>1, <1>2 DEF Ramps, Same, Generators
  <1>5. CASE Reached(g)
    <2>1. m.value = g.target
      BY <1>5 DEF Reached
    <2>2. \/ h = [m EXCEPT !.state = "dwell", !.elapsed = 0] /\ (g.toPeak \/ g.continuous)
          \/ h = [m EXCEPT !.state = "idle"] /\ ~(g.toPeak \/ g.continuous)
      BY <1>1, <1>5 DEF Ramp
    <2> HIDE DEF m
    <2> QED
      BY <1>3, <1>4, <2>1, <2>2 DEF Same, RampEnd, Generators
  <1>6. CASE ~Reached(g)
    <2>1. h = m
      BY <1>6 DEF Ramp
    <2>2. Nearer(m, g)
      BY <1>6, MovedNearer
    <2> HIDE DEF m
    <2> QED
      BY <1>4, <2>1, <2>2
  <1> QED
    BY <1>5, <1>6

LEMMA DwellTick ==
    ASSUME NEW g, Sound(g), g.state = "dwell", NEW h, h = Dwell(g)
    PROVE  \/ /\ h.state = "dwell" /\ Same(h, g) /\ h.elapsed = g.elapsed + 1
              /\ h.elapsed < Hold(g)
           \/ /\ h.state = "ramp" /\ h.continuous = g.continuous
              /\ g.target # 0 => h.target = 0 /\ h.peak = g.peak
              /\ g.target = 0 => h.target = -g.peak /\ h.peak = -g.peak
  <1> DEFINE held == [g EXCEPT !.value = g.target, !.vel = 0, !.elapsed = g.elapsed + 1]
  <1>1. g \in Generators /\ g.target \in Int /\ g.elapsed \in Nat /\ Hold(g) \in Int
    BY DEF Sound, Generators, Hold
  <1>2. held \in Generators
    <2>1. g.elapsed + 1 \in Nat
      BY <1>1
    <2> QED
      BY <1>1, <2>1, HeldTyped
  <1>3. Same(held, g) /\ held.state = "dwell" /\ held.elapsed = g.elapsed + 1
    BY <1>1 DEF Same, Generators
  <1>4. \/ h = held /\ held.elapsed < Hold(g)
        \/ h = Returning(held) /\ g.target # 0
        \/ h = Flipped(held) /\ g.target = 0
    <2>1. held.elapsed \in Int
      BY <1>1, <1>3
    <2> QED
      BY <1>1, <2>1 DEF Dwell
  <1> HIDE DEF held
  <1>5. /\ Returning(held).state = "ramp" /\ Returning(held).target = 0
        /\ Returning(held).peak = held.peak
        /\ Returning(held).continuous = held.continuous
    BY <1>2 DEF Returning, Generators
  <1>6. /\ Flipped(held).state = "ramp" /\ Flipped(held).target = -held.peak
        /\ Flipped(held).peak = -held.peak
        /\ Flipped(held).continuous = held.continuous
    BY <1>2 DEF Flipped, Generators
  <1> QED
    BY <1>3, <1>4, <1>5, <1>6 DEF Same

(* The update of a medium tick that finds the generator disarmed.          *)
StopTick(g) == Updated(IF Active(g) THEN Stop(g) ELSE g)

AtRest(g) == g.state = "idle" /\ g.value = 0

LEMMA StopTickSound == ASSUME NEW g, Sound(g) PROVE Sound(StopTick(g))
  <1>1. CASE ~Active(g)
    BY <1>1, UpdatedSound DEF StopTick
  <1>2. CASE Active(g) /\ g.value # 0
    BY <1>2, StopSound, UpdatedSound DEF StopTick
  <1>3. CASE Active(g) /\ g.value = 0
    BY <1>3, StopAtZero DEF StopTick
  <1> QED
    BY <1>1, <1>2, <1>3

LEMMA StopTicks ==
    ASSUME NEW g, Sound(g), NEW h, h = StopTick(g)
    PROVE  \/ AtRest(h)
           \/ ~AtRest(g) /\ h.state = "ramp" /\ h.target = 0 /\ Nearer(h, Stop(g))
  <1>1. g \in Generators
    BY DEF Sound
  <1>2. CASE ~Active(g) \/ g.value = 0
    <2> DEFINE s == IF Active(g) THEN Stop(g) ELSE g
    <2>1. s \in Generators /\ s.state = "idle"
      <3>1. CASE Active(g)
        BY <1>1, <1>2, <3>1, StopTyped DEF Stop, Generators
      <3>2. CASE ~Active(g)
        BY <1>1, <3>2 DEF Active
      <3> QED
        BY <3>1, <3>2
    <2>2. h = Updated(s)
      BY DEF StopTick
    <2> HIDE DEF s
    <2>3. h = [s EXCEPT !.value = 0, !.vel = 0]
      BY <2>1, <2>2 DEF Updated
    <2> QED
      BY <2>1, <2>3 DEF AtRest, Generators
  <1>3. CASE Active(g) /\ g.value # 0
    <2> DEFINE s == Stop(g)
    <2>1. Sound(s)
      BY <1>3, StopSound
    <2>2. /\ s.state = "ramp" /\ s.target = 0 /\ s.toPeak = FALSE
          /\ s.continuous = FALSE
      BY <1>1, <1>3 DEF Stop, Generators
    <2>3. h = Updated(s)
      BY <1>3 DEF StopTick
    <2> HIDE DEF s
    <2>4. h = Ramp(s)
      BY <2>2, <2>3 DEF Updated
    <2>5. /\ Same(h, s)
          /\ \/ h.state = "ramp" /\ Nearer(h, s)
             \/ h.state = RampEnd(s) /\ h.value = s.target
      BY <2>1, <2>2, <2>4, RampTick
    <2>6. \/ AtRest(h)
          \/ h.state = "ramp" /\ h.target = 0 /\ Nearer(h, s)
      BY <2>2, <2>5 DEF Same, RampEnd, AtRest
    <2>7. ~AtRest(g)
      BY <1>3 DEF AtRest
    <2> QED
      BY <2>6, <2>7 DEF s
  <1> QED
    BY <1>2, <1>3

-----------------------------------------------------------------------------
(* The generator tick after tick: f[n] is the generator before tick n. *)

(* It is armed all along and not fired again.                              *)
LeftAlone(f) == /\ f \in [Nat -> Generators] /\ Sound(f[0])
                /\ \A n \in Nat : f[n + 1] = Updated(f[n])

(* It is disarmed all along.                                               *)
Disarming(f) == /\ f \in [Nat -> Generators] /\ Sound(f[0])
                /\ \A n \in Nat : f[n + 1] = StopTick(f[n])

LEMMA SoundAlone ==
    ASSUME NEW f, LeftAlone(f) PROVE \A n \in Nat : Sound(f[n])
  <1> DEFINE A == {n \in Nat : Sound(f[n])}
  <1>1. 0 \in A /\ \A n \in Nat : n \in A => n + 1 \in A
    BY UpdatedSound DEF LeftAlone
  <1> HIDE DEF A
  <1>2. \A n \in Nat : n >= 0 => n \in A
    BY <1>1, Onwards
  <1> QED
    BY <1>2 DEF A

LEMMA SoundDisarming ==
    ASSUME NEW f, Disarming(f) PROVE \A n \in Nat : Sound(f[n])
  <1> DEFINE A == {n \in Nat : Sound(f[n])}
  <1>1. 0 \in A /\ \A n \in Nat : n \in A => n + 1 \in A
    BY StopTickSound DEF Disarming
  <1> HIDE DEF A
  <1>2. \A n \in Nat : n >= 0 => n \in A
    BY <1>1, Onwards
  <1> QED
    BY <1>2 DEF A

(* A signal does not come nearer to its target for ever.                   *)
LEMMA NotEverNearer ==
    ASSUME NEW f \in [Nat -> Generators], NEW n \in Nat,
           \A k \in Nat : k >= n => Nearer(f[k + 1], f[k])
    PROVE  FALSE
  <1> DEFINE p == [k \in Nat |-> Side(f[n + k])]
             q == [k \in Nat |-> Away(f[n + k])]
             d == [k \in Nat |-> Abs(ToGo(f[n + k]))]
  <1>1. p \in [Nat -> Nat] /\ q \in [Nat -> Nat] /\ d \in [Nat -> Nat]
    <2>1. \A k \in Nat : n + k \in Nat /\ f[n + k] \in Generators
      OBVIOUS
    <2> QED
      BY <2>1, RankTyped
  <1>2. \A k \in Nat : \/ p[k + 1] < p[k]
                       \/ p[k + 1] = p[k] /\ q[k + 1] < q[k]
                       \/ p[k + 1] = p[k] /\ q[k + 1] = q[k] /\ d[k + 1] < d[k]
    <2> TAKE k \in Nat
    <2>1. n + k \in Nat /\ n + k >= n /\ n + (k + 1) = (n + k) + 1 /\ k + 1 \in Nat
      OBVIOUS
    <2>2. Nearer(f[n + (k + 1)], f[n + k])
      BY <2>1
    <2>3. p[k] = Side(f[n + k]) /\ p[k + 1] = Side(f[n + (k + 1)])
      BY <2>1
    <2>4. q[k] = Away(f[n + k]) /\ q[k + 1] = Away(f[n + (k + 1)])
      BY <2>1
    <2>5. d[k] = Abs(ToGo(f[n + k])) /\ d[k + 1] = Abs(ToGo(f[n + (k + 1)]))
      BY <2>1
    <2> QED
      BY <2>2, <2>3, <2>4, <2>5 DEF Nearer
  <1> HIDE DEF p, q, d
  <1> QED
    BY <1>1, <1>2, NoEndlessDescent

(* A ramp of any amplitude, rate and limit ends, on its target: it neither *)
(* hangs short of it nor circles it for ever.                              *)
THEOREM RampsReach ==
    ASSUME NEW f, LeftAlone(f), NEW n \in Nat, f[n].state = "ramp"
    PROVE  \E m \in Nat : /\ m > n /\ Same(f[m], f[n])
                          /\ f[m].state = RampEnd(f[n]) /\ f[m].value = f[n].target
  <1> DEFINE A == {k \in Nat : f[k].state = "ramp" /\ Same(f[k], f[n])}
  <1>1. \A k \in Nat : Sound(f[k]) /\ f[k + 1] = Updated(f[k])
    BY SoundAlone DEF LeftAlone
  <1>2. \A k \in A : /\ Same(f[k + 1], f[n])
                     /\ \/ f[k + 1].state = "ramp" /\ Nearer(f[k + 1], f[k])
                        \/ f[k + 1].state = RampEnd(f[n]) /\ f[k + 1].value = f[n].target
    <2> TAKE k \in A
    <2>1. Sound(f[k]) /\ f[k].state = "ramp" /\ f[k + 1] = Ramp(f[k])
      BY <1>1 DEF Updated
    <2>2. /\ Same(f[k + 1], f[k])
          /\ \/ f[k + 1].state = "ramp" /\ Nearer(f[k + 1], f[k])
             \/ f[k + 1].state = RampEnd(f[k]) /\ f[k + 1].value = f[k].target
      BY <2>1, RampTick
    <2>3. Same(f[k], f[n])
      OBVIOUS
    <2> QED
      BY <2>2, <2>3 DEF Same, RampEnd
  <1>3. n \in A
    BY DEF Same
  <1>4. ~ \A k \in Nat : k >= n => k \in A
    <2> SUFFICES ASSUME \A k \in Nat : k >= n => k \in A PROVE FALSE
      OBVIOUS
    <2>1. \A k \in Nat : k >= n => Nearer(f[k + 1], f[k])
      <3> TAKE k \in Nat
      <3> HAVE k >= n
      <3>1. k \in A /\ k + 1 \in A
        OBVIOUS
      <3>2. f[k + 1].state = "ramp"
        BY <3>1
      <3> HIDE DEF A
      <3> QED
        BY <1>2, <3>1, <3>2 DEF RampEnd
    <2>2. f \in [Nat -> Generators]
      BY DEF LeftAlone
    <2> QED
      BY <2>1, <2>2, NotEverNearer
  <1>5. PICK k \in Nat : k >= n /\ k \in A /\ k + 1 \notin A
    <2> HIDE DEF A
    <2> QED
      BY <1>3, <1>4, Exits
  <1>6. f[k + 1].state # "ramp"
    BY <1>2, <1>5
  <1>7. k + 1 \in Nat /\ k + 1 > n
    BY <1>5
  <1> QED
    BY <1>2, <1>5, <1>6, <1>7

(* A dwell ends too, and turns to the next ramp of its pulse or train.     *)
LEMMA DwellsEnd ==
    ASSUME NEW f, LeftAlone(f), NEW n \in Nat, f[n].state = "dwell"
    PROVE  \E m \in Nat : /\ m > n /\ f[m].state = "ramp"
                          /\ f[m].continuous = f[n].continuous
                          /\ f[n].target # 0 => f[m].target = 0 /\ f[m].peak = f[n].peak
                          /\ f[n].target = 0 => /\ f[m].target = -f[n].peak
                                                /\ f[m].peak = -f[n].peak
  <1> DEFINE A == {k \in Nat : f[k].state = "dwell" /\ Same(f[k], f[n])}
  <1>1. \A k \in Nat : Sound(f[k]) /\ f[k] \in Generators /\ f[k + 1] = Updated(f[k])
    BY SoundAlone DEF LeftAlone
  <1>2. \A k \in A :
           \/ /\ f[k + 1].state = "dwell" /\ Same(f[k + 1], f[n])
              /\ f[k + 1].elapsed = f[k].elapsed + 1 /\ f[k + 1].elapsed < Hold(f[n])
           \/ /\ f[k + 1].state = "ramp" /\ f[k + 1].continuous = f[n].continuous
              /\ f[n].target # 0 => f[k + 1].target = 0 /\ f[k + 1].peak = f[n].peak
              /\ f[n].target = 0 => /\ f[k + 1].target = -f[n].peak
                                    /\ f[k + 1].peak = -f[n].peak
    <2> TAKE k \in A
    <2>1. Sound(f[k]) /\ f[k].state = "dwell" /\ f[k + 1] = Dwell(f[k])
      BY <1>1 DEF Updated
    <2>2. Same(f[k], f[n])
      OBVIOUS
    <2>3. Hold(f[k]) = Hold(f[n])
      BY <2>2 DEF Same, Hold
    <2> HIDE DEF A
    <2> QED
      BY <2>1, <2>2, <2>3, DwellTick DEF Same
  <1>3. n \in A
    BY DEF Same
  <1>4. ~ \A k \in Nat : k >= n => k \in A
    <2> SUFFICES ASSUME \A k \in Nat : k >= n => k \in A PROVE FALSE
      OBVIOUS
    <2>1. \A k \in Nat : k >= n => /\ f[k + 1].elapsed = f[k].elapsed + 1
                                   /\ f[k + 1].elapsed < Hold(f[n])
      <3> TAKE k \in Nat
      <3> HAVE k >= n
      <3>1. k \in A /\ k + 1 \in A
        OBVIOUS
      <3>2. f[k + 1].state = "dwell"
        BY <3>1
      <3> HIDE DEF A
      <3> QED
        BY <1>2, <3>1, <3>2
    <2> DEFINE left == [k \in Nat |-> Hold(f[n]) - f[(n + 1) + k].elapsed]
               none == [k \in Nat |-> 0]
    <2>2. left \in [Nat -> Nat] /\ none \in [Nat -> Nat]
      <3>1. Hold(f[n]) \in Int
        BY <1>1 DEF Hold, Generators
      <3>2. \A k \in Nat : f[k].elapsed \in Nat
        BY <1>1 DEF Generators
      <3>3. \A k \in Nat : f[(n + 1) + k].elapsed < Hold(f[n])
        <4> TAKE k \in Nat
        <4>1. n + k \in Nat /\ n + k >= n /\ (n + 1) + k = (n + k) + 1
          OBVIOUS
        <4> QED
          BY <2>1, <4>1
      <3>4. \A k \in Nat : Hold(f[n]) - f[(n + 1) + k].elapsed \in Nat
        <4> TAKE k \in Nat
        <4>1. (n + 1) + k \in Nat
          OBVIOUS
        <4>2. f[(n + 1) + k].elapsed \in Nat /\ f[(n + 1) + k].elapsed < Hold(f[n])
          BY <3>2, <3>3, <4>1
        <4> QED
          BY <3>1, <4>2
      <3> QED
        BY <3>4
    <2>3. \A k \in Nat : left[k + 1] < left[k]
      <3> TAKE k \in Nat
      <3>1. /\ (n + 1) + k \in Nat /\ (n + 1) + k >= n /\ k + 1 \in Nat
            /\ (n + 1) + (k + 1) = ((n + 1) + k) + 1
        OBVIOUS
      <3>2. f[(n + 1) + (k + 1)].elapsed = f[(n + 1) + k].elapsed + 1
        BY <2>1, <3>1
      <3>3. /\ f[(n + 1) + k].elapsed \in Int
            /\ Hold(f[n]) \in Int
        BY <1>1, <3>1 DEF Hold, Generators
      <3>4. /\ left[k + 1] = Hold(f[n]) - f[(n + 1) + (k + 1)].elapsed
            /\ left[k] = Hold(f[n]) - f[(n + 1) + k].elapsed
        BY <3>1
      <3> HIDE DEF left, A
      <3> QED
        BY <3>2, <3>3, <3>4
    <2>4. \A k \in Nat : none[k + 1] = none[k]
      OBVIOUS
    <2> HIDE DEF left, none, A
    <2> QED
      BY <2>2, <2>3, <2>4, NoEndlessDescent
  <1>5. PICK k \in Nat : k >= n /\ k \in A /\ k + 1 \notin A
    <2> HIDE DEF A
    <2> QED
      BY <1>3, <1>4, Exits
  <1>6. ~(f[k + 1].state = "dwell" /\ Same(f[k + 1], f[n]))
    BY <1>5
  <1>7. k + 1 \in Nat /\ k + 1 > n
    BY <1>5
  <1> HIDE DEF A
  <1> QED
    BY <1>2, <1>5, <1>6, <1>7

(* A disarmed generator comes to rest at zero and stays there, wherever    *)
(* and however fast the signal was: the substance of StopEnds.             *)
THEOREM StopsEnd ==
    ASSUME NEW f, Disarming(f)
    PROVE  \E n \in Nat : \A m \in Nat : m >= n => AtRest(f[m])
  <1> DEFINE A == {k \in Nat : AtRest(f[k])}
  <1>1. \A k \in Nat : Sound(f[k]) /\ f[k] \in Generators /\ f[k + 1] = StopTick(f[k])
    BY SoundDisarming DEF Disarming
  <1>2. \A k \in Nat : \/ AtRest(f[k + 1])
                       \/ /\ ~AtRest(f[k]) /\ f[k + 1].state = "ramp"
                          /\ f[k + 1].target = 0 /\ Nearer(f[k + 1], Stop(f[k]))
    BY <1>1, StopTicks
  <1>3. \E n \in Nat : AtRest(f[n])
    <2> SUFFICES ASSUME \A n \in Nat : ~AtRest(f[n]) PROVE FALSE
      OBVIOUS
    <2>1. \A k \in Nat : k >= 1 => Nearer(f[k + 1], f[k])
      <3> TAKE k \in Nat
      <3> HAVE k >= 1
      <3>1. k - 1 \in Nat /\ (k - 1) + 1 = k /\ k + 1 \in Nat
        OBVIOUS
      <3>2. f[k].target = 0
        BY <1>2, <3>1
      <3>3. Nearer(f[k + 1], Stop(f[k]))
        BY <1>2, <3>1
      <3> DEFINE g == f[k]
                 s == Stop(g)
      <3>4. g \in Generators
        BY <1>1
      <3>5. s.value = g.value /\ s.vel = g.vel /\ s.target = 0
        <4> HIDE DEF g
        <4> QED
          BY <3>4 DEF Stop, Generators
      <3> HIDE DEF g, s
      <3>6. Side(s) = Side(g) /\ Away(s) = Away(g) /\ ToGo(s) = ToGo(g)
        BY <3>2, <3>5 DEF Side, Away, ToGo, g
      <3> QED
        BY <3>3, <3>6 DEF Nearer, g, s
    <2>2. f \in [Nat -> Generators]
      BY DEF Disarming
    <2> QED
      BY <2>1, <2>2, NotEverNearer
  <1>4. PICK n \in A : TRUE
    BY <1>3
  <1>5. \A k \in Nat : k \in A => k + 1 \in A
    BY <1>2
  <1>6. n \in Nat
    OBVIOUS
  <1> HIDE DEF A
  <1>7. \A m \in Nat : m >= n => m \in A
    BY <1>4, <1>5, <1>6, Onwards
  <1> QED
    BY <1>6, <1>7 DEF A

(* A dwell of a train that leads to a pulse, and one at the pulse's peak.  *)
Dwelling(g) == g.state = "dwell" /\ g.continuous
Peaking(g)  == Dwelling(g) /\ g.target = g.peak /\ g.value = g.peak

LEMMA RampDwells ==
    ASSUME NEW f, LeftAlone(f), NEW n \in Nat, f[n].state = "ramp", f[n].continuous
    PROVE  \E m \in Nat : /\ m > n /\ Dwelling(f[m]) /\ f[m].value = f[n].target
                          /\ f[m].target = f[n].target /\ f[m].peak = f[n].peak
  BY RampsReach DEF Same, RampEnd, Dwelling

(* A dwell at a peak is followed by a pause at zero, with the same peak.   *)
LEMMA PeakPauses ==
    ASSUME NEW f, LeftAlone(f), NEW n \in Nat, Dwelling(f[n]), f[n].target # 0
    PROVE  \E m \in Nat : /\ m > n /\ Dwelling(f[m]) /\ f[m].target = 0
                          /\ f[m].peak = f[n].peak
  <1>1. PICK k \in Nat : /\ k > n /\ f[k].state = "ramp" /\ f[k].continuous
                         /\ f[k].target = 0 /\ f[k].peak = f[n].peak
    BY DwellsEnd DEF Dwelling
  <1>2. PICK m \in Nat : /\ m > k /\ Dwelling(f[m])
                         /\ f[m].target = f[k].target /\ f[m].peak = f[k].peak
    BY <1>1, RampDwells
  <1>3. m > n
    BY <1>1, <1>2
  <1> QED
    BY <1>1, <1>2, <1>3

(* A pause at zero is followed by a dwell at the opposite peak.            *)
LEMMA PausePeaks ==
    ASSUME NEW f, LeftAlone(f), NEW n \in Nat, Dwelling(f[n]), f[n].target = 0
    PROVE  \E m \in Nat : m > n /\ Peaking(f[m]) /\ f[m].peak = -f[n].peak
  <1>1. PICK k \in Nat : /\ k > n /\ f[k].state = "ramp" /\ f[k].continuous
                         /\ f[k].target = -f[n].peak /\ f[k].peak = -f[n].peak
    BY DwellsEnd DEF Dwelling
  <1>2. PICK m \in Nat : /\ m > k /\ Dwelling(f[m]) /\ f[m].value = f[k].target
                         /\ f[m].target = f[k].target /\ f[m].peak = f[k].peak
    BY <1>1, RampDwells
  <1>3. m > n
    BY <1>1, <1>2
  <1> QED
    BY <1>1, <1>2, <1>3 DEF Peaking

LEMMA PeakToPeak ==
    ASSUME NEW f, LeftAlone(f), NEW n \in Nat, Peaking(f[n])
    PROVE  \E m \in Nat : m > n /\ Peaking(f[m]) /\ f[m].peak = -f[n].peak
  <1>1. CASE f[n].target = 0
    BY <1>1, PausePeaks DEF Peaking
  <1>2. CASE f[n].target # 0
    <2>1. PICK k \in Nat : /\ k > n /\ Dwelling(f[k]) /\ f[k].target = 0
                           /\ f[k].peak = f[n].peak
      BY <1>2, PeakPauses DEF Peaking
    <2>2. PICK m \in Nat : m > k /\ Peaking(f[m]) /\ f[m].peak = -f[k].peak
      BY <2>1, PausePeaks
    <2>3. m > n
      BY <2>1, <2>2
    <2> QED
      BY <2>1, <2>2, <2>3
  <1> QED
    BY <1>1, <1>2

LEMMA TrainContinues ==
    ASSUME NEW f, LeftAlone(f), Active(f[0]), f[0].continuous
    PROVE  \A n \in Nat : f[n].state \in {"ramp", "dwell"} /\ f[n].continuous
  <1> DEFINE A == {k \in Nat : f[k].state \in {"ramp", "dwell"} /\ f[k].continuous}
  <1>1. \A k \in Nat : Sound(f[k]) /\ f[k] \in Generators /\ f[k + 1] = Updated(f[k])
    BY SoundAlone DEF LeftAlone
  <1>2. 0 \in A
    <2>1. f[0].state \in {"idle", "ramp", "dwell"}
      BY <1>1 DEF Generators
    <2> QED
      BY <2>1 DEF Active
  <1>3. \A k \in Nat : k \in A => k + 1 \in A
    <2> TAKE k \in Nat
    <2> HAVE k \in A
    <2>1. Sound(f[k]) /\ f[k].continuous /\ f[k].state \in {"ramp", "dwell"}
      BY <1>1
    <2> SUFFICES f[k + 1].state \in {"ramp", "dwell"} /\ f[k + 1].continuous
      OBVIOUS
    <2> HIDE DEF A
    <2>2. CASE f[k].state = "ramp"
      <3>1. f[k + 1] = Ramp(f[k])
        BY <1>1, <2>2 DEF Updated
      <3>2. f[k + 1].state \in {"ramp", RampEnd(f[k])} /\ Same(f[k + 1], f[k])
        BY <2>1, <2>2, <3>1, RampTick
      <3>3. RampEnd(f[k]) = "dwell"
        BY <2>1 DEF RampEnd
      <3> QED
        BY <2>1, <3>2, <3>3, Zenon DEF Same
    <2>3. CASE f[k].state = "dwell"
      <3>1. f[k + 1] = Dwell(f[k])
        BY <1>1, <2>3 DEF Updated
      <3>2. f[k + 1].state \in {"ramp", "dwell"} /\ f[k + 1].continuous = f[k].continuous
        BY <2>1, <2>3, <3>1, DwellTick DEF Same
      <3> QED
        BY <2>1, <3>2, Zenon
    <2> QED
      BY <2>1, <2>2, <2>3
  <1> HIDE DEF A
  <1>4. \A n \in Nat : n >= 0 => n \in A
    BY <1>2, <1>3, Onwards
  <1> QED
    BY <1>4 DEF A

LEMMA PeaksAgain ==
    ASSUME NEW f, LeftAlone(f), Active(f[0]), f[0].continuous, NEW n \in Nat
    PROVE  \E m \in Nat : m > n /\ Peaking(f[m])
  <1>1. \A k \in Nat : /\ f[k].state \in {"ramp", "dwell"} /\ f[k].continuous
    BY TrainContinues
  <1>2. PICK k \in Nat : k >= n /\ Dwelling(f[k])
    <2>1. CASE f[n].state = "dwell"
      BY <1>1, <2>1 DEF Dwelling
    <2>2. CASE f[n].state = "ramp"
      BY <1>1, <2>2, RampDwells
    <2> QED
      BY <1>1, <2>1, <2>2
  <1>3. PICK l \in Nat : l >= k /\ Dwelling(f[l]) /\ f[l].target = 0
    <2>1. CASE f[k].target = 0
      BY <1>2, <2>1
    <2>2. CASE f[k].target # 0
      BY <1>2, <2>2, PeakPauses
    <2> QED
      BY <2>1, <2>2
  <1>4. PICK m \in Nat : m > l /\ Peaking(f[m])
    BY <1>3, PausePeaks
  <1>5. m > n
    BY <1>2, <1>3, <1>4
  <1> QED
    BY <1>4, <1>5

(* A train left alone reaches a peak above and a peak below zero again and *)
(* again, for any parameters: the substance of TrainAlternates.            *)
THEOREM TrainsAlternate ==
    ASSUME NEW f, LeftAlone(f), Active(f[0]), f[0].continuous, NEW n \in Nat
    PROVE  /\ \E m \in Nat : m > n /\ f[m].value = f[m].peak /\ f[m].peak >= 0
           /\ \E m \in Nat : m > n /\ f[m].value = f[m].peak /\ f[m].peak <= 0
  <1>1. PICK k \in Nat : k > n /\ Peaking(f[k])
    BY PeaksAgain
  <1>2. PICK l \in Nat : l > k /\ Peaking(f[l]) /\ f[l].peak = -f[k].peak
    BY <1>1, PeakToPeak
  <1>3. l > n /\ f[k].value = f[k].peak /\ f[l].value = f[l].peak
    BY <1>1, <1>2 DEF Peaking
  <1>4. f[k].peak \in Int
    BY DEF LeftAlone, Generators
  <1>5. CASE f[k].peak >= 0
    <2>1. f[l].peak <= 0
      BY <1>2, <1>4, <1>5
    <2> QED
      BY <1>1, <1>3, <1>5, <2>1
  <1>6. CASE f[k].peak <= 0
    <2>1. f[l].peak >= 0
      BY <1>2, <1>4, <1>6
    <2> QED
      BY <1>1, <1>3, <1>6, <2>1
  <1> QED
    BY <1>4, <1>5, <1>6
=============================================================================
