---------------------------- MODULE Motion_proofs ----------------------------
(***************************************************************************)
(* Proofs about Motion, for every set of commands, targets, axis positions *)
(* and homes and every odd number of units per turn.                       *)
(*                                                                         *)
(* The action properties speak of what one step does to the demand.  They  *)
(* hold because of what the steps before left: a locked anchor was seeded  *)
(* (Anchored), a halted drive has no plan (Abandoned), and a plan or test  *)
(* signal about to be demanded is where the demand is, or starts where the *)
(* axis is (PlanFollows, TestFollows).                                     *)
(***************************************************************************)
EXTENDS Motion, TLAPS

(* From the arbiter to the cascade the position is the one that was read.  *)
Decided == mpc \in {"align", "overlay", "cascade"}

Anchored  == locked => tracking
Abandoned == effHalt => ~plan.active

PlanFollows == posOn /\ reference # "test" /\ plan.active =>
                   plan.at = hold \/ (Decided /\ plan.at = Position)

Testing == Active(gen) /\ gen.loop = "position"

TestFollows == posOn /\ Testing /\ reference # "halt" =>
                   \/ hold = entry + gen.value
                   \/ Decided /\ effHalt
                   \/ mpc = "cascade" /\ (Near(hold, entry + gen.value) \/ entry = Position)

IInv == TypeOK /\ Anchored /\ Abandoned /\ PlanFollows /\ TestFollows

-----------------------------------------------------------------------------
(* Arithmetic of the turn.                                                 *)

LEMMA HalfTurn == (Turn \div 2) \in Nat /\ Turn = 2 * (Turn \div 2) + 1
  <1>1. \A t \in Nat : t >= 3 /\ t % 2 = 1 => (t \div 2) \in Nat /\ t = 2 * (t \div 2) + 1
    OBVIOUS
  <1> QED
    BY <1>1, MotionAssumption

LEMMA Multiple == \A t \in Nat, k \in Int : t >= 3 => (t * k) % t = 0
  <1> SUFFICES ASSUME NEW t \in Nat, NEW k \in Int, t >= 3 PROVE (t * k) % t = 0
    OBVIOUS
  <1> DEFINE q == (t * k) \div t
             r == (t * k) % t
  <1>1. q \in Int /\ r \in 0 .. t - 1 /\ t * k = t * q + r
    OBVIOUS
  <1> HIDE DEF q, r
  <1>2. CASE k = q
    BY <1>1, <1>2
  <1>3. CASE k >= q + 1
    <2>1. t * k >= t * q + t
      BY <1>1, <1>3
    <2> QED
      BY <1>1, <2>1
  <1>4. CASE k <= q - 1
    <2>1. t * k <= t * q - t
      BY <1>1, <1>4
    <2> QED
      BY <1>1, <2>1
  <1> QED
    BY <1>1, <1>2, <1>3, <1>4 DEF r

LEMMA NoMultiple == \A t \in Nat, x \in Int : t >= 3 /\ x % t = 0 /\ -t < x /\ x < t => x = 0
  OBVIOUS

(* Every difference has a representative within half a turn.               *)
LEMMA WrapTyped == \A d \in Int : Wrap(d) \in Int
  <1> SUFFICES ASSUME NEW d \in Int PROVE Wrap(d) \in Int
    OBVIOUS
  <1> DEFINE h == Turn \div 2
             q == d \div Turn
             r == d % Turn
  <1>1. h \in Nat /\ Turn = 2 * h + 1 /\ Turn \in Nat /\ Turn >= 3
    BY HalfTurn, MotionAssumption
  <1>2. q \in Int /\ r \in 0 .. Turn - 1 /\ d = Turn * q + r
    BY <1>1
  <1> HIDE DEF q, r
  <1>3. \E w \in -h .. h : (w - d) % Turn = 0
    <2>1. CASE r <= h
      <3>1. r - d = Turn * (-q)
        BY <1>1, <1>2
      <3>2. (r - d) % Turn = 0
        BY <1>1, <1>2, <3>1, Multiple
      <3> QED
        BY <1>1, <1>2, <2>1, <3>2
    <2>2. CASE r > h
      <3>1. (r - Turn) - d = Turn * (-q - 1)
        BY <1>1, <1>2
      <3>2. ((r - Turn) - d) % Turn = 0
        BY <1>1, <1>2, <3>1, Multiple
      <3>3. r - Turn \in -h .. h
        BY <1>1, <1>2, <2>2
      <3> QED
        BY <3>2, <3>3
    <2> QED
      BY <1>1, <1>2, <2>1, <2>2
  <1>4. Wrap(d) \in -h .. h
    BY <1>3 DEF Wrap
  <1> QED
    BY <1>1, <1>4

(* A step of one unit is recognised for what it is.                        *)
LEMMA WrapSmall == \A d \in -1 .. 1 : Wrap(d) = d
  <1> SUFFICES ASSUME NEW d \in -1 .. 1 PROVE Wrap(d) = d
    OBVIOUS
  <1> DEFINE h == Turn \div 2
  <1>1. h \in Nat /\ Turn = 2 * h + 1 /\ Turn \in Nat /\ Turn >= 3
    BY HalfTurn, MotionAssumption
  <1> HIDE DEF h
  <1>2. d \in -h .. h /\ (d - d) % Turn = 0
    BY <1>1
  <1>3. \A w \in -h .. h : (w - d) % Turn = 0 => w = d
    <2> SUFFICES ASSUME NEW w \in -h .. h, (w - d) % Turn = 0 PROVE w = d
      OBVIOUS
    <2>1. w - d \in Int /\ -Turn < w - d /\ w - d < Turn
      BY <1>1
    <2>2. w - d = 0
      BY <1>1, <2>1, NoMultiple
    <2> QED
      BY <1>1, <2>2
  <1> QED
    BY <1>2, <1>3 DEF Wrap, h

-----------------------------------------------------------------------------
(* The steps of a medium tick.                                             *)

Planned == [at : Int, to : Targets, active : {TRUE}] \cup {NoPlan}
Signal  == [state : {"run", "stop"}, loop : Loop, value : {0, 1}] \cup {Idle}

USE MotionAssumption DEF anchor, manager, eff, test, cascade, move

LEMMA InitIInv == Init => IInv
  <1> SUFFICES ASSUME Init PROVE IInv
    OBVIOUS
  <1>1. TypeOK
    <2>1. /\ tracking \in BOOLEAN /\ locked \in BOOLEAN /\ latched \in BOOLEAN
          /\ prevNew \in BOOLEAN /\ effDrive \in BOOLEAN /\ effHalt \in BOOLEAN
          /\ aligning \in BOOLEAN /\ commanded \in BOOLEAN /\ posOn \in BOOLEAN
      BY Zenon DEF Init
    <2> QED
      BY <2>1 DEF Init, TypeOK, Loop
  <1> QED
    BY <1>1 DEF Init, IInv, Anchored, Abandoned, PlanFollows, TestFollows

LEMMA PositionTyped == TypeOK => est \in Int /\ home \in Int /\ Position \in Int
  BY DEF TypeOK, Position

(* A reading, locked or not, is a whole number of units.                   *)
LEMMA SenseTyped == TypeOK /\ Sense => est' \in Int /\ axis' \in Axis
  <1> SUFFICES ASSUME TypeOK, Sense PROVE est' \in Int /\ axis' \in Axis
    OBVIOUS
  <1>1. PICK a \in Axis :
           /\ axis' = a
           /\ est' = IF locked' THEN Continuous(a) ELSE home + Wrap((a % Turn) - home)
    BY DEF Sense
  <1>2. axis \in Int /\ a \in Int /\ home \in Int /\ est \in Int /\ a % Turn \in Int
    BY DEF TypeOK
  <1>3. Wrap(a - axis) \in Int /\ Wrap((a % Turn) - home) \in Int
    BY <1>2, WrapTyped
  <1>4. Continuous(a) \in Int
    BY <1>2, <1>3 DEF Continuous
  <1> QED
    BY <1>1, <1>2, <1>3, <1>4

LEMMA ReadEncoderKeeps == IInv /\ ReadEncoder => IInv'
  <1> SUFFICES ASSUME IInv, ReadEncoder PROVE IInv'
    OBVIOUS
  <1> USE DEF ReadEncoder, Tick
  <1>1. /\ mpc = "sense" /\ mpc' = "arbitrate"
        /\ UNCHANGED <<home, manager, eff, aligning, move, test, cascade>>
    OBVIOUS
  <1>2. /\ est' \in Int /\ axis' \in Axis
        /\ tracking' \in BOOLEAN /\ locked' \in BOOLEAN
        /\ locked' => tracking'
    <2>1. CASE Sense
      <3>1. tracking' = TRUE /\ locked' = (locked \/ effDrive)
        BY Zenon, <2>1 DEF Sense
      <3>2. est' \in Int /\ axis' \in Axis
        BY <2>1, SenseTyped DEF IInv
      <3> QED
        BY Zenon, <3>1, <3>2
    <2>2. CASE SenseFails
      BY Zenon, <2>2 DEF SenseFails, IInv, TypeOK, Anchored
    <2> QED
      BY Zenon, <2>1, <2>2
  <1>3. TypeOK'
    <2>1. /\ latched' \in BOOLEAN /\ prevNew' \in BOOLEAN /\ effDrive' \in BOOLEAN
          /\ effHalt' \in BOOLEAN /\ aligning' \in BOOLEAN /\ commanded' \in BOOLEAN
          /\ posOn' \in BOOLEAN
      BY Zenon, <1>1 DEF IInv, TypeOK
    <2> QED
      BY <1>1, <1>2, <2>1 DEF IInv, TypeOK
  <1>4. Anchored' /\ Abandoned'
    <2>1. plan' = plan /\ effHalt' = effHalt /\ (effHalt => ~plan.active)
      BY <1>1 DEF IInv, Abandoned
    <2>2. effHalt' => ~plan'.active
      BY <2>1
    <2> QED
      BY Zenon, <1>2, <2>2 DEF Anchored, Abandoned
  <1>5. PlanFollows'
    BY <1>1 DEF IInv, PlanFollows, Decided
  <1>6. TestFollows'
    BY <1>1 DEF IInv, TestFollows, Decided, Testing, Active
  <1> QED
    BY <1>3, <1>4, <1>5, <1>6 DEF IInv

(* What the arbiter decides: at a halt or a new set point the plan agrees  *)
(* with where the axis is, otherwise plan and hold position are untouched. *)
ArbiterResult ==
    /\ effDrive' \in BOOLEAN /\ effHalt' \in BOOLEAN /\ effLoop' \in Loop
    /\ commanded' \in BOOLEAN
    /\ plan' \in Planned /\ hold' \in Int
    /\ effHalt' => ~plan'.active
    /\ \/ plan' = plan /\ hold' = hold
       \/ plan'.active /\ plan'.at = Position /\ hold' = hold
       \/ ~plan'.active /\ effHalt' /\ ~effHalt /\ hold' = Position

LEMMA RemoteDecides ==
    ASSUME IInv, NEW m, NEW edge \in BOOLEAN, Remote(m, edge)
    PROVE  ArbiterResult
  <1>1. Position \in Int /\ plan \in Planned /\ hold \in Int /\ effLoop \in Loop
    BY PositionTyped DEF IInv, TypeOK, Planned
  <1>2. effDrive' \in BOOLEAN /\ (effHalt' <=> m = "hold") /\ effHalt' \in BOOLEAN
    <2>1. effDrive' = OperationEnabled(m) /\ effHalt' = (m = "hold")
      BY Zenon DEF Remote
    <2>2. OperationEnabled(m) \in BOOLEAN /\ (m = "hold") \in BOOLEAN
      BY SMT DEF OperationEnabled
    <2> QED
      BY Zenon, <2>1, <2>2
  <1>3. effLoop' \in Loop
    BY <1>1 DEF Remote, Loop
  <1>4. CASE m = "position" /\ edge
    <2>1. PICK t \in Targets : plan' = Start(t)
      BY <1>4 DEF Remote, HaltRises
    <2>2. commanded' = TRUE /\ hold' = hold /\ m # "hold"
      BY <1>4 DEF Remote, HaltRises
    <2>3. plan' \in Planned /\ plan'.active = TRUE /\ plan'.at = Position
      BY <1>1, <2>1 DEF Start, Planned
    <2> QED
      BY Zenon, <1>1, <1>2, <1>3, <2>2, <2>3 DEF ArbiterResult
  <1>5. CASE HaltRises(m)
    <2>1. plan' = NoPlan /\ commanded' = FALSE /\ hold' = Position /\ m = "hold" /\ ~effHalt
      BY <1>5 DEF Remote, HaltRises
    <2>2. plan' \in Planned /\ plan'.active = FALSE
      BY <2>1 DEF NoPlan, Planned
    <2> QED
      BY Zenon, <1>1, <1>2, <1>3, <2>1, <2>2 DEF ArbiterResult
  <1>6. CASE ~(m = "position" /\ edge) /\ ~HaltRises(m)
    <2>1. commanded' = (commanded /\ effDrive') /\ plan' = plan /\ hold' = hold
      BY Zenon, <1>6 DEF Remote
    <2>2. effHalt' => ~plan.active
      BY Zenon, <1>2, <1>6 DEF HaltRises, IInv, Abandoned
    <2>3. commanded' \in BOOLEAN
      BY Zenon, <2>1
    <2> QED
      BY Zenon, <1>1, <1>2, <1>3, <2>1, <2>2, <2>3 DEF ArbiterResult
  <1> QED
    BY Zenon, <1>4, <1>5, <1>6

LEMMA CommissionDecides == IInv /\ Commission => ArbiterResult
  <1> SUFFICES ASSUME IInv, Commission PROVE ArbiterResult
    OBVIOUS
  <1>1. plan \in Planned /\ hold \in Int
    BY DEF IInv, TypeOK, Planned
  <1>2. effDrive' \in BOOLEAN /\ effHalt' = FALSE /\ commanded' = (commanded /\ effDrive')
    BY Zenon DEF Commission
  <1>3. effLoop' \in Loop /\ plan' = plan /\ hold' = hold
    BY DEF Commission, Loop
  <1> QED
    BY Zenon, <1>1, <1>2, <1>3 DEF ArbiterResult

LEMMA ArbitrateDecides ==
    IInv /\ Arbitrate => ArbiterResult /\ latched' \in BOOLEAN /\ prevNew' \in BOOLEAN
  <1> SUFFICES ASSUME IInv, Arbitrate
               PROVE  ArbiterResult /\ latched' \in BOOLEAN /\ prevNew' \in BOOLEAN
    OBVIOUS
  <1>1. PICK c \in Commands, new \in BOOLEAN, trip \in BOOLEAN :
           /\ latched' = Latch(latched, c, trip)
           /\ prevNew' = new
           /\ Commission \/ Remote(ActiveMode(latched', c), new /\ ~prevNew)
    BY Zenon DEF Arbitrate
  <1>2. latched' \in BOOLEAN /\ prevNew' \in BOOLEAN /\ (new /\ ~prevNew) \in BOOLEAN
    BY Zenon, <1>1 DEF Latch
  <1> QED
    BY Zenon, <1>1, <1>2, RemoteDecides, CommissionDecides

LEMMA ArbitrateKeeps == IInv /\ Arbitrate => IInv'
  <1> SUFFICES ASSUME IInv, Arbitrate PROVE IInv'
    OBVIOUS
  <1>1. /\ mpc = "arbitrate" /\ mpc' = "align"
        /\ UNCHANGED <<anchor, home, aligning, test, posOn, reference>>
    BY DEF Arbitrate, Tick
  <1>2. ArbiterResult /\ latched' \in BOOLEAN /\ prevNew' \in BOOLEAN
    BY Zenon, ArbitrateDecides
  <1>3. Position' = Position /\ Position \in Int
    BY <1>1, PositionTyped DEF Position, IInv
  <1>4. TypeOK'
    <2>1. /\ tracking' \in BOOLEAN /\ locked' \in BOOLEAN /\ aligning' \in BOOLEAN
          /\ posOn' \in BOOLEAN
      BY Zenon, <1>1 DEF IInv, TypeOK
    <2> QED
      BY <1>1, <1>2, <2>1 DEF IInv, TypeOK, Planned, ArbiterResult
  <1>5. Anchored' /\ Abandoned'
    BY Zenon, <1>1, <1>2 DEF IInv, Anchored, Abandoned, ArbiterResult
  <1>6. PlanFollows'
    BY <1>1, <1>2, <1>3 DEF IInv, PlanFollows, Decided, ArbiterResult
  <1>7. TestFollows'
    BY <1>1, <1>2, <1>3 DEF IInv, TestFollows, Decided, Testing, Active, ArbiterResult
  <1> QED
    BY <1>4, <1>5, <1>6, <1>7 DEF IInv
LEMMA AlignKeeps == IInv /\ Align => IInv'
  <1> SUFFICES ASSUME IInv, Align PROVE IInv'
    OBVIOUS
  <1>1. /\ mpc = "align" /\ mpc' = "overlay"
        /\ UNCHANGED <<anchor, home, manager, effHalt, move, test, cascade>>
    BY DEF Align, Tick
  <1>2. aligning' \in BOOLEAN /\ effDrive' \in BOOLEAN
    BY Zenon DEF Align, IInv, TypeOK
  <1>3. effLoop' \in Loop
    BY DEF Align, IInv, TypeOK, Loop
  <1>4. TypeOK'
    <2>1. /\ tracking' \in BOOLEAN /\ locked' \in BOOLEAN /\ latched' \in BOOLEAN
          /\ prevNew' \in BOOLEAN /\ effHalt' \in BOOLEAN /\ commanded' \in BOOLEAN
          /\ posOn' \in BOOLEAN
      BY Zenon, <1>1 DEF IInv, TypeOK
    <2> QED
      BY <1>1, <1>2, <1>3, <2>1 DEF IInv, TypeOK
  <1>5. Anchored' /\ Abandoned'
    <2>1. effHalt' => ~plan'.active
      BY <1>1 DEF IInv, Abandoned
    <2> QED
      BY Zenon, <1>1, <2>1 DEF IInv, Anchored, Abandoned
  <1>6. PlanFollows'
    BY <1>1 DEF IInv, PlanFollows, Decided, Position
  <1>7. TestFollows'
    BY <1>1 DEF IInv, TestFollows, Decided, Testing, Active, Position
  <1> QED
    BY <1>4, <1>5, <1>6, <1>7 DEF IInv

(* The generator changes by at most one unit a tick, and keeps its loop.   *)
LEMMA UpdateSmall ==
    ASSUME NEW g \in Signal, NEW u \in Updated(g)
    PROVE  u \in Signal /\ (u.state # "idle" => g.state # "idle" /\ u.loop = g.loop)
  <1>1. CASE g.state = "idle"
    BY <1>1 DEF Updated, Signal, Idle
  <1>2. CASE g.state = "run"
    BY <1>2 DEF Updated, Signal, Idle
  <1>3. CASE g.state = "stop"
    BY <1>3 DEF Updated, Signal, Idle
  <1> QED
    BY <1>1, <1>2, <1>3 DEF Signal, Idle

LEMMA StopSmall ==
    ASSUME NEW g \in Signal, Active(g)
    PROVE  /\ Stopped(g) \in Signal
           /\ Stopped(g).state # "idle" => Stopped(g).loop = g.loop
  BY DEF Stopped, Signal, Idle, Active

(* A signal on the position loop after the overlay has either just been    *)
(* started, where the axis is, or was there before.                        *)
OverlayResult ==
    /\ gen' \in Signal /\ entry' \in Int
    /\ Testing' => \/ entry' = Position
                   \/ entry' = entry /\ Testing

LEMMA OverlayDecides == IInv /\ Overlay => OverlayResult
  <1> SUFFICES ASSUME IInv, Overlay PROVE OverlayResult
    OBVIOUS
  <1>1. gen \in Signal /\ entry \in Int /\ Position \in Int /\ effLoop \in Loop
    BY PositionTyped DEF IInv, TypeOK, Signal
  <1>2. PICK fire \in BOOLEAN, want \in {"off"} \cup Loop :
           /\ gen' \in Updated(IF want = "off" /\ Active(IF fire THEN Fired(gen, want) ELSE gen)
                               THEN Stopped(IF fire THEN Fired(gen, want) ELSE gen)
                               ELSE IF fire THEN Fired(gen, want) ELSE gen)
           /\ entry' = IF fire /\ want = "position" THEN Position ELSE entry
    BY <1>1 DEF Overlay
  <1>3. CASE fire /\ want # "off"
    <2> DEFINE g == [state |-> "run", loop |-> want, value |-> 0]
    <2>1. Fired(gen, want) = g
      BY <1>3 DEF Fired
    <2>2. gen' \in Updated(g)
      BY <1>2, <1>3, <2>1
    <2>3. g \in Signal /\ g.loop = want
      BY <1>2, <1>3 DEF Signal
    <2>4. gen' \in Signal /\ (gen'.state # "idle" => gen'.loop = want)
      BY <2>2, <2>3, UpdateSmall
    <2> QED
      BY <1>1, <1>2, <1>3, <2>4 DEF OverlayResult, Testing, Active
  <1>4. CASE ~(fire /\ want # "off")
    <2>1. (IF fire THEN Fired(gen, want) ELSE gen) = gen /\ entry' = entry
      BY <1>2, <1>4 DEF Fired
    <2>2. CASE want = "off" /\ Active(gen)
      <3> DEFINE g == Stopped(gen)
      <3>1. gen' \in Updated(g)
        BY <1>2, <2>1, <2>2
      <3>2. g \in Signal /\ (g.state # "idle" => g.loop = gen.loop)
        BY <1>1, <2>2, StopSmall
      <3>3. gen' \in Signal /\ (gen'.state # "idle" => g.state # "idle" /\ gen'.loop = g.loop)
        BY <3>1, <3>2, UpdateSmall
      <3> QED
        BY <1>1, <2>1, <2>2, <3>2, <3>3 DEF OverlayResult, Testing, Active
    <2>3. CASE ~(want = "off" /\ Active(gen))
      <3>1. gen' \in Updated(gen)
        BY <1>2, <2>1, <2>3
      <3>2. gen' \in Signal
            /\ (gen'.state # "idle" => gen.state # "idle" /\ gen'.loop = gen.loop)
        BY <1>1, <3>1, UpdateSmall
      <3> QED
        BY <1>1, <2>1, <3>2 DEF OverlayResult, Testing, Active
    <2> QED
      BY <2>2, <2>3
  <1> QED
    BY <1>3, <1>4

LEMMA OverlayKeeps == IInv /\ Overlay => IInv'
  <1> SUFFICES ASSUME IInv, Overlay PROVE IInv'
    OBVIOUS
  <1>1. /\ mpc = "overlay" /\ mpc' = "cascade"
        /\ UNCHANGED <<anchor, home, manager, eff, aligning, move, cascade>>
    BY DEF Overlay, Tick
  <1>2. OverlayResult
    BY OverlayDecides
  <1>3. TypeOK'
    <2>1. /\ tracking' \in BOOLEAN /\ locked' \in BOOLEAN /\ latched' \in BOOLEAN
          /\ prevNew' \in BOOLEAN /\ effDrive' \in BOOLEAN /\ effHalt' \in BOOLEAN
          /\ aligning' \in BOOLEAN /\ commanded' \in BOOLEAN /\ posOn' \in BOOLEAN
      BY Zenon, <1>1 DEF IInv, TypeOK
    <2> QED
      BY <1>1, <1>2, <2>1 DEF IInv, TypeOK, OverlayResult, Signal
  <1>4. Anchored' /\ Abandoned'
    <2>1. effHalt' => ~plan'.active
      BY <1>1 DEF IInv, Abandoned
    <2> QED
      BY Zenon, <1>1, <2>1 DEF IInv, Anchored, Abandoned
  <1>5. PlanFollows'
    BY <1>1 DEF IInv, PlanFollows, Decided, Position
  <1>6. TestFollows'
    <2> SUFFICES ASSUME posOn', Testing', reference' # "halt"
                 PROVE  \/ effHalt'
                        \/ Near(hold', entry' + gen'.value)
                        \/ entry' = Position'
      BY <1>1 DEF TestFollows, Decided
    <2>1. Position' = Position /\ hold' = hold
      BY <1>1 DEF Position
    <2>2. CASE entry' = Position
      BY <2>1, <2>2
    <2>3. CASE entry' = entry /\ Testing
      <3>1. effHalt \/ hold = entry + gen.value
        BY <1>1, <2>3 DEF IInv, TestFollows
      <3>2. gen.value \in {0, 1} /\ gen'.value \in {0, 1} /\ entry \in Int /\ hold \in Int
        BY <1>2 DEF IInv, TypeOK, OverlayResult, Signal, Idle
      <3>3. hold = entry + gen.value => Near(hold', entry' + gen'.value)
        BY <2>1, <2>3, <3>2 DEF Near
      <3> QED
        BY Zenon, <1>1, <3>1, <3>3
    <2> QED
      BY <1>2, <2>2, <2>3 DEF OverlayResult
  <1> QED
    BY <1>3, <1>4, <1>5, <1>6 DEF IInv

(* What the cascade demands, by source.                                    *)
LEMMA CascadeKeeps == IInv /\ Cascade => IInv'
  <1> SUFFICES ASSUME IInv, Cascade PROVE IInv'
    OBVIOUS
  <1>1. /\ mpc = "cascade" /\ mpc' = "home"
        /\ UNCHANGED <<anchor, home, manager, eff, aligning, commanded, test>>
    BY DEF Cascade, Tick
  <1>2. /\ tracking' \in BOOLEAN /\ locked' \in BOOLEAN /\ latched' \in BOOLEAN
        /\ prevNew' \in BOOLEAN /\ effDrive' \in BOOLEAN /\ effHalt' \in BOOLEAN
        /\ aligning' \in BOOLEAN /\ commanded' \in BOOLEAN
        /\ (locked' => tracking')
    BY Zenon, <1>1 DEF IInv, TypeOK, Anchored
  <1>3. /\ plan \in Planned /\ hold \in Int /\ entry \in Int /\ gen.value \in Int
        /\ Position \in Int /\ (effHalt => ~plan.active) /\ effHalt' = effHalt
        /\ gen' = gen /\ entry' = entry
    <2>1. effHalt => ~plan.active
      BY Zenon DEF IInv, Abandoned
    <2>2. plan \in Planned /\ hold \in Int /\ entry \in Int /\ Position \in Int
      BY PositionTyped DEF IInv, TypeOK, Planned
    <2>3. gen.value \in Int
      BY DEF IInv, TypeOK, Idle
    <2>4. effHalt' = effHalt /\ gen' = gen /\ entry' = entry
      BY <1>1
    <2> QED
      BY Zenon, <2>1, <2>2, <2>3, <2>4
  <1>4. /\ posOn' \in BOOLEAN /\ reference' \in {"none", "halt", "test", "plan", "hold"}
        /\ plan' \in Planned /\ hold' \in Int
        /\ (effHalt' => ~plan'.active)
        /\ PlanFollows' /\ TestFollows'
    <2>1. CASE OpenLoop
      <3>1. posOn' = FALSE /\ reference' = "none" /\ plan' = plan /\ hold' = hold
        BY Zenon, <2>1 DEF OpenLoop
      <3>2. effHalt' => ~plan'.active
        BY <1>3, <3>1
      <3> QED
        BY <1>3, <3>1, <3>2 DEF PlanFollows, TestFollows
    <2>2. CASE CloseLoop
      <3>1. /\ posOn' = TRUE /\ reference' = Source /\ hold' = Demand(Source)
            /\ plan' = IF Source = "plan" THEN Advance(plan) ELSE plan
        BY Zenon, <2>2 DEF CloseLoop
      <3>2. CASE effHalt
        <4>1. Source = "halt"
          BY <3>2 DEF Source
        <4>2. plan' = plan /\ reference' = "halt" /\ hold' \in Int
          BY <1>3, <3>1, <4>1 DEF Demand
        <4> QED
          BY <1>3, <3>1, <3>2, <4>2 DEF PlanFollows, TestFollows
      <3>3. CASE ~effHalt /\ Testing
        <4>1. Source = "test"
          BY <3>3 DEF Source, Testing
        <4>2. plan' = plan /\ reference' = "test" /\ hold' = entry + gen.value
          BY <3>1, <4>1 DEF Demand
        <4> QED
          BY <1>3, <3>1, <3>3, <4>2 DEF PlanFollows, TestFollows
      <3>4. CASE ~effHalt /\ ~Testing /\ plan.active
        <4>1. Source = "plan"
          BY <3>4 DEF Source, Testing
        <4>2. plan' = Advance(plan) /\ reference' = "plan" /\ hold' = plan'.at
          BY <3>1, <4>1 DEF Demand
        <4>3. plan \in [at : Int, to : Targets, active : {TRUE}]
          <5>1. ~NoPlan.active
            BY DEF NoPlan
          <5> QED
            BY Zenon, <1>3, <3>4, <5>1 DEF Planned
        <4>4. plan' \in Planned /\ plan'.at \in Int
          <5>1. Toward(plan.at, plan.to) \in Int
            BY <4>3 DEF Toward
          <5> QED
            BY <4>2, <4>3, <5>1 DEF Advance, Planned
        <4> QED
          BY <1>3, <3>1, <3>4, <4>2, <4>4 DEF PlanFollows, TestFollows, Testing, Active
      <3>5. CASE ~effHalt /\ ~Testing /\ ~plan.active
        <4>1. Source = "hold"
          BY <3>5 DEF Source, Testing
        <4>2. plan' = plan /\ reference' = "hold" /\ hold' \in Int
          BY <1>3, <3>1, <4>1 DEF Demand
        <4> QED
          BY <1>3, <3>1, <3>5, <4>2 DEF PlanFollows, TestFollows, Testing, Active
      <3> QED
        BY Zenon, <3>2, <3>3, <3>4, <3>5
    <2> QED
      BY Zenon, <2>1, <2>2 DEF Cascade
  <1>5. TypeOK'
    BY <1>1, <1>2, <1>4 DEF IInv, TypeOK, Planned
  <1> QED
    BY Zenon, <1>2, <1>4, <1>5 DEF IInv, Anchored, Abandoned

LEMMA EndTickKeeps == IInv /\ EndTick => IInv'
  <1> SUFFICES ASSUME IInv, EndTick PROVE IInv'
    OBVIOUS
  <1>1. /\ mpc = "home" /\ mpc' = "sense"
        /\ UNCHANGED <<anchor, manager, eff, aligning, move, test, cascade>>
        /\ home' \in Homes
    BY DEF EndTick, Tick, SetHome, IInv, TypeOK
  <1>2. TypeOK'
    <2>1. /\ tracking' \in BOOLEAN /\ locked' \in BOOLEAN /\ latched' \in BOOLEAN
          /\ prevNew' \in BOOLEAN /\ effDrive' \in BOOLEAN /\ effHalt' \in BOOLEAN
          /\ aligning' \in BOOLEAN /\ commanded' \in BOOLEAN /\ posOn' \in BOOLEAN
      BY Zenon, <1>1 DEF IInv, TypeOK
    <2> QED
      BY <1>1, <2>1 DEF IInv, TypeOK
  <1>3. Anchored' /\ Abandoned'
    <2>1. effHalt' => ~plan'.active
      BY <1>1 DEF IInv, Abandoned
    <2> QED
      BY Zenon, <1>1, <2>1 DEF IInv, Anchored, Abandoned
  <1>4. PlanFollows'
    BY <1>1 DEF IInv, PlanFollows, Decided
  <1>5. TestFollows'
    BY <1>1 DEF IInv, TestFollows, Decided, Testing, Active
  <1> QED
    BY <1>2, <1>3, <1>4, <1>5 DEF IInv

LEMMA StutterKeeps == IInv /\ UNCHANGED motionVars => IInv'
  <1> SUFFICES ASSUME IInv, UNCHANGED motionVars PROVE IInv'
    OBVIOUS
  <1>1. /\ UNCHANGED <<axis, tracking, est, locked, home, latched, prevNew, effDrive, effHalt>>
        /\ UNCHANGED <<effLoop, aligning, plan, gen, entry, posOn, hold, reference>>
        /\ UNCHANGED <<commanded, mpc>>
    BY Zenon DEF motionVars
  <1>2. Anchored' /\ Abandoned'
    <2>1. effHalt' => ~plan'.active
      BY <1>1 DEF IInv, Abandoned
    <2> QED
      BY Zenon, <1>1, <2>1 DEF IInv, Anchored, Abandoned
  <1>3. TypeOK'
    <2>1. /\ tracking' \in BOOLEAN /\ locked' \in BOOLEAN /\ latched' \in BOOLEAN
          /\ prevNew' \in BOOLEAN /\ effDrive' \in BOOLEAN /\ effHalt' \in BOOLEAN
          /\ aligning' \in BOOLEAN /\ commanded' \in BOOLEAN /\ posOn' \in BOOLEAN
      BY Zenon, <1>1 DEF IInv, TypeOK
    <2> QED
      BY <1>1, <2>1 DEF IInv, TypeOK
  <1>4. PlanFollows' /\ TestFollows'
    BY <1>1 DEF IInv, PlanFollows, TestFollows, Decided, Testing, Active, Position
  <1> QED
    BY <1>2, <1>3, <1>4 DEF IInv

LEMMA Invariant == Spec => []IInv
  <1>1. IInv /\ [Next]_motionVars => IInv'
    BY Zenon, ReadEncoderKeeps, ArbitrateKeeps, AlignKeeps, OverlayKeeps, CascadeKeeps,
       EndTickKeeps, StutterKeeps DEF Next
  <1> QED
    BY InitIInv, <1>1, PTL DEF Spec
-----------------------------------------------------------------------------
(* The properties.                                                         *)

(* Type correctness: a position stays a whole number of units, and plan    *)
(* and generator are in one of their states.                               *)
THEOREM TypeCorrect == Spec => []TypeOK
  <1>1. IInv => TypeOK
    BY DEF IInv
  <1> QED
    BY <1>1, Invariant, PTL

(* The steps that leave the demand alone.                                  *)
LEMMA DemandKept ==
    ReadEncoder \/ Align \/ Overlay \/ EndTick \/ UNCHANGED motionVars => hold' = hold
  BY DEF ReadEncoder, Align, Overlay, EndTick, motionVars

(* In a closed loop under a halt the demand is the held position.          *)
LEMMA HaltedDemand == CloseLoop /\ posOn /\ effHalt => hold' = hold
  BY DEF CloseLoop, Source, Demand

(* A halted drive holds one position, without a plan, whatever commands,   *)
(* set points and test signals come and however the axis is pushed         *)
(* (medium loop, ADR-035).  A halt abandons the plan and is not captured   *)
(* again while it lasts.                                                   *)
THEOREM HaltHeld == Spec => HaltHolds
  <1>1. ASSUME IInv, [Next]_motionVars, IInv', posOn, posOn', effHalt, effHalt'
        PROVE  hold' = hold /\ ~plan'.active
    <2>1. ~plan'.active
      BY Zenon, <1>1 DEF IInv, Abandoned
    <2>2. CASE Arbitrate
      <3>1. ArbiterResult
        BY Zenon, <1>1, <2>2, ArbitrateDecides
      <3> QED
        BY Zenon, <1>1, <2>1, <3>1 DEF ArbiterResult
    <2>3. CASE Cascade
      <3>1. CloseLoop
        BY Zenon, <1>1, <2>3 DEF Cascade, OpenLoop
      <3> QED
        BY Zenon, <1>1, <2>1, <3>1, HaltedDemand
    <2> QED
      BY Zenon, <1>1, <2>1, <2>2, <2>3, DemandKept DEF Next
  <1>2. IInv /\ [Next]_motionVars /\ IInv' =>
            [posOn /\ posOn' /\ effHalt /\ effHalt' => hold' = hold /\ ~plan'.active]_motionVars
    BY Zenon, <1>1
  <1> QED
    BY <1>2, Invariant, PTL DEF Spec, HaltHolds

(* A locked turn count never shifts again (mc_scheduler.c, where the       *)
(* encoder is read; ADR-038): every reading moves the estimate by what the *)
(* axis moved.  It needs that a locked anchor was seeded before.           *)
THEOREM AnchorKept == Spec => AnchorFrozen
  <1>1. ASSUME IInv, [Next]_motionVars, locked
        PROVE  locked' /\ axis' - est' = axis - est
    <2>1. tracking /\ axis \in Int /\ est \in Int
      BY <1>1 DEF IInv, TypeOK, Anchored
    <2>2. CASE UNCHANGED anchor
      BY <1>1, <2>2
    <2>3. CASE Sense
      <3>1. PICK a \in Axis :
              /\ Near(a, axis) /\ axis' = a
              /\ est' = IF locked' THEN Continuous(a) ELSE home + Wrap((a % Turn) - home)
        BY <2>3 DEF Sense
      <3>2. locked'
        BY Zenon, <1>1, <2>3 DEF Sense
      <3>3. a - axis \in -1 .. 1 /\ a \in Int
        BY <2>1, <3>1 DEF Near
      <3>4. Wrap(a - axis) = a - axis
        BY <3>3, WrapSmall
      <3>5. est' = est + (a - axis)
        BY <2>1, <3>1, <3>2, <3>4 DEF Continuous
      <3> QED
        BY <2>1, <3>1, <3>2, <3>3, <3>5
    <2>4. UNCHANGED anchor \/ Sense
      BY Zenon, <1>1
         DEF Next, ReadEncoder, SenseFails, Arbitrate, Align, Overlay, Cascade, EndTick, motionVars
    <2> QED
      BY <2>2, <2>3, <2>4
  <1>2. IInv /\ [Next]_motionVars => [locked => locked' /\ axis' - est' = axis - est]_motionVars
    BY Zenon, <1>1
  <1> QED
    BY <1>2, Invariant, PTL DEF Spec, AnchorFrozen

(* What a closed loop demands next.                                        *)
DemandSteps == \/ Near(hold', hold)
               \/ Near(hold', Position')
               \/ <<reference, reference'>> \in {<<"test", "plan">>, <<"halt", "test">>}

LEMMA CloseLoopSteps == IInv /\ Cascade /\ CloseLoop /\ posOn => DemandSteps
  <1> SUFFICES ASSUME IInv, Cascade, CloseLoop, posOn PROVE DemandSteps
    OBVIOUS
  <1>1. /\ hold \in Int /\ entry \in Int /\ Position \in Int /\ Position' = Position
        /\ mpc = "cascade"
    BY PositionTyped DEF IInv, TypeOK, Cascade, Tick, Position
  <1>2. /\ reference' = Source /\ hold' = Demand(Source)
        /\ plan' = IF Source = "plan" THEN Advance(plan) ELSE plan
    BY Zenon DEF CloseLoop
  <1>3. gen.value \in {0, 1}
    BY DEF IInv, TypeOK, Idle
  <1>4. CASE Source \in {"halt", "hold"}
    <2>1. hold' = hold
      BY <1>2, <1>4 DEF Demand
    <2> QED
      BY <1>1, <2>1 DEF DemandSteps, Near
  <1>5. CASE Source = "test"
    <2>1. hold' = entry + gen.value /\ reference' = "test"
      BY <1>2, <1>5 DEF Demand
    <2>2. Testing /\ ~effHalt
      BY <1>5 DEF Source, Testing
    <2>3. CASE reference = "halt"
      BY <2>1, <2>3 DEF DemandSteps
    <2>4. CASE reference # "halt"
      <3>1. \/ hold = entry + gen.value
            \/ Near(hold, entry + gen.value)
            \/ entry = Position
        BY Zenon, <2>2, <2>4 DEF IInv, TestFollows
      <3> QED
        BY <1>1, <1>3, <2>1, <3>1 DEF DemandSteps, Near
    <2> QED
      BY <2>3, <2>4
  <1>6. CASE Source = "plan"
    <2>1. plan.active
      BY <1>6 DEF Source
    <2>2. plan \in [at : Int, to : Targets, active : {TRUE}]
      <3>1. ~NoPlan.active
        BY DEF NoPlan
      <3> QED
        BY Zenon, <2>1, <3>1 DEF IInv, TypeOK
    <2>3. hold' = Toward(plan.at, plan.to) /\ reference' = "plan"
      BY <1>2, <1>6, <2>2 DEF Demand, Advance
    <2>4. CASE reference = "test"
      BY <2>3, <2>4 DEF DemandSteps
    <2>5. CASE reference # "test"
      <3>1. plan.at = hold \/ plan.at = Position
        BY Zenon, <2>1, <2>5 DEF IInv, PlanFollows
      <3>2. Near(hold', plan.at)
        BY <2>2, <2>3 DEF Toward, Near
      <3> QED
        BY <1>1, <3>1, <3>2 DEF DemandSteps
    <2> QED
      BY <2>4, <2>5
  <1> QED
    BY <1>4, <1>5, <1>6 DEF Source

(* While the position loop is closed the demand goes on from where it was  *)
(* or starts where the axis is, except when an interrupted plan or test    *)
(* goes on (position cascade of the medium loop).  A plan and a test carry *)
(* their own position: PlanFollows and TestFollows say that it agrees with *)
(* the demand when they take over.                                         *)
THEOREM DemandContinuous == Spec => DemandNeverJumps
  <1>1. ASSUME IInv, [Next]_motionVars, posOn, posOn'
        PROVE  DemandSteps
    <2>1. hold \in Int /\ Position \in Int
      BY <1>1, PositionTyped DEF IInv, TypeOK
    <2>2. CASE hold' = hold
      BY <2>1, <2>2 DEF DemandSteps, Near
    <2>3. CASE Arbitrate
      <3>1. ArbiterResult
        BY Zenon, <1>1, <2>3, ArbitrateDecides
      <3>2. Position' = Position
        BY <2>3 DEF Arbitrate, Position
      <3>3. hold' = hold \/ hold' = Position
        BY Zenon, <3>1 DEF ArbiterResult
      <3> QED
        BY <2>1, <3>2, <3>3 DEF DemandSteps, Near
    <2>4. CASE Cascade
      <3>1. CloseLoop
        BY Zenon, <1>1, <2>4 DEF Cascade, OpenLoop
      <3> QED
        BY Zenon, <1>1, <2>4, <3>1, CloseLoopSteps
    <2> QED
      BY Zenon, <1>1, <2>2, <2>3, <2>4, DemandKept DEF Next
  <1>2. IInv /\ [Next]_motionVars =>
            [posOn /\ posOn' =>
                \/ Near(hold', hold)
                \/ Near(hold', Position')
                \/ <<reference, reference'>> \in
                       {<<"test", "plan">>, <<"halt", "test">>}]_motionVars
    BY Zenon, <1>1 DEF DemandSteps
  <1> QED
    BY <1>2, Invariant, PTL DEF Spec, DemandNeverJumps
===============================================================================
