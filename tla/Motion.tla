------------------------------- MODULE Motion -------------------------------
(***************************************************************************)
(* Where the axis is told to be: the position reference of the medium loop *)
(* (src/src/mc_scheduler.c) with the trajectory plan of mc_trajectory.c,   *)
(* the test-signal generator of mc_signal_gen.c and the position anchor of *)
(* mc_state_estimator.c.                                                   *)
(*                                                                         *)
(* A medium tick is a step per stretch of code that reads s_oc_trip: the   *)
(* fast loop is all that preempts it, and a trip may come or be cleared    *)
(* (a debugger may do so at any instant) between any two reads.  Commands  *)
(* and requests come between ticks and are chosen where they are read.     *)
(*                                                                         *)
(* Positions are whole units.  A plan moves one unit a tick (its profile   *)
(* is left out), the test signal has an amplitude of one unit, and the     *)
(* axis moves at most one unit, less than half a turn, between two         *)
(* readings, driven, pushed or turned by hand.                             *)
(***************************************************************************)
EXTENDS Integers, ModeManager

CONSTANTS Commands,     \* the commands the host sends
          Targets,      \* target positions, relative to home, after the soft limits
          Axis,         \* bound: where the axis goes
          Homes,        \* bound: home offsets
          Turn          \* units per turn

ASSUME MotionAssumption ==
    /\ Commands \subseteq DriveCommand
    /\ Targets \subseteq Int /\ Axis \subseteq Nat /\ Homes \subseteq Int
    /\ Turn \in Nat /\ Turn >= 3 /\ Turn % 2 = 1

VARIABLES
    axis,      \* the physical position, counted from the encoder's zero at power-on
    tracking,  \* s_est.has_prev
    est,       \* s_est.mechanical.position_rad
    locked,    \* s_pos_locked
    home,      \* s_home_offset_rad
    latched,   \* s_fault_latched
    prevNew,   \* s_prev_new_setpoint
    effDrive,  \* s_eff_drive
    effHalt,   \* s_eff_halt
    effLoop,   \* s_eff_torque_mode and s_eff_position_mode: the outermost loop closed
    aligning,  \* s_align_state is MC_ALIGN_RUN
    plan,      \* s_traj: its next set point and its target, NoPlan when not active
    gen,       \* s_sig_gen, s_sig_loop and s_sig_value
    entry,     \* s_pos_tune_entry_rad
    posOn,     \* s_pos_on
    hold,      \* s_pos_hold_rad; while posOn also the position demanded last
    reference, \* history: where the demand came from
    commanded, \* history: the plan was started since the arbiter last switched off
    mpc        \* where the medium tick is

anchor  == <<axis, tracking, est, locked>>
manager == <<latched, prevNew>>
eff     == <<effDrive, effHalt, effLoop>>
test    == <<gen, entry>>
cascade == <<posOn, hold, reference>>
move    == <<plan, commanded>>
motionVars == <<anchor, home, manager, eff, aligning, move, test, cascade, mpc>>

Loop   == {"torque", "velocity", "position"}
NoPlan == [at |-> 0, to |-> 0, active |-> FALSE]
Idle   == [state |-> "idle", loop |-> "off", value |-> 0]

(* Every boot: home is restored, the rest is as the init functions leave it. *)
Init == /\ axis \in Axis /\ home \in Homes
        /\ tracking = FALSE /\ est = 0 /\ locked = FALSE
        /\ latched = FALSE /\ prevNew = FALSE
        /\ effDrive = FALSE /\ effHalt = FALSE /\ effLoop = "velocity"
        /\ aligning = FALSE /\ plan = NoPlan /\ commanded = FALSE /\ gen = Idle /\ entry = 0
        /\ posOn = FALSE /\ hold = 0 /\ reference = "none"
        /\ mpc = "sense"

Near(a, b) == a - b \in -1 .. 1
Position   == est - home
Tick(from, to) == mpc = from /\ mpc' = to

-----------------------------------------------------------------------------
(* The encoder, the turn count and its anchor *)

Wrap(d) == CHOOSE w \in -(Turn \div 2) .. Turn \div 2 : (w - d) % Turn = 0

(* MC_StateEstimator_Update, with the axis now at a.                       *)
Continuous(a) == IF tracking THEN est + Wrap(a - axis) ELSE a % Turn

(* Mutant: the anchor is not locked for good, only while the drive is on.  *)
SenseUnlocks ==
    \E a \in Axis :
        /\ Near(a, axis)
        /\ axis' = a /\ tracking' = TRUE
        /\ locked' = effDrive
        /\ est' = IF locked' THEN Continuous(a) ELSE home + Wrap((a % Turn) - home)

Sense == \E a \in Axis :
    /\ Near(a, axis)
    /\ axis' = a /\ tracking' = TRUE
    /\ locked' = (locked \/ effDrive)
    /\ est' = IF locked' THEN Continuous(a) ELSE home + Wrap((a % Turn) - home)

SenseFails == UNCHANGED anchor

ReadEncoder == /\ Tick("sense", "arbitrate")
               /\ Sense \/ SenseFails
               /\ UNCHANGED <<home, manager, eff, aligning, move, test, cascade>>

-----------------------------------------------------------------------------
(* The arbiter *)

Commission == /\ effDrive' \in BOOLEAN /\ effLoop' \in {"torque", "velocity"}
              /\ effHalt' = FALSE
              /\ commanded' = (commanded /\ effDrive')
              /\ UNCHANGED <<plan, hold>>

(* Mutant: the halt position is captured at every tick.                    *)
HaltRecaptures(m) == m = "hold"

HaltRises(m) == m = "hold" /\ ~effHalt

(* MC_Trajectory_Start: its limits are made valid before, so it succeeds.  *)
Start(target) == [at |-> Position, to |-> target, active |-> TRUE]

Remote(m, edge) ==
    /\ effDrive' = OperationEnabled(m)
    /\ effHalt' = (m = "hold")
    /\ effLoop' = CASE m \in Loop -> m
                    [] m = "hold" -> "position"
                    [] OTHER -> IF effLoop = "position" THEN "velocity" ELSE effLoop
    /\ \/ /\ m = "position" /\ edge
          /\ \E t \in Targets : plan' = Start(t)
          /\ commanded' = TRUE /\ UNCHANGED hold
       \/ /\ HaltRises(m)
          /\ plan' = NoPlan /\ commanded' = FALSE /\ hold' = Position
       \/ /\ ~(m = "position" /\ edge) /\ ~HaltRises(m)
          /\ commanded' = (commanded /\ effDrive') /\ UNCHANGED <<plan, hold>>

(* The mode manager runs first and eats the edge of NEW_SETPOINT whatever  *)
(* the mode.                                                               *)
Arbitrate == /\ Tick("arbitrate", "align")
             /\ \E c \in Commands, new \in BOOLEAN, trip \in BOOLEAN :
                    /\ latched' = Latch(latched, c, trip)
                    /\ prevNew' = new
                    /\ \/ Commission
                       \/ Remote(ActiveMode(latched', c), new /\ ~prevNew)
             /\ UNCHANGED <<anchor, home, aligning, test, posOn, reference>>

(* The alignment routine takes the drive away while it runs.  How it runs  *)
(* is in module Drive.                                                     *)
Align == /\ Tick("align", "overlay")
         /\ \/ /\ aligning \/ ~effDrive          \* it runs, or holds for the last time
               /\ aligning' \in BOOLEAN /\ effDrive' = FALSE
               /\ effLoop' = IF effLoop = "torque" THEN "velocity" ELSE effLoop
            \/ /\ aligning' = FALSE              \* there is no request, or a trip
               /\ UNCHANGED <<effDrive, effLoop>>
         /\ UNCHANGED <<anchor, home, manager, effHalt, move, test, cascade>>

-----------------------------------------------------------------------------
(* The test-signal overlay *)

Active(g) == g.state # "idle"

(* What a trigger makes of the generator when loop is armed and enabled.   *)
Fired(g, loop) == IF loop = "off" THEN g
                  ELSE [state |-> "run", loop |-> loop, value |-> 0]

(* MC_SignalGen_Stop, once its conditions are lost.                        *)
Stopped(g) == IF g.value = 0 THEN Idle ELSE [g EXCEPT !.state = "stop"]

(* Mutant: a signal that ends stays latched to its loop.                   *)
UpdatedLatched(g) == {g, [g EXCEPT !.state = "idle", !.value = 0]}

(* MC_SignalGen_Update: a running signal goes up and down and, when it is  *)
(* not continuous, ends at zero; a stopped one goes to zero.               *)
Updated(g) == CASE g.state = "idle" -> {Idle}
                [] g.state = "run"  -> {Idle, [g EXCEPT !.value = 0], [g EXCEPT !.value = 1]}
                [] g.state = "stop" -> {Idle, g}

Overlay == /\ Tick("overlay", "cascade")
           /\ \E trip \in BOOLEAN, fire \in BOOLEAN :
              \E want \in {"off"} \cup (IF effDrive /\ ~trip THEN {effLoop} ELSE {}) :
                 LET fired == IF fire THEN Fired(gen, want) ELSE gen
                 IN  /\ gen' \in Updated(IF want = "off" /\ Active(fired)
                                         THEN Stopped(fired) ELSE fired)
                     /\ entry' = IF fire /\ want = "position" THEN Position ELSE entry
           /\ UNCHANGED <<anchor, home, manager, eff, aligning, move, cascade>>

-----------------------------------------------------------------------------
(* The position cascade *)

Toward(a, b) == CASE a < b -> a + 1 [] a > b -> a - 1 [] OTHER -> a

Advance(p) == [p EXCEPT !.at = Toward(p.at, p.to)]

(* Mutant: without a plan the evaluated plan, zero, is demanded.           *)
DemandZero(source) ==
    CASE source = "test" -> entry + gen.value
      [] source = "plan" -> plan'.at
      [] source = "halt" -> IF posOn THEN hold ELSE Position
      [] source = "hold" -> 0

Demand(source) == CASE source = "test" -> entry + gen.value
                    [] source = "plan" -> plan'.at
                    [] OTHER -> IF posOn THEN hold ELSE Position

Source == CASE effHalt -> "halt"
            [] ~effHalt /\ Active(gen) /\ gen.loop = "position" -> "test"
            [] OTHER -> IF plan.active THEN "plan" ELSE "hold"

CloseLoop == /\ effDrive /\ effLoop = "position"
             /\ posOn' = TRUE
             /\ reference' = Source
             /\ plan' = IF Source = "plan" THEN Advance(plan) ELSE plan
             /\ hold' = Demand(Source)

OpenLoop == /\ posOn' = FALSE /\ reference' = "none"
            /\ UNCHANGED <<plan, hold>>

(* Without a trip the loop is closed when it can be.                       *)
Cascade == /\ Tick("cascade", "home")
           /\ CloseLoop \/ OpenLoop
           /\ UNCHANGED <<anchor, home, manager, eff, aligning, commanded, test>>

(* At the end of the tick home is captured on request, also while the      *)
(* position loop is closed; hold, plan and entry keep the old origin.      *)
SetHome == est \in Homes /\ home' = est

EndTick == /\ Tick("home", "sense")
           /\ SetHome \/ UNCHANGED home
           /\ UNCHANGED <<anchor, manager, eff, aligning, move, test, cascade>>

Next == ReadEncoder \/ Arbitrate \/ Align \/ Overlay \/ Cascade \/ EndTick

Spec == Init /\ [][Next]_motionVars

-----------------------------------------------------------------------------
(* Properties *)

(* Type invariant of the module.                                           *)
TypeOK ==
    /\ axis \in Axis /\ home \in Homes /\ est \in Int
    /\ tracking \in BOOLEAN /\ locked \in BOOLEAN
    /\ latched \in BOOLEAN /\ prevNew \in BOOLEAN
    /\ effDrive \in BOOLEAN /\ effHalt \in BOOLEAN /\ effLoop \in Loop
    /\ aligning \in BOOLEAN /\ commanded \in BOOLEAN
    /\ plan \in [at : Int, to : Targets, active : {TRUE}] \cup {NoPlan}
    /\ gen \in [state : {"run", "stop"}, loop : Loop, value : {0, 1}] \cup {Idle}
    /\ entry \in Int /\ hold \in Int /\ posOn \in BOOLEAN
    /\ reference \in {"none", "halt", "test", "plan", "hold"}
    /\ mpc \in {"sense", "arbitrate", "align", "overlay", "cascade", "home"}

(* A halted drive holds one position: not re-captured however the axis is  *)
(* pushed, not moved by set points, plans or test signals that arrive or   *)
(* run meanwhile (ADR-035), as long as nothing takes the drive away.       *)
HaltHolds == [][posOn /\ posOn' /\ effHalt /\ effHalt' =>
                    hold' = hold /\ ~plan'.active]_motionVars

(* While the position loop is closed the demand never jumps, except to     *)
(* where the axis is, and in two cases where an interrupted source goes    *)
(* on: a plan when a test ends, a test when a halt ends.                   *)
DemandNeverJumps ==
    [][posOn /\ posOn' => \/ Near(hold', hold)
                          \/ Near(hold', Position')
                          \/ <<reference, reference'>> \in
                                 {<<"test", "plan">>, <<"halt", "test">>}]_motionVars

(* Once the drive has moved under a reading the turn count is kept: the    *)
(* anchor never shifts again, however far the axis goes, whatever home is  *)
(* set and although the drive is switched off in between (ADR-038).        *)
AnchorFrozen == [][locked => locked' /\ axis' - est' = axis - est]_motionVars

(* A drive that is switched on in position mode holds where it is until a  *)
(* move is commanded (mc_scheduler.c, where the position loop is entered). *)
(* It does not: a plan left active, finished or not, takes it along.       *)
EntryHolds == [][~posOn /\ posOn' /\ ~commanded /\ ~Active(gen)
                    => hold' = Position']_motionVars
==============================================================================
