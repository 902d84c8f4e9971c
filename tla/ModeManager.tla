----------------------------- MODULE ModeManager -----------------------------
(***************************************************************************)
(* src/src/mc_mode_manager.c: the simplified CiA-402 state machine that    *)
(* MC_ModeManager_Update runs once per medium tick.  Its state (the fault  *)
(* latch and the active mode) belongs to the module that calls it; here    *)
(* are the functions from a command to that state.                         *)
(*                                                                         *)
(* A command is the part of the controlword and mode of operation that the *)
(* state machine reads.  "run" is the negation of quick stop, because the  *)
(* controlword bit is 0 while quick stop is active.  NEW_SETPOINT only     *)
(* starts a trajectory and is not part of this command.                    *)
(***************************************************************************)

Operation == {"torque", "velocity", "position", "unroutable"}

DriveCommand == [run : BOOLEAN, enable : BOOLEAN, halt : BOOLEAN, reset : BOOLEAN,
                 op : Operation]

Mode == {"disabled", "quickStop", "hold", "torque", "velocity", "position", "fault"}

(* A controlword of zero is an active quick stop: the drive boots stopped. *)
BootCommand == [run |-> FALSE, enable |-> FALSE, halt |-> FALSE, reset |-> FALSE,
                op |-> "unroutable"]

(* A severe fault latches; a reset is honoured only without one.           *)
Latch(latched, command, severe) == severe \/ (latched /\ ~command.reset)

(* Mutant: halt is looked at before enable.                                *)
RouteHaltFirst(command) ==
    CASE ~command.run     -> "quickStop"
      [] command.run /\ command.halt -> "hold"
      [] OTHER            -> IF command.enable /\ command.op # "unroutable"
                             THEN command.op ELSE "disabled"

(* Where a command leads when no fault is latched.                         *)
Route(command) ==
    LET following == command.run /\ command.enable
    IN  CASE ~command.run               -> "quickStop"
          [] following /\ command.halt  -> "hold"
          [] following /\ ~command.halt /\ command.op # "unroutable" -> command.op
          [] OTHER                      -> "disabled"

ActiveMode(latched, command) == IF latched THEN "fault" ELSE Route(command)

OperationEnabled(mode) == mode \in {"hold", "torque", "velocity", "position"}
==============================================================================
