-------------------------------- MODULE Drive --------------------------------
(***************************************************************************)
(* Who may energise the power stage: the 20 kHz fast loop, the command     *)
(* arbiter and alignment routine of the 1 kHz medium loop, and the PWM     *)
(* backend (src/src/mc_scheduler.c, mc_current_sense_stm32g474.c,          *)
(* mc_pwm_stm32g474.c).                                                    *)
(*                                                                         *)
(* The fast loop (ADC interrupt, priority 0) preempts the medium loop      *)
(* (TIM7, priority 2), which preempts the SPI handler that writes the      *)
(* command (priority 3) and the main loop.  So a fast tick is one step,    *)
(* a medium tick is a step per stretch of code between two accesses to     *)
(* what they share, and everybody else acts between medium ticks.          *)
(*                                                                         *)
(* Set-point values (trajectory, position and velocity cascade, test       *)
(* signal) never decide whether the stage is on and are left out.          *)
(***************************************************************************)
EXTENDS Naturals, ModeManager

CONSTANTS Commands,     \* the commands the network MCU sends
          Bench,        \* a debugger writes the watch window
          Brushed,      \* the motor's own backend is the H bridge (fixed by the build)
          HoldTicks,    \* cal_align_hold_ms, in medium ticks
          CalSamples    \* samples averaged by an offset calibration (2000)

ASSUME DriveAssumption == /\ Commands \subseteq DriveCommand
                          /\ Bench \in BOOLEAN /\ Brushed \in BOOLEAN
                          /\ HoldTicks \in Nat
                          /\ CalSamples \in Nat \ {0}

VARIABLES
    command,     \* g_od.controlword and modes_of_operation
    inject,      \* g_mc_inject: the watch-window command, "remote" when not enabled
    backend,     \* "foc", or the H bridge with its current controller ("loop") or with it
                 \* bypassed ("bypass"): brushed_backend and hb_open_loop of g_mc_inject
    clearFault,  \* g_mc_inject.clear_fault
    offsetReq,   \* g_mc_inject.request_offset_cal
    alignReq,    \* g_mc_inject.request_align_routine
    captureReq,  \* g_mc_inject.request_align_capture or request_set_mech_zero
    latched,     \* s_fault_latched
    mode,        \* s_status.active_mode
    effDrive,    \* s_eff_drive
    effOpen,     \* s_eff_align with a voltage (s_eff_align_v) other than zero
    aligning,    \* s_align_state is MC_ALIGN_RUN
    alignTicks,  \* s_align_ticks_left
    calStatus,   \* g_od.cal_status
    unsaved,     \* measured calibration data that no save has gathered yet
    trip,        \* s_oc_trip
    hot,         \* s_currents is valid and above the trip limit
    calCount,    \* s_cal_n; 0 while no offset calibration is under way
    output,      \* what the fast loop does with the stage; s_pwm_on is output # "off"
    armed,       \* the timer channels are enabled
    moe,         \* the timer's main output enable
    mpc,         \* where the medium tick is
    fastRan,     \* a fast tick has run since the last medium tick ended
    heeded,      \* history: the command the mode manager saw at its last update
    source       \* history: who the arbiter last obeyed

window    == <<inject, backend>>
requests  == <<clearFault, offsetReq, alignReq, captureReq>>
arbiter   == <<latched, mode, effDrive, effOpen, heeded, source>>
alignment == <<aligning, alignTicks, calStatus>>
stage     == <<trip, hot, calCount, output, armed, moe>>
vars      == <<command, window, requests, arbiter, alignment, unsaved, stage, mpc, fastRan>>

Injected  == {"remote", "idle", "foc", "voltage"}
Backend   == {"loop", "bypass"} \cup (IF Brushed THEN {} ELSE {"foc"})
Data      == {"offsets"}
CalStatus == {"none", "align", "offset", "zero", "fault"}
Output    == {"off", "closed", "open", "bridge"}

Init == /\ command = BootCommand
        /\ inject = "remote" /\ backend = IF Brushed THEN "loop" ELSE "foc"
        /\ clearFault = FALSE /\ offsetReq = FALSE /\ alignReq = FALSE /\ captureReq = FALSE
        /\ latched = FALSE /\ mode = "disabled"
        /\ heeded = BootCommand /\ source = "remote"
        /\ effDrive = FALSE /\ effOpen = FALSE
        /\ aligning = FALSE /\ alignTicks = 0 /\ calStatus = "none"
        /\ unsaved = {}
        /\ trip = FALSE /\ hot = FALSE /\ calCount = 0
        /\ output = "off" /\ armed = FALSE /\ moe = FALSE
        /\ mpc = "idle" /\ fastRan = FALSE

-----------------------------------------------------------------------------
(* The fast loop *)

(* Mutant: the sample count is not reset when the average is complete.     *)
CalibrateNoReset ==
    /\ offsetReq
    /\ hot' = hot
    /\ \/ /\ calCount + 1 < CalSamples
          /\ calCount' = calCount + 1
          /\ UNCHANGED <<offsetReq, unsaved>>
       \/ /\ calCount + 1 >= CalSamples
          /\ calCount' = calCount + 1
          /\ offsetReq' = FALSE
          /\ unsaved' = unsaved \cup {"offsets"}

(* MC_CurrentSense_CalibrateOffsets: the currents keep their last reading. *)
CalibrateOffsets ==
    /\ offsetReq
    /\ hot' = hot
    /\ \/ /\ calCount + 1 < CalSamples
          /\ calCount' = calCount + 1
          /\ UNCHANGED <<offsetReq, unsaved>>
       \/ /\ calCount + 1 = CalSamples
          /\ calCount' = 0
          /\ offsetReq' = FALSE
          /\ unsaved' = unsaved \cup {"offsets"}

ReadFast == /\ ~offsetReq
            /\ hot' \in BOOLEAN
            /\ UNCHANGED <<calCount, offsetReq, unsaved>>

(* Mutant: the reset flag is not cleared when it has been obeyed.          *)
MonitorKeepsFlag == /\ trip' = (hot' \/ (trip /\ ~clearFault))
                    /\ clearFault' = clearFault

(* The over-current monitor: a reset first, then the new reading.          *)
Monitor == /\ trip' = (hot' \/ (trip /\ ~clearFault))
           /\ clearFault' = FALSE

(* Mutants: a trip, or a calibration under way, does not block the stage.  *)
BlockedByRequest == offsetReq
BlockedByTrip    == trip

Blocked == trip \/ offsetReq

(* The backend is chosen at every tick, whoever drives.  The H bridge runs *)
(* its current controller or, when it is bypassed, a voltage set by hand.  *)
Demand == CASE effDrive /\ backend = "bypass" -> "bridge"
            [] effDrive /\ backend # "bypass" -> "closed"
            [] ~effDrive /\ effOpen /\ backend = "foc" -> "open"
            [] OTHER -> "off"

(* The HAL starts a channel once: later calls find it busy and return.     *)
MC_Pwm_Start == armed' = TRUE /\ moe' = (moe \/ ~armed)

(* __HAL_TIM_MOE_DISABLE does nothing while a channel is enabled.          *)
MC_Pwm_ForceSafeOff == UNCHANGED armed /\ moe' = (moe /\ armed)

SwitchStage ==
    /\ output' = IF Blocked' THEN "off" ELSE Demand
    /\ \/ output = "off" /\ output' # "off" /\ MC_Pwm_Start
       \/ output # "off" /\ output' = "off" /\ MC_Pwm_ForceSafeOff
       \/ (output = "off") = (output' = "off") /\ UNCHANGED <<armed, moe>>

FastTick == /\ CalibrateOffsets \/ ReadFast
            /\ Monitor
            /\ SwitchStage
            /\ fastRan' = (mpc = "idle")
            /\ UNCHANGED <<command, window, alignReq, captureReq, arbiter, alignment, mpc>>

-----------------------------------------------------------------------------
(* The medium loop.  Twenty fast ticks fit in its period, so at least one  *)
(* runs between two medium ticks.                                          *)

Update == /\ mpc = "idle" /\ fastRan
          /\ latched' = Latch(latched, command, trip)
          /\ mode' = ActiveMode(latched', command)
          /\ heeded' = command
          /\ mpc' = "arbitrate"
          /\ UNCHANGED <<command, window, requests, effDrive, effOpen, source, alignment,
                         unsaved, stage, fastRan>>

Commission == /\ inject # "remote" /\ source' = "bench"
              /\ effDrive' = (inject = "foc")
              /\ effOpen' = (inject = "voltage")
              /\ UNCHANGED clearFault

(* Mutants: the watch-window voltage survives the return to remote; the    *)
(* host's reset does not reach the over-current trip.                      *)
RemoteKeepsVoltage == /\ inject = "remote" /\ source' = "remote"
                      /\ effDrive' = OperationEnabled(mode)
                      /\ effOpen' = effOpen
                      /\ clearFault' = (clearFault \/ command.reset)

RemoteIgnoresReset == /\ inject = "remote" /\ source' = "remote"
                      /\ effDrive' = OperationEnabled(mode)
                      /\ effOpen' = FALSE
                      /\ clearFault' = clearFault

Remote == /\ inject = "remote" /\ source' = "remote"
          /\ effDrive' = OperationEnabled(mode)
          /\ effOpen' = FALSE
          /\ clearFault' = (clearFault \/ command.reset)

Arbitrate == /\ mpc = "arbitrate"
             /\ Commission \/ Remote
             /\ mpc' = "align"
             /\ UNCHANGED <<command, window, offsetReq, alignReq, captureReq, latched, mode,
                            heeded, alignment, unsaved, stage, fastRan>>

(* The alignment routine *)

Starts == alignReq /\ ~aligning /\ ~effDrive /\ ~trip

Running == aligning \/ Starts

TicksLeft == IF Starts THEN HoldTicks ELSE alignTicks

(* What a pending request makes of the status before the routine runs.     *)
RequestStatus == CASE ~alignReq -> calStatus
                   [] Starts -> "align"
                   [] OTHER -> "fault"

AlignIdle == /\ ~Running
             /\ calStatus' = RequestStatus
             /\ UNCHANGED <<aligning, alignTicks, effDrive, effOpen, unsaved>>

AlignAbort == /\ Running /\ trip
              /\ aligning' = FALSE /\ effOpen' = FALSE
              /\ calStatus' = "fault"
              /\ UNCHANGED <<alignTicks, effDrive, unsaved>>

(* Mutants: the arbiter's drive command is not overridden; the hold time   *)
(* is never counted down.                                                  *)
AlignHoldUnderDrive == /\ Running /\ ~trip /\ TicksLeft > 0
                       /\ aligning' = TRUE /\ alignTicks' = TicksLeft - 1
                       /\ effDrive' = effDrive /\ effOpen' \in BOOLEAN
                       /\ calStatus' = RequestStatus
                       /\ UNCHANGED unsaved

AlignHoldForever == /\ Running /\ ~trip /\ TicksLeft > 0
                    /\ aligning' = TRUE /\ alignTicks' = TicksLeft
                    /\ effDrive' = FALSE /\ effOpen' \in BOOLEAN
                    /\ calStatus' = RequestStatus
                    /\ UNCHANGED unsaved

(* The regulator may leave the voltage at zero.                            *)
AlignHold == /\ Running /\ ~trip /\ TicksLeft > 0
             /\ aligning' = TRUE /\ alignTicks' = TicksLeft - 1
             /\ effDrive' = FALSE /\ effOpen' \in BOOLEAN
             /\ calStatus' = RequestStatus
             /\ UNCHANGED unsaved

(* The offset is captured and params_save gathers everything in RAM.       *)
AlignDone == /\ Running /\ ~trip /\ TicksLeft = 0
             /\ aligning' = FALSE /\ alignTicks' = 0
             /\ effDrive' = FALSE /\ effOpen' = FALSE
             /\ calStatus' = "none"
             /\ unsaved' = {}

Align == /\ mpc = "align"
         /\ AlignIdle \/ AlignAbort \/ AlignHold \/ AlignDone
         /\ alignReq' = FALSE
         /\ mpc' = "capture"
         /\ UNCHANGED <<command, window, clearFault, offsetReq, captureReq, latched, mode,
                        heeded, source, stage, fastRan>>

(* The offset and home captures at the end of the tick, each with a save.  *)
Capture == /\ mpc = "capture"
           /\ unsaved' = IF captureReq THEN {} ELSE unsaved
           /\ captureReq' = FALSE
           /\ mpc' = "idle" /\ fastRan' = FALSE
           /\ UNCHANGED <<command, window, clearFault, offsetReq, alignReq, arbiter, alignment,
                          stage>>

MediumTick == Update \/ Arbitrate \/ Align \/ Capture

-----------------------------------------------------------------------------
(* Everybody else *)

(* The SPI handler stores the command of a frame.                          *)
ReceiveCommand == /\ mpc = "idle"
                  /\ command' \in Commands
                  /\ UNCHANGED <<window, requests, arbiter, alignment, unsaved, stage, mpc, fastRan>>

(* The debugger writes the watch window at any instant.                    *)
WatchWindow == /\ Bench
               /\ \/ inject' \in Injected /\ UNCHANGED <<backend, requests>>
                  \/ backend' \in Backend /\ UNCHANGED <<inject, requests>>
                  \/ clearFault' = TRUE /\ UNCHANGED <<window, offsetReq, alignReq, captureReq>>
                  \/ offsetReq' = TRUE /\ UNCHANGED <<window, clearFault, alignReq, captureReq>>
                  \/ alignReq' = TRUE /\ UNCHANGED <<window, clearFault, offsetReq, captureReq>>
                  \/ captureReq' = TRUE /\ UNCHANGED <<window, clearFault, offsetReq, alignReq>>
               /\ UNCHANGED <<command, arbiter, alignment, unsaved, stage, mpc, fastRan>>

(* What the slow loop does to this module's state, at any time (Calibration *)
(* has its code): it takes a calibration command or refuses it, and saves  *)
(* what an offset calibration measured.                                    *)
SlowAccess == /\ mpc = "idle"
              /\ \/ captureReq' = TRUE /\ calStatus' = "zero"
                    /\ UNCHANGED <<offsetReq, alignReq, unsaved>>
                 \/ alignReq' = TRUE /\ UNCHANGED <<offsetReq, captureReq, calStatus, unsaved>>
                 \/ offsetReq' = TRUE /\ calStatus' = "offset"
                    /\ UNCHANGED <<alignReq, captureReq, unsaved>>
                 \/ calStatus' = "fault" /\ UNCHANGED <<offsetReq, alignReq, captureReq, unsaved>>
                 \/ calStatus' = "none" /\ unsaved' = {}
                    /\ UNCHANGED <<offsetReq, alignReq, captureReq>>
              /\ UNCHANGED <<command, window, clearFault, arbiter, aligning, alignTicks, stage,
                             mpc, fastRan>>

Control == FastTick \/ MediumTick \/ ReceiveCommand \/ WatchWindow

Next == Control \/ SlowAccess

Spec == Init /\ [][Next]_vars

-----------------------------------------------------------------------------
(* Properties *)

(* Type invariant of the module.                                           *)
TypeOK == /\ command \in DriveCommand
          /\ inject \in Injected /\ backend \in Backend
          /\ clearFault \in BOOLEAN /\ offsetReq \in BOOLEAN
          /\ alignReq \in BOOLEAN /\ captureReq \in BOOLEAN
          /\ latched \in BOOLEAN /\ mode \in Mode
          /\ heeded \in DriveCommand /\ source \in {"remote", "bench"}
          /\ effDrive \in BOOLEAN /\ effOpen \in BOOLEAN
          /\ aligning \in BOOLEAN /\ alignTicks \in 0..HoldTicks
          /\ calStatus \in CalStatus /\ unsaved \subseteq Data
          /\ trip \in BOOLEAN /\ hot \in BOOLEAN /\ calCount \in 0..CalSamples - 1
          /\ output \in Output /\ armed \in BOOLEAN /\ moe \in BOOLEAN
          /\ mpc \in {"idle", "arbitrate", "align", "capture"} /\ fastRan \in BOOLEAN

(* The medium loop's last decision has reached the fast loop.              *)
Settled == mpc = "idle" /\ fastRan

(* A latched over-current trip holds the stage off whatever the command,   *)
(* the alignment routine or the debugger ask, until it is cleared.         *)
TripHoldsOff == trip => output = "off"

(* The stage drives the motor: in closed loop, or with the H bridge's      *)
(* current controller bypassed.                                            *)
Driven == output \in {"closed", "bridge"}

(* In remote the motor is driven only on a command that enables it, with   *)
(* no fault latched: a quick stop, a disable, an unroutable mode or a      *)
(* latched fault has turned it off one medium period after the mode        *)
(* manager saw it, and nothing a debugger commanded before keeps it on,    *)
(* whichever backend runs and whether or not its controller is bypassed.   *)
ClosedOnlyWhenEnabled ==
    Settled /\ source = "remote" /\ Driven =>
        /\ heeded.run /\ heeded.enable
        /\ heeded.halt \/ heeded.op # "unroutable"
        /\ ~latched

(* A running alignment owns the stage: between two medium ticks neither    *)
(* backend drives the motor, whoever enabled the drive meanwhile.          *)
AlignOwnsDrive == Settled /\ aligning => ~Driven

(* In remote the open-loop d-axis voltage is on only while an alignment    *)
(* runs: not after it is done or aborted, nor because a debugger left it   *)
(* set.  (The H bridge's voltage set by hand is another switch: left set,  *)
(* it does drive in remote, on a command that enables the drive.)          *)
OpenOnlyWhenAligning == Settled /\ source = "remote" /\ output = "open" => aligning

(* While the offset calibration averages, the monitor is blind and the     *)
(* stage is off from its first sample on.                                  *)
BlindOnlyWhenOff == calCount > 0 => output = "off"

(* A trip ends only with the current below the limit and on the reset of   *)
(* the command the mode manager saw last: a reset it saw before, or one    *)
(* that was withdrawn meanwhile, does not clear a later trip, whatever     *)
(* the order in which the fast and the medium loop take the flag.          *)
TripEndsByReset ==
    [][~Bench /\ trip /\ ~trip' => heeded.reset /\ ~hot']_vars

(* A running alignment only counts down, at every medium tick, and neither *)
(* a second request nor a drive command starts its hold time again: the    *)
(* open-loop voltage lasts no longer than the time that was set.           *)
AlignCountsDown ==
    [][aligning /\ aligning' =>
          /\ alignTicks' <= alignTicks
          /\ Align => alignTicks' < alignTicks]_vars

(* An alignment always ends: the hold time bounds the drive.               *)
AlignEnds == aligning ~> ~aligning

(* A host that pulses FAULT_RESET until a fault is gone, with the current  *)
(* below the limit and no debugger driving, ends it: the over-current trip *)
(* and the mode manager's latch go together, although the mode manager     *)
(* sees the reset before the monitor does and latches the trip again.      *)
ResetWorks ==
    /\ <>[](~hot /\ inject = "remote")
    /\ []<>heeded.reset /\ []<>~heeded.reset
    => <>[](~latched /\ ~trip)

(* MC_Pwm_ForceSafeOff clears the main output enable.                      *)
SafeOffClearsMoe == output = "off" => ~moe
==============================================================================
