---------------------------- MODULE Drive_proofs ----------------------------
(***************************************************************************)
(* Proofs about Drive, for every set of commands, hold time and number of  *)
(* samples, both backends, with and without a debugger.                    *)
(*                                                                         *)
(* The safety properties speak of the settled drive: a medium tick is over *)
(* and a fast tick has run.  What makes them inductive is what holds in    *)
(* between: Decision says at which point of a medium tick its commands to  *)
(* the fast loop agree with the mode, the source and the alignment.        *)
(***************************************************************************)
EXTENDS Drive, TLAPS

(* The mode manager enables the drive on a command that asks for it.       *)
ModeFollows == OperationEnabled(mode) =>
                  /\ ~latched
                  /\ heeded.run /\ heeded.enable
                  /\ heeded.halt \/ heeded.op # "unroutable"

Decided == mpc # "arbitrate"
Over    == mpc \in {"capture", "idle"}

(* What the medium tick has decided so far.                                *)
Decision == /\ Decided /\ source = "remote" /\ effDrive => OperationEnabled(mode)
            /\ mpc = "align" /\ source = "remote" => ~effOpen
            /\ Over /\ source = "remote" /\ effOpen => aligning
            /\ Over /\ aligning => ~effDrive

(* A settled stage does what the medium loop commands, or nothing.         *)
StageFollows == Settled => /\ Driven => effDrive
                           /\ output = "open" => effOpen

Sampling == calCount > 0 => offsetReq /\ output = "off"

IInv == /\ TypeOK /\ TripHoldsOff /\ Sampling
        /\ ModeFollows /\ Decision /\ StageFollows

USE DriveAssumption DEF Operation, DriveCommand, Mode, Injected, Backend, Data, CalStatus, Output,
                        Driven, window, requests, arbiter, alignment, stage

-----------------------------------------------------------------------------
LEMMA InitIInv == Init => IInv
  <1> SUFFICES ASSUME Init PROVE IInv
    OBVIOUS
  <1>1. BootCommand \in DriveCommand /\ "remote" \in Injected /\ backend \in Backend
    BY DEF BootCommand, Init
  <1>2. /\ clearFault \in BOOLEAN /\ offsetReq \in BOOLEAN /\ alignReq \in BOOLEAN
        /\ captureReq \in BOOLEAN /\ latched \in BOOLEAN /\ effDrive \in BOOLEAN
        /\ effOpen \in BOOLEAN /\ aligning \in BOOLEAN /\ trip \in BOOLEAN
        /\ hot \in BOOLEAN /\ armed \in BOOLEAN /\ moe \in BOOLEAN /\ fastRan \in BOOLEAN
    BY Zenon DEF Init
  <1>3. alignTicks \in 0..HoldTicks /\ calCount \in 0..CalSamples - 1
    BY DEF Init
  <1>4. TypeOK
    BY <1>1, <1>2, <1>3 DEF Init, TypeOK
  <1> QED
    BY <1>4 DEF Init, IInv, TripHoldsOff, Sampling, ModeFollows, Decision, StageFollows,
                Settled, OperationEnabled, Decided, Over

(* The mode manager's two functions are what ModeFollows needs.            *)
LEMMA RouteEnables ==
    ASSUME NEW c \in DriveCommand, NEW l \in BOOLEAN, OperationEnabled(ActiveMode(l, c))
    PROVE  ~l /\ c.run /\ c.enable /\ (c.halt \/ c.op # "unroutable")
  BY DEF OperationEnabled, ActiveMode, Route

LEMMA RouteTyped ==
    ASSUME NEW c \in DriveCommand, NEW l \in BOOLEAN
    PROVE  ActiveMode(l, c) \in Mode
  BY DEF ActiveMode, Route

-----------------------------------------------------------------------------
LEMMA FastTickKeeps == IInv /\ FastTick => IInv'
  <1> SUFFICES ASSUME IInv, FastTick PROVE IInv'
    OBVIOUS
  <1> USE DEF FastTick
  <1>1. /\ hot' \in BOOLEAN /\ offsetReq' \in BOOLEAN
        /\ calCount' \in 0..CalSamples - 1
        /\ unsaved' \subseteq Data
    <2>1. CASE CalibrateOffsets
      <3>1. hot' \in BOOLEAN /\ offsetReq' \in BOOLEAN
        BY Zenon, <2>1 DEF CalibrateOffsets, IInv, TypeOK
      <3>2. calCount' \in 0..CalSamples - 1
        <4>1. CASE calCount + 1 < CalSamples /\ calCount' = calCount + 1
          BY <4>1 DEF IInv, TypeOK
        <4>2. CASE calCount' = 0
          BY <4>2
        <4> QED
          BY Zenon, <2>1, <4>1, <4>2 DEF CalibrateOffsets
      <3>3. unsaved' \subseteq Data
        BY Zenon, <2>1 DEF CalibrateOffsets, IInv, TypeOK
      <3> QED
        BY <3>1, <3>2, <3>3
    <2>2. CASE ReadFast
      BY <2>2 DEF ReadFast, IInv, TypeOK
    <2> QED
      BY <2>1, <2>2
  <1>2. calCount' > 0 => offsetReq'
    <2>1. CASE CalibrateOffsets
      <3>1. CASE offsetReq' = offsetReq
        BY Zenon, <2>1, <3>1 DEF CalibrateOffsets
      <3>2. CASE calCount' = 0
        BY <3>2
      <3> QED
        BY Zenon, <2>1, <3>1, <3>2 DEF CalibrateOffsets
    <2>2. CASE ReadFast
      BY <2>2 DEF ReadFast, IInv, TypeOK, Sampling
    <2> QED
      BY <2>1, <2>2
  <1>3. trip' \in BOOLEAN /\ clearFault' \in BOOLEAN
    BY Zenon, <1>1 DEF Monitor
  <1>4. output' = IF trip' \/ offsetReq' THEN "off" ELSE Demand
    BY DEF SwitchStage, Blocked
  <1>5. /\ Demand \in Output
        /\ Demand \in {"closed", "bridge"} => effDrive
        /\ Demand = "open" => effOpen
    BY DEF Demand
  <1>6. /\ output' \in Output
        /\ trip' \/ offsetReq' => output' = "off"
        /\ output' \in {"closed", "bridge"} => effDrive
        /\ output' = "open" => effOpen
    BY <1>4, <1>5
  <1>7. armed' \in BOOLEAN /\ moe' \in BOOLEAN
    BY Zenon DEF SwitchStage, MC_Pwm_Start, MC_Pwm_ForceSafeOff, IInv, TypeOK
  <1>8. fastRan' \in BOOLEAN
    BY Zenon
  <1>9. UNCHANGED <<command, inject, backend, alignReq, captureReq, latched, mode, effDrive, effOpen,
                    heeded, source, aligning, alignTicks, calStatus, mpc>>
    OBVIOUS
  <1>10. TypeOK'
    BY <1>1, <1>3, <1>6, <1>7, <1>8, <1>9 DEF IInv, TypeOK
  <1>11. TripHoldsOff' /\ Sampling'
    BY <1>2, <1>6 DEF TripHoldsOff, Sampling
  <1>12. ModeFollows' /\ Decision'
    BY <1>9 DEF IInv, ModeFollows, Decision, Decided, Over
  <1>13. StageFollows'
    BY <1>6, <1>9 DEF StageFollows
  <1> QED
    BY <1>10, <1>11, <1>12, <1>13 DEF IInv

LEMMA UpdateKeeps == IInv /\ Update => IInv'
  <1> SUFFICES ASSUME IInv, Update PROVE IInv'
    OBVIOUS
  <1> USE DEF Update
  <1>1. latched' \in BOOLEAN
    BY Zenon DEF Latch, IInv, TypeOK
  <1>2. command \in DriveCommand
    BY DEF IInv, TypeOK
  <1>3. TypeOK'
    BY <1>1, <1>2, RouteTyped DEF IInv, TypeOK
  <1>4. ModeFollows'
    BY <1>1, <1>2, RouteEnables DEF ModeFollows
  <1>5. TripHoldsOff' /\ Sampling'
    BY DEF IInv, TripHoldsOff, Sampling
  <1>6. Decision' /\ StageFollows'
    BY DEF Decision, StageFollows, Settled, Decided, Over
  <1> QED
    BY <1>3, <1>4, <1>5, <1>6 DEF IInv

LEMMA ArbitrateKeeps == IInv /\ Arbitrate => IInv'
  <1> SUFFICES ASSUME IInv, Arbitrate PROVE IInv'
    OBVIOUS
  <1> USE DEF Arbitrate
  <1>1. /\ effDrive' \in BOOLEAN /\ effOpen' \in BOOLEAN /\ clearFault' \in BOOLEAN
        /\ source' \in {"remote", "bench"}
        /\ source' = "remote" => ~effOpen' /\ (effDrive' => OperationEnabled(mode))
    <2>1. CASE Commission
      <3>1. effDrive' \in BOOLEAN /\ effOpen' \in BOOLEAN /\ clearFault' \in BOOLEAN
        BY Zenon, <2>1 DEF Commission, IInv, TypeOK
      <3>2. source' = "bench"
        BY <2>1 DEF Commission
      <3> QED
        BY <3>1, <3>2
    <2>2. CASE Remote
      <3>1. OperationEnabled(mode) \in BOOLEAN
        BY SMT DEF OperationEnabled
      <3>3. effDrive' \in BOOLEAN /\ effOpen' \in BOOLEAN /\ clearFault' \in BOOLEAN
        BY Zenon, <2>2, <3>1 DEF Remote
      <3>2. source' = "remote" /\ ~effOpen' /\ (effDrive' => OperationEnabled(mode))
        BY Zenon, <2>2 DEF Remote
      <3> QED
        BY <3>2, <3>3
    <2> QED
      BY <2>1, <2>2
  <1>2. TypeOK'
    BY <1>1 DEF IInv, TypeOK
  <1>3. Decision'
    BY <1>1 DEF Decision, Decided, Over, OperationEnabled
  <1>4. TripHoldsOff' /\ Sampling' /\ ModeFollows'
    BY DEF IInv, TripHoldsOff, Sampling, ModeFollows, OperationEnabled
  <1>5. StageFollows'
    BY DEF StageFollows, Settled
  <1> QED
    BY <1>2, <1>3, <1>4, <1>5 DEF IInv

LEMMA AlignKeeps == IInv /\ Align => IInv'
  <1> SUFFICES ASSUME IInv, Align PROVE IInv'
    OBVIOUS
  <1> USE DEF Align
  <1>1. RequestStatus \in CalStatus /\ TicksLeft \in 0..HoldTicks
    BY DEF RequestStatus, TicksLeft, IInv, TypeOK
  <1>2. /\ aligning' \in BOOLEAN /\ alignTicks' \in 0..HoldTicks
        /\ effDrive' \in BOOLEAN /\ effOpen' \in BOOLEAN
        /\ calStatus' \in CalStatus /\ unsaved' \subseteq Data
        /\ aligning' => ~effDrive'
        /\ effDrive' => effDrive
        /\ source = "remote" /\ effOpen' => aligning'
    <2>1. CASE AlignIdle
      BY <1>1, <2>1 DEF AlignIdle, Running, IInv, TypeOK, Decision
    <2>2. CASE AlignAbort
      <3>1. ~aligning' /\ ~effOpen' /\ aligning' \in BOOLEAN /\ effOpen' \in BOOLEAN
        BY Zenon, <2>2 DEF AlignAbort
      <3> QED
        BY <2>2, <3>1 DEF AlignAbort, IInv, TypeOK
    <2>3. CASE AlignHold
      <3>1. aligning' /\ ~effDrive' /\ aligning' \in BOOLEAN /\ effDrive' \in BOOLEAN
        BY Zenon, <2>3 DEF AlignHold
      <3> QED
        BY <1>1, <2>3, <3>1 DEF AlignHold, IInv, TypeOK
    <2>4. CASE AlignDone
      <3>1. /\ ~aligning' /\ ~effDrive' /\ ~effOpen'
            /\ aligning' \in BOOLEAN /\ effDrive' \in BOOLEAN /\ effOpen' \in BOOLEAN
        BY Zenon, <2>4 DEF AlignDone
      <3> QED
        BY <2>4, <3>1 DEF AlignDone, IInv, TypeOK
    <2> QED
      BY <2>1, <2>2, <2>3, <2>4
  <1>3. alignReq' \in BOOLEAN
    BY Zenon
  <1>4. TypeOK'
    BY <1>2, <1>3 DEF IInv, TypeOK
  <1>5. Decision'
    BY <1>2 DEF IInv, Decision, Decided, Over, OperationEnabled
  <1>6. TripHoldsOff' /\ Sampling' /\ ModeFollows'
    BY DEF IInv, TripHoldsOff, Sampling, ModeFollows, OperationEnabled
  <1>7. StageFollows'
    BY DEF StageFollows, Settled
  <1> QED
    BY <1>4, <1>5, <1>6, <1>7 DEF IInv

LEMMA CaptureKeeps == IInv /\ Capture => IInv'
  <1> SUFFICES ASSUME IInv, Capture PROVE IInv'
    OBVIOUS
  <1> USE DEF Capture
  <1>1. captureReq' \in BOOLEAN /\ fastRan' \in BOOLEAN /\ ~fastRan'
    BY Zenon
  <1>6. unsaved' \subseteq Data
    BY Zenon DEF IInv, TypeOK
  <1>7. UNCHANGED <<command, inject, backend, clearFault, offsetReq, alignReq, latched, mode, effDrive,
                    effOpen, heeded, source, aligning, alignTicks, calStatus, trip, hot,
                    calCount, output, armed, moe>>
    OBVIOUS
  <1>2. TypeOK'
    BY <1>1, <1>6, <1>7 DEF IInv, TypeOK
  <1>3. Decision'
    BY DEF IInv, Decision, Decided, Over, OperationEnabled
  <1>4. TripHoldsOff' /\ Sampling' /\ ModeFollows'
    BY DEF IInv, TripHoldsOff, Sampling, ModeFollows, OperationEnabled
  <1>5. StageFollows'
    BY <1>1 DEF StageFollows, Settled
  <1> QED
    BY <1>2, <1>3, <1>4, <1>5 DEF IInv

(* The host, the debugger and the slow loop touch nothing the invariant    *)
(* relates, except that a calibration may be requested.                    *)
LEMMA OthersKeep == IInv /\ (ReceiveCommand \/ WatchWindow \/ SlowAccess) => IInv'
  <1> SUFFICES ASSUME IInv, ReceiveCommand \/ WatchWindow \/ SlowAccess PROVE IInv'
    OBVIOUS
  <1>1. /\ UNCHANGED <<arbiter, aligning, alignTicks, stage, mpc, fastRan>>
        /\ offsetReq => offsetReq'
        /\ TypeOK'
    <2>1. CASE ReceiveCommand
      BY <2>1 DEF ReceiveCommand, IInv, TypeOK
    <2>2. CASE WatchWindow
      <3>1. /\ clearFault \in BOOLEAN /\ offsetReq \in BOOLEAN
            /\ alignReq \in BOOLEAN /\ captureReq \in BOOLEAN
            /\ inject \in Injected /\ backend \in Backend
        BY DEF IInv, TypeOK
      <3>2. clearFault' \in BOOLEAN /\ alignReq' \in BOOLEAN /\ captureReq' \in BOOLEAN
        BY Zenon, <2>2, <3>1 DEF WatchWindow
      <3>3. offsetReq' \in BOOLEAN /\ (offsetReq => offsetReq') /\ inject' \in Injected
            /\ backend' \in Backend
        BY Zenon, <2>2, <3>1 DEF WatchWindow
      <3> QED
        BY <2>2, <3>2, <3>3 DEF WatchWindow, IInv, TypeOK
    <2>3. CASE SlowAccess
      <3>3. offsetReq \in BOOLEAN /\ alignReq \in BOOLEAN /\ captureReq \in BOOLEAN
        BY DEF IInv, TypeOK
      <3>1. offsetReq' \in BOOLEAN /\ alignReq' \in BOOLEAN /\ captureReq' \in BOOLEAN
            /\ (offsetReq => offsetReq')
        BY Zenon, <2>3, <3>3 DEF SlowAccess
      <3>2. unsaved' \subseteq Data
        BY <2>3 DEF SlowAccess, IInv, TypeOK
      <3> QED
        BY <2>3, <3>1, <3>2 DEF SlowAccess, IInv, TypeOK
    <2> QED
      BY <2>1, <2>2, <2>3
  <1>2. TripHoldsOff' /\ Sampling'
    BY <1>1 DEF IInv, TripHoldsOff, Sampling
  <1>3. ModeFollows' /\ Decision' /\ StageFollows'
    BY <1>1 DEF IInv, ModeFollows, Decision, StageFollows, Settled, Decided, Over,
                OperationEnabled
  <1> QED
    BY <1>1, <1>2, <1>3 DEF IInv

LEMMA NextKeeps == IInv /\ [Next]_vars => IInv'
  <1> SUFFICES ASSUME IInv, [Next]_vars PROVE IInv'
    OBVIOUS
  <1>1. CASE UNCHANGED vars
    BY <1>1 DEF vars, IInv, TypeOK, TripHoldsOff, Sampling, ModeFollows, Decision,
                StageFollows, Settled, Decided, Over, OperationEnabled
  <1>2. CASE FastTick
    BY <1>2, FastTickKeeps
  <1>3. CASE MediumTick
    BY <1>3, UpdateKeeps, ArbitrateKeeps, AlignKeeps, CaptureKeeps DEF MediumTick
  <1>4. CASE ReceiveCommand \/ WatchWindow \/ SlowAccess
    BY <1>4, OthersKeep
  <1> QED
    BY <1>1, <1>2, <1>3, <1>4 DEF Next, Control

(* The inductive invariant holds in every reachable state.                 *)
THEOREM InductiveInvariant == Spec => []IInv
  BY InitIInv, NextKeeps, PTL DEF Spec

LEMMA IInvImplies ==
    IInv => /\ TypeOK /\ TripHoldsOff /\ ClosedOnlyWhenEnabled
            /\ AlignOwnsDrive /\ OpenOnlyWhenAligning /\ BlindOnlyWhenOff
  BY DEF IInv, Sampling, ModeFollows, Decision, StageFollows, Settled, Decided, Over,
         ClosedOnlyWhenEnabled, AlignOwnsDrive, OpenOnlyWhenAligning, BlindOnlyWhenOff

-----------------------------------------------------------------------------
(* Every reachable state is well typed.                                    *)
THEOREM TypeCorrect == Spec => []TypeOK
  BY InductiveInvariant, IInvImplies, PTL

(* A latched trip holds the stage off in every state, under every request. *)
THEOREM TripSafe == Spec => []TripHoldsOff
  BY InductiveInvariant, IInvImplies, PTL

(* In remote the motor is driven, by either backend, only on an enabling   *)
(* command and without a latched fault, one medium period after the mode   *)
(* manager decided.                                                        *)
THEOREM ClosedLoopCommanded == Spec => []ClosedOnlyWhenEnabled
  BY InductiveInvariant, IInvImplies, PTL

(* Between medium ticks a running alignment keeps both backends off.       *)
THEOREM AlignmentOwns == Spec => []AlignOwnsDrive
  BY InductiveInvariant, IInvImplies, PTL

(* In remote the open-loop d-axis voltage ends with the alignment.         *)
THEOREM OpenLoopEnds == Spec => []OpenOnlyWhenAligning
  BY InductiveInvariant, IInvImplies, PTL

(* An offset calibration averages with the stage off after its first tick. *)
THEOREM CalibratesOff == Spec => []BlindOnlyWhenOff
  BY InductiveInvariant, IInvImplies, PTL
-----------------------------------------------------------------------------
(* Without a debugger the reset flag is up only from the arbiter to the    *)
(* next fast tick, and for the command the mode manager saw: the host's    *)
(* next command is looked at after a fast tick has taken the flag down.    *)
FlagFresh == /\ mpc # "idle" => command = heeded
             /\ clearFault => heeded.reset /\ mpc # "arbitrate" /\ ~Settled

LEMMA FlagStaysFresh == ASSUME ~Bench, FlagFresh, [Next]_vars PROVE FlagFresh'
  <1> USE DEF FlagFresh, Settled
  <1>1. CASE FastTick
    BY <1>1 DEF FastTick, Monitor
  <1>2. CASE Update
    BY <1>2 DEF Update
  <1>3. CASE Arbitrate
    <2>1. clearFault' => command.reset
      BY Zenon, <1>3 DEF Arbitrate, Commission, Remote
    <2> QED
      BY <1>3, <2>1 DEF Arbitrate
  <1>4. CASE Align
    BY <1>4 DEF Align
  <1>5. CASE Capture
    BY <1>5 DEF Capture
  <1>6. CASE ReceiveCommand
    BY <1>6 DEF ReceiveCommand
  <1>7. ~WatchWindow
    BY DEF WatchWindow
  <1>8. CASE SlowAccess
    BY <1>8 DEF SlowAccess
  <1>9. CASE UNCHANGED vars
    BY <1>9 DEF vars
  <1> QED
    BY <1>1, <1>2, <1>3, <1>4, <1>5, <1>6, <1>7, <1>8, <1>9 DEF Next, Control, MediumTick

(* Without a debugger a trip is ended by nothing but a reset in the        *)
(* command the mode manager saw last, and not while the current is above   *)
(* the limit (the arbiter raises clear_fault, the fast loop's monitor      *)
(* takes it down).                                                         *)
THEOREM TripsEndByReset == Spec => TripEndsByReset
  <1>1. ASSUME FlagFresh, [Next]_vars PROVE [~Bench /\ trip /\ ~trip' => heeded.reset /\ ~hot']_vars
    <2> SUFFICES ASSUME Next, trip, ~trip' PROVE heeded.reset /\ ~hot'
      BY <1>1
    <2>1. CASE FastTick
      BY Zenon, <1>1, <2>1 DEF FastTick, Monitor, FlagFresh
    <2>2. CASE ~FastTick
      BY <2>2 DEF Next, Control, MediumTick, Update, Arbitrate, Align, Capture, ReceiveCommand,
                  WatchWindow, SlowAccess
    <2> QED
      BY <2>1, <2>2
  <1>2. CASE ~Bench
    <2>1. Init => FlagFresh
      BY DEF Init, FlagFresh
    <2>2. FlagFresh /\ [Next]_vars => FlagFresh'
      BY <1>2, FlagStaysFresh
    <2> QED
      BY <1>1, <2>1, <2>2, PTL DEF Spec, TripEndsByReset
  <1>3. CASE Bench
    <2>1. [Next]_vars => [~Bench /\ trip /\ ~trip' => heeded.reset /\ ~hot']_vars
      BY <1>3
    <2> QED
      BY <2>1, PTL DEF Spec, TripEndsByReset
  <1> QED
    BY <1>2, <1>3

(* A running alignment counts down at every medium tick and is never       *)
(* started again: what bounds the time of its open-loop voltage            *)
(* (s_align_ticks_left).                                                   *)
THEOREM AlignsCountDown == Spec => AlignCountsDown
  <1>1. ASSUME IInv, [Next]_vars
        PROVE  [aligning /\ aligning' =>
                   /\ alignTicks' <= alignTicks
                   /\ Align => alignTicks' < alignTicks]_vars
    <2> SUFFICES ASSUME Next, aligning, aligning'
                 PROVE  alignTicks' <= alignTicks /\ (Align => alignTicks' < alignTicks)
      BY <1>1
    <2>1. alignTicks \in Nat
      BY <1>1 DEF IInv, TypeOK
    <2>2. CASE Align
      <3>1. ~Starts /\ Running /\ TicksLeft = alignTicks
        BY DEF Starts, Running, TicksLeft
      <3>2. AlignHold
        BY Zenon, <2>2, <3>1 DEF Align, AlignIdle, AlignAbort, AlignDone
      <3> QED
        BY <2>1, <3>1, <3>2 DEF AlignHold
    <2>3. CASE ~Align
      <3>1. alignTicks' = alignTicks
        BY Zenon, <2>3 DEF Next, Control, MediumTick, FastTick, Update, Arbitrate, Capture, ReceiveCommand,
                    WatchWindow, SlowAccess, alignment
      <3> QED
        BY <2>1, <2>3, <3>1
    <2> QED
      BY <2>2, <2>3
  <1> QED
    BY InductiveInvariant, <1>1, PTL DEF Spec, AlignCountsDown
=============================================================================
