# Verification of the generic motor controller

TLA+ models of the firmware under `src/src/` (STM32G474, one motor axis), the TLC runs
that check them on small instances and the TLAPS proofs that hold for every value of
their constants. Paths below are relative to the repository root; `mc_scheduler.c`
means `src/mc_scheduler.c` and so on.

## 1. The system

### 1.1 Contexts

| Context | Priority | Runs | Shares with the others |
|---|---|---|---|
| ADC end of conversion | 0 | `MC_FastLoop_20kHz` | reads `s_eff_*`, requests in `g_mc_inject`; writes `s_oc_trip`, `s_pwm_on`, offsets |
| TIM7 | 2 | `MC_MotionLoop_1kHz` | reads `g_od`, `s_oc_trip`; writes `s_eff_*`, `g_od.statusword`, `cal_status`, calls `RequestSave` |
| SPI2 and its DMA | 3 | `HAL_SPI_TxRxCpltCallback`, error callback | writes `g_od`, the telemetry map, the dead-man's flag |
| main loop | - | `MC_SlowLoop_10_100Hz` via `MC_Sched_ServiceBackground` | reads and clears commands in `g_od`, raises requests, erases and programs flash |
| debugger | any instant | writes `g_mc_inject` | the watch window |

A context is preempted by those above it and by nothing else, and there are no critical
sections. The parameter slots are in flash bank 2 and the code in bank 1, so the interrupts
keep running while the main loop erases or programs.

### 1.2 Components

| Component | State | Operations | What makes it correct |
|---|---|---|---|
| Parameter store `mc_persistent_store.c` | two flash slots; `s_payload`, `s_seq`, `s_active_slot`, `s_has_valid`, `s_dirty` | Init, Read, RequestSave, ServiceSlow, FactoryReset | a power loss leaves the last good record or the new one; no mixed record validates; the sequence grows; a pending save is written |
| Flash port `mc_flash_port_stm32g474.c` | the flash pages | EraseSlot, Program, Read | an error is reported and leaves the other slot alone |
| Mode manager `mc_mode_manager.c` | fault latch, active mode, NEW_SETPOINT edge | Update | a severe fault latches; only a routable enabled command enables |
| Arbiter (medium loop) | `s_eff_*` | per tick: commissioning or remote | the stage is on only for the command in force; nothing is left behind when the source changes |
| Alignment routine (medium loop) | state, ticks left, voltage | request, hold, abort, capture and save | owns the command path; ends; captures only a held rotor |
| Fast loop | `s_oc_trip`, `s_pwm_on` | read or calibrate, monitor, drive | a trip holds the stage off; it is off while the monitor is blind |
| PWM backend `mc_pwm_stm32g474.c` | channel enables, MOE | Start, ForceSafeOff, SetDutyFast | safe-off disables the outputs |
| Current sense `mc_current_sense_stm32g474.c` | offsets, accumulator | CalibrateOffsets, ReadFast | samples taken unpowered; every sample counted once |
| Slow loop | `s_slow_pending`, `s_slow_div` | calibration, save, reset and test commands; gains; dead-man | a command is answered; results are saved; flash only while off |
| Comms `mc_comms.c` | telemetry map, fresh flag, stall ticks | HandleTransaction, BuildIdle, CommandTimedOut | a bad frame changes nothing; a stalled link stops the axis; a valid map stays whole |
| SPI slave `mc_spi_slave_stm32g474.c` | one receive and two transmit buffers | transfer complete, error | each response goes out once, two frames later; the link recovers |
| Object dictionary `mc_od.c` | `g_od` | Find, ReadRaw, Write, GatherPersistent, RestorePersistent | access, type, size and range enforced; restore inverts gather |
| Trajectory, position hold `mc_trajectory.c`, `mc_position_controller.c` | plan, hold position | Start, Update | a plan ends at its target within its limits; no stale plan resumes |
| Signal generator `mc_signal_gen.c` | phase, value | Start, Stop, Update | ramps back to zero when disarmed |
| Estimator and anchor `mc_state_estimator.c` | continuous position, `s_pos_locked` | Update, SeedContinuous | the turn count is anchored until the first enable and never after |
| SSI encoder `mc_ssi_encoder.c` | sample | decode | a bad frame is not valid |
| FOC, PID, velocity loop, current request, H-bridge | integrators | Update, Reset | outputs within limits |

`mc_faults.h`, `mc_calibration.h`, `mc_command_conditioner.h` and `mc_params.h` declare
components that have no implementation.

### 1.3 Interactions

    host -SPI-> comms -> g_od.controlword, modes -> mode manager -> arbiter -> s_eff_* -> fast loop -> PWM
                     -> g_od.cal_command -> slow loop -> requests -> fast loop (offsets), medium loop (align, home)
    medium and slow loop -> params_save -> RequestSave -> ServiceSlow (stage off) -> flash
    fast loop -> s_oc_trip -> mode manager (fault), alignment (abort)

### 1.4 What is hard

Everything shared is written without locks by contexts that preempt each other: a value is
checked in one and acted on after another has changed it; a status word serves two
calibrations; a flag that is cleared may have been set again meanwhile; flash work takes tens
of milliseconds, any operation of it may fail, and power may be lost at any point. There are
no automated tests in the repository. `PROJECT.json` lists the hazards at the line
where each bites.

## 2. The modules

| Module | Models | How |
|---|---|---|
| `DurableRegister` | what the store promises | abstract specification: acknowledged and tentative value, a crash keeps the first or promotes the second |
| `PersistentStore` | store and flash port | `pc` is the line the main loop is at; erase and program are a begin and an end with a torn slot between them; the medium loop's `RequestSave` and `PowerCycle` happen anywhere, the main loop's request is two steps (`LatchBegin`, `LatchEnd`) |
| `ModeManager` | `MC_ModeManager_Update` | functions from a command to latch and mode |
| `Drive` | fast loop, arbiter, alignment, captures, PWM backend, offset calibration | a fast tick is one step; a medium tick is four (`Update`, `Arbitrate`, `Align`, `Capture`), cut where it reads or writes what the fast loop shares |
| `Calibration` | slow loop's commands, status and flash gate, on top of `Drive` | `spc` is the line of the slow loop; each check and each act is a step |
| `RequestReply` | what the link promises about numbered requests | abstract specification: requests are executed in the order sent and at most once, replies come back in that order, both may be lost |
| `SpiLink` | SPI slave with the protocol handler's validate, dispatch, encode | a frame is clocked in two parts; the completion callback is three steps (swap and re-arm, validate, dispatch), the DMA and the master go on between them; an error may strike between any two parts |
| `Comms` | cyclic command, dead-man, telemetry map; slow-loop decimation | time in medium ticks; the slow loop is the steps "run" (ask) and "zero" (write), and may be busy in between |
| `Parameters` | `params_save`, save and reset commands, dictionary checks and blob, restore at boot | `spc` is the slow loop's line; the gather is a step per item, the latch a step per half; behind the buffer is the register of `DurableRegister`; `due` is what must be in flash |
| `Motion` | NEW_SETPOINT, plan, hold, halt, test signal, position anchor | a medium tick is six steps, cut where it reads `s_oc_trip`; commands, requests and trips are chosen where they are read |
| `SignalGen` | test-signal generator as the medium loop drives it: the shape of the signal | a step is a medium tick; arming and the trigger come at any instant between ticks |
| `MCPersistentStore`, `MCDrive`, `MCCalibration`, `MCComms`, `MCParameters`, `MCMotion`, `MCSignalGen` | values of the constants | |
| `PersistentStore_proofs`, `Drive_proofs`, `Calibration_proofs`, `SpiLink_proofs`, `Comms_proofs`, `Parameters_proofs`, `Motion_proofs`, `SignalGen_proofs` | theorems | section 4 |

Variables keep the meaning of the C statics they stand for (see the comment beside each
declaration). The others are history, and marked so: `heeded` and `source` of `Drive` (the command
the mode manager last read, and whom the arbiter last obeyed), `resetFailed` of `PersistentStore`
(the last factory reset left a slot unerased) and its `latched` (what the payload buffer held as a
`RequestSave` returned), `executed`, `answered` and `refused` of `SpiLink`,
`busy`, `silent` and `remote` of `Comms` (times), `due` of `Parameters`, `reference` and `commanded`
of `Motion`.
Operators preceded by a comment "Mutant" are not part of the model: each is a definition with
a plausible bug, used to see that the property that guards against it fails.

`Drive!TypeOK` is checked as part of `CalTypeOK`. Six properties stand in the modules without a run of
their own and are proved: `Parameters!TypeOK`, `SpiTypeOK`, `ReplyKept`, `RequestReply!InOrder`, `AlignCountsDown` and
`UnracedSaveVerifies`.

### 2.1 Abstractions

- **Store.** A payload is two words, so that a mixture of two payloads can be recognised;
  `Record` keeps what went into the CRC apart from what was copied, and a slot is valid
  when they agree (the CRC is taken to detect every difference; the magic and version of a
  torn slot are covered by the same check). The sequence number stops at `MaxSeq` instead of
  wrapping at 2^32. A `RequestSave` of the medium loop is one step: only the fast loop and nothing
  that touches the store preempts it. The main loop's (`params_save` of the slow loop) copies half
  the payload and then the other, and the medium loop's may come in between. One medium-loop
  request at most lands in the CRC-and-copy window (`raced`): the window is shorter than the medium
  period. All callers save the same size.
- **Drive.** Set-point values do not decide whether the stage is on and are left out. The
  measured current is above or below the limit, by free choice at every reading (a reading
  flagged invalid counts as below, as in the code). The `s_eff_*` scalars written by one
  stretch of code are one step. The alignment's two reads of `s_oc_trip` are one step, so an
  alignment never starts and aborts in one tick. The regulator's voltage may be zero or not.
  The fast loop chooses the backend at every tick from the watch window, in remote too: `backend` is
  "foc", the H bridge with its current controller ("loop"), or the H bridge with the controller
  bypassed by `hb_open_loop` ("bypass"); a debugger switches it at any instant. `Brushed` says whether
  the motor's own backend is the H bridge, so that "foc" cannot be chosen. `output` is "bridge" for
  the voltage set by hand and "open" for the open-loop d-axis voltage.
  `SlowAccess` stands for the slow loop and is replaced by its code in `Calibration`.
- **PWM.** `MC_Pwm_Start` on channels that are already started is refused by the HAL, and
  `__HAL_TIM_MOE_DISABLE` does nothing while a channel is enabled (the macro in
  `Drivers/STM32G4xx_HAL_Driver/Inc/stm32g4xx_hal_tim.h`).
- **Calibration.** `Persist` does not follow the store's state: a flash operation may or may
  not happen, as the store's own module has it. The end of an offset calibration is
  tested, reported and gathered in one step.
- **SpiLink.** A frame is two parts, header and payload; damage is detected by the CRCs. The
  sequence number is taken from the frame before anything of it is checked, so that of a damaged or
  misplaced header may be any number. An error reply says by its class whether the header it names
  a request from was good ("error": length or payload CRC) or not ("headerError": sync, version or
  header CRC). The completion and the error
  callback have one interrupt priority and do not nest. A re-arm that the HAL refuses is repeated
  by `reset_and_arm` and ends the same. The master is external: requests (object dictionary reads
  and writes) are numbered, everything else it sends is a poll. `Gapped` says whether it leaves
  the handler's time between frames.
- **Comms.** A transaction is one step (the main loop cannot preempt it, the medium loop touches
  nothing of it). The stall counter stops one above the limit instead of at 255, the map
  version wraps at `Versions` instead of 256. `Disciplined` says whether the host edits the
  map only while it is deactivated, as ADR-014 has it. The building of the telemetry blob is left out, and so is a
  dictionary write of the target velocity (`mc_comms.c:259`): the host sets it by cyclic commands.
- **Parameters.** A calibration's value is the number of its capture, an entry's value a small
  number. Of the store, the flag and the buffer are modelled, and of the flash behind them what
  `PersistentStore` was shown to promise (`UsesDurableRegister`, the other half of
  `ImplementsDurableRegister`): `flash` is the acknowledged record, `tentative` one that a failed
  write left complete, which the next boot may find; a power loss during a write keeps
  the old record or finds the new one, and one during a factory reset may find anything that is
  storable. Building a record and erasing the spare slot are one step, as nothing but the
  slow loop touches either; programming and verifying are the next. Erases that fail during a factory reset are
  left to `PersistentStore`. A `params_save` of the medium loop is one step.
- **Motion.** Positions are whole units; a plan moves by one a tick, the test signal by one. The
  axis goes at most one unit between two readings, driven, pushed or turned by hand: the
  control loops are not assumed to follow. The soft limits are part of the choice of
  `Targets`. When the alignment runs is `Drive`'s matter; here it may take the drive away.
- **SignalGen.** Numbers are whole (steps, steps a tick, ticks), and the braking speed is rounded
  down to a whole one where the code's is a rounded float; the same defects appear in the
  compiled C at the scheduler's tick. The loop the test drives is left out: the generator does not
  depend on it, and a velocity or current test only has no acceleration limit. `armed` stands for
  the mode manager's state, the trip latch and the host's choice of loop together.

## 3. The runs

Expected to pass:

| Run | Checks | Instance |
|---|---|---|
| `store` | `TypeOK`, `GoodCopyKept`, `NoMixedRecord`, `SeqNeverGoesBack`, `SaveEventuallyCommits`, `ImplementsDurableRegister` | 2 payloads, 3 saves, requests of the medium loop anywhere and of the main loop half by half, every flash operation may fail, power losses and factory resets anywhere |
| `drive` | `ClosedOnlyWhenEnabled`, `TripHoldsOff`, `AlignOwnsDrive`, `OpenOnlyWhenAligning` | stop, halt and a command that enables and resets; a debugger that writes at any instant, switching backends too; an alignment of two hold ticks |
| `calibration` | `CalTypeOK`, `BlindOnlyWhenOff`, `ImplementsDrive` | all three calibration commands, two-sample calibration, the host writes at any instant |
| `calibration_live` | `PatientHostServed`, `OffsetsSaved`, `OffsetAnswered`, `AlignEnds`, `ResetWorks`, `TripEndsByReset` | the host waits for each answer, and enables with and without reset |
| `spi_link` | `AppliesWhatItValidated`, `ErrorMeansNotExecuted`, `ImplementsRequestReply`, `ReplyArrives` | 2 requests among any number of polls, every part may be damaged and a damaged header name any request, 2 SPI errors anywhere, a gap between frames |
| `comms` | `TypeOK`, `SilenceStops`, `LayoutValidated`, `OnlySilenceStops` | a slow tick every 2 medium ticks, a slow loop busy for up to 3, a time-out of 3 slow ticks, commissioning switched at any instant; a map of 2 slots |
| `param_save` | `SavedWhenClean`, `CalibratedMeansMeasured`, `UsesDurableRegister` | 3 calibrations and 3 dictionary rows, one of which does not fit the blob; writes that fail before or after the record is complete, resets, power cycles anywhere |
| `motion` | `TypeOK`, `HaltHolds`, `DemandNeverJumps`, `AnchorFrozen` | 5 commands, 3 axis positions on a turn of 3 units, 2 targets, 2 homes; trips, alignments, commissioning, test signals, failing reads |
| `signal` | `TypeOK`, `NearItsBand`, `AccelLimited`, `StopEnds`, `TrainAlternates` | 14 pulses and trains of both signs, limited, linear and in steps; armed, disarmed and fired at any tick |

Expected to find a violation (each is a disagreement between the code and its documents, listed
under `findings` of `PROJECT.json`):

| Run | Violated | What the behaviour shows |
|---|---|---|
| `store_lost_save` | `CleanMeansSaved` | a capture saved while the previous save is in flash work is reported as written and is not |
| `drive_safe_off` | `SafeOffClearsMoe` | safe-off leaves the outputs enabled at 50 % duty |
| `motion_stale_plan` | `EntryHolds` | a plan that outlived a disable takes the axis along at the next enable |

`SafeOffClearsMoe` being false means that `output = "off"` in the passing runs is what the
firmware believes (`s_pwm_on` is false, duties at 50 %), not what the pins do.

More behaviours of the models differ from what the documents say. No run is spent on them: the
first group follows from a step or two of one action, and the second is a few steps long.

- The fault reset is a level: `Latch` looks at the bit and keeps no previous value, so a bit
  that stays on resets every fault when it ends. ADR_018 and `mc_mode_manager.c:11` say "edge"
  (under `findings`). `ResetWorks` therefore speaks of a host that pulses the bit until the fault
  is gone, which both readings of the documents must serve.
- A debugger that leaves `hb_open_loop` set with the brushed backend leaves a voltage behind that
  the next enabling command of the host puts on the motor instead of its set point
  (`mc_scheduler.c:590`, under `findings`). `ClosedOnlyWhenEnabled` and `AlignOwnsDrive` count it as
  driving; `OpenOnlyWhenAligning` is about the d-axis voltage only.
- An ERROR reply about a damaged header names whatever number lay there, also that of a request that
  was carried out (`mc_comms.c:200`, `:221`). A host learns something from `ref_sequence` only when
  the class says that the header was good, and `ErrorMeansNotExecuted` is about that.
- A fast tick between `Arbitrate` and `Align` drives closed loop for that one sample although an
  alignment runs (`mc_scheduler.c:780` and `:906`). `AlignOwnsDrive` is what is left of
  "OVERRIDES the effective command": it holds between medium ticks.
- Between `CheckOffset` and `AcceptOffset` the stage may come on; the first zero-current sample
  is then taken under power. From that sample on the stage is off (`BlindOnlyWhenOff`).
- Between "gate" and "flash" of `Persist` the stage may come on, and stays on while the slow
  loop erases and programs (`mc_scheduler.c:1178`).
- The dead-man needs three silent slow ticks, so it trips after 30 to 40 ms and not after the 30 ms
  of ADR-016; with flash work in the slow loop the checks bunch, and it may trip earlier or
  later (`Grace` and `Bound`). It zeroes the velocity target; `docs/spec/06_spi_protocol.md:91`
  asks for a quick stop.

Longer ones, also under `findings`:

- A factory reset whose erase failed restarts the sequence at zero, and the surviving record
  wins over later saves (`resetFailed`).
- Two saves at once: the medium loop's request in the middle of the main loop's copy leaves the halves
  of two payloads in the buffer, and their mixture is saved with a valid CRC (`LatchBegin`,
  `RequestSave`, `LatchEnd`). `NoMixedRecord` is what is left: no other mixture is ever accepted.
- A trip between `Update` and the raising of `clear_fault` is erased before the mode manager
  has seen it, and Fault never latches.
- A home or alignment command during an offset calibration overwrites the status the slow loop
  waits for, and the measured offsets are not saved: why `calibration_live` has a host that waits.
- An offset calibration accepted during an alignment blocks the stage while the hold time runs
  out, and the electrical offset is captured with the rotor free.
- A second save command between the gather and the clearing of the first is lost: why
  `param_save` has a host that waits (`Patient`).
- A test signal outlives a halt, and a plan outlives a test signal: the two exceptions that
  `DemandNeverJumps` names.
- The telemetry map is edited in place, and the size of an entry is not checked.
- With back-to-back frames (`Gapped = FALSE` in `SpiLink.cfg`) TLC finds `AppliesWhatItValidated`
  violated with two frames and no error: the DMA overwrites the payload between check and use.
- An acceleration-limited test signal passes its target with the velocity left at the landing when
  it goes down, or is stopped as it lands (why `NearItsBand` has a slack); it drops the velocity it has
  left when it is stopped as its value is zero (the exception of `AccelLimited`); and with an
  amplitude of zero a one-shot never ends, because its dwell counts as a pause.

### 3.1 Bounds

- Two payloads with different halves show every mixture; three saves make each slot the
  active one, the spare, and the active one again, with a reset in between.
- `HoldTicks = 2` in `drive` gives an alignment a first, a middle and a last tick, so that an
  enable may arrive in the middle; elsewhere the tick that starts it and the one that ends it
  are enough. `CalSamples = 2` in `calibration` has a sample that ends the average and one that
  does not; elsewhere the number of samples does not matter to the properties and is 1.
- `MCHost` reaches the quick stop, the disabled and the enabled branch of the routing, and sets
  the reset bit in the enabled state, the most active combination. Modes differ in their set
  points only; the unroutable mode and the halted drive are covered by the proofs for every command.
- `calibration` and `calibration_live` leave the debugger out, because splitting the slow loop at
  every access multiplies the states; `DriveImplemented` is proved with the debugger in.
- `drive`: the constraint `MCStatuses` leaves out the status values "zero" and "offset" of the
  slow loop, which nothing in `Drive` reads; `calibration` has them.
- `spi_link`: the pipeline is two transactions deep, so two requests fill it, and a poll does to the
  buffers what a third would; of two errors the second may strike while the link recovers from the
  first. The proofs hold for any number of both.
- `comms`: `MaxBusy > Div` lets slow ticks collapse, and the checks bunch after it; the history
  clocks stop one above `Bound`. `Limit = 3` is the code's. Two slots and three entries give a
  map that is too large, one with an entry that is no PDO, and one that changes back.
- `param_save`: one capture of each kind and one value beside the default show every order of two
  writers; the table has a row that is read-only, one with a range, and one past the blob's end
  (what does not fit the real blob's 256 bytes is silently not saved; the real table is generated
  from a contract outside this repository).
- `motion`: a turn of 3 units is the smallest that a step of one unit cannot confuse; three axis
  positions, two targets and two homes make Position, plan, hold and entry all differ. The
  commands reach every branch of the routing except quick stop, which routes as disable does.
- `signal`: limits from 1 to 8 and rates from 3 to 20 give ramps that cruise and ramps that are
  too short to, landings that fit whole ticks and landings that do not; a rate or a limit of zero
  or below, and an amplitude of zero, are each in it. A dwell of two ticks can be stopped within.
- No run needs `CHECK_DEADLOCK FALSE`: the timers never stop.

### 3.2 Fairness

- `SpiLink!SpiFairSpec`: weak fairness of the master's poll and of a frame it has begun (it streams
  cyclic commands, and heartbeats when it has none), and of the completion callback, an interrupt.
  `ReplyArrives` supposes no further SPI error, and that the DMA and the master are in step: an
  error in the middle of a frame re-arms the DMA at its first byte, and nothing in the slave
  finds the frame boundary again. None for requests, errors or damage.
- `PersistentStore!FairSpec`: weak fairness of `ServiceSlow` and of a factory reset that has
  begun. The main loop polls for ever and every interrupt returns. `SaveEventuallyCommits` itself
  supposes that from some point on flash operations succeed and no more saves are requested:
  hardware that always fails saves nothing, and each new request starts over. Its "not dirty" is what
  the store reports; that it may report it of a save that was dropped is `store_lost_save`.
- `Calibration!CalFairSpec`: weak fairness of `FastTick` and `MediumTick`, both driven by
  hardware timers started once in `main.c`, and strong fairness of `SlowLoop`: a step of the main
  loop is enabled only between medium ticks (`mpc = "idle"`), again and again, and the
  processor returns to it there.
- `SignalGen!Spec`: weak fairness of `Overlay`, the medium tick, a timer interrupt. `StopEnds` and
  `TrainAlternates` suppose that the host at last leaves the generator disarmed, or armed.

## 4. The proofs

`tlapm` checks all theorems with SMT, Zenon and LS4; the assumptions are the modules' own
(`StoreAssumption`, `DriveAssumption`, `CalibrationAssumption`, `SpiAssumption`,
`CommsAssumption`, `ParametersAssumption`, `MotionAssumption`, `SignalsAssumption`), which TLC evaluates on every run.

- **Store.** For any payloads, words and `MaxSeq`, with every flash operation free to fail:
  `TypeOK`, `GoodCopyKept`, `NoMixedRecord`, `SeqNeverGoesBack` and the refinement of
  `DurableRegister`. `GoodCopyKept` alone is not inductive: the inductive invariant adds what
  is known at each `pc`: that `target` is the spare slot while saving, that `words` mixes at most
  one change of payload (which is what makes a validated record whole: if the two halves that
  went into the CRC equal the two that were copied, they are what the buffer held before the change
  or after it, and a buffer that is dirty outside the main loop's copy was latched), and how
  far a factory reset has come. From a factory reset that could not erase a slot until the next
  boot (`resetFailed`) the register promises nothing: the surviving record may win over later saves.
  `UnracedSaveVerifies` is the service's own part in `SaveEventuallyCommits`: a save that no request
  overtook while it was built is never refused at its read-back. From the two readings of the
  payload on, the words that went into the CRC and those that are copied agree unless a request
  landed between them (`CopyInv`), and at the read-back the slot holds the record made of
  them (`ReadBackInv`).
- **Drive.** For any commands, hold time, number of samples, with and without debugger and
  with either backend of the motor: `TypeOK` and the five safety properties. `ClosedOnlyWhenEnabled`,
  `AlignOwnsDrive` and `OpenOnlyWhenAligning` speak of settled states (a fast tick has run
  since the last medium tick ended); the inductive invariant ties the effective command to
  the mode, the mode to the command the mode manager read, and both to the point of the
  medium tick, and says of a fast tick that its output is the demand of that command unless blocked.
  Two action properties go with them. `TripEndsByReset` needs that the reset flag is up only from
  the arbiter to the next fast tick, and only for the command the mode manager saw (`FlagFresh`).
  `AlignCountsDown` says that a running alignment only ever has less time.
- **Calibration.** Every step of the slow loop is a step or a stutter of `Drive`
  (`DriveImplemented`), so Drive's theorems hold with the real slow loop: type correctness, the
  five safety properties (`SafeWithSlowLoop`) and the two action properties
  (`ResetsAndHoldsWithSlowLoop`). `PatientHostServed` is what a host gets that waits for each answer
  before it asks again: no command is lost between `TakeZero` or `TakeAlign` and `Clear`, an offset
  calibration and an alignment never overlap, and offsets that wait for their save have the status
  by which `FinishOffset` notices them. It needs where a command is on its way from `cal_command`
  through the slow loop and its request to the end of the calibration: while the slow loop has one
  in hand nothing else is under way, and every calibration under way shows in the status
  (`Ordered`, `Busy`). Why the host must wait is shown by what happens to one that does not
  (section 3).
- **SPI link.** For any number of requests and errors, with a gap between frames (`Gapped`; without
  it a payload is carried out that was not validated): `SpiTypeOK`, `AppliesWhatItValidated`,
  `ErrorMeansNotExecuted` (of error replies that say the header was good) and the refinement of `RequestReply`. The gap alone does not keep the
  receive buffer still: after an error in the middle of a frame the DMA is out of step with the
  master, and parts arrive while the handler runs. The invariant says that such a frame never
  validates, because a payload lies where a header belongs or nothing lies where the payload does
  (`Misplaced`, `Overwritten`), so that from the check to the use nothing is received (`Held`).
  `Numbered` and `Fresh` follow a request's number from the wire to the reply. The refinement maps
  what is under way to the abstract queues and needs in addition which buffer is armed. Two results
  rest on it. `LinkInOrder` carries `InOrder` of the abstract queue over to the link: it is an
  invariant of `RequestReply` because a request is executed only after all that were before it, which the
  link keeps since the request under way is the newest of all (`Newest`). `RepliesKept` says that
  nothing but an SPI error loses a reply that is owed: a swap of the buffers, a later request or a
  damaged frame does not.
- **Comms.** For any decimation, busy time, time-out, entries and budget: `TypeOK`, `SilenceStops`
  and `OnlySilenceStops`; `LayoutValidated` for a host that edits the map only
  while it is deactivated (`Disciplined`). The dead-man counts checks and the properties speak of
  time. From above, the invariant bounds the silence by the checks that counted it plus the time
  since the slow loop last started; two starts are at most `Period` apart because a slow loop
  that starts has cleared the flag of every tick before (`Started`). From below, the slow ticks
  that were counted are `Div` apart, but for the first, which may have been due before the command
  (`Spaced`); that is where the two cases of `Grace` come from.
- **Parameters.** For any dictionary table, blob size and range of values: `TypeOK` and
  `CalibratedMeansMeasured`; `SavedWhenClean` for a host that waits for its save command to be
  cleared (`Patient`; one that does not loses its second command). The invariant follows what is due
  on its way: RAM keeps it, or something newer, throughout (`LiveKeeps`), and the record, the buffer,
  the writer's copy and flash keep it as far as it has come (`Carried`). A stored value is one
  that a restore accepts (`Settles`), without which a power cycle could lose it. That holds of
  every record a boot may find, also of one that was never acknowledged.
  `WithinTheRegister` refines `DurableRegister`, for every host. It needs that a record that waits
  to be written and one being written are complete (`Full`). With the store's own refinement it
  closes the seam between the two modules, but for a factory reset whose erases fail: what
  `Parameters` assumes of flash `PersistentStore` provides.
- **Motion.** For any commands, targets, homes and extent of the axis and any odd turn of at
  least 3 units: `TypeOK`, `HaltHolds`, `DemandNeverJumps` and `AnchorFrozen`. The action properties
  rest on what the steps before left: a locked anchor was seeded (`Anchored`), a halted drive
  has no plan (`Abandoned`), and a plan or a test signal that is about to be demanded is where
  the demand is or starts where the axis is (`PlanFollows`, `TestFollows`).
- **SignalGen.** For any amplitude, rate, limit and times, fired and stopped at any tick: `TypeOK`,
  `NearItsBand` and `AccelLimited`. A generator that is idle or dwells is at rest, which is what
  limits the acceleration through the ends of ramps. The overrun needs the braking
  parabola: with distance d past a bound of the band, velocity w and limit a, the invariant is
  2ad + w² - aw <= ar, kept by a tick that brakes (`Braking`) and by one that still approaches
  (`Approaching`), and it leaves d < r, the rate (`Overrun`).
  That signals arrive is proved of the ticks: a sequence of generators each the update of the one
  before. A ramp that is not done is nearer to its end after a tick (`Nearer`), in an order of three
  counts: which side of the target the signal is on (above, then at it and still moving down,
  below, at it), how fast it moves away, how far it is. It crosses the target at most once, from
  above, because a landing sets the value to the target and a velocity upwards is held there
  until it is gone. So every ramp ends on its target (`RampsReach`), a disarmed generator comes to
  rest at zero and stays (`StopsEnd`), and a train dwells at its peaks in turn (`TrainsAlternate`),
  whatever the parameters. A least counterexample (`LeastNat`) stands for induction in these proofs.

Liveness under fairness is outside the prover's reach (ENABLED), so the temporal formulas are only
model-checked; what each rests on besides fairness is proved for all values of the constants:

| Model-checked | Proved |
|---|---|
| `SaveEventuallyCommits` | a service that nothing disturbs does not refuse its save: `UnracedSavesVerify` |
| `ReplyArrives` | nothing but an SPI error loses a reply: `RepliesKept` |
| `AlignEnds` | an alignment's time only runs out: `AlignsCountDown`, `ResetsAndHoldsWithSlowLoop` |
| `ResetWorks` | a converse, that a trip ends in no other way: `TripsEndByReset` |
| `OffsetsSaved`, `OffsetAnswered` | the end of a calibration is noticed by its status: `PatientHostsServed` |
| `StopEnds`, `TrainAlternates` | both in full, but for the ticks' coming: `StopsEnd`, `TrainsAlternate` |

The violations are TLC's too. The recursive functions (`Total` of `Comms`, `BlobSize` of
`Parameters`) are opaque to the proofs: none depends on what they compute.

## 5. Not modelled, and the plan

- Floating-point control laws (FOC, PID, velocity loop, current request, H-bridge, observer, the
  trajectory profile) have no discrete state that TLC could explore with profit;
  where one is entered, reset or left is in `Drive` and `Motion`.
- SSI bit decoding, unit conversion, CRC arithmetic, field encoding and the dictionary's table are
  pure functions or data. Board configuration, DAC mirror and debug window only copy numbers
  (`od_apply_gains` too).
- `mc_faults.h`, `mc_calibration.h`, `mc_command_conditioner.h` and `mc_params.h` have no code.
- HAL, CMSIS, start-up and CubeMX code is vendored or generated; what the modules rely on of it
  (timer macros, DMA, flash operations) is part of the module that uses it. It is the bulk of the
  repository's lines: the firmware's own sources are 3660 of them.

Left to do, in this order:

1. Operators over bounded inputs: H-bridge duty and clamps over scaled integers, SSI decode.
2. The loops' integrators as fresh or charged: the velocity loop is not told that an offset calibration
   blocks the stage (`vel_active`, `mc_scheduler.c:1049`) and keeps integrating.
