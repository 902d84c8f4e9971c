----------------------------- MODULE Calibration -----------------------------
(***************************************************************************)
(* The slow loop's part in calibrating and saving: MC_SlowLoop_10_100Hz of *)
(* src/src/mc_scheduler.c, together with the fast and medium loops of      *)
(* Drive.                                                                  *)
(*                                                                         *)
(* The slow loop runs in the main loop, so every interrupt preempts it,    *)
(* also between its reading the object dictionary or the stage and its     *)
(* acting on what it read.  It is split at each such place, in the order   *)
(* of the code.  SPI writes land wherever a medium tick is not running.    *)
(***************************************************************************)
EXTENDS Drive

CONSTANTS CalCommands,   \* the calibrations the host asks for
          Patient        \* it asks only when the slow loop has dealt with the last one

ASSUME CalibrationAssumption == /\ CalCommands \subseteq {"align", "offset", "zero"}
                                /\ Patient \in BOOLEAN

VARIABLES calCommand,    \* g_od.cal_command
          spc            \* where the slow loop is

slow    == <<calCommand, spc>>
calVars == <<vars, slow>>

SlowStep == {"idle", "zero", "zeroClear", "align", "alignClear", "offset", "accept",
             "finish", "gate", "flash"}

CalInit == Init /\ calCommand = "none" /\ spc = "idle"

-----------------------------------------------------------------------------
(* The part of Drive's state the slow loop never writes, and the rest.     *)
Untouched == UNCHANGED <<command, window, clearFault, arbiter, aligning, alignTicks, stage,
                         mpc, fastRan>>
Shared    == <<offsetReq, alignReq, captureReq, calStatus, unsaved>>

At(from, to) == mpc = "idle" /\ spc = from /\ spc' = to /\ Untouched

Wake == At("idle", "zero") /\ UNCHANGED <<Shared, calCommand>>

(* A request is raised first, its command cleared afterwards.              *)
TakeZero == /\ At("zero", "zeroClear") /\ calCommand = "zero"
            /\ captureReq' = TRUE /\ calStatus' = "zero"
            /\ UNCHANGED <<offsetReq, alignReq, unsaved, calCommand>>

TakeAlign == /\ At("align", "alignClear") /\ calCommand = "align"
             /\ alignReq' = TRUE
             /\ UNCHANGED <<offsetReq, captureReq, calStatus, unsaved, calCommand>>

Clear == /\ At("zeroClear", "align") \/ At("alignClear", "offset")
         /\ calCommand' = "none"
         /\ UNCHANGED Shared

Skip == /\ \/ At("zero", "align")    /\ calCommand # "zero"
           \/ At("align", "offset")  /\ calCommand # "align"
           \/ At("offset", "finish") /\ calCommand # "offset"
        /\ UNCHANGED <<Shared, calCommand>>

(* The offset command is cleared first; s_pwm_on decides, and the request  *)
(* is raised after it was read.                                            *)
CheckOffset == /\ At("offset", "accept") /\ calCommand = "offset" /\ output = "off"
               /\ calCommand' = "none"
               /\ UNCHANGED Shared

AcceptOffset == /\ At("accept", "finish")
                /\ offsetReq' = TRUE /\ calStatus' = "offset"
                /\ UNCHANGED <<alignReq, captureReq, unsaved, calCommand>>

(* Mutant: a rejected command also cancels the calibration under way.      *)
RejectCancels == /\ At("offset", "finish") /\ calCommand = "offset" /\ output # "off"
                 /\ calCommand' = "none" /\ calStatus' = "fault" /\ offsetReq' = FALSE
                 /\ UNCHANGED <<alignReq, captureReq, unsaved>>

RejectOffset == /\ At("offset", "finish") /\ calCommand = "offset" /\ output # "off"
                /\ calCommand' = "none" /\ calStatus' = "fault"
                /\ UNCHANGED <<offsetReq, alignReq, captureReq, unsaved>>

(* Mutant: the end is taken for granted once the calibration is accepted.  *)
FinishedEarly == calStatus = "offset"

Finished == calStatus = "offset" /\ ~offsetReq

(* Mutants: the end is reported without the save; it is not noticed.       *)
FinishWithoutSave == /\ At("finish", "gate")
                     /\ calStatus' = IF Finished THEN "none" ELSE calStatus
                     /\ UNCHANGED <<offsetReq, alignReq, captureReq, unsaved, calCommand>>
FinishNever       == At("finish", "gate") /\ UNCHANGED <<Shared, calCommand>>

(* The fast loop has cleared the request: report done and save.            *)
FinishOffset == /\ At("finish", "gate")
                /\ \/ /\ Finished
                      /\ calStatus' = "none" /\ unsaved' = {}
                   \/ ~Finished /\ UNCHANGED <<calStatus, unsaved>>
                /\ UNCHANGED <<offsetReq, alignReq, captureReq, calCommand>>

(* With the stage off the store may erase and program; either way the tick *)
(* ends.  A tick that finds no save to write is over at once.              *)
Persist == /\ \/ At("gate", "flash") /\ output = "off"
              \/ At("gate", "idle")
              \/ At("flash", "idle")
           /\ UNCHANGED <<Shared, calCommand>>

SlowLoop == \/ Wake \/ TakeZero \/ TakeAlign \/ Clear \/ Skip
            \/ CheckOffset \/ AcceptOffset \/ RejectOffset
            \/ FinishOffset \/ Persist

(* The SPI handler writes the command the host sent.                       *)
WriteCalCommand ==
    /\ mpc = "idle"
    /\ Patient => /\ spc = "idle" /\ calCommand = "none" /\ ~alignReq
                  /\ calStatus \notin {"align", "offset"}
    /\ calCommand' \in CalCommands
    /\ UNCHANGED <<vars, spc>>

CalNext == \/ Control /\ UNCHANGED slow
           \/ SlowLoop
           \/ WriteCalCommand

CalSpec == CalInit /\ [][CalNext]_calVars

(* The main loop gets the processor again and again between interrupts.    *)
CalFairSpec == /\ CalSpec
               /\ WF_calVars(FastTick /\ UNCHANGED slow)
               /\ WF_calVars(MediumTick /\ UNCHANGED slow)
               /\ SF_calVars(SlowLoop)

-----------------------------------------------------------------------------
(* Properties *)

(* Type invariant of the module.                                           *)
CalTypeOK == TypeOK /\ calCommand \in {"none", "align", "offset", "zero"} /\ spc \in SlowStep

(* The slow loop does to the drive only what Drive admits of it, so all    *)
(* that holds of Drive holds with this slow loop.                          *)
ImplementsDrive == Spec

(* What the slow loop clears is the command it took, no other.             *)
ClearsWhatItTook == /\ spc = "zeroClear" => calCommand = "zero"
                    /\ spc = "alignClear" => calCommand = "align"

(* No offset calibration is under way while an alignment runs or is asked. *)
CalibrationsApart == offsetReq => ~alignReq /\ ~aligning

(* Offsets that wait for their save are the ones the slow loop will notice *)
(* by the status, however the loops interleave.                            *)
OffsetsNoticed == unsaved # {} => Finished

(* A host that waits for each answer loses no command between the slow     *)
(* loop's test and its clearing, overlaps no two calibrations, and has its *)
(* measured offsets saved: the code leaves all three to the host.          *)
PatientHostServed ==
    Patient /\ ~Bench => ClearsWhatItTook /\ CalibrationsApart /\ OffsetsNoticed

(* Freshly measured offsets are saved.                                     *)
OffsetsSaved == unsaved # {} ~> unsaved = {}

(* An accepted offset calibration is answered, whatever happens to it.     *)
OffsetAnswered == calStatus = "offset" ~> calStatus # "offset"
==============================================================================
