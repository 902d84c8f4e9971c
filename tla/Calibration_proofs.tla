-------------------------- MODULE Calibration_proofs --------------------------
(***************************************************************************)
(* The slow loop of Calibration is one of those Drive admits, so what      *)
(* Drive_proofs shows of Drive holds with the slow loop the firmware has.  *)
(***************************************************************************)
EXTENDS Calibration, Drive_proofs

USE CalibrationAssumption DEF CalStatus, slow, Shared, Untouched

(* Every step of the slow loop is a step Drive admits of it, or changes    *)
(* nothing Drive has.                                                      *)
LEMMA SlowLoopAdmitted == TypeOK /\ SlowLoop => SlowAccess \/ UNCHANGED vars
  <1> SUFFICES ASSUME TypeOK, SlowLoop PROVE SlowAccess \/ UNCHANGED vars
    OBVIOUS
  <1> USE DEF At
  <1>1. CASE Wake \/ Clear \/ Skip \/ CheckOffset \/ Persist
    BY Zenon, <1>1 DEF Wake, Clear, Skip, CheckOffset, Persist, vars, requests, alignment
  <1>2. CASE TakeZero \/ TakeAlign \/ AcceptOffset \/ RejectOffset
    BY Zenon, <1>2 DEF TakeZero, TakeAlign, AcceptOffset, RejectOffset, SlowAccess
  <1>3. CASE FinishOffset
    <2>1. CASE UNCHANGED <<calStatus, unsaved>>
      BY Zenon, <1>3, <2>1 DEF FinishOffset, vars, requests, alignment
    <2>2. CASE calStatus' = "none" /\ unsaved' = {}
      BY Zenon, <1>3, <2>2 DEF FinishOffset, SlowAccess
    <2> QED
      BY Zenon, <1>3, <2>1, <2>2 DEF FinishOffset
  <1> QED
    BY Zenon, <1>1, <1>2, <1>3 DEF SlowLoop

LEMMA StepMaps == TypeOK /\ [CalNext]_calVars => [Next]_vars
  <1> SUFFICES ASSUME TypeOK, [CalNext]_calVars PROVE [Next]_vars
    OBVIOUS
  <1>1. CASE Control
    BY Zenon, <1>1 DEF Next
  <1>2. CASE SlowLoop
    BY Zenon, <1>2, SlowLoopAdmitted DEF Next
  <1>3. CASE WriteCalCommand \/ UNCHANGED calVars
    BY Zenon, <1>3 DEF WriteCalCommand, calVars
  <1> QED
    BY Zenon, <1>1, <1>2, <1>3 DEF CalNext

(* Drive's inductive invariant is kept by the slow loop as well.           *)
LEMMA DriveInvariant == CalSpec => []IInv
  <1>1. CalInit => IInv
    BY InitIInv DEF CalInit
  <1>2. IInv => TypeOK
    BY DEF IInv
  <1>3. IInv /\ [CalNext]_calVars => IInv'
    BY <1>2, StepMaps, NextKeeps
  <1> QED
    BY <1>1, <1>3, PTL DEF CalSpec

(* The drive with its real slow loop implements Drive.                     *)
THEOREM DriveImplemented == CalSpec => ImplementsDrive
  <1>1. CalInit => Init
    BY DEF CalInit
  <1>2. IInv => TypeOK
    BY DEF IInv
  <1> QED
    BY <1>1, <1>2, StepMaps, DriveInvariant, PTL DEF CalSpec, Spec, ImplementsDrive

LEMMA SlowStepTyped ==
    CalTypeOK /\ [CalNext]_calVars /\ TypeOK' => CalTypeOK'
  <1> SUFFICES ASSUME CalTypeOK, [CalNext]_calVars, TypeOK' PROVE CalTypeOK'
    OBVIOUS
  <1>1. CASE UNCHANGED slow
    BY <1>1 DEF CalTypeOK
  <1>2. CASE SlowLoop
    <2>1. spc' \in SlowStep
      BY <1>2 DEF SlowLoop, At, SlowStep, Wake, TakeZero, TakeAlign, Clear, Skip, CheckOffset,
                  AcceptOffset, RejectOffset, FinishOffset, Persist
    <2>2. calCommand' \in {calCommand, "none"}
      BY Zenon, <1>2 DEF SlowLoop, Wake, TakeZero, TakeAlign, Clear, Skip, CheckOffset,
                         AcceptOffset, RejectOffset, FinishOffset, Persist
    <2> QED
      BY <2>1, <2>2 DEF CalTypeOK
  <1>3. CASE WriteCalCommand
    BY <1>3 DEF WriteCalCommand, CalTypeOK
  <1> QED
    BY <1>1, <1>2, <1>3 DEF CalNext, calVars

(* Every reachable state of the drive with its slow loop is well typed.    *)
THEOREM CalTypeCorrect == CalSpec => []CalTypeOK
  <1>1. CalInit /\ TypeOK => CalTypeOK
    BY DEF CalInit, CalTypeOK, SlowStep
  <1>2. IInv => TypeOK
    BY DEF IInv
  <1> QED
    BY <1>1, <1>2, SlowStepTyped, DriveInvariant, PTL DEF CalSpec
(* The theorems about Drive, with the firmware's slow loop.                *)
THEOREM SafeWithSlowLoop ==
    CalSpec => [](/\ TripHoldsOff /\ ClosedOnlyWhenEnabled /\ AlignOwnsDrive
                  /\ OpenOnlyWhenAligning /\ BlindOnlyWhenOff)
  BY DriveInvariant, IInvImplies, PTL

THEOREM ResetsAndHoldsWithSlowLoop == CalSpec => TripEndsByReset /\ AlignCountsDown
  BY DriveImplemented, TripsEndByReset, AlignsCountDown DEF ImplementsDrive

-----------------------------------------------------------------------------
(* A host that waits for each answer                                       *)

(* A command the slow loop has not cleared, or an offset calibration it is *)
(* about to request.                                                       *)
Busy == calCommand # "none" \/ spc = "accept"

(* While it is busy nothing else is under way but the alignment it has     *)
(* just requested; and each calibration under way shows in the status.     *)
Ordered ==
    /\ Busy => ~offsetReq /\ unsaved = {} /\ calStatus # "offset"
    /\ Busy /\ ~(calCommand = "align" /\ spc = "alignClear") =>
          ~alignReq /\ ~aligning /\ calStatus # "align"
    /\ spc = "accept" => calCommand = "none"
    /\ ClearsWhatItTook
    /\ alignReq => ~aligning /\ calStatus # "offset"
    /\ aligning => calStatus = "align"
    /\ offsetReq => calStatus = "offset" /\ unsaved = {}
    /\ unsaved # {} => calStatus = "offset"

LEMMA FastKeepsOrder == ASSUME IInv, Ordered, FastTick, UNCHANGED slow PROVE Ordered'
  <1>1. UNCHANGED <<alignReq, aligning, calStatus, calCommand, spc>>
    BY Zenon DEF FastTick, alignment
  <1>2. \/ offsetReq' = offsetReq /\ unsaved' = unsaved
        \/ offsetReq /\ ~offsetReq'
    BY Zenon DEF FastTick, CalibrateOffsets, ReadFast
  <1> QED
    BY <1>1, <1>2 DEF Ordered, Busy, ClearsWhatItTook

LEMMA MediumKeepsOrder == ASSUME IInv, Ordered, MediumTick, UNCHANGED slow PROVE Ordered'
  <1>1. CASE Update \/ Arbitrate
    <2>1. UNCHANGED <<offsetReq, alignReq, aligning, calStatus, unsaved, calCommand, spc>>
      BY Zenon, <1>1 DEF Update, Arbitrate, requests, alignment
    <2> QED
      BY <2>1 DEF Ordered, Busy, ClearsWhatItTook
  <1>2. CASE Capture
    <2>1. /\ UNCHANGED <<offsetReq, alignReq, aligning, calStatus, calCommand, spc>>
          /\ unsaved' \in {{}, unsaved}
      BY Zenon, <1>2 DEF Capture, alignment
    <2> QED
      BY <2>1 DEF Ordered, Busy, ClearsWhatItTook
  <1>3. CASE Align
    <2>1. UNCHANGED <<offsetReq, calCommand, spc>> /\ ~alignReq'
      BY Zenon, <1>3 DEF Align
    <2>2. CASE ~alignReq /\ ~aligning
      <3>1. UNCHANGED <<aligning, calStatus, unsaved>>
        BY <1>3, <2>2 DEF Align, AlignIdle, AlignAbort, AlignHold, AlignDone, Running, Starts,
           RequestStatus
      <3> QED
        BY <2>1, <3>1 DEF Ordered, Busy, ClearsWhatItTook
    <2>3. CASE alignReq \/ aligning
      <3>1. ~offsetReq /\ unsaved = {} /\ (Busy => calCommand = "align" /\ spc = "alignClear")
        BY <2>3 DEF Ordered
      <3>2. /\ alignReq /\ Starts => RequestStatus = "align"
            /\ alignReq /\ ~Starts => RequestStatus = "fault"
            /\ ~alignReq => RequestStatus = calStatus
        <4>1. ASSUME alignReq, Starts PROVE RequestStatus = "align"
          BY SMT, <4>1 DEF RequestStatus
        <4>2. ASSUME alignReq, ~Starts PROVE RequestStatus = "fault"
          BY SMT, <4>2 DEF RequestStatus
        <4>3. ASSUME ~alignReq PROVE RequestStatus = calStatus
          <5>1. ~Starts
            BY <4>3 DEF Starts
          <5> QED
            BY SMT, <4>3, <5>1 DEF RequestStatus
        <4> QED
          BY <4>1, <4>2, <4>3
      <3>3. /\ calStatus # "offset" /\ (aligning => calStatus = "align" /\ ~alignReq)
            /\ Starts => alignReq
        BY <2>3 DEF Ordered, Starts
      <3>4. RequestStatus # "offset" /\ (Running => RequestStatus = "align")
        BY <2>3, <3>2, <3>3 DEF Running
      <3>5. /\ calStatus' # "offset" /\ unsaved' = {}
            /\ aligning' => calStatus' = "align"
        <4>1. CASE AlignIdle
          <5>1. calStatus' = RequestStatus /\ unsaved' = unsaved /\ aligning' = aligning
            BY Zenon, <4>1 DEF AlignIdle
          <5>2. ~aligning
            BY <4>1 DEF AlignIdle, Running
          <5> QED
            BY <3>1, <3>4, <5>1, <5>2
        <4>2. CASE AlignAbort
          <5>1. calStatus' = "fault" /\ unsaved' = unsaved /\ ~aligning'
            BY Zenon, <4>2 DEF AlignAbort
          <5> QED
            BY <3>1, <5>1
        <4>3. CASE AlignHold
          <5>1. calStatus' = RequestStatus /\ unsaved' = unsaved /\ Running
            BY Zenon, <4>3 DEF AlignHold
          <5> QED
            BY <3>1, <3>4, <5>1
        <4>4. CASE AlignDone
          <5>1. calStatus' = "none" /\ unsaved' = {} /\ ~aligning'
            BY Zenon, <4>4 DEF AlignDone
          <5> QED
            BY <5>1
        <4> QED
          BY Zenon, <1>3, <4>1, <4>2, <4>3, <4>4 DEF Align
      <3> QED
        BY <2>1, <3>1, <3>5 DEF Ordered, Busy, ClearsWhatItTook
    <2> QED
      BY <2>2, <2>3
  <1> QED
    BY <1>1, <1>2, <1>3 DEF MediumTick

LEMMA SlowKeepsOrder == ASSUME Ordered, SlowLoop PROVE Ordered'
  <1> USE DEF At, Ordered, Busy, ClearsWhatItTook
  <1>1. aligning' = aligning
    BY Zenon DEF SlowLoop, Wake, TakeZero, TakeAlign, Clear, Skip, CheckOffset,
                 AcceptOffset, RejectOffset, FinishOffset, Persist
  <1>2. CASE Wake \/ Clear \/ Skip \/ CheckOffset \/ Persist
    BY <1>1, <1>2 DEF Wake, Clear, Skip, CheckOffset, Persist
  <1>3. CASE TakeZero
    BY <1>1, <1>3 DEF TakeZero
  <1>4. CASE TakeAlign
    BY <1>1, <1>4 DEF TakeAlign
  <1>5. CASE AcceptOffset
    BY <1>1, <1>5 DEF AcceptOffset
  <1>6. CASE RejectOffset
    BY <1>1, <1>6 DEF RejectOffset
  <1>7. CASE FinishOffset
    BY <1>1, <1>7 DEF FinishOffset, Finished
  <1> QED
    BY <1>2, <1>3, <1>4, <1>5, <1>6, <1>7 DEF SlowLoop

LEMMA OrderKept ==
    ASSUME IInv, Ordered, Patient, ~Bench, [CalNext]_calVars
    PROVE  Ordered'
  <1>1. CASE SlowLoop
    BY <1>1, SlowKeepsOrder
  <1>2. CASE Control /\ UNCHANGED slow
    <2>1. CASE ReceiveCommand
      <3>1. UNCHANGED <<offsetReq, alignReq, aligning, calStatus, unsaved, calCommand, spc>>
        BY Zenon, <1>2, <2>1 DEF ReceiveCommand, requests, alignment
      <3> QED
        BY <3>1 DEF Ordered, Busy, ClearsWhatItTook
    <2>2. ~WatchWindow
      BY DEF WatchWindow
    <2> QED
      BY <1>2, <2>1, <2>2, FastKeepsOrder, MediumKeepsOrder DEF Control
  <1>3. CASE WriteCalCommand
    BY <1>3 DEF WriteCalCommand, Ordered, Busy, ClearsWhatItTook, vars, requests, alignment
  <1>4. CASE UNCHANGED calVars
    BY <1>4 DEF calVars, vars, requests, alignment, Ordered, Busy, ClearsWhatItTook
  <1> QED
    BY <1>1, <1>2, <1>3, <1>4 DEF CalNext

(* A host that waits for each answer has every command obeyed, every       *)
(* calibration to itself, and its offsets saved when the slow loop comes   *)
(* round (MC_SlowLoop_10_100Hz and the alignment of the medium loop).      *)
THEOREM PatientHostsServed == CalSpec => []PatientHostServed
  <1>1. CASE Patient /\ ~Bench
    <2>1. CalInit => Ordered
      BY DEF CalInit, Init, Ordered, Busy, ClearsWhatItTook
    <2>2. IInv /\ Ordered /\ [CalNext]_calVars => Ordered'
      BY <1>1, OrderKept
    <2>3. Ordered => PatientHostServed
      BY DEF Ordered, PatientHostServed, CalibrationsApart, OffsetsNoticed, Finished
    <2> QED
      BY <2>1, <2>2, <2>3, DriveInvariant, PTL DEF CalSpec
  <1>2. CASE ~(Patient /\ ~Bench)
    <2>1. PatientHostServed
      BY <1>2 DEF PatientHostServed
    <2> QED
      BY <2>1, PTL
  <1> QED
    BY <1>1, <1>2
===============================================================================
