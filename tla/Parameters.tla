----------------------------- MODULE Parameters -----------------------------
(***************************************************************************)
(* What is saved and what comes back: the gathering of calibration and     *)
(* object dictionary values by params_save and their restoring at boot     *)
(* (src/src/mc_scheduler.c), with the dictionary's write checks and its    *)
(* serialisation (src/src/mc_od.c).  Of the record store of                *)
(* src/src/mc_persistent_store.c, the flag and the buffer are modelled,    *)
(* and of the flash behind them what DurableRegister promises: a record    *)
(* that was written but not acknowledged may come back at the next boot,   *)
(* and during a factory reset anything that was ever stored.               *)
(*                                                                         *)
(* params_save runs in the medium loop after a capture, in one step: only  *)
(* the end of an offset calibration could come between its reads.  In the  *)
(* slow loop captures, SPI writes and the fast loop come between any two.  *)
(* A calibration value is numbered by its capture.                         *)
(***************************************************************************)
EXTENDS Naturals, Sequences

CONSTANTS Table,        \* the dictionary's rows, in order
          BlobMax,      \* MC_PARAMS_OD_BLOB_MAX
          MaxValue,     \* bound: values of an entry, captures of a calibration
          Patient       \* the host waits until its last save command is cleared

Entry == {Table[i].name : i \in DOMAIN Table}
Row   == [name : STRING, size : {1, 2, 4}, persistent : BOOLEAN, writable : BOOLEAN,
          min : Nat, max : Nat]

ASSUME ParametersAssumption ==
    /\ Table \in Seq(Row)
    /\ \A i, j \in DOMAIN Table : Table[i].name = Table[j].name => i = j
    /\ Entry \cap {"electrical", "current", "home"} = {}
    /\ BlobMax \in Nat /\ MaxValue \in Nat \ {0} /\ Patient \in BOOLEAN

Captured    == {"electrical", "home"}      \* captured by the medium loop
Calibration == Captured \cup {"current"}
Item        == Calibration \cup Entry
Value       == 0 .. MaxValue
Sent        == 0 .. MaxValue + 1           \* what the host may write to an entry
Nominal     == MaxValue + 1                \* the board's current offsets
NoRecord    == << >>

VARIABLES
    live,        \* the values in RAM: s_est_cfg, s_cs, s_home_offset_rad, g_od
    calibrated,  \* s_cs.calibrated
    offsetCal,   \* the offset calibration: none, under way, or ended and not yet noticed
    saveCommand, \* g_od.store_save_command holds the magic
    resetAsked,  \* g_od.store_factory_reset, then g_mc_inject.request_factory_reset
    stageOn,     \* s_pwm_on
    spc,         \* where the slow loop is
    return,      \* where it goes on after params_save
    record,      \* params_save's local p, as far as gathered
    payload,     \* s_payload
    dirty,       \* s_dirty
    writing,     \* the record ServiceSlow is writing
    flash,       \* the record the store has acknowledged
    tentative,   \* a complete record that a failed write left in the spare slot
    due          \* history: what must be in flash when nothing is pending, item by item

requests  == <<offsetCal, saveCommand, resetAsked>>
slowLoop  == <<spc, return, record, writing>>
store     == <<payload, dirty, flash, tentative>>
paramVars == <<live, calibrated, requests, stageOn, slowLoop, store, due>>

Defaults == [i \in Item |-> IF i = "current" THEN Nominal ELSE 0]

Init == /\ live = Defaults /\ calibrated = FALSE
        /\ offsetCal = "none" /\ saveCommand = FALSE /\ resetAsked = FALSE
        /\ stageOn = FALSE
        /\ spc = "idle" /\ return = "idle" /\ record = NoRecord /\ writing = NoRecord
        /\ payload = NoRecord /\ dirty = FALSE
        /\ flash = NoRecord /\ tentative = NoRecord /\ due = NoRecord

-----------------------------------------------------------------------------
(* The dictionary *)

RowOf(e) == CHOOSE i \in DOMAIN Table : Table[i].name = e

(* MC_Od_Write for a known entry of the right type and size: the access,   *)
(* then the range if the window is not empty.                              *)
Accepts(e, v) == LET r == Table[RowOf(e)] IN
    r.writable /\ (r.max > r.min => r.min <= v /\ v <= r.max)

(* MC_Od_GatherPersistent stops at the first row that does not fit.        *)
BlobSize[n \in 0 .. Len(Table)] ==
    IF n = 0 THEN 0
    ELSE BlobSize[n - 1] + IF Table[n].persistent THEN 4 + Table[n].size ELSE 0

Gathered == {e \in Entry : Table[RowOf(e)].persistent /\ BlobSize[RowOf(e)] <= BlobMax}

-----------------------------------------------------------------------------
(* What params_save reads, item by item: offsets nobody measured are saved *)
(* as zero.                                                                *)

Order == <<"electrical", "current", "home">>

(* Mutant: offsets are saved whether or not they were measured.            *)
ReadAlways(i) == live[i]

Read(i) == IF i = "current" /\ ~calibrated THEN 0 ELSE live[i]

(* One more field of a record.                                             *)
With(f, i, v) == [j \in DOMAIN f \cup {i} |-> IF j = i THEN v ELSE f[j]]

Snapshot == [i \in Calibration \cup Gathered |-> Read(i)]

(* The medium loop captures a calibration and saves.  The value is due     *)
(* unless the slow loop is gathering, or writing a record: then an older   *)
(* gather overwrites it, or the end of the write clears its dirty flag.    *)
Capture(i) ==
    /\ live[i] < MaxValue
    /\ live' = [live EXCEPT ![i] = @ + 1]
    /\ payload' = [Snapshot EXCEPT ![i] = live'[i]] /\ dirty' = TRUE
    /\ due' = IF spc \in {"gather", "copyCalib", "copyBlob", "write"} THEN due
              ELSE With(due, i, live'[i])
    /\ UNCHANGED <<calibrated, requests, stageOn, slowLoop, flash, tentative>>

(* The fast loop ends an offset calibration, and switches the stage.       *)
MeasureOffsets ==
    /\ offsetCal = "running" /\ (live["current"] < MaxValue \/ ~calibrated)
    /\ live' = [live EXCEPT !["current"] = IF calibrated THEN @ + 1 ELSE 1]
    /\ calibrated' = TRUE /\ offsetCal' = "measured"
    /\ UNCHANGED <<saveCommand, resetAsked, stageOn, slowLoop, store, due>>

SwitchStage == /\ stageOn' = ~stageOn
               /\ UNCHANGED <<live, calibrated, requests, slowLoop, store, due>>

(* The SPI handler: parameters, save and reset commands, calibrations.     *)
WriteEntry(e, v) == /\ Accepts(e, v)
                    /\ live' = [live EXCEPT ![e] = v]
                    /\ due' = [i \in DOMAIN due \ {e} |-> due[i]]
                    /\ UNCHANGED <<calibrated, requests, stageOn, slowLoop, store>>

CommandSave == /\ Patient => ~saveCommand
               /\ saveCommand' = TRUE
               /\ due' = Snapshot
               /\ UNCHANGED <<live, calibrated, offsetCal, resetAsked, stageOn, slowLoop, store>>

CommandReset == /\ ~resetAsked /\ resetAsked' = TRUE
                /\ UNCHANGED <<live, calibrated, offsetCal, saveCommand, stageOn, slowLoop, store, due>>

CommandOffsetCal == /\ offsetCal = "none" /\ ~stageOn /\ offsetCal' = "running"
                    /\ UNCHANGED <<live, calibrated, saveCommand, resetAsked, stageOn, slowLoop, store, due>>

-----------------------------------------------------------------------------
(* The slow loop *)

At(from, to) == spc = from /\ spc' = to /\ UNCHANGED <<live, calibrated, stageOn>>
Gather(from, then) == At(from, "gather") /\ record' = NoRecord /\ return' = then

Quiet == UNCHANGED <<requests, store, due>>

TakeSave == /\ saveCommand /\ Gather("idle", "clear")
            /\ Quiet /\ UNCHANGED writing

ClearSave == /\ At("clear", "finish") /\ saveCommand' = FALSE
             /\ UNCHANGED <<offsetCal, resetAsked, store, due, return, record, writing>>

NoSave == /\ ~saveCommand /\ At("idle", "finish")
          /\ Quiet /\ UNCHANGED <<return, record, writing>>

FinishOffsets == /\ offsetCal = "measured" /\ Gather("finish", "gate")
                 /\ offsetCal' = "none"
                 /\ due' = With(due, "current", live["current"])
                 /\ UNCHANGED <<saveCommand, resetAsked, store, writing>>

NotFinished == /\ offsetCal # "measured" /\ At("finish", "gate")
               /\ Quiet /\ UNCHANGED <<return, record, writing>>

(* One more item of the record; the dictionary's rows follow in order.     *)
Rest  == (Calibration \cup Gathered) \ DOMAIN record
IsNext(i) == IF i \in Calibration
             THEN \A k \in 1 .. 3 : Order[k] = i => \A l \in 1 .. k - 1 : Order[l] \notin Rest
             ELSE Rest \cap Calibration = {} /\ \A e \in Rest : RowOf(i) <= RowOf(e)

GatherItem == \E i \in Rest :
    /\ IsNext(i)
    /\ record' = With(record, i, Read(i))
    /\ At("gather", IF Rest = {i} THEN "copyCalib" ELSE "gather")
    /\ Quiet /\ UNCHANGED <<return, writing>>

(* RequestSave copies the record over the buffer, front to back.           *)
Overlay(items) == [j \in Calibration \cup Gathered |->
                      IF j \in items THEN record[j]
                      ELSE IF j \in DOMAIN payload THEN payload[j] ELSE 0]

CopyCalib == /\ At("copyCalib", "copyBlob")
             /\ payload' = Overlay(Calibration)
             /\ UNCHANGED <<requests, dirty, flash, tentative, due, return, record, writing>>

CopyBlob == /\ At("copyBlob", return)
            /\ payload' = Overlay(Gathered) /\ dirty' = TRUE
            /\ record' = NoRecord /\ return' = "idle"
            /\ UNCHANGED <<requests, flash, tentative, due, writing>>

(* Flash work only with the stage off: first a reset, then the save.       *)
StageOn == stageOn /\ At("gate", "idle") /\ Quiet /\ UNCHANGED <<return, record, writing>>

FactoryReset == /\ ~stageOn /\ resetAsked /\ At("gate", "reset")
                /\ resetAsked' = FALSE
                /\ flash' = NoRecord /\ tentative' = NoRecord
                /\ UNCHANGED <<offsetCal, saveCommand, payload, dirty, due, return, record, writing>>

(* Everything is erased.  A save not yet written is forgotten with it; a   *)
(* save command not yet taken is not.                                      *)
ResetEnd == /\ At("reset", "service")
            /\ dirty' = FALSE
            /\ due' = IF saveCommand THEN due ELSE NoRecord
            /\ UNCHANGED <<requests, payload, flash, tentative, return, record, writing>>

(* ServiceSlow builds the record and erases the spare slot; an erase that  *)
(* fails ends it, and may or may not have destroyed what the slot held.    *)
Service == /\ \/ spc = "gate" /\ ~stageOn /\ ~resetAsked
              \/ spc = "service"
           /\ \/ ~dirty /\ At(spc, "idle") /\ UNCHANGED <<tentative, writing>>
              \/ dirty /\ At(spc, "idle") /\ tentative' \in {tentative, NoRecord}
                       /\ UNCHANGED writing
              \/ dirty /\ At(spc, "write") /\ tentative' = NoRecord /\ writing' = payload
           /\ UNCHANGED <<requests, payload, dirty, flash, due, return, record>>

(* Mutants: a write that fails takes the save for done; the buffer as it   *)
(* is now counts as written.                                               *)
WriteForgets == /\ At("write", "idle")
                /\ flash' \in {flash, writing} /\ dirty' = FALSE /\ tentative' = NoRecord
                /\ writing' = NoRecord
                /\ UNCHANGED <<requests, payload, due, return, record>>

WriteLatest == /\ At("write", "idle")
               /\ flash' = payload /\ dirty' = FALSE /\ tentative' = NoRecord
               /\ writing' = NoRecord
               /\ UNCHANGED <<requests, payload, due, return, record>>

(* The record is programmed and verified.  A failure leaves the save       *)
(* pending, and the spare slot torn or, unacknowledged, complete.          *)
Write == /\ At("write", "idle")
         /\ \/ flash' = writing /\ dirty' = FALSE /\ tentative' = NoRecord
            \/ tentative' \in {NoRecord, writing} /\ UNCHANGED <<flash, dirty>>
         /\ writing' = NoRecord
         /\ UNCHANGED <<requests, payload, due, return, record>>

SlowLoop == \/ TakeSave \/ ClearSave \/ NoSave \/ FinishOffsets \/ NotFinished
            \/ GatherItem \/ CopyCalib \/ CopyBlob
            \/ StageOn \/ FactoryReset \/ ResetEnd \/ Service \/ Write

-----------------------------------------------------------------------------
(* Boot: MC_Framework_Init restores the record the store finds.            *)

(* MC_Od_RestorePersistent writes each saved value as a host would; saved  *)
(* offsets of zero mean none were measured.                                *)
Restored(r, i) ==
    IF \/ i \notin DOMAIN r
       \/ i = "current" /\ r[i] = 0
       \/ i \in Entry /\ ~Accepts(i, r[i])
    THEN Defaults[i] ELSE r[i]

(* The records a save may leave in flash: whole, each entry with a value   *)
(* the dictionary accepts or its initial zero.                             *)
Storable == {r \in [Calibration \cup Gathered -> Sent] :
                /\ \A i \in Calibration : r[i] \in Value
                /\ \A e \in Gathered : Accepts(e, r[e]) \/ r[e] = 0}

(* The record a loss of power may promote: the one being written, or one   *)
(* that a failed write left.                                               *)
Unacknowledged == IF spc = "write" THEN writing ELSE tentative

(* What the store's Init may find.                                         *)
Found == IF spc = "reset" THEN Storable \cup {NoRecord}
         ELSE {flash} \cup ({Unacknowledged} \ {NoRecord})

PowerCycle == \E r \in Found :
    /\ live' = [i \in Item |-> Restored(r, i)]
    /\ calibrated' = ("current" \in DOMAIN r /\ r["current"] # 0)
    /\ offsetCal' = "none" /\ saveCommand' = FALSE /\ resetAsked' = FALSE
    /\ stageOn' = FALSE
    /\ spc' = "idle" /\ return' = "idle" /\ record' = NoRecord /\ writing' = NoRecord
    /\ payload' = r /\ dirty' = FALSE
    /\ flash' = r /\ tentative' = NoRecord
    /\ due' = r

Next == \/ \E i \in Captured : Capture(i)
        \/ MeasureOffsets \/ SwitchStage
        \/ \E e \in Entry, v \in Sent : WriteEntry(e, v)
        \/ CommandSave \/ CommandReset \/ CommandOffsetCal
        \/ SlowLoop
        \/ PowerCycle

Spec == Init /\ [][Next]_paramVars

-----------------------------------------------------------------------------
(* Properties *)

Sound(f) == /\ DOMAIN f \subseteq Calibration \cup Gathered
            /\ \A i \in DOMAIN f : f[i] \in IF i \in Entry THEN Sent ELSE Value

(* Type invariant of the module.                                           *)
TypeOK == /\ live \in [Item -> Value \cup {Nominal}]
          /\ calibrated \in BOOLEAN /\ stageOn \in BOOLEAN /\ dirty \in BOOLEAN
          /\ offsetCal \in {"none", "running", "measured"}
          /\ saveCommand \in BOOLEAN /\ resetAsked \in BOOLEAN
          /\ spc \in {"idle", "gather", "copyCalib", "copyBlob", "clear", "finish",
                      "gate", "reset", "service", "write"}
          /\ return \in {"idle", "clear", "gate"}
          /\ \A f \in {payload, writing, flash, tentative} :
                 Sound(f) /\ DOMAIN f \in {{}, Calibration \cup Gathered}
          /\ Sound(record) /\ Sound(due)

(* Once nothing is under way and nothing pending, flash holds what it was  *)
(* told to: every value of the host's last save command that no later      *)
(* write replaced, and each calibration, or a later one of its kind.  A    *)
(* failed write, a stage that stays on, captures and host writes between   *)
(* any two reads of the gather, and restarts delay this but do not break it.*)
SavedWhenClean ==
    spc = "idle" /\ ~saveCommand /\ ~dirty =>
        \A i \in DOMAIN due :
            /\ i \in DOMAIN flash
            /\ IF i \in Entry THEN flash[i] = due[i] ELSE flash[i] >= due[i]

(* The parameter path uses the store within what the register promises and *)
(* adds no way of its own to change it: only whole records of values that  *)
(* a restore takes are written, what is acknowledged is what was written   *)
(* whatever overtakes the buffer meanwhile, and flash changes otherwise    *)
(* only by a reset or by the boot after a loss of power.                   *)
Register == INSTANCE DurableRegister
    WITH Payload <- Storable, None <- NoRecord,
         committed <- flash, tentative <- Unacknowledged, resetting <- (spc = "reset")

UsesDurableRegister == Register!Spec

(* The drive reports its current offsets as calibrated only with offsets   *)
(* that were measured: saving the nominal ones and restoring them at the   *)
(* next boot does not make them measured (the zero sentinel of ADR-026).   *)
CalibratedMeansMeasured == calibrated => live["current"] \in Value \ {0}
==============================================================================
