-------------------------- MODULE Parameters_proofs --------------------------
(***************************************************************************)
(* Proofs about Parameters, for every dictionary table, blob size and      *)
(* range of values; the one about saves, for a host that waits for its     *)
(* save command to be cleared.                                             *)
(*                                                                         *)
(* What is due travels: it is read from RAM into the record, copied into   *)
(* the buffer, taken by the writer and found in flash.  The invariant says *)
(* how far it has come (Carried): each stage keeps it (Keeps), and RAM     *)
(* keeps it throughout (LiveKeeps), so that a gather that is repeated, or  *)
(* overtaken by a capture, reads it again or something newer.              *)
(***************************************************************************)
EXTENDS Parameters, TLAPS

(* v will do for what is due of item i: a host's value itself, or a        *)
(* capture that is not older.                                              *)
Suits(v, i) == IF i \in Entry THEN v = due[i] ELSE v >= due[i]
Keeps(f, items) == \A i \in DOMAIN due \cap items : i \in DOMAIN f /\ Suits(f[i], i)

(* What is due is what a gather would read now.                            *)
LiveKeeps == \A i \in DOMAIN due : Suits(Read(i), i)

(* A params_save under way, and one that was begun for the save command.   *)
Gathering == spc \in {"gather", "copyCalib", "copyBlob"}
Taken     == spc = "clear" \/ (Gathering /\ return = "clear")

(* Where what is due is, between saves and at each point of one.           *)
Saved   == IF dirty THEN Keeps(payload, Item) ELSE Keeps(flash, Item)
Carried == CASE spc = "gather"    -> Keeps(record, DOMAIN record)
             [] spc = "copyCalib" -> Keeps(record, Item)
             [] spc = "copyBlob"  -> Keeps(record, Item) /\ Keeps(payload, Calibration)
             [] spc = "write"     -> dirty /\ Keeps(payload, Item) /\ Keeps(writing, Item)
             [] spc = "reset"     -> TRUE
             [] OTHER             -> Saved

(* A record that is copied, one that waits to be written and one that is   *)
(* being written are complete.                                             *)
Complete(f) == f = [i \in Calibration \cup Gathered |-> f[i]]

Full    == /\ spc \in {"copyCalib", "copyBlob"} => DOMAIN record = Calibration \cup Gathered
           /\ dirty => Complete(payload)
           /\ spc = "write" => Complete(writing)
(* The command is cleared only after its gather; offsets that were         *)
(* measured are not the nominal ones.                                      *)
Command == Taken => saveCommand
Offsets == (offsetCal = "measured" => calibrated)
           /\ (calibrated => live["current"] \in Value \ {0})

(* Every stored dictionary value is one that a restore accepts, or the     *)
(* default it leaves.                                                      *)
Settled(f) == \A e \in Entry \cap DOMAIN f : Accepts(e, f[e]) \/ f[e] = 0

Settles == /\ Settled(live) /\ Settled(record) /\ Settled(payload) /\ Settled(writing)
           /\ Settled(flash) /\ Settled(tentative)

(* A command not yet taken will gather again: until then nothing is said.  *)
Travels == (saveCommand /\ ~Taken) \/ Carried

(* The type invariant in three parts.                                      *)
Flags  == /\ calibrated \in BOOLEAN /\ stageOn \in BOOLEAN /\ dirty \in BOOLEAN
          /\ saveCommand \in BOOLEAN /\ resetAsked \in BOOLEAN
Places == /\ offsetCal \in {"none", "running", "measured"}
          /\ spc \in {"idle", "gather", "copyCalib", "copyBlob", "clear", "finish",
                      "gate", "reset", "service", "write"}
          /\ return \in {"idle", "clear", "gate"}
Whole(f) == Sound(f) /\ DOMAIN f \in {{}, Calibration \cup Gathered}
Values == /\ live \in [Item -> Value \cup {Nominal}]
          /\ Whole(payload) /\ Whole(writing) /\ Whole(flash) /\ Whole(tentative)
          /\ Sound(record) /\ Sound(due)
          /\ \A i \in Captured : live[i] \in Value

IInv == /\ Flags /\ Places /\ Values
        /\ Offsets /\ Settles /\ Full /\ Command /\ LiveKeeps /\ Travels

-----------------------------------------------------------------------------
USE ParametersAssumption DEF requests, slowLoop, store

LEMMA Types == Flags /\ Places /\ Values => TypeOK
  <1> SUFFICES ASSUME Flags, Places, Values PROVE TypeOK
    OBVIOUS
  <1>1. \A f \in {payload, writing, flash, tentative} :
            Sound(f) /\ DOMAIN f \in {{}, Calibration \cup Gathered}
    BY Zenon DEF Values, Whole
  <1> QED
    BY Zenon, <1>1 DEF TypeOK, Flags, Places, Values

LEMMA FlagsKept == Flags /\ [Next]_paramVars => Flags'
  <1> SUFFICES ASSUME Flags, [Next]_paramVars PROVE Flags'
    OBVIOUS
  <1> USE DEF Flags
  <1>1. ASSUME NEW i \in Captured, Capture(i) PROVE Flags'
    BY Zenon, <1>1 DEF Capture
  <1>2. CASE MeasureOffsets
    BY Zenon, <1>2 DEF MeasureOffsets
  <1>3. CASE SwitchStage
    <2>1. stageOn' = ~stageOn /\ UNCHANGED <<calibrated, dirty, saveCommand, resetAsked>>
      BY Zenon, <1>3 DEF SwitchStage
    <2> QED
      BY Zenon, <2>1
  <1>4. ASSUME NEW e \in Entry, NEW v \in Sent, WriteEntry(e, v) PROVE Flags'
    BY Zenon, <1>4 DEF WriteEntry
  <1>5. CASE CommandSave \/ CommandReset \/ CommandOffsetCal
    BY Zenon, <1>5 DEF CommandSave, CommandReset, CommandOffsetCal
  <1>6. CASE TakeSave \/ ClearSave \/ NoSave \/ FinishOffsets \/ NotFinished
    BY Zenon, <1>6 DEF TakeSave, ClearSave, NoSave, FinishOffsets, NotFinished, Gather, At, Quiet
  <1>7. CASE GatherItem \/ CopyCalib \/ CopyBlob
    BY Zenon, <1>7 DEF GatherItem, CopyCalib, CopyBlob, At, Quiet
  <1>8. CASE StageOn \/ FactoryReset \/ ResetEnd \/ Service \/ Write
    BY Zenon, <1>8 DEF StageOn, FactoryReset, ResetEnd, Service, Write, At, Quiet
  <1>9. CASE PowerCycle
    <2>1. (\E r \in Found : calibrated' = ("current" \in DOMAIN r /\ r["current"] # 0))
          /\ stageOn' = FALSE /\ dirty' = FALSE /\ saveCommand' = FALSE /\ resetAsked' = FALSE
      BY Zenon, <1>9 DEF PowerCycle
    <2> QED
      BY Zenon, <2>1
  <1>10. CASE UNCHANGED paramVars
    BY Zenon, <1>10 DEF paramVars
  <1> QED
    BY Zenon, <1>1, <1>2, <1>3, <1>4, <1>5, <1>6, <1>7, <1>8, <1>9, <1>10 DEF Next, SlowLoop

LEMMA PlacesKept == Places /\ [Next]_paramVars => Places'
  <1> SUFFICES ASSUME Places, [Next]_paramVars PROVE Places'
    OBVIOUS
  <1> USE DEF Places
  <1>1. ASSUME NEW i \in Captured, Capture(i) PROVE Places'
    BY <1>1 DEF Capture
  <1>2. CASE MeasureOffsets \/ SwitchStage
    BY <1>2 DEF MeasureOffsets, SwitchStage
  <1>4. ASSUME NEW e \in Entry, NEW v \in Sent, WriteEntry(e, v) PROVE Places'
    BY <1>4 DEF WriteEntry
  <1>5. CASE CommandSave \/ CommandReset \/ CommandOffsetCal
    BY <1>5 DEF CommandSave, CommandReset, CommandOffsetCal
  <1>6. CASE TakeSave \/ ClearSave \/ NoSave \/ FinishOffsets \/ NotFinished
    BY <1>6 DEF TakeSave, ClearSave, NoSave, FinishOffsets, NotFinished, Gather, At, Quiet
  <1>7. CASE GatherItem \/ CopyCalib \/ CopyBlob
    BY <1>7 DEF GatherItem, CopyCalib, CopyBlob, At, Quiet
  <1>8. CASE StageOn \/ FactoryReset \/ ResetEnd \/ Service \/ Write
    BY <1>8 DEF StageOn, FactoryReset, ResetEnd, Service, Write, At, Quiet
  <1>9. CASE PowerCycle \/ UNCHANGED paramVars
    BY <1>9 DEF PowerCycle, paramVars
  <1> QED
    BY <1>1, <1>2, <1>4, <1>5, <1>6, <1>7, <1>8, <1>9 DEF Next, SlowLoop

(* What is read of an item is of its type.                                 *)
LEMMA ReadTyped ==
    ASSUME Values, Offsets, NEW i \in Item
    PROVE  Read(i) \in IF i \in Entry THEN Sent ELSE Value
  <1>1. Value = 0 .. MaxValue /\ Sent = 0 .. MaxValue + 1 /\ Nominal = MaxValue + 1
    BY DEF Value, Sent, Nominal
  <1>2. CASE i \in Entry
    <2>1. Read(i) = live[i]
      BY <1>2 DEF Read
    <2> QED
      BY <1>1, <1>2, <2>1 DEF Values
  <1>3. CASE i \in Captured
    <2>1. i # "current" /\ i \notin Entry
      BY <1>3 DEF Captured
    <2> QED
      BY <1>3, <2>1 DEF Read, Values
  <1>4. CASE i = "current"
    BY <1>1, <1>4 DEF Read, Offsets
  <1> QED
    BY <1>2, <1>3, <1>4 DEF Item, Calibration

LEMMA Items == /\ Gathered \subseteq Entry /\ Calibration \cup Gathered \subseteq Item
               /\ Calibration \cap Entry = {} /\ Captured \subseteq Calibration
               /\ "current" \in Calibration \ Captured
  BY DEF Gathered, Item, Calibration, Captured

LEMMA SnapshotTyped ==
    ASSUME Values, Offsets
    PROVE  Whole(Snapshot)
  BY ReadTyped, Items DEF Snapshot, Whole, Sound

LEMMA Empty == DOMAIN NoRecord = {} /\ Sound(NoRecord) /\ Whole(NoRecord) /\ Settled(NoRecord)
  <1>1. DOMAIN NoRecord = {}
    BY DEF NoRecord
  <1> QED
    BY <1>1 DEF Sound, Whole, Settled

LEMMA WithTyped ==
    ASSUME NEW f, Sound(f), NEW i \in Calibration \cup Gathered, NEW v,
           v \in IF i \in Entry THEN Sent ELSE Value
    PROVE  Sound(With(f, i, v))
  BY DEF Sound, With

LEMMA OverlayTyped ==
    ASSUME Values, NEW items \in SUBSET DOMAIN record
    PROVE  Whole(Overlay(items))
  <1>1. \A i \in items : record[i] \in IF i \in Entry THEN Sent ELSE Value
    BY DEF Values, Sound
  <1>2. \A i \in DOMAIN payload : payload[i] \in IF i \in Entry THEN Sent ELSE Value
    BY DEF Values, Whole, Sound
  <1>3. 0 \in Value /\ 0 \in Sent
    BY DEF Value, Sent
  <1> DEFINE o == Overlay(items)
  <1>4. DOMAIN o = Calibration \cup Gathered
    BY DEF Overlay
  <1>5. \A i \in DOMAIN o : o[i] \in IF i \in Entry THEN Sent ELSE Value
    BY <1>1, <1>2, <1>3 DEF Overlay
  <1> HIDE DEF o
  <1>6. Whole(o)
    BY <1>4, <1>5 DEF Whole, Sound
  <1> QED
    BY <1>6 DEF o

(* What a boot may find is whole.                                          *)
LEMMA StorableTyped ==
    ASSUME NEW r \in Storable
    PROVE  Whole(r) /\ Settled(r) /\ DOMAIN r = Calibration \cup Gathered
  <1>1. /\ DOMAIN r = Calibration \cup Gathered
        /\ \A i \in Calibration \cup Gathered : r[i] \in Sent
        /\ \A i \in Calibration : r[i] \in Value
        /\ \A e \in Gathered : Accepts(e, r[e]) \/ r[e] = 0
    BY DEF Storable
  <1>2. Whole(r)
    BY <1>1, Items DEF Whole, Sound
  <1>3. Settled(r)
    BY <1>1, Items DEF Settled
  <1> QED
    BY <1>1, <1>2, <1>3

LEMMA FoundTyped ==
    ASSUME Values, NEW r \in Found
    PROVE  Whole(r) /\ (Settles => Settled(r))
  <1>1. r \in Storable \/ r \in {flash, tentative, writing, NoRecord}
    BY DEF Found, Unacknowledged
  <1> QED
    BY <1>1, StorableTyped, Empty DEF Values, Settles

-----------------------------------------------------------------------------
(* The parts of the invariant but Travels, action by action.               *)

LEMMA OffsetsKept == Values /\ Offsets /\ [Next]_paramVars => Offsets'
  <1> SUFFICES ASSUME Values, Offsets, [Next]_paramVars PROVE Offsets'
    OBVIOUS
  <1>0. Value = 0 .. MaxValue /\ Nominal = MaxValue + 1 /\ "current" \in Item
        /\ "current" \notin Entry /\ "current" \notin Captured
    BY Items DEF Value, Nominal, Item
  <1>1. ASSUME NEW i \in Captured, Capture(i) PROVE Offsets'
    BY <1>0, <1>1 DEF Capture, Offsets, Values
  <1>2. CASE MeasureOffsets
    <2>1. calibrated' /\ live'["current"] = IF calibrated THEN live["current"] + 1 ELSE 1
      BY <1>0, <1>2 DEF MeasureOffsets, Values
    <2>2. calibrated => live["current"] < MaxValue
      BY <1>2 DEF MeasureOffsets
    <2> QED
      BY <1>0, <2>1, <2>2 DEF Offsets
  <1>3. ASSUME NEW e \in Entry, NEW v \in Sent, WriteEntry(e, v) PROVE Offsets'
    BY <1>0, <1>3 DEF WriteEntry, Offsets, Values
  <1>4. CASE SwitchStage \/ CommandSave \/ CommandReset \/ CommandOffsetCal
    BY <1>4 DEF SwitchStage, CommandSave, CommandReset, CommandOffsetCal, Offsets
  <1>5. CASE TakeSave \/ ClearSave \/ NoSave \/ FinishOffsets \/ NotFinished
    BY <1>5 DEF TakeSave, ClearSave, NoSave, FinishOffsets, NotFinished, Gather, At, Quiet, Offsets
  <1>6. CASE GatherItem \/ CopyCalib \/ CopyBlob
    BY <1>6 DEF GatherItem, CopyCalib, CopyBlob, At, Quiet, Offsets
  <1>7. CASE StageOn \/ FactoryReset \/ ResetEnd \/ Service \/ Write
    BY <1>7 DEF StageOn, FactoryReset, ResetEnd, Service, Write, At, Quiet, Offsets
  <1>8. CASE PowerCycle
    <2> SUFFICES ASSUME calibrated' PROVE live'["current"] \in Value \ {0}
      BY <1>8 DEF PowerCycle, Offsets
    <2>1. PICK r \in Found : "current" \in DOMAIN r /\ r["current"] # 0
                             /\ live'["current"] = Restored(r, "current")
      BY Zenon, <1>0, <1>8 DEF PowerCycle
    <2>2. live'["current"] = r["current"]
      BY <1>0, <2>1 DEF Restored
    <2>3. r["current"] \in Value
      BY <1>0, <2>1, FoundTyped DEF Whole, Sound
    <2> QED
      BY <2>1, <2>2, <2>3
  <1>9. CASE UNCHANGED paramVars
    BY <1>9 DEF paramVars, Offsets
  <1> QED
    BY <1>1, <1>2, <1>3, <1>4, <1>5, <1>6, <1>7, <1>8, <1>9 DEF Next, SlowLoop

LEMMA CommandKept == Places /\ Command /\ [Next]_paramVars => Command'
  <1> SUFFICES ASSUME Places, Command, [Next]_paramVars PROVE Command'
    OBVIOUS
  <1> USE DEF Command, Taken, Gathering
  <1>1. ASSUME NEW i \in Captured, Capture(i) PROVE Command'
    BY <1>1 DEF Capture
  <1>2. CASE MeasureOffsets \/ SwitchStage
    BY <1>2 DEF MeasureOffsets, SwitchStage
  <1>3. ASSUME NEW e \in Entry, NEW v \in Sent, WriteEntry(e, v) PROVE Command'
    BY <1>3 DEF WriteEntry
  <1>4. CASE CommandSave \/ CommandReset \/ CommandOffsetCal
    BY <1>4 DEF CommandSave, CommandReset, CommandOffsetCal
  <1>5. CASE TakeSave \/ ClearSave \/ NoSave \/ FinishOffsets \/ NotFinished
    BY <1>5 DEF TakeSave, ClearSave, NoSave, FinishOffsets, NotFinished, Gather, At, Quiet
  <1>6. CASE GatherItem \/ CopyCalib \/ CopyBlob
    BY <1>6 DEF GatherItem, CopyCalib, CopyBlob, At, Quiet, Places
  <1>7. CASE StageOn \/ FactoryReset \/ ResetEnd \/ Service \/ Write
    BY <1>7 DEF StageOn, FactoryReset, ResetEnd, Service, Write, At, Quiet
  <1>8. CASE PowerCycle \/ UNCHANGED paramVars
    BY <1>8 DEF PowerCycle, paramVars
  <1> QED
    BY <1>1, <1>2, <1>3, <1>4, <1>5, <1>6, <1>7, <1>8 DEF Next, SlowLoop

(* Copies leave a complete buffer.                                         *)
LEMMA Completed ==
    /\ \A items : Complete(Overlay(items))
    /\ \A i, v : Complete([Snapshot EXCEPT ![i] = v])
  <1>1. ASSUME NEW items PROVE Complete(Overlay(items))
    <2> DEFINE o == Overlay(items)
    <2>1. o = [j \in Calibration \cup Gathered |-> o[j]]
      BY DEF Overlay
    <2> QED
      BY Zenon, <2>1 DEF Complete
  <1>2. ASSUME NEW i, NEW v PROVE Complete([Snapshot EXCEPT ![i] = v])
    <2> DEFINE o == [Snapshot EXCEPT ![i] = v]
    <2>1. o = [j \in Calibration \cup Gathered |-> o[j]]
      BY DEF Snapshot
    <2> QED
      BY Zenon, <2>1 DEF Complete
  <1> QED
    BY Zenon, <1>1, <1>2

(* The last item completes the record.                                     *)
LEMMA Completes ==
    ASSUME Values, NEW i \in Rest, Rest = {i}
    PROVE  DOMAIN With(record, i, Read(i)) = Calibration \cup Gathered
  BY DEF Values, Sound, Rest, With

LEMMA FullKept == Places /\ Values /\ Full /\ [Next]_paramVars => Full'
  <1> SUFFICES ASSUME Places, Values, Full, [Next]_paramVars PROVE Full'
    OBVIOUS
  <1> USE DEF Full
  <1>a. UNCHANGED payload => Complete(payload)' = Complete(payload)
    BY DEF Complete
  <1>b. UNCHANGED writing => Complete(writing)' = Complete(writing)
    BY DEF Complete
  <1>1. ASSUME NEW i \in Captured, Capture(i) PROVE Full'
    <2>1. Complete(payload)'
      BY Completed, <1>1 DEF Capture
    <2> QED
      BY <1>b, <1>1, <2>1 DEF Capture
  <1>2. CASE MeasureOffsets \/ SwitchStage
    BY <1>a, <1>b, <1>2 DEF MeasureOffsets, SwitchStage
  <1>3. ASSUME NEW e \in Entry, NEW v \in Sent, WriteEntry(e, v) PROVE Full'
    BY <1>a, <1>b, <1>3 DEF WriteEntry
  <1>4. CASE CommandSave \/ CommandReset \/ CommandOffsetCal
    BY <1>a, <1>b, <1>4 DEF CommandSave, CommandReset, CommandOffsetCal
  <1>5. CASE TakeSave \/ ClearSave \/ NoSave \/ FinishOffsets \/ NotFinished
    BY <1>a, <1>b, <1>5 DEF TakeSave, ClearSave, NoSave, FinishOffsets, NotFinished, Gather, At, Quiet
  <1>6. CASE GatherItem
    <2>1. PICK i \in Rest : /\ record' = With(record, i, Read(i))
                            /\ spc' = IF Rest = {i} THEN "copyCalib" ELSE "gather"
      BY Zenon, <1>6 DEF GatherItem, At
    <2>2. UNCHANGED <<payload, dirty, writing>>
      BY <1>6 DEF GatherItem, At, Quiet
    <2> QED
      BY <1>a, <1>b, <2>1, <2>2, Completes
  <1>7. CASE CopyCalib
    <2>1. Complete(payload)'
      BY Zenon, Completed, <1>7 DEF CopyCalib
    <2> QED
      BY <1>7, <2>1 DEF CopyCalib, At
  <1>8. CASE CopyBlob
    <2>1. Complete(payload)'
      BY Zenon, Completed, <1>8 DEF CopyBlob
    <2>3. spc' = return
      BY <1>8 DEF CopyBlob, At
    <2>2. return \in {"idle", "clear", "gate"} => Full'
      BY <2>1, <2>3
    <2> QED
      BY <2>2 DEF Places
  <1>9. CASE StageOn \/ FactoryReset \/ ResetEnd
    BY <1>a, <1>b, <1>9 DEF StageOn, FactoryReset, ResetEnd, At, Quiet
  <1>11. CASE Service \/ Write
    <2>1. UNCHANGED <<payload, record>> /\ spc' \in {"idle", "write"} /\ (dirty' => dirty)
      BY <1>11 DEF Service, Write, At
    <2>2. spc' = "write" => dirty /\ writing' = payload
      BY <1>11 DEF Service, Write, At
    <2>3. writing' = payload => Complete(writing)' = Complete(payload)
      BY DEF Complete
    <2> QED
      BY <1>a, <2>1, <2>2, <2>3
  <1>10. CASE PowerCycle \/ UNCHANGED paramVars
    BY <1>a, <1>b, <1>10 DEF PowerCycle, paramVars
  <1> QED
    BY <1>1, <1>2, <1>3, <1>4, <1>5, <1>6, <1>7, <1>8, <1>9, <1>10, <1>11 DEF Next, SlowLoop

(* What does not touch RAM or a record.                                    *)
Idling == \/ SwitchStage \/ CommandReset \/ CommandOffsetCal
          \/ NoSave \/ NotFinished \/ ClearSave \/ StageOn

LEMMA IdlingKeeps ==
    Idling => UNCHANGED <<live, calibrated, return, record, payload, dirty, writing, flash, tentative, due>>
  BY DEF Idling, SwitchStage, CommandReset, CommandOffsetCal, NoSave, NotFinished, ClearSave,
         StageOn, At, Quiet

(* Who touches what of the rest.                                           *)
LEMMA Steps ==
    [Next]_paramVars =>
        \/ Idling \/ MeasureOffsets \/ CommandSave \/ TakeSave \/ FinishOffsets
        \/ GatherItem \/ CopyCalib \/ CopyBlob \/ FactoryReset \/ ResetEnd \/ Service
        \/ Write \/ PowerCycle \/ UNCHANGED paramVars
        \/ \E i \in Captured : Capture(i)
        \/ \E e \in Entry, v \in Sent : WriteEntry(e, v)
  BY Zenon DEF Next, SlowLoop, Idling

LEMMA ValuesKept == Places /\ Values /\ Offsets /\ Full /\ [Next]_paramVars => Values'
  <1> SUFFICES ASSUME Places, Values, Offsets, Full, [Next]_paramVars PROVE Values'
    OBVIOUS
  <1>0. /\ Value = 0 .. MaxValue /\ Sent = 0 .. MaxValue + 1 /\ Nominal = MaxValue + 1
        /\ Captured \subseteq Item /\ Entry \subseteq Item /\ "current" \in Item \ Captured
        /\ Captured \cap Entry = {}
        /\ "current" \notin Entry
    BY Items DEF Value, Sent, Nominal, Item, Calibration
  <1> DEFINE Live == /\ live \in [Item -> Value \cup {Nominal}]
                     /\ \A i \in Captured : live[i] \in Value
             Records == Whole(payload) /\ Whole(writing) /\ Whole(flash) /\ Whole(tentative)
                        /\ Sound(record) /\ Sound(due)
  <1>a. Values <=> Live /\ Records
    BY Zenon DEF Values
  <1>b. Values' <=> Live' /\ Records'
    BY Zenon DEF Values
  <1>c. UNCHANGED live => Live'
    BY <1>a
  <1> DEFINE Kept == UNCHANGED <<payload, writing, flash, tentative, record, due>>
  <1>d. Kept => Records'
    BY <1>a DEF Whole, Sound
  <1>e. Whole(Snapshot) /\ Sound(Snapshot)
    BY SnapshotTyped DEF Whole
  <1>1. CASE Idling \/ UNCHANGED paramVars
    <2>1. UNCHANGED live /\ Kept
      BY <1>1, IdlingKeeps DEF paramVars
    <2> QED
      BY <1>b, <1>c, <1>d, <2>1
  <1>2. CASE MeasureOffsets
    <2>1. Kept /\ live' = [live EXCEPT !["current"] = IF calibrated THEN @ + 1 ELSE 1]
      BY <1>2 DEF MeasureOffsets
    <2>2. (IF calibrated THEN live["current"] + 1 ELSE 1) \in Value
      BY <1>0, <1>2 DEF MeasureOffsets, Offsets
    <2>3. Live'
      BY <1>0, <1>a, <2>1, <2>2
    <2> QED
      BY <1>b, <1>d, <2>1, <2>3
  <1>3. CASE CommandSave
    <2>1. UNCHANGED <<live, payload, writing, flash, tentative, record>> /\ due' = Snapshot
      BY <1>3 DEF CommandSave
    <2> QED
      BY <1>a, <1>b, <1>c, <1>e, <2>1 DEF Whole, Sound
  <1>4. CASE TakeSave
    <2>1. UNCHANGED <<live, payload, writing, flash, tentative, due>> /\ record' = NoRecord
      BY <1>4 DEF TakeSave, Gather, At, Quiet
    <2> QED
      BY <1>a, <1>b, <1>c, <2>1, Empty DEF Whole, Sound
  <1>5. CASE FinishOffsets
    <2>1. UNCHANGED <<live, payload, writing, flash, tentative>> /\ record' = NoRecord
          /\ due' = With(due, "current", live["current"])
      BY <1>5 DEF FinishOffsets, Gather, At
    <2>2. live["current"] \in Value
      BY <1>5 DEF FinishOffsets, Offsets
    <2>3. Sound(With(due, "current", live["current"]))
      BY <1>0, <1>a, <2>2, WithTyped, Items
    <2>4. Sound(due')
      BY Zenon, <2>1, <2>3
    <2> QED
      BY <1>a, <1>b, <1>c, <2>1, <2>4, Empty DEF Whole, Sound
  <1>6. CASE GatherItem
    <2>1. PICK i \in Rest : record' = With(record, i, Read(i))
      BY Zenon, <1>6 DEF GatherItem
    <2>2. UNCHANGED <<live, payload, writing, flash, tentative, due>>
      BY <1>6 DEF GatherItem, At, Quiet
    <2>3. i \in Calibration \cup Gathered
      BY DEF Rest
    <2>4. Read(i) \in IF i \in Entry THEN Sent ELSE Value
      BY <2>3, ReadTyped, Items
    <2>5. Sound(With(record, i, Read(i)))
      BY <1>a, <2>3, <2>4, WithTyped
    <2>6. Sound(record')
      BY Zenon, <2>1, <2>5
    <2> QED
      BY <1>a, <1>b, <1>c, <2>2, <2>6 DEF Whole, Sound
  <1>7. CASE CopyCalib \/ CopyBlob
    <2>1. PICK items \in {Calibration, Gathered} : payload' = Overlay(items)
      BY Zenon, <1>7 DEF CopyCalib, CopyBlob
    <2>2. items \in SUBSET DOMAIN record
      BY <1>7 DEF CopyCalib, CopyBlob, At, Full
    <2>3. UNCHANGED <<live, writing, flash, tentative, due>> /\ record' \in {record, NoRecord}
      BY <1>7 DEF CopyCalib, CopyBlob, At
    <2>4. Whole(Overlay(items))
      BY <2>2, OverlayTyped
    <2>5. Whole(payload')
      BY Zenon, <2>1, <2>4
    <2> QED
      BY <1>a, <1>b, <1>c, <2>3, <2>5, Empty DEF Whole, Sound
  <1>8. CASE FactoryReset \/ ResetEnd
    <2>1. UNCHANGED <<live, payload, writing, record>> /\ flash' \in {flash, NoRecord}
          /\ tentative' \in {tentative, NoRecord} /\ due' \in {due, NoRecord}
      BY <1>8 DEF FactoryReset, ResetEnd, At
    <2> QED
      BY <1>a, <1>b, <1>c, <2>1, Empty DEF Whole, Sound
  <1>9. CASE Service
    <2>1. UNCHANGED <<live, payload, flash, record, due>> /\ writing' \in {writing, payload}
          /\ tentative' \in {tentative, NoRecord}
      BY <1>9 DEF Service, At
    <2> QED
      BY <1>a, <1>b, <1>c, <2>1, Empty DEF Whole, Sound
  <1>10. CASE Write
    <2>1. UNCHANGED <<live, payload, record, due>> /\ writing' = NoRecord
          /\ flash' \in {flash, writing} /\ tentative' \in {NoRecord, writing}
      BY <1>10 DEF Write, At
    <2> QED
      BY <1>a, <1>b, <1>c, <2>1, Empty DEF Whole, Sound
  <1>11. CASE PowerCycle
    <2>1. PICK r \in Found :
              /\ live' = [i \in Item |-> Restored(r, i)]
              /\ payload' = r /\ due' = r /\ flash' = r
              /\ record' = NoRecord /\ writing' = NoRecord /\ tentative' = NoRecord
      BY Zenon, <1>11 DEF PowerCycle
    <2>a. Whole(r)
      BY FoundTyped
    <2>2. Records'
      BY <2>1, <2>a, Empty DEF Whole, Sound
    <2>3. \A i \in DOMAIN r : r[i] \in IF i \in Entry THEN Sent ELSE Value
      BY <2>a DEF Whole, Sound
    <2>4. \A i \in Item : Defaults[i] \in Value \cup {Nominal}
                          /\ (i # "current" => Defaults[i] = 0)
      BY <1>0 DEF Defaults
    <2>5. \A i \in Item : Restored(r, i) \in Value \cup {Nominal}
      <3> SUFFICES ASSUME NEW i \in Item PROVE Restored(r, i) \in Value \cup {Nominal}
        OBVIOUS
      <3>1. CASE i \notin DOMAIN r
        BY <2>4, <3>1 DEF Restored
      <3>2. CASE i \in DOMAIN r
        <4>1. Restored(r, i) \in {r[i], Nominal, Defaults[i]}
          BY <3>2 DEF Restored
        <4>2. r[i] \in Value \cup {Nominal}
          BY <1>0, <2>3, <3>2
        <4> QED
          BY <2>4, <4>1, <4>2
      <3> QED
        BY <3>1, <3>2
    <2>6. \A i \in Captured : Restored(r, i) \in Value
      <3> SUFFICES ASSUME NEW i \in Captured PROVE Restored(r, i) \in Value
        OBVIOUS
      <3>1. i \notin Entry /\ i # "current" /\ 0 \in Value
        BY <1>0
      <3> QED
        BY <1>0, <2>3, <2>4, <3>1 DEF Restored
    <2>7. Live'
      BY <1>0, <2>1, <2>5, <2>6
    <2> QED
      BY <1>b, <2>2, <2>7
  <1>12. ASSUME NEW i \in Captured, Capture(i) PROVE Values'
    <2>1. /\ live' = [live EXCEPT ![i] = @ + 1] /\ live[i] < MaxValue
          /\ payload' = [Snapshot EXCEPT ![i] = live'[i]]
          /\ due' \in {due, With(due, i, live'[i])}
          /\ UNCHANGED <<writing, flash, tentative, record>>
      BY <1>12 DEF Capture
    <2>2. Live' /\ live'[i] \in Value
      BY <1>0, <1>a, <2>1
    <2> DEFINE v == live'[i]
    <2> HIDE DEF v
    <2>3. v \in Value
      BY <2>2 DEF v
    <2>4. i \in Calibration \cup Gathered /\ i \notin Entry
      BY <1>0, Items
    <2>5. Sound(With(due, i, v))
      BY <1>a, <2>3, <2>4, WithTyped
    <2>6. Whole([Snapshot EXCEPT ![i] = v])
      BY <1>e, <2>3, <2>4 DEF Whole, Sound, Snapshot
    <2>7. Sound(due') /\ Whole(payload')
      BY <1>a, <2>1, <2>5, <2>6 DEF v
    <2>8. Records'
      BY <1>a, <2>1, <2>7 DEF Whole, Sound
    <2> QED
      BY <1>b, <2>2, <2>8
  <1>13. ASSUME NEW e \in Entry, NEW v \in Sent, WriteEntry(e, v) PROVE Values'
    <2>1. /\ live' = [live EXCEPT ![e] = v] /\ due' = [i \in DOMAIN due \ {e} |-> due[i]]
          /\ UNCHANGED <<payload, writing, flash, tentative, record>>
      BY <1>13 DEF WriteEntry
    <2>2. Live'
      BY <1>0, <1>a, <2>1
    <2>3. Sound(due')
      BY <1>a, <2>1 DEF Sound
    <2>4. Records'
      BY <1>a, <2>1, <2>3 DEF Whole, Sound
    <2> QED
      BY <1>b, <2>2, <2>4
  <1> QED
    BY Zenon, Steps, <1>1, <1>2, <1>3, <1>4, <1>5, <1>6, <1>7, <1>8, <1>9, <1>10, <1>11, <1>12, <1>13

LEMMA SettledSnapshot == Values /\ Settled(live) => Settled(Snapshot)
  BY Items DEF Settled, Snapshot, Read, Calibration, Values, Item

LEMMA SettledWith ==
    ASSUME NEW f, Settled(f), NEW i, NEW v, i \in Entry => Accepts(i, v) \/ v = 0
    PROVE  Settled(With(f, i, v))
  BY DEF Settled, With

LEMMA SettledOverlay ==
    ASSUME Settles, NEW items
    PROVE  Settled(Overlay(items)) \/ ~ (items \subseteq DOMAIN record)
  BY DEF Settles, Settled, Overlay

LEMMA SettlesKept == Places /\ Values /\ Full /\ Settles /\ [Next]_paramVars => Settles'
  <1> SUFFICES ASSUME Places, Values, Full, Settles, [Next]_paramVars PROVE Settles'
    OBVIOUS
  <1>0. /\ DOMAIN live = Item /\ Captured \cap Entry = {} /\ "current" \notin Entry
        /\ Entry \subseteq Item
        /\ Captured \subseteq Item /\ Captured \subseteq Calibration
    BY Items DEF Values, Item, Calibration
  <1>a. \A f : Settled(f) <=> \A e \in Entry \cap DOMAIN f : Accepts(e, f[e]) \/ f[e] = 0
    BY DEF Settled
  <1>1. CASE Idling \/ UNCHANGED paramVars
    <2>1. UNCHANGED <<live, record, payload, writing, flash, tentative>>
      BY <1>1, IdlingKeeps DEF paramVars
    <2> QED
      BY <2>1 DEF Settles, Settled
  <1>2. CASE MeasureOffsets
    <2>1. UNCHANGED <<record, payload, writing, flash, tentative>>
          /\ live' = [live EXCEPT !["current"] = IF calibrated THEN @ + 1 ELSE 1]
      BY <1>2 DEF MeasureOffsets
    <2>2. DOMAIN live' = DOMAIN live /\ \A e \in Entry : live'[e] = live[e]
      BY <1>0, <2>1
    <2>3. Settled(live)'
      BY <1>0, <2>2 DEF Settles, Settled
    <2> QED
      BY <2>1, <2>3 DEF Settles, Settled
  <1>3. CASE CommandSave \/ TakeSave \/ FinishOffsets
    <2>1. UNCHANGED <<live, payload, writing, flash, tentative>> /\ record' \in {record, NoRecord}
      BY <1>3 DEF CommandSave, TakeSave, FinishOffsets, Gather, At, Quiet
    <2> QED
      BY <2>1, Empty DEF Settles, Settled
  <1>6. CASE GatherItem
    <2>1. PICK i \in Rest : record' = With(record, i, Read(i))
      BY Zenon, <1>6 DEF GatherItem
    <2>2. UNCHANGED <<live, payload, writing, flash, tentative>>
      BY <1>6 DEF GatherItem, At, Quiet
    <2>3. i \in Entry => Accepts(i, Read(i)) \/ Read(i) = 0
      BY <1>0 DEF Settles, Settled, Read
    <2>4. Settled(With(record, i, Read(i)))
      BY <2>3, SettledWith DEF Settles
    <2> QED
      BY <2>1, <2>2, <2>4 DEF Settles, Settled
  <1>7. CASE CopyCalib \/ CopyBlob
    <2>1. PICK items \in {Calibration, Gathered} : payload' = Overlay(items)
      BY Zenon, <1>7 DEF CopyCalib, CopyBlob
    <2>2. items \subseteq DOMAIN record
      BY <1>7 DEF CopyCalib, CopyBlob, At, Full
    <2>3. UNCHANGED <<live, writing, flash, tentative>> /\ record' \in {record, NoRecord}
      BY <1>7 DEF CopyCalib, CopyBlob, At
    <2>4. Settled(Overlay(items))
      BY <2>2, SettledOverlay
    <2> QED
      BY <2>1, <2>3, <2>4, Empty DEF Settles, Settled
  <1>8. CASE FactoryReset \/ ResetEnd \/ Service \/ Write
    <2>1. UNCHANGED <<live, payload, record>> /\ writing' \in {writing, payload, NoRecord}
          /\ flash' \in {flash, writing, NoRecord}
          /\ tentative' \in {tentative, writing, NoRecord}
      BY <1>8 DEF FactoryReset, ResetEnd, Service, Write, At
    <2> QED
      BY <2>1, Empty DEF Settles, Settled
  <1>11. CASE PowerCycle
    <2>1. PICK r \in Found :
              /\ live' = [i \in Item |-> Restored(r, i)]
              /\ payload' = r /\ flash' = r
              /\ record' = NoRecord /\ writing' = NoRecord /\ tentative' = NoRecord
      BY Zenon, <1>11 DEF PowerCycle
    <2>a. Settled(r)
      BY FoundTyped
    <2>2. \A e \in Entry : Defaults[e] = 0 /\ e \in Item
      BY Items DEF Defaults, Item
    <2>3. \A e \in Entry : Accepts(e, Restored(r, e)) \/ Restored(r, e) = 0
      BY <2>2, <1>0 DEF Restored
    <2>4. \A e \in Entry : live'[e] = Restored(r, e)
      BY <2>1, <2>2
    <2>5. Settled(live)'
      BY <2>3, <2>4 DEF Settled
    <2> QED
      BY <2>1, <2>a, <2>5, Empty DEF Settles, Settled
  <1>12. ASSUME NEW i \in Captured, Capture(i) PROVE Settles'
    <2>1. /\ live' = [live EXCEPT ![i] = @ + 1]
          /\ payload' = [Snapshot EXCEPT ![i] = live'[i]]
          /\ UNCHANGED <<writing, flash, tentative, record>>
      BY <1>12 DEF Capture
    <2>2. DOMAIN live' = DOMAIN live /\ \A e \in Entry : live'[e] = live[e]
      BY <1>0, <2>1
    <2>3. Settled(live)'
      BY <1>0, <2>2 DEF Settles, Settled
    <2>4. Settled(Snapshot)
      BY SettledSnapshot DEF Settles
    <2>5. DOMAIN payload' = DOMAIN Snapshot /\ \A e \in Entry \cap DOMAIN Snapshot : payload'[e] = Snapshot[e]
      BY <1>0, <2>1 DEF Snapshot
    <2>6. Settled(payload')
      BY <2>4, <2>5 DEF Settled
    <2> QED
      BY <2>1, <2>3, <2>6 DEF Settles, Settled
  <1>13. ASSUME NEW e \in Entry, NEW v \in Sent, WriteEntry(e, v) PROVE Settles'
    <2>1. /\ live' = [live EXCEPT ![e] = v] /\ Accepts(e, v)
          /\ UNCHANGED <<payload, writing, flash, tentative, record>>
      BY <1>13 DEF WriteEntry
    <2>2. Settled(live')
      BY <1>0, <2>1 DEF Settles, Settled
    <2> QED
      BY <2>1, <2>2 DEF Settles, Settled
  <1> QED
    BY Zenon, Steps, <1>1, <1>2, <1>3, <1>6, <1>7, <1>8, <1>11, <1>12, <1>13

-----------------------------------------------------------------------------
(* What is due is in RAM.                                                  *)

(* Suits, for values that are not those of the current state.              *)
Better(v, d, i) == IF i \in Entry THEN v = d ELSE v >= d

LEMMA DueTyped ==
    ASSUME Values, NEW i \in DOMAIN due
    PROVE  /\ i \in Calibration \cup Gathered /\ i \in Item
           /\ due[i] \in Nat /\ (i \notin Entry => due[i] \in Value)
  BY Items DEF Values, Sound, Value, Sent

LEMMA LiveKeepsKept ==
    Values /\ Offsets /\ Settles /\ LiveKeeps /\ [Next]_paramVars => LiveKeeps'
  <1> SUFFICES ASSUME Values, Offsets, Settles, LiveKeeps, [Next]_paramVars PROVE LiveKeeps'
    OBVIOUS
  <1>0. /\ Value = 0 .. MaxValue /\ Captured \cap Entry = {} /\ "current" \notin Captured \cup Entry
        /\ Captured \subseteq Item /\ "current" \in Item /\ Entry \subseteq Item
        /\ DOMAIN live = Item
    BY Items DEF Value, Values, Item, Calibration
  <1>a. LiveKeeps' <=> \A i \in DOMAIN due' : Better(Read(i)', due'[i], i)
    BY DEF LiveKeeps, Suits, Better
  <1>b. \A i \in DOMAIN due : Better(Read(i), due[i], i)
    BY DEF LiveKeeps, Suits, Better
  <1>c. \A i \in DOMAIN due : i \in Item /\ due[i] \in Nat
    BY DueTyped
  <1>1. CASE \/ Idling \/ TakeSave \/ GatherItem \/ CopyCalib \/ CopyBlob \/ Service \/ Write
             \/ UNCHANGED paramVars
    <2>1. UNCHANGED <<live, calibrated, due>>
      <3>1. CASE Idling \/ UNCHANGED paramVars
        BY <3>1, IdlingKeeps DEF paramVars
      <3>2. CASE TakeSave \/ GatherItem
        BY <3>2 DEF TakeSave, Gather, GatherItem, At, Quiet
      <3>3. CASE CopyCalib \/ CopyBlob \/ Service \/ Write
        BY <3>3 DEF CopyCalib, CopyBlob, Service, Write, At, Quiet
      <3> QED
        BY <1>1, <3>1, <3>2, <3>3
    <2> QED
      BY <2>1 DEF LiveKeeps, Suits, Read
  <1>2. CASE MeasureOffsets
    <2>1. UNCHANGED due /\ calibrated'
          /\ live' = [live EXCEPT !["current"] = IF calibrated THEN @ + 1 ELSE 1]
      BY <1>2 DEF MeasureOffsets
    <2>2. calibrated => live["current"] \in Nat
      BY <1>0 DEF Offsets
    <2> SUFFICES ASSUME NEW i \in DOMAIN due PROVE Better(Read(i)', due[i], i)
      BY <1>a, <2>1
    <2>3. CASE i = "current"
      <3>1. Read(i)' = (IF calibrated THEN live["current"] + 1 ELSE 1)
        BY <1>0, <2>1, <2>3 DEF Read
      <3>2. Read(i) = IF calibrated THEN live["current"] ELSE 0
        BY <2>3 DEF Read
      <3>3. i \notin Entry /\ Read(i) >= due[i] /\ due[i] \in Nat
        BY <1>0, <1>b, <1>c, <2>3 DEF Better
      <3> QED
        BY <2>2, <3>1, <3>2, <3>3 DEF Better
    <2>4. CASE i # "current"
      BY <1>b, <1>c, <1>0, <2>1, <2>4 DEF Read
    <2> QED
      BY <2>3, <2>4
  <1>3. CASE CommandSave
    <2>1. UNCHANGED <<live, calibrated>> /\ due' = Snapshot
      BY <1>3 DEF CommandSave
    <2>2. \A i \in DOMAIN Snapshot : i \in Item /\ Snapshot[i] = Read(i)
      BY Items DEF Snapshot
    <2>3. \A i \in Item : Read(i) \in Nat
      BY ReadTyped DEF Value, Sent
    <2>4. \A i \in DOMAIN due' : Better(Read(i), due'[i], i)
      BY <2>1, <2>2, <2>3 DEF Better
    <2> QED
      BY <1>a, <2>1, <2>4 DEF Read
  <1>5. CASE FinishOffsets
    <2>1. /\ UNCHANGED <<live, calibrated>> /\ calibrated
          /\ due' = With(due, "current", live["current"])
      BY <1>5 DEF FinishOffsets, Gather, At, Offsets
    <2>2. live["current"] \in Nat
      BY <1>0, <2>1 DEF Offsets
    <2>3. \A i \in DOMAIN due' : Better(Read(i), due'[i], i)
      BY <1>0, <1>b, <2>1, <2>2 DEF With, Better, Read
    <2> QED
      BY <1>a, <2>1, <2>3 DEF Read
  <1>6. CASE FactoryReset \/ ResetEnd
    <2>1. UNCHANGED <<live, calibrated>> /\ due' \in {due, NoRecord}
      BY <1>6 DEF FactoryReset, ResetEnd, At
    <2>2. \A i \in DOMAIN due' : Better(Read(i), due'[i], i)
      BY <1>b, <2>1, Empty
    <2> QED
      BY <1>a, <2>1, <2>2 DEF Read
  <1>11. CASE PowerCycle
    <2>1. PICK r \in Found :
              /\ live' = [i \in Item |-> Restored(r, i)] /\ due' = r
              /\ calibrated' = ("current" \in DOMAIN r /\ r["current"] # 0)
      BY Zenon, <1>11 DEF PowerCycle
    <2>a. Whole(r) /\ Settled(r)
      BY FoundTyped
    <2> SUFFICES ASSUME NEW i \in DOMAIN r PROVE Better(Read(i)', r[i], i)
      BY <1>a, <2>1
    <2>2. i \in Item /\ (i \notin Entry => r[i] \in Nat)
      BY <2>a, Items, <1>0 DEF Whole, Sound
    <2>3. live'[i] = Restored(r, i)
      BY <2>1, <2>2
    <2>4. CASE i \in Entry
      <3>1. Restored(r, i) = r[i]
        BY <1>0, <2>a, <2>2, <2>4 DEF Restored, Settled, Defaults
      <3> QED
        BY <1>0, <2>3, <2>4, <3>1 DEF Read, Better
    <2>5. CASE i \notin Entry /\ ~(i = "current" /\ r[i] = 0)
      <3>1. live'[i] = r[i]
        BY <2>3, <2>5 DEF Restored
      <3>2. i = "current" => calibrated'
        BY Zenon, <2>1, <2>5
      <3>3. Read(i)' = live'[i]
        BY <3>2 DEF Read
      <3> QED
        BY <2>2, <2>5, <3>1, <3>3 DEF Better
    <2>6. CASE i = "current" /\ r[i] = 0
      <3>1. ~calibrated'
        BY Zenon, <2>1, <2>6
      <3> QED
        BY <1>0, <2>6, <3>1 DEF Read, Better
    <2> QED
      BY <2>4, <2>5, <2>6
  <1>12. ASSUME NEW i \in Captured, Capture(i) PROVE LiveKeeps'
    <2>1. /\ live' = [live EXCEPT ![i] = @ + 1] /\ UNCHANGED calibrated
          /\ due' \in {due, With(due, i, live'[i])}
      BY <1>12 DEF Capture
    <2>2. live[i] \in Nat /\ live'[i] = live[i] + 1
      BY <1>0, <2>1 DEF Values
    <2> SUFFICES ASSUME NEW j \in DOMAIN due' PROVE Better(Read(j)', due'[j], j)
      BY <1>a
    <2>3. CASE j = i
      <3>1. Read(j)' = live[i] + 1 /\ Read(j) = live[i]
        BY <1>0, <2>2, <2>3 DEF Read
      <3>2. due'[i] = live[i] + 1 \/ (i \in DOMAIN due /\ due'[i] = due[i])
        BY <2>1, <2>2, <2>3 DEF With
      <3>3. i \in DOMAIN due => live[i] >= due[i] /\ due[i] \in Nat
        BY <1>0, <1>b, <1>c, <2>3, <3>1 DEF Better
      <3> QED
        BY <1>0, <2>2, <2>3, <3>1, <3>2, <3>3 DEF Better
    <2>4. CASE j # i
      <3>1. j \in DOMAIN due /\ due'[j] = due[j]
        BY <2>1, <2>4 DEF With
      <3>2. Read(j)' = Read(j)
        BY <1>0, <1>c, <2>1, <2>4, <3>1 DEF Read
      <3> QED
        BY <1>b, <3>1, <3>2
    <2> QED
      BY <2>3, <2>4
  <1>13. ASSUME NEW e \in Entry, NEW v \in Sent, WriteEntry(e, v) PROVE LiveKeeps'
    <2>1. /\ live' = [live EXCEPT ![e] = v] /\ due' = [i \in DOMAIN due \ {e} |-> due[i]]
          /\ UNCHANGED calibrated
      BY <1>13 DEF WriteEntry
    <2>2. \A i \in DOMAIN due' : i \in DOMAIN due /\ due'[i] = due[i] /\ Read(i)' = Read(i)
      BY <1>0, <1>c, <2>1 DEF Read
    <2> QED
      BY <1>a, <1>b, <2>2
  <1> QED
    BY Zenon, Steps, <1>1, <1>2, <1>3, <1>5, <1>6, <1>11, <1>12, <1>13

-----------------------------------------------------------------------------
(* What is due travels to flash.                                           *)

LEMMA KeepsMeans ==
    \A f, items : Keeps(f, items) <=>
        \A i \in DOMAIN due \cap items : i \in DOMAIN f /\ Better(f[i], due[i], i)
  BY DEF Keeps, Suits, Better

(* A new record in the buffer keeps what is due: RAM does.                 *)
LEMMA CaptureKeeps ==
    ASSUME Values, Offsets, LiveKeeps, NEW i \in Captured, Capture(i)
    PROVE  Keeps(payload, Item)'
  <1>0. i \notin Entry /\ i \in Item /\ i # "current" /\ Captured \subseteq Calibration
    BY Items DEF Item, Calibration
  <1>1. /\ live' = [live EXCEPT ![i] = @ + 1] /\ live[i] \in Nat /\ live'[i] = live[i] + 1
        /\ payload' = [Snapshot EXCEPT ![i] = live'[i]]
        /\ due' \in {due, With(due, i, live'[i])}
    BY <1>0 DEF Capture, Values, Value
  <1>2. DOMAIN payload' = Calibration \cup Gathered /\ payload'[i] = live[i] + 1
        /\ \A j \in Calibration \cup Gathered : j # i => payload'[j] = Read(j)
    BY <1>0, <1>1 DEF Snapshot
  <1> SUFFICES ASSUME NEW j \in DOMAIN due'
               PROVE  j \in DOMAIN payload' /\ Better(payload'[j], due'[j], j)
    BY DEF Keeps, Suits, Better
  <1>3. CASE j = i
    <2>1. due'[i] = live[i] + 1 \/ (i \in DOMAIN due /\ due'[i] = due[i])
      BY <1>1, <1>3 DEF With
    <2>2. i \in DOMAIN due => live[i] >= due[i] /\ due[i] \in Nat
      BY <1>0, DueTyped DEF LiveKeeps, Suits, Read
    <2> QED
      BY <1>0, <1>1, <1>2, <1>3, <2>1, <2>2 DEF Better
  <1>4. CASE j # i
    <2>1. j \in DOMAIN due /\ due'[j] = due[j]
      BY <1>1, <1>4 DEF With
    <2>2. j \in Calibration \cup Gathered /\ Better(Read(j), due[j], j)
      BY <2>1, DueTyped DEF LiveKeeps, Suits, Better
    <2> QED
      BY <1>2, <1>4, <2>1, <2>2
  <1> QED
    BY <1>3, <1>4

(* Where a step leaves what is under way alone.                            *)
Under == <<saveCommand, spc, return, record, payload, dirty, writing, flash>>

LEMMA TravelsStutters == Travels /\ UNCHANGED <<Under, due>> => Travels'
  BY DEF Under, Travels, Taken, Gathering, Carried, Saved, Keeps, Suits

(* Whatever f keeps it keeps when less is due.                             *)
LEMMA TravelsLess ==
    ASSUME Travels, UNCHANGED Under, DOMAIN due' \subseteq DOMAIN due,
           \A i \in DOMAIN due' : due'[i] = due[i]
    PROVE  Travels'
  <1>1. \A f, items : Keeps(f, items) =>
            \A i \in DOMAIN due' \cap items : i \in DOMAIN f /\ Better(f[i], due'[i], i)
    BY KeepsMeans
  <1>2. /\ Keeps(record, DOMAIN record) => Keeps(record, DOMAIN record)'
        /\ Keeps(record, Item) => Keeps(record, Item)'
        /\ Keeps(payload, Item) => Keeps(payload, Item)'
        /\ Keeps(payload, Calibration) => Keeps(payload, Calibration)'
        /\ Keeps(writing, Item) => Keeps(writing, Item)'
        /\ Keeps(flash, Item) => Keeps(flash, Item)'
    BY <1>1 DEF Under, Keeps, Suits, Better
  <1>3. (saveCommand /\ ~Taken) => (saveCommand /\ ~Taken)'
    BY DEF Under, Taken, Gathering
  <1>4. Carried => Carried'
    BY <1>2 DEF Under, Carried, Saved
  <1> QED
    BY <1>3, <1>4 DEF Travels

LEMMA CaptureTravels ==
    ASSUME Values, Offsets, LiveKeeps, Travels, NEW i \in Captured, Capture(i)
    PROVE  Travels'
  <1>1. /\ UNCHANGED <<saveCommand, spc, return, record, writing, flash>> /\ dirty'
        /\ spc \in {"gather", "copyCalib", "copyBlob", "write"} => due' = due
    BY DEF Capture
  <1>2. Keeps(payload, Item)'
    BY CaptureKeeps
  <1>3. CASE saveCommand /\ ~Taken
    BY <1>1, <1>3 DEF Travels, Taken, Gathering
  <1>4. CASE Carried
    <2>1. Keeps(payload, Calibration)'
      BY <1>2, Items DEF Keeps
    <2>2. Carried'
      BY <1>1, <1>2, <1>4, <2>1 DEF Carried, Saved, Keeps, Suits
    <2> QED
      BY <2>2 DEF Travels
  <1> QED
    BY <1>3, <1>4 DEF Travels

LEMMA GatherTravels ==
    ASSUME Values, Offsets, LiveKeeps, Travels, GatherItem
    PROVE  Travels'
  <1>1. PICK i \in Rest : /\ record' = With(record, i, Read(i))
                          /\ spc' = IF Rest = {i} THEN "copyCalib" ELSE "gather"
    BY Zenon DEF GatherItem, At
  <1>2. spc = "gather" /\ UNCHANGED <<saveCommand, return, payload, dirty, writing, flash, due>>
    BY DEF GatherItem, At, Quiet
  <1>3. CASE saveCommand /\ ~Taken
    BY <1>1, <1>2, <1>3 DEF Travels, Taken, Gathering
  <1>4. CASE Carried
    <2>1. \A j \in DOMAIN due \cap DOMAIN record : Better(record[j], due[j], j)
      BY <1>2, <1>4 DEF Carried, Keeps, Suits, Better
    <2>2. i \in DOMAIN due => Better(Read(i), due[i], i)
      BY DEF LiveKeeps, Suits, Better
    <2>3. Keeps(record, DOMAIN record)'
      BY <1>1, <1>2, <2>1, <2>2 DEF With, Keeps, Suits, Better
    <2>4. CASE spc' = "gather"
      BY <2>3, <2>4 DEF Travels, Carried
    <2>5. CASE Rest = {i} /\ spc' = "copyCalib"
      <3>1. DOMAIN record' = Calibration \cup Gathered
        BY <1>1, <2>5, Completes
      <3>2. Keeps(record, Item)'
        BY <1>2, <2>3, <3>1, DueTyped DEF Keeps
      <3> QED
        BY <2>5, <3>2 DEF Travels, Carried
    <2> QED
      BY <1>1, <2>4, <2>5
  <1> QED
    BY <1>3, <1>4 DEF Travels

LEMMA CopyCalibTravels ==
    ASSUME Full, Travels, CopyCalib
    PROVE  Travels'
  <1>1. spc = "copyCalib" /\ spc' = "copyBlob" /\ payload' = Overlay(Calibration)
        /\ UNCHANGED <<saveCommand, return, record, due>>
    BY DEF CopyCalib, At
  <1>2. CASE saveCommand /\ ~Taken
    BY <1>1, <1>2 DEF Travels, Taken, Gathering
  <1>3. CASE Carried
    <2>1. Keeps(record, Item) /\ Keeps(record, Item)'
      BY <1>1, <1>3 DEF Carried, Keeps, Suits
    <2>2. Keeps(payload, Calibration)'
      BY <1>1, <2>1, Items DEF Overlay, Keeps, Suits
    <2> QED
      BY <1>1, <2>1, <2>2 DEF Travels, Carried
  <1> QED
    BY <1>2, <1>3 DEF Travels

LEMMA CopyBlobTravels ==
    ASSUME Places, Values, Full, Travels, CopyBlob
    PROVE  Travels'
  <1>1. /\ spc = "copyBlob" /\ spc' = return /\ return' = "idle"
        /\ payload' = Overlay(Gathered) /\ dirty' /\ UNCHANGED <<saveCommand, due>>
    BY DEF CopyBlob, At
  <1>2. CASE saveCommand /\ ~Taken
    BY <1>1, <1>2 DEF Travels, Taken, Gathering, Places
  <1>3. CASE Carried
    <2>1. Keeps(record, Item) /\ Keeps(payload, Calibration)
      BY <1>1, <1>3 DEF Carried
    <2>2. Keeps(payload, Item)'
      BY <1>1, <2>1, Items, DueTyped DEF Overlay, Keeps, Suits
    <2> QED
      BY <1>1, <2>2 DEF Places, Travels, Carried, Saved
  <1> QED
    BY <1>2, <1>3 DEF Travels

LEMMA FlashTravels ==
    ASSUME Travels, FactoryReset \/ ResetEnd \/ Service \/ Write
    PROVE  Travels'
  <1>1. UNCHANGED <<saveCommand, return>>
        /\ spc \in {"gate", "reset", "service", "write"}
        /\ spc' \in {"idle", "reset", "service", "write"}
    BY DEF FactoryReset, ResetEnd, Service, Write, At
  <1>2. CASE saveCommand /\ ~Taken
    BY <1>1, <1>2 DEF Travels, Taken, Gathering
  <1>3. CASE FactoryReset
    BY <1>3 DEF FactoryReset, At, Travels, Carried
  <1>6. CASE ResetEnd /\ ~saveCommand
    <2>1. spc' = "service" /\ ~dirty' /\ due' = NoRecord
      BY <1>6 DEF ResetEnd, At
    <2> QED
      BY <2>1, Empty DEF Travels, Carried, Saved, Keeps
  <1>7. CASE ResetEnd /\ saveCommand
    BY <1>7 DEF ResetEnd, At, Travels, Taken, Gathering
  <1>4. CASE Carried /\ Service
    BY <1>4 DEF Service, At, Travels, Carried, Saved, Keeps, Suits
  <1>5. CASE Carried /\ Write
    <2>1. spc = "write" /\ spc' = "idle" /\ UNCHANGED <<payload, due>>
          /\ ((flash' = writing /\ dirty' = FALSE) \/ dirty' = dirty)
      BY Zenon, <1>5 DEF Write, At
    <2>2. dirty /\ Keeps(payload, Item) /\ Keeps(writing, Item)
      BY <1>5, <2>1 DEF Carried
    <2>3. CASE flash' = writing /\ dirty' = FALSE
      <3>1. Keeps(flash, Item)' /\ ~dirty'
        BY <2>1, <2>2, <2>3 DEF Keeps, Suits
      <3> QED
        BY <2>1, <3>1 DEF Travels, Carried, Saved
    <2>4. CASE dirty' = dirty
      <3>1. Keeps(payload, Item)' /\ dirty'
        BY <2>1, <2>2, <2>4 DEF Keeps, Suits
      <3> QED
        BY <2>1, <3>1 DEF Travels, Carried, Saved
    <2> QED
      BY <2>1, <2>3, <2>4
  <1> QED
    BY <1>2, <1>3, <1>4, <1>5, <1>6, <1>7 DEF Travels

LEMMA IdlingTravels ==
    ASSUME Travels, Idling
    PROVE  Travels'
  <1>1. CASE SwitchStage \/ CommandReset \/ CommandOffsetCal
    BY <1>1, TravelsStutters DEF SwitchStage, CommandReset, CommandOffsetCal, Under
  <1>2. CASE NoSave \/ NotFinished \/ ClearSave \/ StageOn
    <2>1. /\ UNCHANGED <<payload, dirty, flash, due>>
          /\ spc \in {"idle", "clear", "finish", "gate"} /\ spc' \in {"idle", "finish", "gate"}
          /\ Taken \/ UNCHANGED saveCommand
      BY <1>2 DEF NoSave, NotFinished, ClearSave, StageOn, At, Quiet, Taken
    <2>2. Carried => Carried'
      BY <2>1 DEF Carried, Saved, Keeps, Suits
    <2>3. saveCommand /\ ~Taken => saveCommand' /\ ~Taken'
      BY <2>1 DEF Taken, Gathering
    <2> QED
      BY <2>2, <2>3 DEF Travels
  <1> QED
    BY <1>1, <1>2 DEF Idling

LEMMA TravelsKept ==
    ASSUME Patient, Places, Values, Offsets, Full, Command, LiveKeeps, Travels, [Next]_paramVars
    PROVE  Travels'
  <1>1. CASE CommandSave
    <2>1. saveCommand' /\ ~saveCommand /\ UNCHANGED <<spc, return>>
      BY <1>1 DEF CommandSave
    <2> QED
      BY <2>1 DEF Travels, Command, Taken, Gathering
  <1>2. CASE TakeSave \/ FinishOffsets
    <2>1. spc' = "gather" /\ record' = NoRecord
      BY <1>2 DEF TakeSave, FinishOffsets, Gather, At
    <2> QED
      BY <2>1, Empty DEF Travels, Carried, Keeps
  <1>3. CASE MeasureOffsets \/ UNCHANGED paramVars
    BY <1>3, TravelsStutters DEF MeasureOffsets, paramVars, Under
  <1>4. CASE PowerCycle
    <2>1. PICK r \in Found : spc' = "idle" /\ ~dirty' /\ due' = r /\ flash' = r
      BY Zenon, <1>4 DEF PowerCycle
    <2>2. \A i \in DOMAIN r : i \notin Entry => r[i] \in Nat
      BY FoundTyped DEF Whole, Sound, Value
    <2>3. Keeps(flash, Item)'
      BY <2>1, <2>2 DEF Keeps, Suits
    <2> QED
      BY <2>1, <2>3 DEF Travels, Carried, Saved
  <1>5. ASSUME NEW e \in Entry, NEW v \in Sent, WriteEntry(e, v) PROVE Travels'
    <2>1. due' = [i \in DOMAIN due \ {e} |-> due[i]] /\ UNCHANGED Under
      BY <1>5 DEF WriteEntry, Under
    <2> QED
      BY <2>1, TravelsLess
  <1> QED
    BY Zenon, Steps, <1>1, <1>2, <1>3, <1>4, <1>5, IdlingTravels, CaptureTravels, GatherTravels,
       CopyCalibTravels, CopyBlobTravels, FlashTravels

-----------------------------------------------------------------------------
LEMMA InitIInv == Init => IInv
  <1> SUFFICES ASSUME Init PROVE IInv
    OBVIOUS
  <1>1. Flags /\ Places /\ Offsets /\ Full /\ Command
    BY DEF Init, Flags, Places, Offsets, Full, Command, Taken, Gathering
  <1>2. 0 \in Value /\ Nominal \notin Value /\ \A i \in Item : i # "current" => Defaults[i] = 0
    BY DEF Value, Nominal, Defaults
  <1>3. Values
    BY <1>2, Empty DEF Init, Values, Defaults, Item, Calibration, Captured
  <1>4. \A e \in Entry : live[e] = 0
    BY <1>2, Items DEF Init, Item, Calibration
  <1>5. Settles
    BY <1>4, Empty DEF Init, Settles, Settled
  <1>6. LiveKeeps /\ Travels
    BY Empty DEF Init, LiveKeeps, Travels, Carried, Saved, Keeps
  <1> QED
    BY <1>1, <1>3, <1>5, <1>6 DEF IInv

(* The invariant without the travelling holds for every host.              *)
Base == Flags /\ Places /\ Values /\ Offsets /\ Settles /\ Full

LEMMA BaseInvariant == Spec => []Base
  <1>1. Init => Base
    BY InitIInv DEF IInv, Base
  <1>2. Base /\ [Next]_paramVars => Base'
    BY FlagsKept, PlacesKept, ValuesKept, OffsetsKept, SettlesKept, FullKept DEF Base
  <1> QED
    BY <1>1, <1>2, PTL DEF Spec

LEMMA Invariant == ASSUME Patient PROVE Spec => []IInv
  <1>1. IInv /\ [Next]_paramVars => IInv'
    BY FlagsKept, PlacesKept, ValuesKept, OffsetsKept, FullKept, SettlesKept, CommandKept,
       LiveKeepsKept, TravelsKept DEF IInv
  <1> QED
    BY <1>1, InitIInv, PTL DEF Spec

(* Type correctness, for every host.                                       *)
THEOREM TypeCorrect == Spec => []TypeOK
  <1>1. Base => TypeOK
    BY Types DEF Base
  <1> QED
    BY <1>1, BaseInvariant, PTL

(* Nominal offsets never come back as measured ones, however saves, resets *)
(* and power cycles follow one another.                                    *)
THEOREM NeverFalselyCalibrated == Spec => []CalibratedMeansMeasured
  <1>1. Base => CalibratedMeansMeasured
    BY DEF Base, Offsets, CalibratedMeansMeasured
  <1> QED
    BY <1>1, BaseInvariant, PTL

(* What was to be saved is in flash once nothing is pending, for a host    *)
(* that waits for its save command to be cleared.                          *)
THEOREM SavesComplete == ASSUME Patient PROVE Spec => []SavedWhenClean
  <1>1. IInv => SavedWhenClean
    <2> SUFFICES ASSUME IInv, spc = "idle", ~saveCommand, ~dirty, NEW i \in DOMAIN due
                 PROVE  /\ i \in DOMAIN flash
                        /\ IF i \in Entry THEN flash[i] = due[i] ELSE flash[i] >= due[i]
      BY DEF SavedWhenClean
    <2>1. Keeps(flash, Item)
      BY DEF IInv, Travels, Carried, Saved
    <2>2. i \in Item
      BY DueTyped DEF IInv
    <2> QED
      BY <2>1, <2>2 DEF Keeps, Suits
  <1> QED
    BY <1>1, Invariant, PTL

-----------------------------------------------------------------------------
(* The parameter path against the register the store promises.             *)

(* What is written is storable.                                            *)
LEMMA CompleteStorable ==
    ASSUME NEW f, Complete(f), Whole(f), Settled(f)
    PROVE  f \in Storable
  <1>1. DOMAIN f = Calibration \cup Gathered
    BY DEF Complete
  <1>2. \A i \in Calibration \cup Gathered : f[i] \in IF i \in Entry THEN Sent ELSE Value
    BY <1>1 DEF Whole, Sound
  <1>3. Value \subseteq Sent
    BY DEF Value, Sent
  <1>4. f \in [Calibration \cup Gathered -> Sent]
    BY <1>2, <1>3 DEF Complete
  <1>5. \A e \in Gathered : Accepts(e, f[e]) \/ f[e] = 0
    BY <1>1, Items DEF Settled
  <1>6. \A i \in Calibration : f[i] \in Value
    BY <1>2, Items
  <1> QED
    BY <1>4, <1>5, <1>6 DEF Storable

LEMMA NothingWritten == NoRecord \notin Storable
  <1>1. \A r \in Storable : DOMAIN r = Calibration \cup Gathered
    BY StorableTyped
  <1> QED
    BY <1>1, Empty, Items

(* A record is begun: the register's Write; a failed erase may withdraw    *)
(* the last one.                                                           *)
LEMMA ServiceMaps ==
    ASSUME Values, Settles, Full, Service
    PROVE  [Register!Next]_(Register!vars)
  <1>1. spc \in {"gate", "service"} /\ UNCHANGED flash /\ Unacknowledged = tentative
    BY DEF Service, Unacknowledged
  <1>2. CASE spc' = "idle"
    <2>1. Unacknowledged' \in {tentative, NoRecord}
      BY <1>2 DEF Service, At, Unacknowledged
    <2> QED
      BY <1>1, <1>2, <2>1 DEF Register!Next, Register!Withdraw, Register!vars
  <1>3. CASE spc' = "write"
    <2>1. dirty /\ Unacknowledged' = payload
      BY <1>3 DEF Service, At, Unacknowledged
    <2>2. payload \in Storable
      BY <2>1, CompleteStorable DEF Full, Values, Settles
    <2> QED
      BY <1>1, <1>3, <2>1, <2>2 DEF Register!Next, Register!Write
  <1> QED
    BY <1>2, <1>3 DEF Service, At

(* Its end is acknowledged or not.                                         *)
LEMMA WriteMaps ==
    ASSUME Values, Settles, Full, Write
    PROVE  [Register!Next]_(Register!vars)
  <1>1. spc = "write" /\ spc' = "idle" /\ Unacknowledged = writing /\ Unacknowledged' = tentative'
    BY DEF Write, At, Unacknowledged
  <1>2. writing # NoRecord
    BY <1>1, CompleteStorable, NothingWritten DEF Full, Values, Settles
  <1>3. \/ flash' = writing /\ tentative' = NoRecord
        \/ UNCHANGED flash /\ tentative' \in {NoRecord, writing}
    BY DEF Write
  <1> QED
    BY <1>1, <1>2, <1>3 DEF Register!Next, Register!Acknowledge, Register!Withdraw, Register!vars

LEMMA CrashMaps == PowerCycle => Register!Crash
  <1> SUFFICES ASSUME PowerCycle PROVE Register!Crash
    OBVIOUS
  <1>1. PICK r \in Found : flash' = r /\ tentative' = NoRecord /\ spc' = "idle"
    BY Zenon DEF PowerCycle
  <1>2. Unacknowledged' = NoRecord
    BY <1>1 DEF Unacknowledged
  <1>3. CASE spc = "reset"
    BY <1>1, <1>2, <1>3 DEF Found, Register!Crash
  <1>4. CASE spc # "reset"
    BY <1>1, <1>2, <1>4 DEF Found, Register!Crash
  <1> QED
    BY <1>3, <1>4

LEMMA ResetMaps ==
    ASSUME FactoryReset \/ ResetEnd
    PROVE  Register!BeginReset \/ Register!EndReset
  <1>1. CASE FactoryReset
    BY <1>1 DEF FactoryReset, At, Unacknowledged, Register!BeginReset
  <1>2. CASE ResetEnd
    BY <1>2 DEF ResetEnd, At, Unacknowledged, Register!EndReset
  <1> QED
    BY <1>1, <1>2

(* Everything else leaves flash alone.                                     *)
LEMMA OtherwiseMapped ==
    ASSUME Places, [Next]_paramVars,
           ~(FactoryReset \/ ResetEnd \/ Service \/ Write \/ PowerCycle)
    PROVE  UNCHANGED Register!vars
  <1>1. UNCHANGED <<flash, tentative, writing>> /\ (spc' # spc => {spc, spc'} \cap {"write", "reset"} = {})
    <2>1. CASE \E i \in Captured : Capture(i)
      BY <2>1 DEF Capture
    <2>2. CASE MeasureOffsets \/ CommandSave
      BY <2>2 DEF MeasureOffsets, CommandSave
    <2>3. CASE \E e \in Entry, v \in Sent : WriteEntry(e, v)
      BY <2>3 DEF WriteEntry
    <2>4. CASE Idling
      BY <2>4 DEF Idling, SwitchStage, CommandReset, CommandOffsetCal, NoSave, NotFinished,
                  ClearSave, StageOn, At, Quiet
    <2>5. CASE TakeSave \/ FinishOffsets
      BY <2>5 DEF TakeSave, FinishOffsets, Gather, At, Quiet
    <2>6. CASE GatherItem \/ CopyCalib \/ CopyBlob
      BY <2>6 DEF GatherItem, CopyCalib, CopyBlob, At, Quiet, Places
    <2>7. CASE UNCHANGED paramVars
      BY <2>7 DEF paramVars
    <2> QED
      BY Zenon, Steps, <2>1, <2>2, <2>3, <2>4, <2>5, <2>6, <2>7
  <1> QED
    BY <1>1 DEF Unacknowledged, Register!vars

(* The parameter path uses the store within what the register promises,    *)
(* for every table, blob size and range of values and every host.          *)
THEOREM WithinTheRegister == Spec => UsesDurableRegister
  <1>1. Init => Register!Init
    BY DEF Init, Register!Init, Unacknowledged
  <1>2. Base /\ [Next]_paramVars => [Register!Next]_(Register!vars)
    <2> SUFFICES ASSUME Base, [Next]_paramVars PROVE [Register!Next]_(Register!vars)
      OBVIOUS
    <2>1. CASE Service \/ Write
      BY <2>1, ServiceMaps, WriteMaps DEF Base
    <2>2. CASE FactoryReset \/ ResetEnd
      BY <2>2, ResetMaps DEF Register!Next
    <2>3. CASE PowerCycle
      BY <2>3, CrashMaps DEF Register!Next
    <2>4. CASE ~(FactoryReset \/ ResetEnd \/ Service \/ Write \/ PowerCycle)
      BY <2>4, OtherwiseMapped DEF Base
    <2> QED
      BY <2>1, <2>2, <2>3, <2>4
  <1> QED
    BY <1>1, <1>2, BaseInvariant, PTL DEF Spec, UsesDurableRegister, Register!Spec
=============================================================================
