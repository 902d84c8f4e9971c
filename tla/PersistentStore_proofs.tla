----------------------- MODULE PersistentStore_proofs -----------------------
(***************************************************************************)
(* Proofs about the A/B store for every set of payloads and every bound on *)
(* the number of saves, with every flash operation free to fail.  The      *)
(* inductive invariant adds to GoodCopyKept what ServiceSlow knows about   *)
(* its target and its snapshot, and how far a factory reset has erased.    *)
(***************************************************************************)
EXTENDS PersistentStore, TLAPS

(* The words read so far come from the payload, or, if a save request has  *)
(* landed since the first read, from its predecessor p up to the k-th.     *)
(* What is read is a buffer some RequestSave left, never one half filled.  *)
Snapshot(p, k) ==
    \A i \in 1..Len(words) : words[i] = IF i <= k THEN p[Half(i)] ELSE payload[Half(i)]

BuildInv ==
    pc = "build" =>
       /\ Len(words) <= 3
       /\ ~raced => \A i \in 1..Len(words) : words[i] = payload[Half(i)]
       /\ raced => \E p \in latched : \E k \in 0..Len(words) : Snapshot(p, k)

RecordInv ==
    pc \in SaveStep \ {"build"} =>
       /\ Len(words) = 4
       /\ <<words[1], words[2]>> = <<words[3], words[4]>> => <<words[3], words[4]>> \in latched

SaveInv == /\ dirty => payload \in Word \X Word /\ (pc # "latch" => payload \in latched)
           /\ pc = "latch" => payload[1] \in Word /\ local \in Payload
           /\ Saving => dirty /\ target = Target /\ seq < MaxSeq

ResetInv ==
    ~resetFailed =>
       /\ pc \in {"reset", "resetErasing"} /\ target = 1 => ~slot_valid(flash[0])
       /\ pc = "resetDone" => \A s \in Slot : ~slot_valid(flash[s])

IInv == /\ TypeOK
        /\ GoodCopyKept
        /\ NoMixedRecord
        /\ SaveInv
        /\ BuildInv
        /\ RecordInv
        /\ ResetInv

-----------------------------------------------------------------------------
LEMMA UpToThree == \A n \in Nat : n <= 3 => n \in 0..3 /\ (n # 3 => n + 1 <= 3)
OBVIOUS

USE StoreAssumption DEF Slot, SaveStep, ResetStep, Resetting, Saving, slot_valid

LEMMA InitInv == Init => IInv
<1> SUFFICES ASSUME Init PROVE IInv OBVIOUS
<1>1. flash \in [Slot -> Content]
  BY DEF Init, Unwritten, Content
<1>2. hasValid \in BOOLEAN /\ dirty \in BOOLEAN /\ raced \in BOOLEAN
  BY Zenon DEF Init
<1>3. TypeOK
  BY <1>1, <1>2 DEF TypeOK, Init
<1> QED
  BY <1>3 DEF Init, IInv, GoodCopyKept, NoMixedRecord, SaveInv, BuildInv,
     RecordInv, ResetInv, Unwritten

LEMMA RecordTyped == ASSUME IInv, pc = "programming" PROVE Record(words, seq + 1) \in Content
<1>1. Len(words) = 4 /\ words \in Seq(Word) /\ seq + 1 \in 0..MaxSeq
  BY DEF IInv, TypeOK, RecordInv, SaveInv
<1>2. words[1] \in Word /\ words[2] \in Word /\ words[3] \in Word /\ words[4] \in Word
  BY <1>1
<1> QED BY <1>1, <1>2 DEF Record, Content

LEMMA ServiceBeginInv == ASSUME IInv, ServiceBegin PROVE IInv'
<1> USE DEF IInv
<1>1. TypeOK'
  <2>1. raced' \in BOOLEAN
    BY Zenon DEF ServiceBegin
  <2>2. target' \in Slot
    BY DEF ServiceBegin, TypeOK, Target
  <2> QED BY <2>1, <2>2 DEF ServiceBegin, TypeOK
<1>2. GoodCopyKept'
  BY DEF GoodCopyKept, NotAfter, Target, ServiceBegin
<1>3. NoMixedRecord'
  BY DEF NoMixedRecord, TypeOK, ServiceBegin
<1>4. SaveInv'
  BY DEF SaveInv, Target, ServiceBegin
<1>5. BuildInv'
  BY DEF BuildInv, ServiceBegin
<1>6. RecordInv'
  BY DEF RecordInv, ServiceBegin
<1>7. ResetInv'
  BY DEF ResetInv, ServiceBegin
<1> QED BY <1>1, <1>2, <1>3, <1>4, <1>5, <1>6, <1>7

LEMMA ReadWordInv == ASSUME IInv, ReadWord PROVE IInv'
<1> USE DEF IInv
<1>1. TypeOK'
  <2>1. payload \in Word \X Word
    BY DEF ReadWord, SaveInv
  <2>2. payload[Half(Len(words) + 1)] \in Word
    BY <2>1 DEF Half
  <2> QED BY <2>2 DEF TypeOK, ReadWord, BuildInv
<1>2. GoodCopyKept'
  BY DEF GoodCopyKept, NotAfter, TypeOK, SaveInv, Target, ReadWord
<1>3. NoMixedRecord'
  BY DEF NoMixedRecord, TypeOK, ReadWord
<1>4. SaveInv'
  BY DEF SaveInv, Target, ReadWord
<1>5. BuildInv'
  <2> DEFINE n == Len(words)
  <2>1. /\ words' = Append(words, payload[Half(n + 1)]) /\ words \in Seq(Word)
        /\ n \in Nat /\ n <= 3
        /\ payload' = payload /\ raced' = raced /\ latched' = latched
    <3>1. words \in Seq(Word)
      BY DEF TypeOK
    <3>2. n \in Nat
      BY <3>1
    <3> QED BY <3>1, <3>2 DEF ReadWord, BuildInv
  <2>2. /\ Len(words') = n + 1
        /\ words'[n + 1] = payload[Half(n + 1)]
        /\ \A i \in 1..n : words'[i] = words[i]
    BY <2>1
  <2>3. ~raced => \A i \in 1..Len(words') : words'[i] = payload[Half(i)]
    BY <2>1, <2>2 DEF BuildInv, ReadWord
  <2>4. ASSUME raced
        PROVE  \E p \in latched' : \E k \in 0..Len(words') : Snapshot(p, k)'
    <3>1. PICK p \in latched, k \in 0..n : Snapshot(p, k)
      BY <2>4 DEF BuildInv, ReadWord
    <3>2. Snapshot(p, k)'
      BY <2>1, <2>2, <3>1 DEF Snapshot
    <3> QED BY <2>1, <2>2, <3>1, <3>2
  <2>5. pc' = "build" => n + 1 <= 3
    <3>1. pc' = "build" => n # 3
      BY Zenon DEF ReadWord
    <3> QED BY <2>1, <3>1, UpToThree
  <2> QED BY <2>1, <2>2, <2>3, <2>4, <2>5 DEF BuildInv
<1>6. RecordInv'
  <2> SUFFICES ASSUME pc' # "build" PROVE RecordInv'
    BY DEF RecordInv
  <2>1. /\ Len(words) = 3 /\ words \in Seq(Word)
        /\ words' = Append(words, payload[2])
        /\ payload \in latched /\ payload \in Word \X Word /\ latched' = latched
    BY DEF ReadWord, TypeOK, SaveInv, Half
  <2>2. /\ Len(words') = 4 /\ words'[4] = payload[2]
        /\ words'[1] = words[1] /\ words'[2] = words[2] /\ words'[3] = words[3]
    <3>1. words \in Seq(Word) /\ words' = Append(words, payload[2])
      BY <2>1
    <3>2. /\ Len(words') = Len(words) + 1 /\ words'[Len(words) + 1] = payload[2]
          /\ \A i \in 1..Len(words) : words'[i] = words[i]
      BY <3>1
    <3>3. Len(words) + 1 = 4 /\ 1..Len(words) = {1, 2, 3}
      BY <2>1
    <3> QED BY <3>2, <3>3
  <2>3. payload = <<payload[1], payload[2]>>
    BY <2>1
  <2>4. CASE ~raced
    <3>1. words[3] = payload[1]
      BY <2>1, <2>4 DEF BuildInv, ReadWord, Half
    <3> QED BY <2>1, <2>2, <2>3, <3>1 DEF RecordInv
  <2>5. CASE raced
    <3>1. PICK p \in latched, k \in 0..3 : Snapshot(p, k)
      BY <2>1, <2>5 DEF BuildInv, ReadWord
    <3>2. p = <<p[1], p[2]>>
      BY DEF TypeOK
    <3>3. /\ words[1] = IF 1 <= k THEN p[1] ELSE payload[1]
          /\ words[2] = IF 2 <= k THEN p[2] ELSE payload[2]
          /\ words[3] = IF 3 <= k THEN p[1] ELSE payload[1]
      BY <2>1, <3>1 DEF Snapshot, Half
    <3>4. <<words'[1], words'[2]>> = <<words'[3], words'[4]>>
            => <<words'[3], words'[4]>> = p \/ <<words'[3], words'[4]>> = payload
      BY <2>2, <2>3, <3>2, <3>3
    <3> QED BY <2>1, <2>2, <3>4 DEF RecordInv
  <2> QED BY <2>4, <2>5
<1>7. ResetInv'
  BY DEF ResetInv, ReadWord
<1> QED BY <1>1, <1>2, <1>3, <1>4, <1>5, <1>6, <1>7

LEMMA EraseBeginInv == ASSUME IInv, EraseBegin PROVE IInv'
<1> USE DEF IInv
<1>1. TypeOK'
  BY DEF TypeOK, Content, EraseBegin, Tear, Goto, Kept, Unwritten
<1>2. GoodCopyKept'
  BY DEF GoodCopyKept, NotAfter, TypeOK, SaveInv, Target, EraseBegin, Tear, Goto, Kept, Unwritten
<1>3. NoMixedRecord'
  BY DEF NoMixedRecord, TypeOK, EraseBegin, Tear, Goto, Kept, Unwritten
<1>4. SaveInv'
  BY DEF SaveInv, Target, EraseBegin, Tear, Goto, Kept, Unwritten
<1>5. BuildInv'
  BY DEF BuildInv, EraseBegin, Tear, Goto, Kept, Unwritten
<1>6. RecordInv'
  BY DEF RecordInv, EraseBegin, Tear, Goto, Kept, Unwritten
<1>7. ResetInv'
  BY DEF ResetInv, EraseBegin, Tear, Goto, Kept, Unwritten
<1> QED BY <1>1, <1>2, <1>3, <1>4, <1>5, <1>6, <1>7

LEMMA EraseEndInv == ASSUME IInv, EraseEnd PROVE IInv'
<1> USE DEF IInv
<1>1. TypeOK'
  BY DEF TypeOK, Content, EraseEnd, Erase, Goto, Kept, Unwritten
<1>2. GoodCopyKept'
  BY DEF GoodCopyKept, NotAfter, TypeOK, SaveInv, Target, EraseEnd, Erase, Goto, Kept, Unwritten
<1>3. NoMixedRecord'
  BY DEF NoMixedRecord, TypeOK, EraseEnd, Erase, Goto, Kept, Unwritten
<1>4. SaveInv'
  BY DEF SaveInv, Target, EraseEnd, Erase, Goto, Kept, Unwritten
<1>5. BuildInv'
  BY DEF BuildInv, EraseEnd, Erase, Goto, Kept, Unwritten
<1>6. RecordInv'
  BY DEF RecordInv, EraseEnd, Erase, Goto, Kept, Unwritten
<1>7. ResetInv'
  BY DEF ResetInv, EraseEnd, Erase, Goto, Kept, Unwritten
<1> QED BY <1>1, <1>2, <1>3, <1>4, <1>5, <1>6, <1>7

LEMMA ProgramBeginInv == ASSUME IInv, ProgramBegin PROVE IInv'
<1> USE DEF IInv
<1>1. TypeOK'
  BY DEF TypeOK, Content, ProgramBegin, Tear, Goto, Kept, Unwritten
<1>2. GoodCopyKept'
  BY DEF GoodCopyKept, NotAfter, TypeOK, SaveInv, Target, ProgramBegin, Tear, Goto, Kept, Unwritten
<1>3. NoMixedRecord'
  BY DEF NoMixedRecord, TypeOK, ProgramBegin, Tear, Goto, Kept, Unwritten
<1>4. SaveInv'
  BY DEF SaveInv, Target, ProgramBegin, Tear, Goto, Kept, Unwritten
<1>5. BuildInv'
  BY DEF BuildInv, ProgramBegin, Tear, Goto, Kept, Unwritten
<1>6. RecordInv'
  BY DEF RecordInv, ProgramBegin, Tear, Goto, Kept, Unwritten
<1>7. ResetInv'
  BY DEF ResetInv, ProgramBegin, Tear, Goto, Kept, Unwritten
<1> QED BY <1>1, <1>2, <1>3, <1>4, <1>5, <1>6, <1>7

LEMMA ProgramEndInv == ASSUME IInv, ProgramEnd PROVE IInv'
<1> USE DEF IInv
<1>1. TypeOK'
  <2>1. Record(words, seq + 1) \in Content
    BY RecordTyped DEF ProgramEnd
  <2> QED BY <2>1 DEF TypeOK, ProgramEnd, Goto, Kept
<1>2. GoodCopyKept'
  <2>1. /\ target = Target /\ Target \in Slot /\ Target' = Target
        /\ flash' = [flash EXCEPT ![target] = Record(words, seq + 1)]
        /\ UNCHANGED <<hasValid, active, seq, resetFailed>> /\ ~Resetting
    BY DEF TypeOK, SaveInv, Target, ProgramEnd, Goto, Kept
  <2>2. flash'[Target].seq = seq + 1
    BY <2>1 DEF TypeOK, Record
  <2>3. \A s \in Slot : s # Target => flash'[s] = flash[s]
    BY <2>1 DEF TypeOK
  <2>4. hasValid => active \in Slot /\ active # Target
    BY DEF TypeOK, Target
  <2> QED BY <2>1, <2>2, <2>3, <2>4 DEF GoodCopyKept, NotAfter
<1>3. NoMixedRecord'
  BY DEF NoMixedRecord, TypeOK, RecordInv, ProgramEnd, Goto, Kept, Record
<1>4. SaveInv'
  BY DEF SaveInv, Target, ProgramEnd, Goto, Kept, Record
<1>5. BuildInv'
  BY DEF BuildInv, ProgramEnd, Goto, Kept, Record
<1>6. RecordInv'
  BY DEF RecordInv, ProgramEnd, Goto, Kept, Record
<1>7. ResetInv'
  BY DEF ResetInv, ProgramEnd, Goto, Kept, Record
<1> QED BY <1>1, <1>2, <1>3, <1>4, <1>5, <1>6, <1>7

LEMMA SaveFailsInv == ASSUME IInv, SaveFails PROVE IInv'
<1> USE DEF IInv
<1>1. TypeOK'
  <2>1. pc = "programming" => Record(words, seq + 1) \in Content
    BY RecordTyped
  <2> QED BY <2>1 DEF TypeOK, SaveFails, Goto, Kept
<1>2. GoodCopyKept'
  BY DEF GoodCopyKept, NotAfter, TypeOK, SaveInv, Target, SaveFails, Goto, Kept, Record
<1>3. NoMixedRecord'
  <2>1. pc = "programming" /\ slot_valid(Record(words, seq + 1))
          => Record(words, seq + 1).data \in latched
    BY DEF RecordInv, Record
  <2> QED BY <2>1 DEF NoMixedRecord, SaveFails, Goto, Kept, TypeOK
<1>4. SaveInv'
  BY DEF SaveInv, Target, SaveFails, Goto, Kept, Record
<1>5. BuildInv'
  BY DEF BuildInv, SaveFails, Goto, Kept, Record
<1>6. RecordInv'
  BY DEF RecordInv, SaveFails, Goto, Kept, Record
<1>7. ResetInv'
  BY DEF ResetInv, SaveFails, Goto, Kept, Record
<1> QED BY <1>1, <1>2, <1>3, <1>4, <1>5, <1>6, <1>7

LEMMA VerifyOkInv == ASSUME IInv, VerifyOk PROVE IInv'
<1> USE DEF IInv
<1>1. TypeOK'
  <2>1. hasValid' \in BOOLEAN /\ dirty' \in BOOLEAN /\ raced' \in BOOLEAN
    BY Zenon DEF VerifyOk, TypeOK
  <2>2. seq' \in 0..MaxSeq
    BY DEF VerifyOk, TypeOK, SaveInv
  <2> QED BY <2>1, <2>2 DEF VerifyOk, TypeOK
<1>2. GoodCopyKept'
  BY DEF GoodCopyKept, NotAfter, TypeOK, SaveInv, Target, VerifyOk, Verified
<1>3. NoMixedRecord'
  BY DEF NoMixedRecord, TypeOK, VerifyOk, Verified
<1>4. SaveInv'
  BY DEF SaveInv, Target, VerifyOk, Verified
<1>5. BuildInv'
  BY DEF BuildInv, VerifyOk, Verified
<1>6. RecordInv'
  BY DEF RecordInv, VerifyOk, Verified
<1>7. ResetInv'
  BY DEF ResetInv, VerifyOk, Verified
<1> QED BY <1>1, <1>2, <1>3, <1>4, <1>5, <1>6, <1>7

LEMMA VerifyBadInv == ASSUME IInv, VerifyBad PROVE IInv'
<1> USE DEF IInv
<1>1. TypeOK'
  BY DEF TypeOK, VerifyBad, Goto, Kept
<1>2. GoodCopyKept'
  BY DEF GoodCopyKept, NotAfter, TypeOK, SaveInv, Target, VerifyBad, Goto, Kept
<1>3. NoMixedRecord'
  BY DEF NoMixedRecord, TypeOK, VerifyBad, Goto, Kept
<1>4. SaveInv'
  BY DEF SaveInv, Target, VerifyBad, Goto, Kept
<1>5. BuildInv'
  BY DEF BuildInv, VerifyBad, Goto, Kept
<1>6. RecordInv'
  BY DEF RecordInv, VerifyBad, Goto, Kept
<1>7. ResetInv'
  BY DEF ResetInv, VerifyBad, Goto, Kept
<1> QED BY <1>1, <1>2, <1>3, <1>4, <1>5, <1>6, <1>7

LEMMA ResetBeginInv == ASSUME IInv, ResetBegin PROVE IInv'
<1> USE DEF IInv
<1>1. TypeOK'
  <2>1. resetFailed' \in BOOLEAN
    BY Zenon DEF ResetBegin
  <2> QED BY <2>1 DEF TypeOK, ResetBegin, Kept
<1>2. GoodCopyKept'
  BY DEF GoodCopyKept, NotAfter, TypeOK, SaveInv, Target, ResetBegin, Goto, Kept
<1>3. NoMixedRecord'
  BY DEF NoMixedRecord, TypeOK, ResetBegin, Goto, Kept
<1>4. SaveInv'
  BY DEF SaveInv, Target, ResetBegin, Goto, Kept
<1>5. BuildInv'
  BY DEF BuildInv, ResetBegin, Goto, Kept
<1>6. RecordInv'
  BY DEF RecordInv, ResetBegin, Goto, Kept
<1>7. ResetInv'
  BY DEF ResetInv, ResetBegin, Goto, Kept
<1> QED BY <1>1, <1>2, <1>3, <1>4, <1>5, <1>6, <1>7

LEMMA ResetEraseInv == ASSUME IInv, ResetErase PROVE IInv'
<1> USE DEF IInv
<1>1. TypeOK'
  BY DEF TypeOK, Content, ResetErase, Tear, Goto, Kept, Unwritten
<1>2. GoodCopyKept'
  BY DEF GoodCopyKept, NotAfter, TypeOK, SaveInv, Target, ResetErase, Tear, Goto, Kept, Unwritten
<1>3. NoMixedRecord'
  BY DEF NoMixedRecord, TypeOK, ResetErase, Tear, Goto, Kept, Unwritten
<1>4. SaveInv'
  BY DEF SaveInv, Target, ResetErase, Tear, Goto, Kept, Unwritten
<1>5. BuildInv'
  BY DEF BuildInv, ResetErase, Tear, Goto, Kept, Unwritten
<1>6. RecordInv'
  BY DEF RecordInv, ResetErase, Tear, Goto, Kept, Unwritten
<1>7. ResetInv'
  BY DEF ResetInv, ResetErase, Tear, Goto, Kept, Unwritten
<1> QED BY <1>1, <1>2, <1>3, <1>4, <1>5, <1>6, <1>7

LEMMA ResetErasedInv == ASSUME IInv, ResetErased PROVE IInv'
<1> USE DEF IInv
<1>1. TypeOK'
  BY DEF TypeOK, Content, ResetErased, Erase, Goto, Kept, Unwritten, NextSlot
<1>2. GoodCopyKept'
  BY DEF GoodCopyKept, NotAfter, TypeOK, SaveInv, Target, ResetErased, Erase, Goto, Kept, Unwritten, NextSlot
<1>3. NoMixedRecord'
  BY DEF NoMixedRecord, TypeOK, ResetErased, Erase, Goto, Kept, Unwritten, NextSlot
<1>4. SaveInv'
  BY DEF SaveInv, Target, ResetErased, Erase, Goto, Kept, Unwritten, NextSlot
<1>5. BuildInv'
  BY DEF BuildInv, ResetErased, Erase, Goto, Kept, Unwritten, NextSlot
<1>6. RecordInv'
  BY DEF RecordInv, ResetErased, Erase, Goto, Kept, Unwritten, NextSlot
<1>7. ResetInv'
  BY DEF ResetInv, ResetErased, Erase, Goto, Kept, Unwritten, NextSlot, TypeOK
<1> QED BY <1>1, <1>2, <1>3, <1>4, <1>5, <1>6, <1>7

LEMMA ResetFailsInv == ASSUME IInv, ResetFails PROVE IInv'
<1> USE DEF IInv
<1>1. TypeOK'
  <2>1. resetFailed' \in BOOLEAN
    BY Zenon DEF ResetFails
  <2> QED BY <2>1 DEF TypeOK, ResetFails, Kept, NextSlot
<1>2. GoodCopyKept'
  BY DEF GoodCopyKept, ResetFails, Kept, NextSlot
<1>3. NoMixedRecord'
  BY DEF NoMixedRecord, ResetFails, Kept
<1>4. SaveInv'
  BY DEF SaveInv, ResetFails, Kept, NextSlot
<1>5. BuildInv'
  BY DEF BuildInv, ResetFails, NextSlot
<1>6. RecordInv'
  BY DEF RecordInv, ResetFails, NextSlot
<1>7. ResetInv'
  <2>1. resetFailed' = TRUE
    BY Zenon DEF ResetFails
  <2> QED BY <2>1 DEF ResetInv
<1> QED BY <1>1, <1>2, <1>3, <1>4, <1>5, <1>6, <1>7

LEMMA ResetEndInv == ASSUME IInv, ResetEnd PROVE IInv'
<1> USE DEF IInv
<1>1. TypeOK'
  <2>1. hasValid' \in BOOLEAN /\ dirty' \in BOOLEAN /\ raced' \in BOOLEAN
    BY Zenon DEF ResetEnd, TypeOK
  <2> QED BY <2>1 DEF ResetEnd, TypeOK
<1>2. GoodCopyKept'
  BY DEF GoodCopyKept, NotAfter, ResetInv, ResetEnd
<1>3. NoMixedRecord'
  BY DEF NoMixedRecord, TypeOK, ResetEnd
<1>4. SaveInv'
  BY DEF SaveInv, Target, ResetEnd
<1>5. BuildInv'
  BY DEF BuildInv, ResetEnd
<1>6. RecordInv'
  BY DEF RecordInv, ResetEnd
<1>7. ResetInv'
  BY DEF ResetInv, ResetEnd
<1> QED BY <1>1, <1>2, <1>3, <1>4, <1>5, <1>6, <1>7

LEMMA PowerCycleInv == ASSUME IInv, PowerCycle PROVE IInv'
<1> USE DEF IInv
<1>1. TypeOK'
  <2>1. /\ hasValid' \in BOOLEAN /\ dirty' \in BOOLEAN /\ raced' \in BOOLEAN
        /\ resetFailed' \in BOOLEAN
    BY Zenon DEF PowerCycle
  <2>2. payload' \in (Word \X Word) \cup {None} /\ seq' \in 0..MaxSeq /\ active' \in Slot
    BY DEF PowerCycle, Scan, TypeOK, NoMixedRecord, Content
  <2>3. payload' \in (Word \cup {Zero}) \X (Word \cup {Zero})
    BY <2>2 DEF None
  <2> QED BY <2>1, <2>2, <2>3 DEF PowerCycle, TypeOK
<1>2. GoodCopyKept'
  <2>1. CASE Scan(flash) = {}
    <3>1. \A s \in Slot : ~slot_valid(flash[s])
      BY <2>1 DEF Scan, NotAfter, TypeOK, Content
    <3>2. hasValid' = FALSE
      BY Zenon, <2>1 DEF PowerCycle
    <3> QED BY <3>1, <3>2 DEF PowerCycle, GoodCopyKept
  <2>2. CASE Scan(flash) # {}
    <3>1. PICK s \in Scan(flash) : seq' = flash[s].seq /\ active' = s
      BY <2>2 DEF PowerCycle
    <3>2. /\ s \in Slot /\ slot_valid(flash[s])
          /\ \A t \in Slot : slot_valid(flash[t]) => NotAfter(flash, t, s)
      BY <3>1 DEF Scan
    <3> QED BY <2>2, <3>1, <3>2 DEF PowerCycle, GoodCopyKept
  <2> QED BY <2>1, <2>2
<1>3. NoMixedRecord'
  BY DEF NoMixedRecord, TypeOK, PowerCycle, Scan
<1>4. SaveInv'
  BY DEF SaveInv, Target, PowerCycle, Scan
<1>5. BuildInv'
  BY DEF BuildInv, PowerCycle, Scan
<1>6. RecordInv'
  BY DEF RecordInv, PowerCycle, Scan
<1>7. ResetInv'
  BY DEF ResetInv, PowerCycle, Scan
<1> QED BY <1>1, <1>2, <1>3, <1>4, <1>5, <1>6, <1>7

LEMMA RequestSaveInv == ASSUME NEW p \in Payload, IInv, RequestSave(p) PROVE IInv'
<1> USE DEF IInv
<1>1. TypeOK'
  <2>1. dirty' \in BOOLEAN /\ raced' \in BOOLEAN
    BY Zenon DEF RequestSave
  <2> QED BY <2>1 DEF TypeOK, RequestSave
<1>2. GoodCopyKept'
  BY DEF GoodCopyKept, NotAfter, TypeOK, SaveInv, Target, RequestSave
<1>3. NoMixedRecord'
  BY DEF NoMixedRecord, TypeOK, RequestSave
<1>4. SaveInv'
  BY DEF SaveInv, Target, RequestSave
<1>5. BuildInv'
  <2> SUFFICES ASSUME pc = "build"
               PROVE  BuildInv'
    BY DEF BuildInv, RequestSave
  <2>1. PICK q \in latched, k \in 0..3 : q = payload /\ k = Len(words)
    <3>1. words \in Seq(Word) /\ Len(words) <= 3
      BY DEF TypeOK, BuildInv
    <3>2. Len(words) \in Nat
      BY <3>1
    <3>3. Len(words) \in 0..3
      BY <3>1, <3>2, UpToThree
    <3> QED BY <3>3 DEF SaveInv
  <2>2. \A i \in 1..Len(words) : words[i] = q[Half(i)]
    BY <2>1 DEF RequestSave, BuildInv
  <2>3. raced' /\ words' = words /\ q \in latched'
    BY <2>1 DEF RequestSave
  <2>4. Snapshot(q, k)'
    BY <2>1, <2>2, <2>3 DEF Snapshot
  <2>5. Len(words') <= 3 /\ k \in 0..Len(words')
    BY <2>1, <2>3 DEF BuildInv
  <2> QED BY <2>3, <2>4, <2>5 DEF BuildInv
<1>6. RecordInv'
  BY DEF RecordInv, RequestSave
<1>7. ResetInv'
  BY DEF ResetInv, RequestSave
<1> QED BY <1>1, <1>2, <1>3, <1>4, <1>5, <1>6, <1>7

LEMMA LatchBeginInv == ASSUME NEW p \in Payload, IInv, LatchBegin(p) PROVE IInv'
<1> USE DEF IInv
<1>1. p \in Word \X Word /\ p[1] \in Word
  OBVIOUS
<1>2. payload[2] \in Word \cup {Zero} /\ (dirty => payload[2] \in Word)
  BY DEF TypeOK, SaveInv
<1>3. payload' = <<p[1], payload[2]>> /\ pc = "idle" /\ pc' = "latch" /\ local' = p
  BY DEF LatchBegin
<1>4. TypeOK'
  BY <1>1, <1>2 DEF TypeOK, LatchBegin
<1>5. GoodCopyKept'
  BY DEF GoodCopyKept, NotAfter, TypeOK, Target, LatchBegin
<1>6. NoMixedRecord'
  BY DEF NoMixedRecord, TypeOK, LatchBegin
<1>7. SaveInv'
  BY <1>1, <1>2, <1>3 DEF SaveInv, LatchBegin
<1>8. BuildInv' /\ RecordInv' /\ ResetInv'
  BY <1>3 DEF BuildInv, RecordInv, ResetInv, LatchBegin
<1> QED BY <1>4, <1>5, <1>6, <1>7, <1>8

LEMMA LatchEndInv == ASSUME IInv, LatchEnd PROVE IInv'
<1> USE DEF IInv
<1>1. payload' = <<payload[1], local[2]>> /\ payload' \in Word \X Word
  BY DEF SaveInv, LatchEnd
<1>2. pc = "latch" /\ pc' = "idle" /\ latched' = latched \cup {payload'}
  BY DEF LatchEnd
<1>3. dirty' \in BOOLEAN
  BY Zenon DEF LatchEnd
<1>4. TypeOK'
  BY <1>1, <1>2, <1>3 DEF TypeOK, LatchEnd
<1>5. GoodCopyKept'
  BY DEF GoodCopyKept, NotAfter, TypeOK, Target, LatchEnd
<1>6. NoMixedRecord'
  BY <1>2 DEF NoMixedRecord, TypeOK, LatchEnd
<1>7. SaveInv'
  BY <1>1, <1>2 DEF SaveInv
<1>8. BuildInv' /\ RecordInv' /\ ResetInv'
  BY <1>2 DEF BuildInv, RecordInv, ResetInv, LatchEnd
<1> QED BY <1>4, <1>5, <1>6, <1>7, <1>8

LEMMA NextInv ==
    ASSUME IInv, [Next]_vars
    PROVE  IInv'
<1>1. CASE ServiceSlow
  BY <1>1, ServiceBeginInv, ReadWordInv, EraseBeginInv, EraseEndInv, ProgramBeginInv, ProgramEndInv,
     SaveFailsInv, VerifyOkInv, VerifyBadInv DEF ServiceSlow
<1>2. CASE FactoryReset
  BY <1>2, ResetBeginInv, ResetEraseInv, ResetErasedInv, ResetFailsInv, ResetEndInv
     DEF FactoryReset
<1>3. CASE \/ \E p \in Payload : RequestSave(p) \/ LatchBegin(p)
           \/ LatchEnd
  BY <1>3, RequestSaveInv, LatchBeginInv, LatchEndInv
<1>4. CASE PowerCycle
  BY <1>4, PowerCycleInv
<1>5. CASE UNCHANGED vars
  BY <1>5 DEF vars, IInv, TypeOK, GoodCopyKept, NoMixedRecord, SaveInv, BuildInv,
     RecordInv, ResetInv, Snapshot, Target
<1> QED BY <1>1, <1>2, <1>3, <1>4, <1>5 DEF Next

(* Every reachable state of the store satisfies the inductive invariant    *)
(* (mc_persistent_store.c, all of it).                                     *)
THEOREM InductiveInvariant == Spec => []IInv
<1>1. IInv /\ [Next]_vars => IInv'
  BY NextInv
<1> QED BY InitInv, <1>1, PTL DEF Spec

(* The state of the store is always well typed.                            *)
THEOREM TypeCorrect == Spec => []TypeOK
<1>1. IInv => TypeOK
  BY DEF IInv
<1> QED BY InductiveInvariant, <1>1, PTL

(* Whenever power is lost outside a factory reset, the last acknowledged   *)
(* record or the one written over the other slot is what boots.            *)
THEOREM PowerLossSafe == Spec => []GoodCopyKept
<1>1. IInv => GoodCopyKept
  BY DEF IInv
<1> QED BY InductiveInvariant, <1>1, PTL

(* A record that validates is what the payload buffer held as some         *)
(* RequestSave returned (calc_crc and memcpy of ServiceSlow, preempted).   *)
THEOREM RecordsWhole == Spec => []NoMixedRecord
<1>1. IInv => NoMixedRecord
  BY DEF IInv
<1> QED BY InductiveInvariant, <1>1, PTL

(* The sequence number in use never goes back outside a factory reset.     *)
THEOREM SeqGrows == Spec => SeqNeverGoesBack
<1>1. ASSUME IInv, [Next]_vars PROVE [~Resetting /\ hasValid => seq' >= seq]_vars
  <2> SUFFICES ASSUME ~Resetting, hasValid, Next PROVE seq' >= seq
    BY <1>1
  <2> USE <1>1 DEF IInv
  <2>1. seq \in Nat
    BY DEF TypeOK
  <2>2. CASE PowerCycle
    <3>1. slot_valid(flash[active]) /\ flash[active].seq = seq /\ active \in Slot
      BY DEF GoodCopyKept, TypeOK
    <3>2. PICK s \in Scan(flash) : seq' = flash[s].seq
      <4>1. Scan(flash) # {}
        BY <3>1 DEF Scan, NotAfter, TypeOK, Content
      <4> QED BY <2>2, <4>1 DEF PowerCycle
    <3>3. flash[s].seq >= flash[active].seq
      BY <3>1, <3>2 DEF Scan, NotAfter, TypeOK, Content
    <3> QED BY <3>1, <3>2, <3>3
  <2>3. CASE \/ \E p \in Payload : RequestSave(p) \/ LatchBegin(p)
             \/ LatchEnd
    <3>1. seq' = seq
      BY Zenon, <2>3 DEF RequestSave, LatchBegin, LatchEnd
    <3> QED BY <2>1, <3>1
  <2>4. CASE ServiceSlow
    <3>1. seq' = seq \/ seq' = seq + 1
      BY Zenon, <2>4 DEF ServiceSlow, ServiceBegin, ReadWord, EraseBegin, EraseEnd, ProgramBegin,
         ProgramEnd, SaveFails, VerifyOk, VerifyBad, Goto, Kept, Erase, Tear
    <3> QED BY <2>1, <3>1
  <2>5. CASE FactoryReset
    <3>1. ResetBegin
      BY <2>5 DEF FactoryReset, ResetErase, ResetErased, ResetFails, ResetEnd
    <3> QED BY <2>1, <3>1 DEF ResetBegin, Goto, Kept
  <2> QED BY <2>2, <2>3, <2>4, <2>5 DEF Next
<1> QED BY InductiveInvariant, <1>1, PTL DEF Spec, SeqNeverGoesBack

-----------------------------------------------------------------------------
(* What a save knows when it reads its record back: a copy that no request *)
(* raced agrees with the words the CRC was computed over, and the slot     *)
(* holds the record that was programmed.                                   *)
CopyInv == pc \in SaveStep \ {"build"} /\ ~raced => words[1] = words[3] /\ words[2] = words[4]

ReadBackInv == pc = "verify" => flash[target] = Record(words, seq + 1)

LEMMA UnracedCopyAgrees ==
    ASSUME IInv, ReadWord, pc' # "build", ~raced'
    PROVE  words'[1] = words'[3] /\ words'[2] = words'[4]
<1>1. /\ words \in Seq(Word) /\ Len(words) = 3 /\ ~raced
      /\ words' = Append(words, payload[2])
  BY DEF IInv, TypeOK, ReadWord, Half
<1>2. words[1] = payload[1] /\ words[2] = payload[2] /\ words[3] = payload[1]
  BY <1>1 DEF IInv, BuildInv, ReadWord, Half
<1>3. /\ words'[Len(words) + 1] = payload[2]
      /\ \A i \in 1..Len(words) : words'[i] = words[i]
  <2>1. words \in Seq(Word) /\ words' = Append(words, payload[2])
    BY <1>1
  <2> QED BY <2>1
<1>4. Len(words) + 1 = 4 /\ 1..Len(words) = {1, 2, 3}
  BY <1>1
<1> QED BY <1>2, <1>3, <1>4

LEMMA CopyKeeps ==
    ASSUME IInv, CopyInv, [Next]_vars
    PROVE  CopyInv'
<1>1. CASE ReadWord
  BY <1>1, UnracedCopyAgrees DEF CopyInv
<1>2. CASE ServiceBegin
  BY <1>2 DEF ServiceBegin, CopyInv
<1>3. CASE \/ EraseBegin \/ EraseEnd \/ ProgramBegin \/ ProgramEnd \/ SaveFails
          \/ VerifyOk \/ VerifyBad
  BY <1>3 DEF CopyInv, EraseBegin, EraseEnd, ProgramBegin, ProgramEnd, SaveFails, VerifyOk,
     VerifyBad, Goto, Kept, Erase, Tear
<1>4. CASE FactoryReset
  BY <1>4 DEF CopyInv, FactoryReset, ResetBegin, ResetErase, ResetErased, ResetFails, ResetEnd,
     NextSlot, Goto, Erase, Tear
<1>5. CASE \/ \E p \in Payload : RequestSave(p) \/ LatchBegin(p)
           \/ LatchEnd
  BY <1>5 DEF CopyInv, RequestSave, LatchBegin, LatchEnd
<1>6. CASE PowerCycle
  BY <1>6 DEF CopyInv, PowerCycle
<1>7. CASE UNCHANGED vars
  BY <1>7 DEF CopyInv, vars
<1> QED BY <1>1, <1>2, <1>3, <1>4, <1>5, <1>6, <1>7 DEF Next, ServiceSlow

LEMMA ReadBackKeeps ==
    ASSUME IInv, ReadBackInv, [Next]_vars
    PROVE  ReadBackInv'
<1>1. CASE ProgramEnd
  BY <1>1 DEF ReadBackInv, ProgramEnd, Goto, Kept, IInv, TypeOK, Record
<1>2. CASE \/ ServiceBegin \/ ReadWord \/ EraseBegin \/ EraseEnd \/ ProgramBegin \/ SaveFails
          \/ VerifyOk \/ VerifyBad
  BY <1>2 DEF ReadBackInv, ServiceBegin, ReadWord, EraseBegin, EraseEnd, ProgramBegin, SaveFails,
     VerifyOk, VerifyBad, Goto, Erase, Tear
<1>3. CASE FactoryReset
  BY <1>3 DEF ReadBackInv, FactoryReset, ResetBegin, ResetErase, ResetErased, ResetFails, ResetEnd,
     NextSlot, Goto, Erase, Tear
<1>4. CASE \/ \E p \in Payload : RequestSave(p) \/ LatchBegin(p)
           \/ LatchEnd
  BY <1>4 DEF ReadBackInv, RequestSave, LatchBegin, LatchEnd, Record
<1>5. CASE PowerCycle
  BY <1>5 DEF ReadBackInv, PowerCycle
<1>6. CASE UNCHANGED vars
  BY <1>6 DEF ReadBackInv, vars, Record
<1> QED BY <1>1, <1>2, <1>3, <1>4, <1>5, <1>6 DEF Next, ServiceSlow

(* A save that no request raced and no flash error stopped passes its      *)
(* read-back (the verify at the end of MC_PersistentStore_ServiceSlow).    *)
THEOREM UnracedSavesVerify == Spec => []UnracedSaveVerifies
<1>1. Init => CopyInv /\ ReadBackInv
  BY DEF Init, CopyInv, ReadBackInv
<1>2. IInv /\ CopyInv /\ ReadBackInv /\ [Next]_vars => (CopyInv /\ ReadBackInv)'
  BY CopyKeeps, ReadBackKeeps
<1>3. IInv /\ CopyInv /\ ReadBackInv => UnracedSaveVerifies
  BY DEF CopyInv, ReadBackInv, UnracedSaveVerifies, Verified, Record
<1> QED BY InductiveInvariant, <1>1, <1>2, <1>3, PTL DEF Spec

-----------------------------------------------------------------------------
(* The refinement: one lemma per kind of step of the store.                *)
LEMMA RegisterStutter ==
    ASSUME Saved' = Saved, Unacknowledged' = Unacknowledged, Lapsed' = Lapsed
    PROVE  UNCHANGED Register!vars
BY DEF Register!vars, Saved

(* While a factory reset is under way or after it has failed the register  *)
(* shows nothing, so every step but a boot or a completed reset stutters.  *)
LEMMA LapsedStutter ==
    ASSUME Lapsed, Lapsed'
    PROVE  UNCHANGED Register!vars
<1>1. Saved' = Saved /\ Unacknowledged' = Unacknowledged /\ Lapsed' = Lapsed
  BY DEF Saved, Unacknowledged, Lapsed
<1> QED BY <1>1, RegisterStutter

LEMMA StillTorn ==
    ASSUME IInv, ~Lapsed, pc \in SaveStep, target = Target,
           \/ flash' = [flash EXCEPT ![target] = Unwritten("torn")]
           \/ flash' = [flash EXCEPT ![target] = Unwritten("erased")],
           pc' \in SaveStep, UNCHANGED <<hasValid, active, seq, resetFailed>>
    PROVE  Register!Withdraw
<1>1. Saved' = Saved
  BY DEF IInv, TypeOK, Saved, Lapsed, Target
<1>2. Unacknowledged' = None
  BY DEF IInv, TypeOK, Unacknowledged, Lapsed, Target, Unwritten
<1>3. Lapsed' = Lapsed
  BY DEF Lapsed
<1> QED BY <1>1, <1>2, <1>3 DEF Register!Withdraw

LEMMA RecordInFlash ==
    ASSUME IInv, ~Lapsed, pc = "programming",
           flash' = [flash EXCEPT ![target] = Record(words, seq + 1)],
           pc' \in SaveStep \cup {"idle"}, UNCHANGED <<hasValid, active, seq, resetFailed>>
    PROVE  Register!Next
<1>1. Saved' = Saved
  BY DEF IInv, TypeOK, SaveInv, Saved, Lapsed, Target
<1>2. flash'[Target] = Record(words, seq + 1) /\ Target' = Target
  BY DEF IInv, TypeOK, SaveInv, Target
<1>3. Lapsed' = Lapsed
  BY DEF Lapsed
<1>4. CASE slot_valid(Record(words, seq + 1))
  <2>1. <<words[3], words[4]>> \in Word \X Word
    BY <1>4 DEF IInv, TypeOK, RecordInv, Record
  <2>2. Unacknowledged' = <<words[3], words[4]>>
    BY <1>2, <1>3, <1>4 DEF Unacknowledged, Record
  <2> QED BY <1>1, <1>3, <2>1, <2>2 DEF Register!Next, Register!Write
<1>5. CASE ~slot_valid(Record(words, seq + 1))
  <2>1. Unacknowledged' = None
    BY <1>2, <1>5 DEF Unacknowledged
  <2> QED BY <1>1, <1>3, <2>1 DEF Register!Next, Register!Withdraw
<1> QED BY <1>4, <1>5

LEMMA AcknowledgeStep == ASSUME IInv, ~Lapsed, VerifyOk PROVE Register!Acknowledge
<1>1. /\ target = Target /\ target \in Slot /\ seq \in Nat
      /\ slot_valid(flash[target]) /\ flash[target].seq = seq + 1
  BY DEF IInv, TypeOK, SaveInv, VerifyOk, Verified
<1>2. Unacknowledged = flash[target].data /\ flash[target].data # None
  BY <1>1 DEF Unacknowledged, IInv, TypeOK, NoMixedRecord, None
<1>3. /\ ~Lapsed' /\ Lapsed' = Lapsed
      /\ flash' = flash /\ seq' = seq + 1 /\ active' = target
  BY DEF VerifyOk, Lapsed
<1>4. hasValid' = TRUE
  BY Zenon DEF VerifyOk
<1>5. Saved' = flash[target].data
  BY <1>3, <1>4 DEF Saved
<1>6. Unacknowledged' = None
  <2>1. Target' = 1 - target
    BY <1>3, <1>4 DEF Target
  <2>2. slot_valid(flash[1 - target]) => flash[1 - target].seq <= seq
    BY <1>1 DEF IInv, GoodCopyKept, NotAfter, Lapsed, Target, VerifyOk, TypeOK, Content
  <2>3. slot_valid(flash[1 - target]) => flash[1 - target].seq # (seq + 1) + 1
    BY <1>1, <2>2
  <2> QED BY <1>3, <2>1, <2>3 DEF Unacknowledged
<1> QED BY <1>2, <1>3, <1>5, <1>6 DEF Register!Acknowledge

LEMMA CrashStep == ASSUME IInv, PowerCycle PROVE Register!Crash
<1>1. ~Lapsed' /\ flash' = flash
  <2>1. resetFailed' = FALSE
    BY Zenon DEF PowerCycle
  <2> QED BY <2>1 DEF PowerCycle, Lapsed
<1>2. CASE Scan(flash) = {}
  <2>1. \A s \in Slot : ~slot_valid(flash[s])
    BY <1>2 DEF Scan, NotAfter, IInv, TypeOK, Content
  <2>2. hasValid' = FALSE
    BY Zenon, <1>2 DEF PowerCycle
  <2>3. Saved' = None /\ Unacknowledged' = None
    BY <1>1, <2>1, <2>2 DEF Saved, Unacknowledged, Target
  <2>4. ~Lapsed => Saved = None
    BY <2>1 DEF IInv, GoodCopyKept, TypeOK, Lapsed, Saved
  <2> QED BY <1>1, <2>3, <2>4 DEF Register!Crash
<1>3. CASE Scan(flash) # {}
  <2>1. PICK s \in Scan(flash) : seq' = flash[s].seq /\ active' = s
    BY <1>3 DEF PowerCycle
  <2>2. /\ s \in Slot /\ slot_valid(flash[s]) /\ flash[s].data \in Word \X Word
        /\ flash[s].data # None /\ flash[s].seq \in Nat /\ flash[1 - s].seq \in Nat
        /\ slot_valid(flash[1 - s]) => NotAfter(flash, 1 - s, s)
    BY <2>1 DEF Scan, IInv, NoMixedRecord, TypeOK, Content, None
  <2>3. hasValid' = TRUE
    BY Zenon, <1>3 DEF PowerCycle
  <2>4. Saved' = flash[s].data
    BY <1>1, <2>1, <2>3 DEF Saved
  <2>5. Unacknowledged' = None
    <3>1. Target' = 1 - s
      BY <2>1, <2>3 DEF Target
    <3>2. slot_valid(flash[1 - s]) => flash[1 - s].seq # flash[s].seq + 1
      BY <2>2 DEF NotAfter
    <3> QED BY <1>1, <2>1, <3>1, <3>2 DEF Unacknowledged
  <2>6. CASE Lapsed
    BY <1>1, <2>2, <2>4, <2>5, <2>6 DEF Register!Crash
  <2>7. CASE ~Lapsed /\ hasValid /\ s = active
    BY <1>1, <2>4, <2>5, <2>7 DEF Register!Crash, Saved
  <2>8. CASE ~Lapsed /\ ~(hasValid /\ s = active)
    <3>1. s = Target /\ flash[s].seq = seq + 1
      <4>1. hasValid => slot_valid(flash[active]) /\ active \in Slot /\ s = 1 - active
        BY <2>2, <2>8 DEF IInv, GoodCopyKept, TypeOK, Lapsed
      <4>2. hasValid => ~NotAfter(flash, s, active)
        BY <2>2, <4>1 DEF NotAfter
      <4> QED BY <2>2, <2>8, <4>2 DEF IInv, GoodCopyKept, Lapsed
    <3>2. Unacknowledged = flash[s].data /\ flash[s].data # None
      BY <2>2, <2>8, <3>1 DEF Unacknowledged
    <3> QED BY <1>1, <2>4, <2>5, <2>8, <3>2 DEF Register!Crash
  <2> QED BY <2>6, <2>7, <2>8
<1> QED BY <1>2, <1>3

LEMMA SaveRefines == ASSUME IInv, ServiceSlow PROVE [Register!Next]_(Register!vars)
<1>1. CASE Lapsed
  <2>1. Lapsed'
    BY <1>1 DEF Lapsed, ServiceSlow, ServiceBegin, ReadWord, EraseBegin, EraseEnd, ProgramBegin,
       ProgramEnd, SaveFails, VerifyOk, VerifyBad, Goto, Erase, Tear
  <2> QED BY <1>1, <2>1, LapsedStutter
<1>2. CASE ~Lapsed /\ (ServiceBegin \/ ReadWord \/ VerifyBad)
  <2>1. Saved' = Saved /\ Unacknowledged' = Unacknowledged /\ Lapsed' = Lapsed
    BY <1>2 DEF ServiceBegin, ReadWord, VerifyBad, Goto, Kept, Saved, Unacknowledged, Target, Lapsed
  <2> QED BY <2>1, RegisterStutter
<1>3. CASE ~Lapsed /\ (EraseBegin \/ EraseEnd \/ ProgramBegin)
  BY <1>3, StillTorn DEF EraseBegin, EraseEnd, ProgramBegin, Tear, Erase, Goto, Kept, IInv,
     SaveInv, Register!Next
<1>4. CASE ~Lapsed /\ ProgramEnd
  BY <1>4, RecordInFlash DEF ProgramEnd, Goto, Kept
<1>5. CASE ~Lapsed /\ SaveFails
  <2>1. CASE UNCHANGED flash
    <3>1. Saved' = Saved /\ Unacknowledged' = Unacknowledged /\ Lapsed' = Lapsed
      BY <1>5, <2>1 DEF SaveFails, Goto, Kept, Saved, Unacknowledged, Target, Lapsed
    <3> QED BY <3>1, RegisterStutter
  <2>2. CASE ~UNCHANGED flash
    BY <1>5, <2>2, RecordInFlash DEF SaveFails, Goto, Kept
  <2> QED BY <2>1, <2>2
<1>6. CASE ~Lapsed /\ VerifyOk
  BY <1>6, AcknowledgeStep DEF Register!Next
<1> QED BY <1>1, <1>2, <1>3, <1>4, <1>5, <1>6 DEF ServiceSlow

LEMMA ResetRefines == ASSUME IInv, FactoryReset PROVE [Register!Next]_(Register!vars)
<1>1. CASE Lapsed /\ Lapsed'
  BY <1>1, LapsedStutter
<1>2. CASE ~Lapsed
  <2>1. ResetBegin
    BY <1>2 DEF FactoryReset, ResetErase, ResetErased, ResetFails, ResetEnd, Lapsed
  <2>2. Lapsed'
    BY <2>1 DEF ResetBegin, Lapsed
  <2>3. Saved' = None /\ Unacknowledged' = None
    BY <2>2 DEF Saved, Unacknowledged
  <2> QED BY <1>2, <2>2, <2>3 DEF Register!Next, Register!BeginReset
<1>3. CASE Lapsed /\ ~Lapsed'
  <2>1. ResetEnd
    BY <1>3 DEF FactoryReset, ResetBegin, ResetErase, ResetErased, ResetFails, Lapsed, Tear, Erase,
       Goto, NextSlot
  <2>2. pc = "resetDone" /\ ~resetFailed /\ flash' = flash
    BY <1>3, <2>1 DEF ResetEnd, Lapsed
  <2>3. hasValid' = FALSE
    BY Zenon, <2>1 DEF ResetEnd
  <2>4. \A s \in Slot : ~slot_valid(flash[s])
    BY <2>2 DEF IInv, ResetInv
  <2>5. Saved = None /\ Unacknowledged = None
    BY <1>3 DEF Saved, Unacknowledged
  <2>6. Saved' = None /\ Unacknowledged' = None
    BY <2>2, <2>3, <2>4 DEF Saved, Unacknowledged, Target
  <2> QED BY <1>3, <2>5, <2>6 DEF Register!Next, Register!EndReset
<1> QED BY <1>1, <1>2, <1>3

(* The A/B store implements the durable register (every step of            *)
(* ServiceSlow, FactoryReset, RequestSave and a boot maps to a step of the *)
(* register or to a stutter).                                              *)
THEOREM Implements == Spec => ImplementsDurableRegister
<1>1. Init => Register!Init
  BY DEF Init, Register!Init, Saved, Unacknowledged, Lapsed, Target, Unwritten
<1>2. ASSUME IInv, [Next]_vars PROVE [Register!Next]_(Register!vars)
  <2>1. CASE ServiceSlow
    BY <1>2, <2>1, SaveRefines
  <2>2. CASE FactoryReset
    BY <1>2, <2>2, ResetRefines
  <2>3. CASE PowerCycle
    BY <1>2, <2>3, CrashStep DEF Register!Next
  <2>4. CASE \/ \E p \in Payload : RequestSave(p) \/ LatchBegin(p)
             \/ LatchEnd
             \/ UNCHANGED vars
    <3>1. Saved' = Saved /\ Unacknowledged' = Unacknowledged /\ Lapsed' = Lapsed
      BY <2>4 DEF RequestSave, LatchBegin, LatchEnd, vars, Saved, Unacknowledged, Target, Lapsed
    <3> QED BY <3>1, RegisterStutter
  <2> QED BY <1>2, <2>1, <2>2, <2>3, <2>4 DEF Next
<1> QED BY InductiveInvariant, <1>1, <1>2, PTL DEF Spec, ImplementsDurableRegister, Register!Spec
=============================================================================
