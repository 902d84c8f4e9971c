--------------------------- MODULE PersistentStore ---------------------------
(***************************************************************************)
(* src/src/mc_persistent_store.c and its flash port: one parameter record  *)
(* kept in two flash slots that are written alternately.                   *)
(*                                                                         *)
(* ServiceSlow and FactoryReset run in the main loop.  Interrupts preempt  *)
(* them: the medium loop calls RequestSave (alignment and home captures),  *)
(* and power may be lost between any two steps, so both are split at every *)
(* read of the shared payload and every flash operation.  RequestSave of   *)
(* the medium loop is one step: nothing that touches the store preempts    *)
(* it.  The main loop's own RequestSave (a save command or an offset       *)
(* calibration) is two, with its memcpy half done between them.            *)
(***************************************************************************)
EXTENDS Naturals, Sequences

CONSTANTS Word,      \* what one half of a payload may hold
          Payload,   \* the parameter sets callers save: pairs of words
          Zero,      \* one half of the zeroed payload buffer
          MayFail,   \* {"save", "reset"}: where a flash operation may report an error
          MaxSeq     \* bound: saves in the life of the flash (uint32_t in the code)

ASSUME StoreAssumption ==
    /\ Payload \subseteq Word \X Word
    /\ Zero \notin Word
    /\ MaxSeq \in Nat \ {0}
    /\ MayFail \subseteq {"save", "reset"}

VARIABLES flash,      \* the two slots
          payload,    \* s_payload: the RAM record, overwritten by RequestSave
          seq,        \* s_seq
          active,     \* s_active_slot
          hasValid,   \* s_has_valid
          dirty,      \* s_dirty
          pc,         \* where the main loop is inside RequestSave, ServiceSlow or FactoryReset
          local,      \* the parameter set its RequestSave copies from (params_save's p)
          target,     \* the slot it works on
          words,      \* the payload words ServiceSlow has read so far
          raced,      \* a RequestSave landed while it was reading them (until the next save)
          resetFailed, \* history: the last factory reset left a slot unerased (until a boot)
          latched      \* history: what s_payload held as a RequestSave returned

vars == <<flash, payload, seq, active, hasValid, dirty, pc, local, target, words, raced,
          resetFailed, latched>>

Slot == 0..1                       \* MC_FLASH_NV_SLOTS
None == <<Zero, Zero>>             \* the payload buffer of a store with no record

ResetStep == {"reset", "resetErasing", "resetDone"}
SaveStep  == {"build", "erase", "erasing", "program", "programming", "verify"}

-----------------------------------------------------------------------------
(* Flash contents.  "torn" is a slot whose erase or programming was cut    *)
(* short: its CRC does not match.  A written slot carries the payload that *)
(* went into the CRC and the payload that was programmed.                  *)

Content == [state : {"erased", "torn", "written"}, seq : 0..MaxSeq,
            crc : (Word \X Word) \cup {None}, data : (Word \X Word) \cup {None}]

Unwritten(s) == [state |-> s, seq |-> 0, crc |-> None, data |-> None]

slot_valid(c) == c.state = "written" /\ c.crc = c.data

(* Mutant: the scan keeps the first valid slot whatever its number.        *)
ScanFirst(f) == {s \in Slot : slot_valid(f[s]) /\ \A t \in Slot : slot_valid(f[t]) => s <= t}

(* MC_PersistentStore_Init takes a valid slot over the ones before it when *)
(* its sequence number is not smaller.                                     *)
NotAfter(f, t, s) == f[t].seq < f[s].seq \/ (f[t].seq = f[s].seq /\ t <= s)

Scan(f) == {s \in Slot : /\ slot_valid(f[s])
                         /\ \A t \in Slot : slot_valid(f[t]) => NotAfter(f, t, s)}

(* Mutant: the CRC is computed over the copy instead of the live payload.  *)
RecordCrcOfCopy(w, n) == [state |-> "written", seq |-> n,
                          crc |-> <<w[3], w[4]>>, data |-> <<w[3], w[4]>>]

(* calc_crc reads the payload first, the copy into rec reads it again.     *)
Record(w, n) == [state |-> "written", seq |-> n,
                 crc |-> <<w[1], w[2]>>, data |-> <<w[3], w[4]>>]

(* Mutant: the active slot itself is rewritten.                            *)
TargetInPlace == IF hasValid THEN active ELSE 0

Target == IF hasValid THEN 1 - active ELSE 0

-----------------------------------------------------------------------------
Init == /\ flash = [s \in Slot |-> Unwritten("erased")]
        /\ payload = None
        /\ seq = 0 /\ active = 0 /\ hasValid = FALSE /\ dirty = FALSE
        /\ pc = "idle" /\ target = 0 /\ words = <<>> /\ raced = FALSE
        /\ resetFailed = FALSE /\ local = None /\ latched = {}

(* Power is lost and comes back: RAM is zeroed and Init scans the slots.   *)
PowerCycle ==
    /\ hasValid' = (Scan(flash) # {})
    /\ \/ /\ Scan(flash) = {}
          /\ payload' = None /\ seq' = 0 /\ active' = 0
       \/ \E s \in Scan(flash) :
             payload' = flash[s].data /\ seq' = flash[s].seq /\ active' = s
    /\ dirty' = FALSE /\ resetFailed' = FALSE
    /\ pc' = "idle" /\ local' = None /\ target' = 0 /\ words' = <<>> /\ raced' = FALSE
    /\ UNCHANGED <<flash, latched>>

(* RequestSave of the medium loop, which may preempt the main loop at any  *)
(* of its steps.  The CRC and the copy take well under the 1 ms between    *)
(* two medium ticks, so at most one save request lands between their first *)
(* and last read.                                                          *)
RequestSave(p) ==
    /\ pc = "build" => ~raced
    /\ raced' = (raced \/ pc = "build")
    /\ payload' = p
    /\ dirty' = TRUE
    /\ latched' = latched \cup {p}
    /\ UNCHANGED <<flash, seq, active, hasValid, pc, local, target, words, resetFailed>>

(* RequestSave of the main loop: the memcpy has copied the first half, and *)
(* then the second; a request of the medium loop may land in between.      *)
LatchBegin(p) ==
    /\ pc = "idle" /\ pc' = "latch"
    /\ local' = p
    /\ payload' = <<p[1], payload[2]>>
    /\ UNCHANGED <<flash, seq, active, hasValid, dirty, target, words, raced, resetFailed,
                   latched>>

LatchEnd ==
    /\ pc = "latch" /\ pc' = "idle"
    /\ payload' = <<payload[1], local[2]>>
    /\ dirty' = TRUE /\ local' = None
    /\ latched' = latched \cup {payload'}
    /\ UNCHANGED <<flash, seq, active, hasValid, target, words, raced, resetFailed>>

-----------------------------------------------------------------------------
(* ServiceSlow *)

Kept == UNCHANGED <<payload, seq, active, hasValid, dirty, local, words, raced, latched>>

Goto(step) == pc' = step /\ Kept /\ UNCHANGED resetFailed

Erase(step)   == flash' = [flash EXCEPT ![target] = Unwritten("erased")] /\ Goto(step)
Tear(step)    == flash' = [flash EXCEPT ![target] = Unwritten("torn")] /\ Goto(step)

ServiceBegin == /\ pc = "idle" /\ dirty /\ seq < MaxSeq
                /\ pc' = "build" /\ target' = Target /\ words' = <<>> /\ raced' = FALSE
                /\ UNCHANGED <<flash, payload, seq, active, hasValid, dirty, local, resetFailed, latched>>

Half(i) == IF i \in {1, 3} THEN 1 ELSE 2

(* Mutant: the copy runs one word past the payload.                        *)
ReadWordTooFar == /\ pc = "build"
                  /\ words' = Append(words, payload[Half(Len(words) + 1)])
                  /\ pc' = IF Len(words) = 4 THEN "erase" ELSE "build"
                  /\ UNCHANGED <<flash, payload, seq, active, hasValid, dirty, local, target,
                                 raced, resetFailed, latched>>

ReadWord == /\ pc = "build"
            /\ words' = Append(words, payload[Half(Len(words) + 1)])
            /\ pc' = IF Len(words) = 3 THEN "erase" ELSE "build"
            /\ UNCHANGED <<flash, payload, seq, active, hasValid, dirty, local, target,
                           raced, resetFailed, latched>>

EraseBegin == pc = "erase"   /\ Tear("erasing")  /\ UNCHANGED target
EraseEnd   == pc = "erasing" /\ Erase("program") /\ UNCHANGED target

ProgramBegin == pc = "program" /\ Tear("programming") /\ UNCHANGED target
ProgramEnd   == /\ pc = "programming"
                /\ flash' = [flash EXCEPT ![target] = Record(words, seq + 1)]
                /\ Goto("verify")
                /\ UNCHANGED target

(* An error before the operation starts (unlock) or while it runs; the last *)
(* double word may be in flash although its programming reports an error.   *)
SaveFails == /\ "save" \in MayFail
             /\ pc \in {"erase", "erasing", "program", "programming"}
             /\ \/ UNCHANGED flash
                \/ pc = "programming" /\ flash' = [flash EXCEPT ![target] = Record(words, seq + 1)]
             /\ Goto("idle")
             /\ UNCHANGED target

(* Mutants: the record is not read back; it is checked against the old     *)
(* sequence number.                                                        *)
VerifiedBlindly == TRUE
VerifiedOldSeq  == slot_valid(flash[target]) /\ flash[target].seq = seq

Verified == slot_valid(flash[target]) /\ flash[target].seq = seq + 1

VerifyOk == /\ pc = "verify" /\ Verified
            /\ active' = target /\ seq' = seq + 1 /\ hasValid' = TRUE /\ dirty' = FALSE
            /\ pc' = "idle"
            /\ UNCHANGED <<flash, payload, local, target, words, raced, resetFailed, latched>>

VerifyBad == pc = "verify" /\ ~Verified /\ Goto("idle") /\ UNCHANGED <<flash, target>>

-----------------------------------------------------------------------------
(* FactoryReset *)

ResetBegin == /\ pc = "idle"
              /\ pc' = "reset" /\ target' = 0 /\ resetFailed' = FALSE
              /\ Kept /\ UNCHANGED flash

NextSlot == IF target = 0 THEN "reset" ELSE "resetDone"

ResetErase == pc = "reset" /\ Tear("resetErasing") /\ UNCHANGED target

ResetErased == pc = "resetErasing" /\ Erase(NextSlot) /\ target' = 1

ResetFails == /\ "reset" \in MayFail
              /\ pc \in {"reset", "resetErasing"}
              /\ pc' = NextSlot /\ target' = 1 /\ resetFailed' = TRUE
              /\ Kept /\ UNCHANGED flash

ResetEnd == /\ pc = "resetDone"
            /\ hasValid' = FALSE /\ dirty' = FALSE /\ seq' = 0
            /\ pc' = "idle"
            /\ UNCHANGED <<flash, payload, active, local, target, words, raced, resetFailed,
                           latched>>

-----------------------------------------------------------------------------
ServiceSlow  == \/ ServiceBegin \/ ReadWord \/ EraseBegin \/ EraseEnd
                \/ ProgramBegin \/ ProgramEnd \/ SaveFails \/ VerifyOk \/ VerifyBad
FactoryReset == \/ ResetBegin \/ ResetErase \/ ResetErased \/ ResetFails \/ ResetEnd

Next == \/ ServiceSlow
        \/ FactoryReset
        \/ \E p \in Payload : RequestSave(p) \/ LatchBegin(p)
        \/ LatchEnd
        \/ PowerCycle

Spec == Init /\ [][Next]_vars

(* The main loop polls for ever and the interrupts that preempt it return. *)
FairSpec == /\ Spec
            /\ WF_vars(ServiceSlow) /\ WF_vars(FactoryReset /\ pc # "idle")
            /\ WF_vars(LatchEnd)

-----------------------------------------------------------------------------
(* Properties *)

Resetting == pc \in ResetStep
Saving    == pc \in SaveStep

(* Type invariant of the module.                                           *)
TypeOK == /\ flash \in [Slot -> Content]
          /\ payload \in (Word \cup {Zero}) \X (Word \cup {Zero})
          /\ local \in Payload \cup {None} /\ latched \subseteq Word \X Word
          /\ seq \in 0..MaxSeq
          /\ active \in Slot
          /\ hasValid \in BOOLEAN /\ dirty \in BOOLEAN /\ raced \in BOOLEAN
          /\ resetFailed \in BOOLEAN
          /\ pc \in {"idle", "latch"} \cup SaveStep \cup ResetStep
          /\ target \in Slot
          /\ words \in Seq(Word) /\ Len(words) <= 4

(* "A power loss mid-write always leaves the previous good copy intact":   *)
(* outside a factory reset the active slot holds the record the store says *)
(* is saved, and unless a reset could not erase a slot, a boot at this     *)
(* instant takes that record or the one being written over the spare slot, *)
(* never an older one.                                                     *)
GoodCopyKept ==
    ~Resetting =>
        /\ hasValid => slot_valid(flash[active]) /\ flash[active].seq = seq
        /\ ~resetFailed =>
              \A s \in Slot : slot_valid(flash[s]) =>
                  \/ s = Target /\ flash[s].seq = seq + 1
                  \/ hasValid /\ NotAfter(flash, s, active)

(* A record that validates is what the payload buffer held as some         *)
(* RequestSave returned: what ServiceSlow copies while the medium loop     *)
(* overwrites the buffer, half old and half new, is never accepted, nor is *)
(* a buffer the main loop's own request has half filled.  (It is not       *)
(* always a payload a caller saved: a main-loop request that the medium    *)
(* loop's preempts returns with the halves of the two in the buffer.)      *)
NoMixedRecord == \A s \in Slot : slot_valid(flash[s]) => flash[s].data \in latched

(* The sequence number of the record in use only grows, across saves,      *)
(* failed saves and boots alike; only a factory reset takes it back.       *)
SeqNeverGoesBack == [][~Resetting /\ hasValid => seq' >= seq]_vars

(* A save whose reading of the payload no request raced, and whose flash   *)
(* operations reported no error, is found good when it is read back: the   *)
(* service never refuses, and so never repeats, a save for a reason of its *)
(* own.  It is why a latched save commits once the flash works and the     *)
(* requests stop.                                                          *)
UnracedSaveVerifies == pc = "verify" /\ ~raced => Verified

(* A latched save is eventually committed once the flash works and no more *)
(* saves arrive, however the main loop is preempted (or the bound on saves *)
(* is reached).                                                            *)
SaveEventuallyCommits ==
    <>[][~SaveFails /\ \A p \in Payload : ~RequestSave(p) /\ ~LatchBegin(p)]_vars
        => (dirty ~> (~dirty \/ seq = MaxSeq))

(* A factory reset is under way or has left a slot unerased.               *)
Lapsed == Resetting \/ resetFailed

Saved == IF hasValid /\ ~Lapsed THEN flash[active].data ELSE None

(* What the next boot would load if it is not the acknowledged record.     *)
Unacknowledged ==
    IF ~Lapsed /\ slot_valid(flash[Target]) /\ flash[Target].seq = seq + 1
    THEN flash[Target].data
    ELSE None

Register == INSTANCE DurableRegister WITH
    Payload   <- Word \X Word,
    committed <- Saved,
    tentative <- Unacknowledged,
    resetting <- Lapsed

(* The store implements the durable register: at every instant a loss of   *)
(* power yields the acknowledged record or the one that was complete but   *)
(* not yet acknowledged.                                                   *)
ImplementsDurableRegister == Register!Spec

(* A latched payload that is not in flash is reported as pending.          *)
CleanMeansSaved == pc = "idle" /\ hasValid /\ ~dirty => flash[active].data = payload
==============================================================================
