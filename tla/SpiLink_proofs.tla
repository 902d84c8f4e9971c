--------------------------- MODULE SpiLink_proofs ---------------------------
(***************************************************************************)
(* Proofs about SpiLink for a master that leaves a gap between frames: any *)
(* number of requests and SPI errors, in any order, also in the middle of  *)
(* a frame.                                                                *)
(*                                                                         *)
(* An error in the middle of a frame leaves the DMA out of step with the   *)
(* master: the payload of a frame then lands where a header belongs, and   *)
(* may do so while the handler runs, in spite of the gap.  The invariant   *)
(* says why no harm comes of it: such a frame never validates (Misplaced,  *)
(* Overwritten), so from the check to the use nothing is received (Held).  *)
(***************************************************************************)
EXTENDS SpiLink, SequenceTheorems, TLAPS

(* The master is between header and payload of a frame that is complete    *)
(* for the DMA: the place of the payload does not hold one.                *)
Misplaced == (got = 2 \/ pc # "idle") /\ clocking # Idle => rx[2].place # "payload"

(* What the DMA receives before the frame is validated is no header.       *)
Overwritten == pc = "validate" /\ got # 0 => rx[1].place # "header"

Held == pc = "dispatch" => /\ Whole(rx) /\ rx[1].of.seq = seq
                           /\ clocking = Idle /\ got = 0

Executed(n) == \E i \in DOMAIN executed : executed[i].operation.of.seq = n

(* An error reply that refuses n is in a buffer, on the wire or with the   *)
(* host.                                                                   *)
Refused(n) == \/ n \in refused
              \/ read.type = "error" /\ read.seq = n
              \/ \E b \in Buffer : tx[b].type = "error" /\ tx[b].seq = n

(* A number is executed or refused after it was sent, and never both.      *)
Numbered == /\ \A n \in 0 .. MaxRequests : Executed(n) => n \in 1 .. sent /\ ~Refused(n)
            /\ \A n \in 0 .. MaxRequests : Refused(n) => n <= sent

(* A frame under way was not executed, nor refused if its header came      *)
(* first.                                                                  *)
Fresh == /\ clocking.seq <= sent /\ ~Executed(clocking.seq)
         /\ got # 0 \/ pc # "idle" =>
               /\ rx[1].of.seq <= sent /\ ~Executed(rx[1].of.seq)
               /\ rx[1].place = "header" /\ rx[1].of.seq # 0 => ~Refused(rx[1].of.seq)

IInv == /\ SpiTypeOK /\ AppliesWhatItValidated
        /\ Misplaced /\ Overwritten /\ Held
        /\ Numbered /\ Fresh
-----------------------------------------------------------------------------
USE SpiAssumption DEF master, handler, history, Buffer

(* The facts about types that the steps need.                              *)
LEMMA Types ==
    ASSUME SpiTypeOK
    PROVE  /\ rx[1] \in Part /\ rx[2] \in Part
           /\ clocking.seq \in 0 .. MaxRequests
           /\ rx[1].of.seq \in 0 .. MaxRequests /\ rx[2].of.seq \in 0 .. MaxRequests
           /\ read.seq \in 0 .. MaxRequests
           /\ tx["a"].seq \in 0 .. MaxRequests /\ tx["b"].seq \in 0 .. MaxRequests
  <1>1. rx[1] \in Part /\ rx[2] \in Part
    BY DEF SpiTypeOK
  <1>2. \A m \in Message \cup {Idle} : m.seq \in 0 .. MaxRequests
    BY DEF Message, Idle, Request
  <1>3. \A r \in Reply \cup {Noise} : r.seq \in 0 .. MaxRequests
    BY DEF Reply, Noise, Telemetry
  <1>4. clocking.seq \in 0 .. MaxRequests
    BY <1>2 DEF SpiTypeOK
  <1>5. rx[1].of \in Message \cup {Idle} /\ rx[2].of \in Message \cup {Idle}
    BY <1>1 DEF Part
  <1>6. read.seq \in 0 .. MaxRequests
    BY <1>3 DEF SpiTypeOK
  <1>7. tx["a"] \in Reply /\ tx["b"] \in Reply
    BY DEF SpiTypeOK
  <1>8. tx["a"].seq \in 0 .. MaxRequests /\ tx["b"].seq \in 0 .. MaxRequests
    BY <1>3, <1>7
  <1> QED
    BY <1>1, <1>2, <1>4, <1>5, <1>6, <1>8

LEMMA InitIInv == SpiInit => IInv
  <1> SUFFICES ASSUME SpiInit PROVE IInv
    OBVIOUS
  <1>1. rx \in [1 .. 2 -> Part]
    BY DEF SpiInit, Part
  <1>2. tx \in [Buffer -> Reply]
    BY DEF SpiInit, Reply
  <1>3. executed \in Seq([validated : 0 .. MaxRequests, operation : Part])
        /\ answered \in Seq(0 .. MaxRequests)
    BY DEF SpiInit
  <1>4. SpiTypeOK
    BY <1>1, <1>2, <1>3 DEF SpiInit, SpiTypeOK, Noise
  <1>5. AppliesWhatItValidated /\ Misplaced /\ Overwritten /\ Held
    BY DEF SpiInit, AppliesWhatItValidated, Misplaced, Overwritten, Held
  <1>6. \A n : ~Executed(n) /\ ~Refused(n)
    BY DEF SpiInit, Executed, Refused, Noise, Telemetry
  <1>7. Numbered /\ Fresh
    BY <1>4, <1>6, Types DEF SpiInit, Numbered, Fresh, Idle
  <1> QED
    BY <1>4, <1>5, <1>7 DEF IInv

(* One part more, at the next place, unless the DMA is complete.           *)
LEMMA ReceiveOne ==
    ASSUME SpiTypeOK, NEW part \in {"header", "payload"}, NEW m \in Message \cup {Idle},
           Receive(part, m)
    PROVE  /\ got' \in 0 .. 2 /\ rx' \in [1 .. 2 -> Part]
           /\ got = 2 => got' = got /\ rx' = rx
           /\ got = 1 => got' = 2 /\ rx'[1] = rx[1]
                         /\ rx'[2].of = m /\ rx'[2].place \in {part, "damaged"}
           /\ got = 0 => got' = 1 /\ rx'[2] = rx[2]
                         /\ rx'[1].of = m /\ rx'[1].place \in {part, "damaged"}
  <1>1. got \in 0 .. 2 /\ rx \in [1 .. 2 -> Part]
    BY DEF SpiTypeOK
  <1>2. CASE got = 2
    BY <1>1, <1>2 DEF Receive
  <1>3. CASE got # 2
    <2>1. PICK p \in {part, "damaged"} :
             got' = got + 1 /\ rx' = [rx EXCEPT ![got'] = [place |-> p, of |-> m]]
      BY <1>3 DEF Receive
    <2>2. [place |-> p, of |-> m] \in Part
      BY DEF Part
    <2>3. got' \in 1 .. 2
      BY <1>1, <1>3, <2>1
    <2>4. rx' \in [1 .. 2 -> Part]
      BY <1>1, <2>1, <2>2, <2>3
    <2>5. rx'[got'] = [place |-> p, of |-> m]
      BY <1>1, <2>1, <2>3
    <2>6. \A i \in 1 .. 2 : i # got' => rx'[i] = rx[i]
      BY <1>1, <2>1
    <2> QED
      BY <1>1, <1>3, <2>1, <2>3, <2>4, <2>5, <2>6
  <1> QED
    BY <1>2, <1>3

LEMMA ClockHeaderKeeps ==
    ASSUME IInv, Gapped, NEW m \in Message, ClockHeader(m),
           \/ m.seq = 0 /\ sent' = sent
           \/ m.seq = sent + 1 /\ sent' = sent + 1 /\ sent < MaxRequests
    PROVE  IInv'
  <1>1. /\ clocking = Idle /\ got # 2 /\ pc = "idle" /\ clocking' = m
        /\ read' = IF got = 0 THEN tx[armed] ELSE Noise
        /\ Receive("header", m)
        /\ UNCHANGED <<tx, handler, errors, history>>
    BY DEF ClockHeader
  <1>2. SpiTypeOK
    BY DEF IInv
  <1>3. sent \in 0 .. MaxRequests /\ sent' \in 0 .. MaxRequests /\ sent <= sent'
    BY <1>2 DEF SpiTypeOK
  <1>4. /\ got' \in 0 .. 2 /\ rx' \in [1 .. 2 -> Part]
        /\ got = 1 => got' = 2 /\ rx'[1] = rx[1] /\ rx'[2].place \in {"header", "damaged"}
        /\ got = 0 => got' = 1 /\ rx'[1].of = m
        /\ got = 0 \/ got = 1
    <2>1. got \in 0 .. 2
      BY <1>2 DEF SpiTypeOK
    <2> QED
      BY <1>1, <1>2, <2>1, ReceiveOne
  <1>5. read' \in Reply \cup {Noise}
    BY <1>1, <1>2 DEF SpiTypeOK
  <1>6. SpiTypeOK'
    BY <1>1, <1>2, <1>3, <1>4, <1>5 DEF SpiTypeOK
  <1>7. AppliesWhatItValidated' /\ Overwritten' /\ Held'
    BY <1>1 DEF IInv, AppliesWhatItValidated, Overwritten, Held
  <1>8. Misplaced'
    BY <1>1, <1>4 DEF Misplaced
  <1>9. \A n : (Executed(n)' <=> Executed(n)) /\ (Refused(n)' => Refused(n))
    BY <1>1, <1>2 DEF Executed, Refused, Noise, SpiTypeOK
  <1>10. Numbered'
    BY <1>3, <1>9 DEF IInv, Numbered
  <1>11. ~Executed(m.seq) /\ (m.seq # 0 => ~Refused(m.seq)) /\ m.seq <= sent'
         /\ m.seq \in 0 .. MaxRequests
    BY <1>3 DEF IInv, Numbered
  <1>12. Fresh'
    <2>1. CASE got = 0
      BY <1>1, <1>4, <1>9, <1>11, <2>1 DEF Fresh
    <2>2. CASE got = 1
      <3>1. rx[1].of.seq <= sent /\ rx[1].of.seq \in 0 .. MaxRequests
        BY <1>2, <2>2, Types DEF IInv, Fresh
      <3>2. rx'[1].of.seq <= sent'
        BY <1>3, <1>4, <2>2, <3>1
      <3> QED
        BY <1>1, <1>4, <1>9, <1>11, <2>2, <3>2 DEF IInv, Fresh
    <2> QED
      BY <1>4, <2>1, <2>2
  <1> QED
    BY <1>6, <1>7, <1>8, <1>10, <1>12 DEF IInv

LEMMA ClockPayloadKeeps == ASSUME IInv, ClockPayload PROVE IInv'
  <1>1. /\ clocking # Idle /\ clocking' = Idle /\ read' = Noise
        /\ Receive("payload", clocking)
        /\ answered' = (IF got = 1 /\ read.type = "response"
                        THEN Append(answered, read.seq) ELSE answered)
        /\ refused' = (IF got = 1 /\ read.type = "error"
                       THEN refused \cup {read.seq} ELSE refused)
        /\ UNCHANGED <<sent, tx, handler, errors, executed>>
    BY DEF ClockPayload
  <1>2. SpiTypeOK
    BY DEF IInv
  <1>3. /\ got' \in 0 .. 2 /\ rx' \in [1 .. 2 -> Part]
        /\ got = 2 => got' = got /\ rx' = rx
        /\ got = 1 => got' = 2 /\ rx'[1] = rx[1]
        /\ got = 0 => /\ got' = 1 /\ rx'[1].of = clocking
                      /\ rx'[1].place \in {"payload", "damaged"}
        /\ got \in {0, 1, 2}
    <2>1. got \in 0 .. 2 /\ clocking \in Message \cup {Idle}
      BY <1>2 DEF SpiTypeOK
    <2> QED
      BY <1>1, <1>2, <2>1, ReceiveOne
  <1>4. SpiTypeOK'
    <2>1. read.seq \in 0 .. MaxRequests
      BY <1>2, Types
    <2>2. answered' \in Seq(0 .. MaxRequests)
      <3>1. answered \in Seq(0 .. MaxRequests)
        BY <1>2 DEF SpiTypeOK
      <3>2. Append(answered, read.seq) \in Seq(0 .. MaxRequests)
        BY <2>1, <3>1
      <3> QED
        BY <1>1, <3>1, <3>2
    <2>3. refused' \subseteq 0 .. MaxRequests
      BY <1>1, <1>2, <2>1 DEF SpiTypeOK
    <2> QED
      BY <1>1, <1>2, <1>3, <2>2, <2>3 DEF SpiTypeOK
  <1>5. pc # "dispatch"
    BY <1>1 DEF IInv, Held
  <1>6. AppliesWhatItValidated' /\ Held' /\ Misplaced'
    BY <1>1, <1>5 DEF IInv, AppliesWhatItValidated, Held, Misplaced
  <1>7. Overwritten'
    BY <1>1, <1>3 DEF IInv, Overwritten
  <1>8. \A n : (Executed(n)' <=> Executed(n)) /\ (Refused(n)' => Refused(n))
    BY <1>1, <1>2 DEF Executed, Refused, Noise, SpiTypeOK
  <1>9. Numbered'
    BY <1>1, <1>8 DEF IInv, Numbered
  <1>10. Fresh'
    <2>1. clocking'.seq = 0 /\ ~Executed(0) /\ sent \in Nat
      BY <1>1, <1>2 DEF Idle, IInv, Numbered, SpiTypeOK
    <2>2. CASE got = 0
      BY <1>1, <1>3, <1>8, <2>1, <2>2 DEF IInv, Fresh
    <2>3. CASE got # 0
      BY <1>1, <1>3, <1>8, <2>1, <2>3 DEF IInv, Fresh
    <2> QED
      BY <2>2, <2>3
  <1> QED
    BY <1>4, <1>6, <1>7, <1>9, <1>10 DEF IInv

LEMMA CompleteKeeps == ASSUME IInv, Complete PROVE IInv'
  <1>1. /\ pc = "idle" /\ got = 2 /\ justSent' = armed /\ armed' = prepared
        /\ got' = 0 /\ pc' = "validate"
        /\ UNCHANGED <<master, rx, tx, prepared, seq, errors, history>>
    BY DEF Complete
  <1>2. SpiTypeOK'
    BY <1>1 DEF IInv, SpiTypeOK
  <1>3. AppliesWhatItValidated' /\ Misplaced' /\ Overwritten' /\ Held'
    BY <1>1 DEF IInv, AppliesWhatItValidated, Misplaced, Overwritten, Held
  <1>4. \A n : (Executed(n)' <=> Executed(n)) /\ (Refused(n)' <=> Refused(n))
    BY <1>1 DEF Executed, Refused
  <1>5. Numbered' /\ Fresh'
    BY <1>1, <1>4 DEF IInv, Numbered, Fresh
  <1> QED
    BY <1>2, <1>3, <1>5 DEF IInv

(* A frame that is not whole is refused under its own number, or reported  *)
(* under any number as one with a damaged header.                          *)
LEMMA ValidateKeeps == ASSUME IInv, Validate PROVE IInv'
  <1>1. pc = "validate" /\ UNCHANGED <<master, got, rx, errors, history>>
    BY DEF Validate
  <1>2. SpiTypeOK
    BY DEF IInv
  <1>3. PICK n \in SequenceOf(rx) :
           \/ /\ Whole(rx) /\ seq' = n /\ pc' = "dispatch"
              /\ UNCHANGED <<tx, armed, prepared, justSent>>
           \/ ~Whole(rx) /\ Answer(Refusal(rx, n))
    BY DEF Validate
  <1>7. n \in 0 .. MaxRequests /\ (rx[1].place = "header" => n = rx[1].of.seq)
    BY <1>2, Types DEF SequenceOf
  <1>4. \A k : Executed(k)' <=> Executed(k)
    BY <1>1 DEF Executed
  <1>5. CASE Whole(rx)
    <2>1. seq' = n /\ pc' = "dispatch" /\ UNCHANGED <<tx, armed, prepared, justSent>>
      BY <1>3, <1>5
    <2>2. clocking = Idle /\ got = 0
      BY <1>1, <1>5 DEF IInv, Misplaced, Overwritten, Whole
    <2>3. SpiTypeOK'
      BY <1>1, <1>2, <1>7, <2>1 DEF SpiTypeOK
    <2>4. Held'
      BY <1>1, <1>5, <1>7, <2>1, <2>2 DEF Held, Whole
    <2>5. AppliesWhatItValidated' /\ Misplaced' /\ Overwritten'
      BY <1>1, <2>1, <2>2 DEF IInv, AppliesWhatItValidated, Misplaced, Overwritten
    <2>6. \A k : Refused(k)' <=> Refused(k)
      BY <1>1, <2>1 DEF Refused
    <2>7. Numbered' /\ Fresh'
      BY <1>1, <1>4, <2>6 DEF IInv, Numbered, Fresh
    <2> QED
      BY <2>3, <2>4, <2>5, <2>7 DEF IInv
  <1>6. CASE ~Whole(rx)
    <2>1. /\ tx' = [tx EXCEPT ![justSent] = Refusal(rx, n)]
          /\ prepared' = justSent /\ seq' = 0 /\ pc' = "idle"
          /\ UNCHANGED <<armed, justSent>>
      BY <1>3, <1>6 DEF Answer
    <2>2. Refusal(rx, n) \in Reply
      BY <1>7 DEF Refusal, Reply, ReplyType
    <2>3. SpiTypeOK'
      BY <1>1, <1>2, <1>7, <2>1, <2>2 DEF SpiTypeOK
    <2>4. AppliesWhatItValidated' /\ Overwritten' /\ Held'
      BY <1>1, <2>1 DEF IInv, AppliesWhatItValidated, Overwritten, Held
    <2>5. Misplaced'
      BY <1>1, <2>1 DEF IInv, Misplaced
    <2>6. \A k : Refused(k)' => Refused(k) \/ (k = n /\ rx[1].place = "header")
      BY <1>1, <1>2, <2>1 DEF Refusal, Refused, SpiTypeOK
    <2>7. rx[1].place = "header" => ~Executed(n) /\ n <= sent
      BY <1>1, <1>7 DEF IInv, Fresh
    <2>8. Numbered'
      BY <1>1, <1>4, <2>6, <2>7 DEF IInv, Numbered
    <2>9. Fresh'
      <3>1. got # 0 => rx[1].place # "header"
        BY <1>1 DEF IInv, Overwritten
      <3> QED
        BY <1>1, <1>4, <2>1, <3>1 DEF IInv, Fresh
    <2> QED
      BY <2>3, <2>4, <2>5, <2>8, <2>9 DEF IInv
  <1> QED
    BY <1>5, <1>6

LEMMA DispatchKeeps == ASSUME IInv, Dispatch PROVE IInv'
  <1>1. /\ pc = "dispatch" /\ Whole(rx) /\ rx[1].of.seq = seq /\ clocking = Idle /\ got = 0
        /\ UNCHANGED <<master, got, rx, errors, answered, refused>>
    BY DEF Dispatch, IInv, Held
  <1>2. SpiTypeOK
    BY DEF IInv
  <1>3. seq \in 0 .. MaxRequests /\ rx[2] \in Part /\ rx[1] \in Part
    BY <1>2, Types DEF SpiTypeOK
  <1>4. PICK reply \in {Telemetry, [type |-> "response", seq |-> seq]} : Answer(reply)
    BY <1>1 DEF Dispatch, Whole
  <1>5. /\ tx' = [tx EXCEPT ![justSent] = reply] /\ pc' = "idle"
        /\ prepared' = justSent /\ seq' = 0 /\ UNCHANGED <<armed, justSent>>
    BY <1>4 DEF Answer
  <1>6. reply \in Reply /\ reply.type # "error"
    BY <1>3 DEF Reply, ReplyType, Telemetry
  <1>7. \A n : Refused(n)' => Refused(n)
    BY <1>1, <1>2, <1>5, <1>6 DEF Refused, SpiTypeOK
  <1>8. Misplaced' /\ Overwritten' /\ Held'
    BY <1>1, <1>5 DEF Misplaced, Overwritten, Held
  <1>9. CASE UNCHANGED executed
    <2>1. SpiTypeOK'
      BY <1>1, <1>2, <1>5, <1>6, <1>9 DEF SpiTypeOK
    <2>2. AppliesWhatItValidated'
      BY <1>9 DEF IInv, AppliesWhatItValidated
    <2>3. \A n : Executed(n)' <=> Executed(n)
      BY <1>9 DEF Executed
    <2>4. Numbered' /\ Fresh'
      BY <1>1, <1>5, <1>7, <2>3 DEF IInv, Numbered, Fresh
    <2> QED
      BY <1>8, <2>1, <2>2, <2>4 DEF IInv
  <1>10. CASE /\ rx[1].of.kind = "request"
              /\ executed' = Append(executed, [validated |-> seq, operation |-> rx[2]])
    <2> DEFINE entry == [validated |-> seq, operation |-> rx[2]]
    <2>1. /\ entry \in [validated : 0 .. MaxRequests, operation : Part]
          /\ entry.validated = seq /\ entry.operation = rx[2]
      BY <1>3
    <2>2. executed \in Seq([validated : 0 .. MaxRequests, operation : Part])
      BY <1>2 DEF SpiTypeOK
    <2> HIDE DEF entry
    <2>3. executed' = Append(executed, entry)
      BY <1>10 DEF entry
    <2>4. /\ executed' \in Seq([validated : 0 .. MaxRequests, operation : Part])
          /\ DOMAIN executed' = 1 .. Len(executed) + 1
          /\ DOMAIN executed = 1 .. Len(executed)
          /\ Len(executed) \in Nat
          /\ executed'[Len(executed) + 1] = entry
          /\ \A i \in 1 .. Len(executed) : executed'[i] = executed[i]
      BY <2>1, <2>2, <2>3
    <2>5. SpiTypeOK'
      BY <1>1, <1>2, <1>5, <1>6, <2>4 DEF SpiTypeOK
    <2>6. AppliesWhatItValidated'
      <3> SUFFICES ASSUME NEW i \in DOMAIN executed'
                   PROVE  /\ executed'[i].operation.place = "payload"
                          /\ executed'[i].operation.of.seq = executed'[i].validated
        BY DEF AppliesWhatItValidated
      <3>1. CASE i = Len(executed) + 1
        BY <1>1, <2>1, <2>4, <3>1 DEF Whole
      <3>2. CASE i \in DOMAIN executed
        BY <2>4, <3>2 DEF IInv, AppliesWhatItValidated
      <3> QED
        BY <2>4, <3>1, <3>2
    <2>7. \A n : Executed(n)' => Executed(n) \/ n = seq
      <3> SUFFICES ASSUME NEW n, NEW i \in DOMAIN executed',
                          executed'[i].operation.of.seq = n
                   PROVE  Executed(n) \/ n = seq
        BY DEF Executed
      <3>1. CASE i = Len(executed) + 1
        BY <1>1, <2>1, <2>4, <3>1 DEF Whole
      <3>2. CASE i \in DOMAIN executed
        BY <2>4, <3>2 DEF Executed
      <3> QED
        BY <2>4, <3>1, <3>2
    <2>8. seq \in 1 .. sent /\ ~Refused(seq)
      <3>1. rx[1].of \in Message \cup {Idle} /\ rx[1].place = "header"
        BY <1>1, <1>3 DEF Part, Whole
      <3>2. rx[1].of.seq \in 1 .. MaxRequests
        BY <1>10, <3>1 DEF Message, Idle, Request
      <3>3. seq <= sent /\ ~Refused(seq)
        BY <1>1, <3>1, <3>2 DEF IInv, Fresh
      <3>4. sent \in Nat
        BY <1>2 DEF SpiTypeOK
      <3> QED
        BY <1>1, <3>2, <3>3, <3>4
    <2>9. Numbered'
      BY <1>1, <1>7, <2>7, <2>8 DEF IInv, Numbered
    <2>10. Fresh'
      <3>1. clocking'.seq = 0 /\ ~Executed(0) /\ sent' \in Nat
        BY <1>1, <1>2 DEF Idle, IInv, Numbered, SpiTypeOK
      <3> QED
        BY <1>1, <1>5, <2>7, <2>8, <3>1 DEF Fresh
    <2> QED
      BY <1>8, <2>5, <2>6, <2>9, <2>10 DEF IInv
  <1> QED
    BY <1>9, <1>10 DEF Dispatch

LEMMA ErrorKeeps == ASSUME IInv, Error PROVE IInv'
  <1>1. /\ pc = "idle" /\ errors < MaxErrors /\ errors' = errors + 1
        /\ tx' = [tx EXCEPT ![armed] = Telemetry] /\ got' = 0
        /\ UNCHANGED <<master, rx, handler, history>>
    BY DEF Error
  <1>2. SpiTypeOK
    BY DEF IInv
  <1>3. errors' \in 0 .. MaxErrors
    BY <1>1, <1>2 DEF SpiTypeOK
  <1>4. tx' \in [Buffer -> Reply]
    BY <1>1, <1>2 DEF SpiTypeOK, Reply
  <1>5. SpiTypeOK'
    BY <1>1, <1>2, <1>3, <1>4 DEF SpiTypeOK
  <1>6. AppliesWhatItValidated' /\ Misplaced' /\ Overwritten' /\ Held'
    BY <1>1 DEF IInv, AppliesWhatItValidated, Misplaced, Overwritten, Held
  <1>7. \A n : (Executed(n)' <=> Executed(n)) /\ (Refused(n)' => Refused(n))
    BY <1>1, <1>2 DEF Executed, Refused, SpiTypeOK, Telemetry
  <1>8. Numbered' /\ Fresh'
    BY <1>1, <1>7 DEF IInv, Numbered, Fresh
  <1> QED
    BY <1>5, <1>6, <1>8 DEF IInv

LEMMA StutterKeeps == ASSUME IInv, UNCHANGED spiVars PROVE IInv'
  <1>1. /\ UNCHANGED <<sent, clocking, read, got, rx, tx, armed, prepared, justSent, seq, pc>>
        /\ UNCHANGED <<errors, executed, answered, refused>>
    BY DEF spiVars
  <1>2. SpiTypeOK' /\ AppliesWhatItValidated' /\ Misplaced' /\ Overwritten' /\ Held'
    BY <1>1 DEF IInv, SpiTypeOK, AppliesWhatItValidated, Misplaced, Overwritten, Held
  <1>3. \A n : (Executed(n)' <=> Executed(n)) /\ (Refused(n)' <=> Refused(n))
    BY <1>1 DEF Executed, Refused
  <1>4. Numbered' /\ Fresh'
    BY <1>1, <1>3 DEF IInv, Numbered, Fresh
  <1> QED
    BY <1>2, <1>4 DEF IInv

LEMMA Step == ASSUME Gapped, IInv, [SpiNext]_spiVars PROVE IInv'
  <1>1. CASE ClockPoll
    <2>1. Poll \in Message /\ Poll.seq = 0
      BY DEF Poll, Message
    <2> QED
      BY <1>1, <2>1, ClockHeaderKeeps DEF ClockPoll
  <1>2. CASE ClockRequest
    <2> DEFINE m == [kind |-> "request", seq |-> sent + 1]
    <2>1. sent < MaxRequests /\ sent' = sent + 1 /\ ClockHeader(m)
      BY <1>2 DEF ClockRequest
    <2>2. m \in Message /\ m.seq = sent + 1
      BY <2>1 DEF Message, Request, IInv, SpiTypeOK
    <2> HIDE DEF m
    <2> QED
      BY <2>1, <2>2, ClockHeaderKeeps
  <1>3. CASE Handle
    BY <1>3, CompleteKeeps, ValidateKeeps, DispatchKeeps DEF Handle
  <1> QED
    BY <1>1, <1>2, <1>3, ClockPayloadKeeps, ErrorKeeps, StutterKeeps DEF SpiNext
(* The invariant, for a master that leaves a gap between its frames.       *)
LEMMA LinkInvariant == ASSUME Gapped PROVE SpiSpec => []IInv
  <1>1. IInv /\ [SpiNext]_spiVars => IInv'
    BY Step
  <1> QED
    BY InitIInv, <1>1, PTL DEF SpiSpec

(* Type correctness of the link.                                           *)
THEOREM SpiTypeCorrect == ASSUME Gapped PROVE SpiSpec => []SpiTypeOK
  <1>1. IInv => SpiTypeOK
    BY DEF IInv
  <1> QED
    BY <1>1, LinkInvariant, PTL

(* What MC_Comms_HandleTransaction carries out is what it validated,       *)
(* although there is one receive buffer and it is armed again before the   *)
(* frame is looked at: for any number of errors in the middle of frames.   *)
THEOREM AppliedIsValidated == ASSUME Gapped PROVE SpiSpec => []AppliesWhatItValidated
  <1>1. IInv => AppliesWhatItValidated
    BY DEF IInv
  <1> QED
    BY <1>1, LinkInvariant, PTL

(* A request refused by an error reply about a good header was not carried *)
(* out and never will be.                                                  *)
THEOREM RefusedNotExecuted == ASSUME Gapped PROVE SpiSpec => []ErrorMeansNotExecuted
  <1>1. ASSUME IInv, NEW i \in DOMAIN executed
        PROVE  executed[i].operation.of.seq \notin refused
    <2> DEFINE n == executed[i].operation.of.seq
    <2>1. Executed(n)
      BY DEF Executed
    <2>2. refused \subseteq 0 .. MaxRequests
      BY <1>1 DEF IInv, SpiTypeOK
    <2> HIDE DEF n
    <2>3. n \notin refused
      BY <1>1, <2>1, <2>2 DEF IInv, Numbered, Refused
    <2> QED
      BY <2>3 DEF n
  <1>2. IInv => ErrorMeansNotExecuted
    BY <1>1 DEF ErrorMeansNotExecuted
  <1> QED
    BY <1>2, LinkInvariant, PTL

-----------------------------------------------------------------------------
(* The double-buffered link implements a queue of requests and replies.    *)

(* The handler fills the buffer the DMA does not clock out, and the frame  *)
(* being read is the one in the armed buffer.                              *)
Swapped == IF pc = "idle" THEN armed # prepared ELSE armed # justSent
Reading == got = 1 /\ clocking # Idle => read = tx[armed] /\ pc = "idle"

(* The request under way is the last one sent; the header of a frame that  *)
(* is not complete is the one the master is sending.                       *)
Newest == /\ clocking.kind = "request" => clocking.seq = sent
          /\ got # 0 \/ pc # "idle" =>
                (rx[1].place = "header" /\ rx[1].of.kind = "request" => rx[1].of.seq = sent)
          /\ got = 1 /\ rx[1].place = "header" => clocking = rx[1].of

LInv == IInv /\ Swapped /\ Reading /\ Newest

LEMMA HeaderKeepsNewest ==
    ASSUME IInv, Newest, NEW m \in Message, ClockHeader(m), Gapped,
           \/ m.kind = "poll" /\ sent' = sent
           \/ m.seq = sent' /\ sent' = sent + 1
    PROVE  Newest'
  <1>1. /\ clocking = Idle /\ got # 2 /\ pc = "idle" /\ clocking' = m /\ pc' = "idle"
        /\ Receive("header", m) /\ SpiTypeOK
    BY DEF ClockHeader, IInv
  <1>2. got \in {0, 1}
    BY <1>1 DEF SpiTypeOK
  <1>3. m # Idle
    BY DEF Message, Idle
  <1>4. m.kind = "request" => m.seq = sent'
    BY DEF Message
  <1>5. CASE got = 0
    <2>1. got' = 1 /\ rx'[1].of = m
      BY <1>1, <1>5, ReceiveOne
    <2> QED
      BY <1>1, <1>4, <2>1 DEF Newest
  <1>6. CASE got = 1
    <2>1. got' = 2 /\ rx'[1] = rx[1]
      BY <1>1, <1>6, ReceiveOne
    <2>2. rx[1].place # "header" \/ rx[1].of.kind # "request"
      BY <1>1, <1>6 DEF Newest, Idle
    <2> QED
      BY <1>1, <1>4, <2>1, <2>2 DEF Newest
  <1> QED
    BY <1>2, <1>5, <1>6

LEMMA NewestKeeps == ASSUME IInv, Newest, Gapped, [SpiNext]_spiVars PROVE Newest'
  <1> USE DEF Newest
  <1>1. CASE ClockPoll
    <2>1. Poll \in Message /\ Poll.kind = "poll"
      BY DEF Poll, Message
    <2> QED
      BY <1>1, <2>1, HeaderKeepsNewest DEF ClockPoll
  <1>2. CASE ClockRequest
    <2> DEFINE m == [kind |-> "request", seq |-> sent']
    <2>1. sent < MaxRequests /\ sent' = sent + 1 /\ ClockHeader(m)
      BY <1>2 DEF ClockRequest
    <2>2. m \in Message /\ m.seq = sent'
      BY <2>1 DEF Message, Request, IInv, SpiTypeOK
    <2> HIDE DEF m, Newest
    <2> QED
      BY <2>1, <2>2, HeaderKeepsNewest
  <1>3. CASE ClockPayload
    <2>1. /\ clocking # Idle /\ clocking' = Idle /\ sent' = sent /\ pc' = pc
          /\ Receive("payload", clocking) /\ SpiTypeOK
          /\ clocking \in Message \cup {Idle} /\ got \in {0, 1, 2}
      BY <1>3 DEF ClockPayload, IInv, SpiTypeOK
    <2>2. /\ got = 0 => got' = 1 /\ rx'[1].place \in {"payload", "damaged"}
          /\ got = 1 => got' = 2 /\ rx'[1] = rx[1]
          /\ got = 2 => got' = 2 /\ rx' = rx
      BY <2>1, ReceiveOne
    <2> QED
      BY <2>1, <2>2 DEF Idle
  <1>4. CASE Complete
    BY <1>4 DEF Complete
  <1>5. CASE Validate
    BY <1>5 DEF Validate
  <1>6. CASE Dispatch
    BY <1>6 DEF Dispatch, Answer
  <1>7. CASE Error
    BY <1>7 DEF Error
  <1>8. CASE UNCHANGED spiVars
    BY <1>8 DEF spiVars
  <1> QED
    BY <1>1, <1>2, <1>3, <1>4, <1>5, <1>6, <1>7, <1>8 DEF SpiNext, Handle

LEMMA BufferInvariant == ASSUME Gapped PROVE SpiSpec => []LInv
  <1>1. SpiInit => Swapped /\ Reading /\ Newest
    BY DEF SpiInit, Swapped, Reading, Newest, Idle
  <1>2. ASSUME LInv, [SpiNext]_spiVars PROVE Swapped' /\ Reading'
    <2> USE <1>2 DEF LInv, Swapped, Reading
    <2>1. CASE ClockPoll \/ ClockRequest
      <3>1. PICK m \in {Poll, [kind |-> "request", seq |-> sent']} : ClockHeader(m)
        BY <2>1 DEF ClockPoll, ClockRequest
      <3>2. got' = got + 1 /\ got \in 0 .. 2
        BY <3>1 DEF ClockHeader, Receive, IInv, SpiTypeOK
      <3> QED
        BY <3>1, <3>2 DEF ClockHeader
    <2>2. CASE ClockPayload
      BY <2>2 DEF ClockPayload
    <2>3. CASE Complete
      BY <2>3 DEF Complete
    <2>4. CASE Validate
      BY <2>4 DEF Validate, Answer
    <2>5. CASE Dispatch
      BY <2>5 DEF Dispatch, Answer
    <2>6. CASE Error
      BY <2>6 DEF Error
    <2>7. CASE UNCHANGED spiVars
      BY <2>7 DEF spiVars
    <2> QED
      BY <2>1, <2>2, <2>3, <2>4, <2>5, <2>6, <2>7 DEF SpiNext, Handle
  <1>3. LInv /\ [SpiNext]_spiVars => LInv'
    BY <1>2, Step, NewestKeeps DEF LInv
  <1>4. SpiInit => LInv
    BY <1>1, InitIInv DEF LInv
  <1> QED
    BY <1>3, <1>4, PTL DEF SpiSpec

(* Sequences of at most two replies.                                       *)
LEMMA Short ==
    ASSUME NEW x \in Nat, NEW s \in {<<>>} \cup {<<y>> : y \in Nat}
    PROVE  /\ <<x>> \o s # <<>> /\ Head(<<x>> \o s) = x /\ Tail(<<x>> \o s) = s
           /\ <<>> \o s = s /\ s \o <<>> = s
           /\ s \o <<x>> = Append(s, x)
  <1>1. s \in Seq(Nat) /\ <<x>> \in Seq(Nat) /\ <<>> \in Seq(Nat)
    <2>1. \A y \in Nat : <<y>> \in Seq(Nat)
      OBVIOUS
    <2> QED
      BY <2>1, EmptySeq
  <1>2. <<>> \o s = s /\ s \o <<>> = s /\ s \o <<x>> = Append(s, x)
    BY <1>1, ConcatEmptySeq, AppendIsConcat
  <1>3. CASE s = <<>>
    <2>1. <<x>> \o s = <<x>>
      BY <1>1, <1>3, ConcatEmptySeq
    <2>2. Head(<<x>>) = x /\ Tail(<<x>>) = <<>> /\ <<x>> # <<>>
      <3>1. <<x>> = Append(<<>>, x)
        BY <1>1, ConcatEmptySeq, AppendIsConcat
      <3>2. Append(<<>>, x) # <<>>
        BY <1>1, AppendProperties
      <3> QED
        BY <1>1, <3>1, <3>2, HeadTailAppend
    <2> QED
      BY <1>2, <1>3, <2>1, <2>2
  <1>4. ASSUME NEW y \in Nat, s = <<y>>
        PROVE  <<x>> \o s # <<>> /\ Head(<<x>> \o s) = x /\ Tail(<<x>> \o s) = s
    <2>1. <<x>> \o s = Append(<<x>>, y)
      BY <1>1, <1>4, AppendIsConcat
    <2>2. <<x>> # <<>> /\ Head(<<x>>) = x /\ Tail(<<x>>) = <<>>
      <3>1. <<x>> = Append(<<>>, x)
        BY <1>1, ConcatEmptySeq, AppendIsConcat
      <3>2. Append(<<>>, x) # <<>>
        BY <1>1, AppendProperties
      <3> QED
        BY <1>1, <3>1, <3>2, HeadTailAppend
    <2>3. Append(<<x>>, y) # <<>>
      BY <1>1, AppendProperties
    <2>4. Head(Append(<<x>>, y)) = x
      BY <1>1, <2>2, HeadTailAppend
    <2>5. Tail(Append(<<x>>, y)) = Append(<<>>, y)
      BY <1>1, <2>2, HeadTailAppend
    <2>6. Append(<<>>, y) = <<y>>
      BY <1>1, ConcatEmptySeq, AppendIsConcat
    <2> QED
      BY <1>4, <2>1, <2>3, <2>4, <2>5, <2>6
  <1> QED
    BY <1>2, <1>3, <1>4
(* The reply in a buffer, if there is one.                                 *)
AtMostOne == {<<>>} \cup {<<y>> : y \in Nat}

LEMMA WaitingShape ==
    ASSUME SpiTypeOK, NEW b \in Buffer
    PROVE  /\ Waiting(b) \in AtMostOne
           /\ tx[b].type = "response" => tx[b].seq \in Nat /\ Waiting(b) = <<tx[b].seq>>
           /\ tx[b].type # "response" => Waiting(b) = <<>>
  <1>1. tx[b].seq \in Nat
    BY Types
  <1> QED
    BY <1>1 DEF Waiting, AtMostOne

(* One of the buffers is empty or counts for nothing.                      *)
LEMMA OneBuffer ==
    ASSUME NEW s \in AtMostOne
    PROVE  <<>> \o s = s /\ s \o <<>> = s /\ <<>> \o <<>> = <<>>
  BY 0 \in Nat, Short DEF AtMostOne

(* A reply that is lost was the oldest, or no reply was lost.              *)
LEMMA LostReply ==
    ASSUME NEW s \in AtMostOne, NEW t \in AtMostOne
    PROVE  <<>> \o t = s \o t \/ (s \o t # <<>> /\ <<>> \o t = Tail(s \o t))
  <1>1. CASE s = <<>>
    BY <1>1
  <1>2. ASSUME NEW x \in Nat, s = <<x>>
        PROVE  s \o t # <<>> /\ <<>> \o t = Tail(s \o t)
    BY <1>2, Short DEF AtMostOne
  <1> QED
    BY <1>1, <1>2 DEF AtMostOne

LEMMA ClockHeaderRefines ==
    ASSUME LInv, Gapped, NEW m \in Message, ClockHeader(m)
    PROVE  Replies' = Replies /\ Pending = {}
           /\ Pending' \in {{}, {m.seq} \cap Request}
  <1>1. /\ clocking = Idle /\ got # 2 /\ pc = "idle" /\ clocking' = m /\ pc' = "idle"
        /\ Receive("header", m)
        /\ tx' = tx /\ armed' = armed /\ prepared' = prepared
    BY DEF ClockHeader
  <1>2. SpiTypeOK /\ got \in 0 .. 2
    BY DEF LInv, IInv, SpiTypeOK
  <1>3. /\ got = 1 => got' = 2 /\ rx'[2].place \in {"header", "damaged"}
        /\ got = 0 => got' = 1
    BY <1>1, <1>2, ReceiveOne
  <1>4. m # Idle /\ \A n \in Request : Idle # [kind |-> "request", seq |-> n]
    BY DEF Message, Idle
  <1>5. Replies' = Replies
    BY <1>1, <1>2, <1>3, <1>4 DEF Replies, Waiting
  <1>6. Pending = {}
    BY <1>1, <1>4 DEF Pending
  <1>7. \A n \in Pending' : n \in Request /\ n = m.seq
    BY <1>1, <1>2, <1>3 DEF Pending, Whole
  <1> QED
    BY <1>5, <1>6, <1>7

LEMMA PollRefines == ASSUME LInv, Gapped, ClockPoll PROVE UNCHANGED Queue!rrVars
  <1>1. Poll \in Message /\ Poll.seq \notin Request
    BY DEF Poll, Message, Request
  <1>2. /\ ClockHeader(Poll) /\ sent' = sent /\ executed' = executed /\ answered' = answered
    BY DEF ClockPoll, ClockHeader
  <1>3. Replies' = Replies /\ Pending' = Pending
    BY <1>1, <1>2, ClockHeaderRefines
  <1> QED
    BY <1>2, <1>3 DEF Queue!rrVars, Carried

LEMMA RequestRefines == ASSUME LInv, Gapped, ClockRequest PROVE Queue!Send
  <1> DEFINE m == [kind |-> "request", seq |-> sent']
  <1>1. /\ sent < MaxRequests /\ sent' = sent + 1 /\ ClockHeader(m)
        /\ executed' = executed /\ answered' = answered
    BY DEF ClockRequest, ClockHeader
  <1>2. m \in Message /\ m.seq = sent' /\ sent' \in Request
    BY <1>1 DEF Message, Request, LInv, IInv, SpiTypeOK
  <1> HIDE DEF m
  <1>3. Replies' = Replies /\ Pending = {} /\ Pending' \in {{}, {sent'}}
    <2>1. {m.seq} \cap Request = {sent'}
      BY <1>2
    <2> QED
      BY <1>1, <1>2, <2>1, ClockHeaderRefines
  <1> QED
    BY <1>1, <1>3 DEF Queue!Send, Carried
(* The second part of a frame delivers the reply, or loses it, and may     *)
(* spoil the request.                                                      *)
LEMMA PayloadRefines ==
    ASSUME LInv, Gapped, ClockPayload
    PROVE  /\ Queue!Deliver \/ Queue!Lose
           /\ got = 1 => Queue!Deliver \/ Replies' = Replies
  <1>1. /\ clocking # Idle /\ clocking' = Idle
        /\ Receive("payload", clocking)
        /\ answered' = IF got = 1 /\ read.type = "response"
                       THEN Append(answered, read.seq) ELSE answered
        /\ UNCHANGED <<sent, tx, armed, prepared, pc, executed>>
    BY DEF ClockPayload
  <1>2. SpiTypeOK /\ got \in 0 .. 2 /\ clocking \in Message \cup {Idle} /\ armed \in Buffer
        /\ prepared \in Buffer
    BY DEF LInv, IInv, SpiTypeOK
  <1>3. /\ got = 2 => got' = 2 /\ rx' = rx
        /\ got = 1 => got' = 2 /\ rx'[1] = rx[1]
        /\ got = 0 => got' = 1 /\ rx'[1].place \in {"payload", "damaged"}
    BY <1>1, <1>2, ReceiveOne
  <1>4. \A n \in Request : clocking' # [kind |-> "request", seq |-> n]
    BY <1>1 DEF Idle
  <1> DEFINE T == IF pc = "idle" THEN Waiting(prepared) ELSE <<>>
  <1>5. T' = T /\ T \in AtMostOne
    BY <1>1, <1>2, WaitingShape DEF Waiting, AtMostOne
  <1>6. Replies = (IF got = 0 \/ got = 1 THEN Waiting(armed) ELSE <<>>) \o T
        /\ Replies' = <<>> \o T
    <2>1. (got = 0 \/ (got = 1 /\ clocking # Idle)) <=> (got = 0 \/ got = 1)
      BY <1>1
    <2>2. ~(got' = 0 \/ (got' = 1 /\ clocking' # Idle))
      BY <1>1, <1>2, <1>3
    <2>3. Replies = (IF got = 0 \/ got = 1 THEN Waiting(armed) ELSE <<>>) \o T
      BY <2>1 DEF Replies
    <2>4. Replies' = <<>> \o T'
      BY <2>2 DEF Replies
    <2> QED
      BY <1>5, <2>3, <2>4
  <1> HIDE DEF T
  <1>7. Pending' \in SUBSET Pending
    <2>1. CASE got = 0
      <3>1. ~Whole(rx')
        BY <1>3, <2>1 DEF Whole
      <3> QED
        BY <1>3, <1>4, <2>1, <3>1 DEF Pending
    <2>2. CASE got = 1
      <3>1. pc = "idle" /\ pc' = "idle" /\ got' = 2 /\ rx'[1] = rx[1]
        BY <1>1, <1>3, <2>2 DEF LInv, Reading
      <3>2. rx'[2].of = clocking /\ rx[1] \in Part
        BY <1>1, <1>2, <2>2, ReceiveOne, Types
      <3>3. ASSUME NEW n \in Pending'
            PROVE  n \in Pending
        <4>1. /\ n \in Request /\ Whole(rx')
              /\ rx'[1].of = [kind |-> "request", seq |-> n]
          BY <3>1, <3>3 DEF Pending
        <4>2. clocking = [kind |-> "request", seq |-> n]
              /\ rx[1].place = "header" /\ rx[1].of = [kind |-> "request", seq |-> n]
          BY <3>1, <3>2, <4>1 DEF Whole
        <4>3. rx[1] = [place |-> "header", of |-> [kind |-> "request", seq |-> n]]
          BY <3>2, <4>2 DEF Part
        <4> QED
          BY <2>2, <4>1, <4>2, <4>3 DEF Pending
      <3> QED
        BY <3>3
    <2>3. CASE got = 2
      BY <1>1, <1>3, <1>4, <2>3 DEF Pending
    <2> QED
      BY <1>2, <2>1, <2>2, <2>3
  <1>8. Waiting(armed) \in AtMostOne
    BY <1>2, WaitingShape
  <1>9. CASE got = 1
    <2>1. read = tx[armed]
      BY <1>1, <1>9 DEF LInv, Reading
    <2>2. Replies = Waiting(armed) \o T
      BY <1>6, <1>9
    <2>3. CASE read.type = "response"
      <3>1. Waiting(armed) = <<read.seq>> /\ read.seq \in Nat
        BY <1>2, <2>1, <2>3, WaitingShape
      <3>2. Replies # <<>> /\ Head(Replies) = read.seq /\ Tail(Replies) = T
        <4>1. <<read.seq>> \o T # <<>> /\ Head(<<read.seq>> \o T) = read.seq
              /\ Tail(<<read.seq>> \o T) = T
          BY Zenon, <1>5, <3>1, Short DEF AtMostOne
        <4> QED
          BY Zenon, <2>2, <3>1, <4>1
      <3>3. Replies' = T /\ answered' = Append(answered, read.seq)
        BY <1>1, <1>5, <1>6, <1>9, <2>3, OneBuffer
      <3> QED
        BY <1>1, <1>7, <3>2, <3>3 DEF Queue!Deliver, Carried
    <2>4. CASE read.type # "response"
      <3>1. Waiting(armed) = <<>>
        BY <1>2, <2>1, <2>4, WaitingShape
      <3>2. Replies' = Replies /\ answered' = answered
        BY <1>1, <1>6, <2>2, <2>4, <3>1
      <3> QED
        BY <1>1, <1>7, <3>2 DEF Queue!Lose, Carried
    <2> QED
      BY <1>9, <2>3, <2>4
  <1>10. CASE got = 0
    <2>1. Replies = Waiting(armed) \o T /\ answered' = answered
      BY <1>1, <1>6, <1>10
    <2>2. Replies' = Replies \/ (Replies # <<>> /\ Replies' = Tail(Replies))
      BY <1>5, <1>6, <1>8, <2>1, LostReply
    <2> QED
      BY <1>1, <1>7, <1>10, <2>1, <2>2 DEF Queue!Lose, Carried
  <1>11. CASE got = 2
    <2>1. Replies' = Replies /\ answered' = answered
      BY <1>1, <1>6, <1>11
    <2> QED
      BY <1>1, <1>7, <2>1 DEF Queue!Lose, Carried
  <1> QED
    BY <1>2, <1>9, <1>10, <1>11

(* A completion callback swaps buffers: the prepared reply is armed.       *)
LEMMA CompleteRefines == ASSUME LInv, Complete PROVE UNCHANGED Queue!rrVars
  <1>1. /\ pc = "idle" /\ got = 2 /\ armed' = prepared /\ got' = 0 /\ pc' = "validate"
        /\ UNCHANGED <<sent, clocking, rx, tx, executed, answered>>
    BY DEF Complete
  <1>2. prepared \in Buffer /\ SpiTypeOK
    BY DEF LInv, IInv, SpiTypeOK
  <1>3. Replies = <<>> \o Waiting(prepared)
    BY <1>1 DEF Replies
  <1>4. Replies' = Waiting(prepared) \o <<>>
    BY <1>1 DEF Replies, Waiting
  <1>5. Replies' = Replies
    BY <1>2, <1>3, <1>4, WaitingShape, OneBuffer
  <1>6. Pending' = Pending
    BY <1>1 DEF Pending
  <1> QED
    BY <1>1, <1>5, <1>6 DEF Queue!rrVars, Carried

(* A reply goes to the buffer that is free: the armed one is not touched.  *)
LEMMA AnswerKeepsArmed ==
    ASSUME LInv, pc # "idle", got' = got, clocking' = clocking, armed' = armed, pc' = "idle",
           NEW reply \in Reply,
           tx' = [tx EXCEPT ![justSent] = reply], prepared' = justSent
    PROVE  Replies' = IF reply.type = "response" THEN Append(Replies, reply.seq) ELSE Replies
  <1>1. /\ tx \in [Buffer -> Reply] /\ armed \in Buffer /\ justSent \in Buffer
        /\ armed # justSent /\ SpiTypeOK
    BY DEF LInv, IInv, SpiTypeOK, Swapped
  <1>2. tx'[armed] = tx[armed] /\ tx'[justSent] = reply
    BY <1>1
  <1> DEFINE A == IF got = 0 \/ (got = 1 /\ clocking # Idle) THEN Waiting(armed) ELSE <<>>
  <1>3. A \in AtMostOne
    BY <1>1, WaitingShape DEF AtMostOne
  <1>4. A' = A
    BY <1>2 DEF Waiting
  <1>5. Replies = A \o <<>>
    BY DEF Replies
  <1>6. Replies' = A' \o (IF reply.type = "response" THEN <<reply.seq>> ELSE <<>>)
    BY <1>2 DEF Replies, Waiting
  <1> HIDE DEF A
  <1>7. reply.seq \in Nat
    BY DEF Reply, Telemetry
  <1>8. Replies = A /\ A \o <<>> = A /\ A \o <<reply.seq>> = Append(A, reply.seq)
    BY <1>3, <1>5, <1>7, Short DEF AtMostOne
  <1> QED
    BY <1>4, <1>6, <1>8

LEMMA ValidateRefines == ASSUME LInv, Validate PROVE UNCHANGED Queue!rrVars
  <1>1. pc = "validate" /\ UNCHANGED <<sent, clocking, got, rx, executed, answered>>
    BY DEF Validate, master, history
  <1>2. SequenceOf(rx) \subseteq 0 .. MaxRequests
    <2>1. rx[1].of.seq \in 0 .. MaxRequests
      BY Types DEF LInv, IInv
    <2> QED
      BY <2>1 DEF SequenceOf
  <1>3. CASE Whole(rx)
    <2>1. pc' = "dispatch" /\ UNCHANGED <<tx, armed, prepared>>
      BY <1>3 DEF Validate
    <2>2. Replies' = Replies
      BY <1>1, <2>1 DEF Replies, Waiting
    <2>3. Pending' = Pending
      BY <1>1, <2>1 DEF Pending
    <2> QED
      BY <1>1, <2>2, <2>3 DEF Queue!rrVars, Carried
  <1>4. CASE ~Whole(rx)
    <2>1. PICK n \in SequenceOf(rx) : Answer(Refusal(rx, n))
      BY <1>4 DEF Validate
    <2> DEFINE reply == Refusal(rx, n)
    <2>2. reply \in Reply /\ reply.type # "response"
      BY <1>2 DEF Reply, ReplyType, Refusal
    <2> HIDE DEF reply
    <2>3. /\ tx' = [tx EXCEPT ![justSent] = reply] /\ prepared' = justSent /\ pc' = "idle"
          /\ armed' = armed
      BY <2>1 DEF Answer, reply
    <2>4. Replies' = Replies
      BY <1>1, <2>2, <2>3, AnswerKeepsArmed
    <2>5. got = 1 => clocking = Idle
      BY <1>1 DEF LInv, Reading
    <2>6. \A m \in Request : Idle # [kind |-> "request", seq |-> m]
      BY DEF Idle
    <2>7. Pending = {} /\ Pending' = {}
      BY <1>1, <1>4, <2>3, <2>5, <2>6 DEF Pending
    <2> QED
      BY <1>1, <2>4, <2>7 DEF Queue!rrVars, Carried
  <1> QED
    BY <1>3, <1>4

LEMMA CarriedNumbers ==
    ASSUME SpiTypeOK, NEW i \in DOMAIN executed
    PROVE  executed[i].operation.of.seq \in 0 .. MaxRequests
  <1> DEFINE E == [validated : 0 .. MaxRequests, operation : Part]
  <1>1. executed \in Seq(E)
    BY DEF SpiTypeOK
  <1> HIDE DEF E
  <1>2. executed[i] \in E
    BY <1>1
  <1>3. executed[i].operation \in Part
    BY <1>2 DEF E
  <1>4. executed[i].operation.of \in Message \cup {Idle}
    BY <1>3 DEF Part
  <1> QED
    BY <1>4 DEF Message, Idle, Request

LEMMA DispatchRefines ==
    ASSUME LInv, Dispatch
    PROVE  Queue!Execute \/ UNCHANGED Queue!rrVars
  <1>1. /\ pc = "dispatch" /\ Whole(rx) /\ rx[1].of.seq = seq /\ clocking = Idle /\ got = 0
        /\ UNCHANGED <<sent, clocking, got, rx, answered>>
    BY DEF Dispatch, LInv, IInv, Held
  <1>2. SpiTypeOK /\ rx[1] \in Part /\ rx[2] \in Part /\ seq \in 0 .. MaxRequests
    BY Types DEF LInv, IInv, SpiTypeOK
  <1>3. rx[1].of \in Message \cup {Idle} /\ rx[1].place = "header"
    BY <1>1, <1>2 DEF Part, Whole
  <1>4. CASE rx[1].of.kind = "request"
    <2> DEFINE reply == [type |-> "response", seq |-> seq]
               entry == [validated |-> seq, operation |-> rx[2]]
    <2>1. Answer(reply) /\ executed' = Append(executed, entry)
      BY <1>3, <1>4 DEF Dispatch
    <2>2. /\ reply \in Reply /\ reply.type = "response" /\ reply.seq = seq
          /\ entry \in [validated : 0 .. MaxRequests, operation : Part]
          /\ entry.operation = rx[2]
      BY <1>2 DEF Reply, ReplyType
    <2> HIDE DEF reply, entry
    <2>3. /\ tx' = [tx EXCEPT ![justSent] = reply] /\ prepared' = justSent /\ pc' = "idle"
          /\ armed' = armed
      BY <2>1 DEF Answer
    <2>4. Replies' = Append(Replies, seq)
      BY <1>1, <2>2, <2>3, AnswerKeepsArmed
    <2>5. rx[1].of = [kind |-> "request", seq |-> seq] /\ seq \in Request
      BY <1>1, <1>3, <1>4 DEF Message, Idle
    <2>6. Pending = {seq}
      <3>1. \A n \in Request : rx[1].of = [kind |-> "request", seq |-> n] <=> n = seq
        BY <2>5
      <3> QED
        BY <1>1, <2>5, <3>1 DEF Pending
    <2>7. Pending' = {}
      BY <1>1, <2>3 DEF Pending
    <2>8. rx[2].of.seq = seq
      BY <1>1 DEF Whole
    <2>9. Carried' = Append(Carried, seq)
      <3> DEFINE E == [validated : 0 .. MaxRequests, operation : Part]
      <3>0. \A e \in E : e.operation.of.seq \in Nat
        <4>1. \A p \in Part : p.of \in Message \cup {Idle}
          BY DEF Part
        <4>2. \A m \in Message \cup {Idle} : m.seq \in Nat
          BY DEF Message, Idle, Request
        <4> QED
          BY <4>1, <4>2
      <3>1. executed \in Seq(E) /\ entry \in E
        BY <1>2, <2>2 DEF SpiTypeOK
      <3> HIDE DEF E
      <3>2. \A i \in DOMAIN executed : executed[i] \in E
        BY <3>1
      <3>3. Carried \in Seq(Nat) /\ Len(Carried) = Len(executed)
        BY <3>0, <3>1, <3>2 DEF Carried
      <3>4. /\ executed' \in Seq(E)
            /\ DOMAIN executed' = 1 .. Len(executed) + 1
            /\ executed'[Len(executed) + 1] = entry
            /\ \A i \in 1 .. Len(executed) : executed'[i] = executed[i]
        BY <2>1, <3>1
      <3>5. \A i \in DOMAIN executed' : executed'[i].operation.of.seq \in Nat
        BY <3>0, <3>1, <3>2, <3>4
      <3>6. /\ Carried' \in Seq(Nat) /\ Len(Carried') = Len(executed) + 1
            /\ \A i \in 1 .. Len(executed) : Carried'[i] = Carried[i]
            /\ Carried'[Len(executed) + 1] = seq
        BY <2>2, <2>8, <3>1, <3>3, <3>4, <3>5 DEF Carried
      <3>7. Append(Carried, seq) \in Seq(Nat) /\ Len(Append(Carried, seq)) = Len(executed) + 1
            /\ \A i \in 1 .. Len(executed) : Append(Carried, seq)[i] = Carried[i]
            /\ Append(Carried, seq)[Len(executed) + 1] = seq
        BY <1>2, <3>3, AppendProperties
      <3> QED
        BY <3>1, <3>6, <3>7, SeqEqual
    <2>10. \A i \in DOMAIN Carried : Carried[i] < seq
      <3>1. seq = sent
        BY <1>1, <1>3, <1>4 DEF LInv, Newest
      <3>2. ~Executed(seq)
        BY <1>1 DEF LInv, IInv, Fresh
      <3>3. ASSUME NEW i \in DOMAIN executed
            PROVE  executed[i].operation.of.seq < seq
        <4> DEFINE n == executed[i].operation.of.seq
        <4>1. Executed(n) /\ n # seq
          BY <3>2 DEF Executed
        <4>2. n \in 0 .. MaxRequests
          BY <1>2, CarriedNumbers
        <4> HIDE DEF n
        <4>3. n \in 1 .. sent
          BY <4>1, <4>2 DEF LInv, IInv, Numbered
        <4>4. n < seq
          BY <1>2, <3>1, <4>1, <4>3
        <4> QED
          BY <4>4 DEF n
      <3> QED
        BY <3>3 DEF Carried
    <2> QED
      BY <1>1, <2>4, <2>6, <2>7, <2>9, <2>10 DEF Queue!Execute
  <1>5. CASE rx[1].of.kind # "request"
    <2>1. Answer(Telemetry) /\ executed' = executed
      BY <1>3, <1>5 DEF Dispatch
    <2>2. Telemetry \in Reply /\ Telemetry.type # "response"
      BY DEF Reply, Telemetry
    <2>3. /\ tx' = [tx EXCEPT ![justSent] = Telemetry] /\ prepared' = justSent /\ pc' = "idle"
          /\ armed' = armed
      BY <2>1 DEF Answer
    <2>4. Replies' = Replies
      BY <1>1, <2>2, <2>3, AnswerKeepsArmed
    <2>5. Pending = {} /\ Pending' = {}
      BY <1>1, <1>5, <2>3 DEF Pending
    <2> QED
      BY <1>1, <2>1, <2>4, <2>5 DEF Queue!rrVars, Carried
  <1> QED
    BY <1>4, <1>5

(* An error wipes the armed buffer: what waited there is lost.             *)
LEMMA ErrorRefines == ASSUME LInv, Error PROVE Queue!Lose
  <1>1. /\ pc = "idle" /\ tx' = [tx EXCEPT ![armed] = Telemetry] /\ got' = 0
        /\ UNCHANGED <<sent, clocking, rx, armed, prepared, pc, executed, answered>>
    BY DEF Error
  <1>2. SpiTypeOK /\ armed \in Buffer /\ prepared \in Buffer /\ armed # prepared
    BY <1>1 DEF LInv, IInv, SpiTypeOK, Swapped
  <1>3. tx'[armed] = Telemetry /\ tx'[prepared] = tx[prepared]
    BY <1>1, <1>2 DEF SpiTypeOK
  <1>4. Replies' = <<>> \o Waiting(prepared)
    <2>1. Waiting(armed)' = <<>> /\ Waiting(prepared)' = Waiting(prepared)
      BY <1>1, <1>3 DEF Waiting, Telemetry
    <2>2. Replies' = Waiting(armed)' \o Waiting(prepared)'
      BY <1>1 DEF Replies
    <2> QED
      BY <2>1, <2>2
  <1> DEFINE A == IF got = 0 \/ (got = 1 /\ clocking # Idle) THEN Waiting(armed) ELSE <<>>
  <1>5. Replies = A \o Waiting(prepared)
    BY <1>1 DEF Replies
  <1>6. A \in AtMostOne /\ Waiting(prepared) \in AtMostOne
    BY <1>2, WaitingShape DEF AtMostOne
  <1> HIDE DEF A
  <1>7. Replies' = Replies \/ (Replies # <<>> /\ Replies' = Tail(Replies))
    BY <1>4, <1>5, <1>6, LostReply
  <1>8. Pending' = {}
    BY <1>1 DEF Pending
  <1> QED
    BY <1>1, <1>7, <1>8 DEF Queue!Lose, Carried

LEMMA StutterRefines == ASSUME UNCHANGED spiVars PROVE UNCHANGED Queue!rrVars
  <1>1. UNCHANGED <<sent, clocking, got, rx, tx, armed, prepared, pc, executed, answered>>
    BY DEF spiVars
  <1>2. Replies' = Replies
    BY <1>1 DEF Replies, Waiting
  <1>3. Pending' = Pending
    BY <1>1 DEF Pending
  <1> QED
    BY <1>1, <1>2, <1>3 DEF Queue!rrVars, Carried

(* The double-buffered link with its one receive buffer (SPI callbacks and *)
(* protocol handler) implements the queue of requests and replies: it may  *)
(* lose, and never repeats, reorders or invents.                           *)
THEOREM LinkImplements == ASSUME Gapped PROVE SpiSpec => ImplementsRequestReply
  <1>1. SpiInit => Queue!RRInit
    <2> SUFFICES ASSUME SpiInit PROVE Queue!RRInit
      OBVIOUS
    <2>1. Replies = <<>> /\ Pending = {}
      <3>1. Waiting("a") = <<>> /\ Waiting("b") = <<>>
        BY DEF SpiInit, Waiting, Telemetry
      <3>2. <<>> \o <<>> = <<>>
        BY OneBuffer DEF AtMostOne
      <3> QED
        BY <3>1, <3>2 DEF SpiInit, Replies, Pending
    <2>2. Carried = <<>>
      BY DEF SpiInit, Carried
    <2> QED
      BY <2>1, <2>2 DEF SpiInit, Queue!RRInit
  <1>2. ASSUME LInv, [SpiNext]_spiVars PROVE [Queue!RRNext]_(Queue!rrVars)
    BY <1>2, PollRefines, RequestRefines, PayloadRefines, CompleteRefines, ValidateRefines,
       DispatchRefines, ErrorRefines, StutterRefines
       DEF SpiNext, Handle, Queue!RRNext
  <1> QED
    BY BufferInvariant, <1>1, <1>2, PTL DEF SpiSpec, ImplementsRequestReply, Queue!RRSpec

-----------------------------------------------------------------------------
(* Nothing but an SPI error does away with a reply.                        *)

LEMMA OwedOrAnswered ==
    ASSUME \/ Replies' = Replies
           \/ Queue!Deliver /\ Replies \in Seq(Nat) /\ answered \in Seq(0 .. MaxRequests)
           \/ Queue!Execute /\ Replies \in Seq(Nat),
           NEW n \in Request, Owed(n)
    PROVE  Owed(n)' \/ Answered(n)'
  <1>1. CASE Replies' = Replies
    BY <1>1 DEF Owed
  <1>2. CASE Queue!Deliver /\ Replies \in Seq(Nat) /\ answered \in Seq(0 .. MaxRequests)
    <2>1. /\ Replies # <<>> /\ Replies' = Tail(Replies)
          /\ answered' = Append(answered, Head(Replies)) /\ Replies \in Seq(Nat)
      BY <1>2 DEF Queue!Deliver
    <2>2. PICK i \in DOMAIN Replies : Replies[i] = n
      BY DEF Owed
    <2>3. CASE i = 1
      <3>1. Head(Replies) = n
        BY <2>1, <2>2, <2>3, HeadTailProperties
      <3>2. n \in 0 .. MaxRequests
        BY DEF Request
      <3>3. /\ Len(answered') = Len(answered) + 1 /\ Len(answered) \in Nat
            /\ answered'[Len(answered) + 1] = n /\ answered' \in Seq(0 .. MaxRequests)
        BY <1>2, <2>1, <3>1, <3>2, AppendProperties, LenProperties
      <3>4. Len(answered) + 1 \in DOMAIN answered'
        BY <3>3, LenProperties
      <3> QED
        BY <3>3, <3>4 DEF Answered
    <2>4. CASE i # 1
      <3>1. /\ Len(Tail(Replies)) = Len(Replies) - 1 /\ Len(Replies) \in Nat
            /\ Tail(Replies) \in Seq(Nat)
            /\ \A j \in 1 .. Len(Tail(Replies)) : Tail(Replies)[j] = Replies[j + 1]
        BY <2>1, HeadTailProperties, LenProperties
      <3>2. i \in 1 .. Len(Replies)
        BY <2>1, <2>2, LenProperties
      <3>3. i - 1 \in 1 .. Len(Tail(Replies)) /\ (i - 1) + 1 = i
        BY <2>4, <3>1, <3>2
      <3>4. i - 1 \in DOMAIN Replies' /\ Replies'[i - 1] = n
        BY <2>1, <2>2, <3>1, <3>3, LenProperties
      <3> QED
        BY <3>4 DEF Owed
    <2> QED
      BY <2>3, <2>4
  <1>3. CASE Queue!Execute /\ Replies \in Seq(Nat)
    <2>1. PICK m \in Pending : Replies' = Append(Replies, m)
      BY <1>3 DEF Queue!Execute
    <2>2. m \in Nat
      BY DEF Pending, Request
    <2>3. PICK i \in DOMAIN Replies : Replies[i] = n
      BY DEF Owed
    <2>4. i \in 1 .. Len(Replies) /\ Len(Replies) \in Nat
      BY <1>3, <2>3, LenProperties
    <2>5. /\ Len(Replies') = Len(Replies) + 1 /\ Replies' \in Seq(Nat)
          /\ Replies'[i] = Replies[i]
      BY <1>3, <2>1, <2>2, <2>4, AppendProperties
    <2>6. i \in DOMAIN Replies'
      BY <2>4, <2>5, LenProperties
    <2> QED
      BY <2>3, <2>5, <2>6 DEF Owed
  <1> QED
    BY <1>1, <1>2, <1>3

LEMMA StepKeepsReplies ==
    ASSUME LInv, Gapped, InStep, SpiNext, errors' = errors
    PROVE  InStep' /\ (Replies' = Replies \/ Queue!Deliver \/ Queue!Execute)
  <1>1. SpiTypeOK /\ got \in {0, 1, 2} /\ errors \in Nat
        /\ clocking \in Message \cup {Idle}
    BY DEF LInv, IInv, SpiTypeOK
  <1>2. ASSUME NEW m \in Message, ClockHeader(m)
        PROVE  InStep' /\ Replies' = Replies
    <2>1. /\ clocking = Idle /\ got # 2 /\ clocking' = m /\ Receive("header", m) /\ m # Idle
      BY <1>2 DEF ClockHeader, Message, Idle
    <2>2. got = 0 /\ got' = 1
      BY <1>1, <2>1, ReceiveOne DEF InStep
    <2> QED
      BY <1>2, <2>1, <2>2, ClockHeaderRefines DEF InStep
  <1>3. CASE ClockPoll
    <2>1. Poll \in Message
      BY DEF Poll, Message
    <2> QED
      BY <1>2, <1>3, <2>1 DEF ClockPoll
  <1>4. CASE ClockRequest
    <2> DEFINE m == [kind |-> "request", seq |-> sent']
    <2>1. sent < MaxRequests /\ sent' = sent + 1 /\ ClockHeader(m)
      BY <1>4 DEF ClockRequest
    <2>2. m \in Message
      BY <1>1, <2>1 DEF Message, Request, SpiTypeOK
    <2> QED
      BY <1>2, <2>1, <2>2
  <1>5. CASE ClockPayload
    <2>1. clocking # Idle /\ clocking' = Idle /\ Receive("payload", clocking)
      BY <1>5 DEF ClockPayload
    <2>2. got = 1
      BY <2>1 DEF InStep
    <2>3. got' = 2
      BY <1>1, <2>1, <2>2, ReceiveOne
    <2> QED
      BY <1>5, <2>1, <2>2, <2>3, PayloadRefines DEF InStep
  <1>6. CASE Complete
    <2>1. clocking = Idle /\ got' = 0 /\ clocking' = clocking
      BY <1>6 DEF Complete, InStep
    <2> QED
      BY <1>6, <2>1, CompleteRefines DEF InStep, Queue!rrVars
  <1>7. CASE Validate
    BY <1>7, ValidateRefines DEF InStep, Queue!rrVars, Validate
  <1>8. CASE Dispatch
    BY <1>8, DispatchRefines DEF InStep, Queue!rrVars, Dispatch
  <1>9. ~Error
    BY <1>1 DEF Error
  <1> QED
    BY <1>3, <1>4, <1>5, <1>6, <1>7, <1>8, <1>9 DEF SpiNext, Handle

-----------------------------------------------------------------------------
(* What the queue promises, proved of the queue and so of the link.        *)

(* What was answered or is still in a buffer was executed, in that order.  *)
QueueInv == /\ Carried \in Seq(Nat) /\ Replies \in Seq(Nat) /\ answered \in Seq(Nat)
            /\ Queue!InOrder
            /\ Queue!Increasing(Replies)
            /\ \A i \in DOMAIN answered, j \in DOMAIN Replies : answered[i] < Replies[j]
            /\ \A i \in DOMAIN Replies : \E k \in DOMAIN Carried : Carried[k] = Replies[i]

LEMMA QueueInit == Queue!RRInit => QueueInv
  BY DEF Queue!RRInit, QueueInv, Queue!InOrder, Queue!Increasing

(* A number larger than all of a sequence may follow it.                   *)
LEMMA IncreasingAppend ==
    ASSUME NEW s \in Seq(Nat), NEW n \in Nat, Queue!Increasing(s),
           \A i \in DOMAIN s : s[i] < n
    PROVE  /\ Append(s, n) \in Seq(Nat) /\ Queue!Increasing(Append(s, n))
           /\ DOMAIN Append(s, n) = DOMAIN s \cup {Len(s) + 1}
           /\ \A i \in DOMAIN s : Append(s, n)[i] = s[i]
           /\ Append(s, n)[Len(s) + 1] = n
  <1>1. /\ Append(s, n) \in Seq(Nat) /\ Len(Append(s, n)) = Len(s) + 1 /\ Len(s) \in Nat
        /\ \A i \in 1 .. Len(s) : Append(s, n)[i] = s[i]
        /\ Append(s, n)[Len(s) + 1] = n
    BY AppendProperties, LenProperties
  <1>2. DOMAIN s = 1 .. Len(s) /\ DOMAIN Append(s, n) = 1 .. Len(s) + 1
    BY <1>1, LenProperties
  <1>3. DOMAIN Append(s, n) = DOMAIN s \cup {Len(s) + 1}
    BY <1>1, <1>2
  <1>4. Queue!Increasing(Append(s, n))
    BY <1>1, <1>2, <1>3 DEF Queue!Increasing
  <1> QED
    BY <1>1, <1>2, <1>3, <1>4

LEMMA IncreasingTail ==
    ASSUME NEW s \in Seq(Nat), s # <<>>, Queue!Increasing(s)
    PROVE  /\ Tail(s) \in Seq(Nat) /\ Queue!Increasing(Tail(s)) /\ Head(s) \in Nat
           /\ \A j \in DOMAIN Tail(s) : j + 1 \in DOMAIN s /\ Tail(s)[j] = s[j + 1]
                                       /\ Head(s) < Tail(s)[j]
           /\ 1 \in DOMAIN s /\ Head(s) = s[1]
  <1>1. /\ Tail(s) \in Seq(Nat) /\ Len(Tail(s)) = Len(s) - 1 /\ Len(s) \in Nat /\ Len(s) >= 1
        /\ \A i \in 1 .. Len(Tail(s)) : Tail(s)[i] = s[i + 1]
        /\ Head(s) = s[1]
    BY HeadTailProperties, LenProperties, EmptySeq
  <1>2. DOMAIN s = 1 .. Len(s) /\ DOMAIN Tail(s) = 1 .. Len(s) - 1
    BY <1>1, LenProperties
  <1>3. 1 \in DOMAIN s /\ Head(s) \in Nat
    BY <1>1, <1>2
  <1>4. \A j \in DOMAIN Tail(s) : j \in Nat /\ 1 < j + 1 /\ j + 1 \in DOMAIN s
                                  /\ Tail(s)[j] = s[j + 1]
    BY <1>1, <1>2
  <1>5. Queue!Increasing(Tail(s))
    BY <1>1, <1>2, <1>4 DEF Queue!Increasing
  <1>6. \A j \in DOMAIN Tail(s) : Head(s) < Tail(s)[j]
    BY <1>1, <1>3, <1>4 DEF Queue!Increasing
  <1> QED
    BY <1>1, <1>3, <1>4, <1>5, <1>6

LEMMA QueueExecute == ASSUME QueueInv, Queue!Execute PROVE QueueInv'
  <1>1. PICK n \in Pending :
           /\ \A i \in DOMAIN Carried : Carried[i] < n
           /\ Carried' = Append(Carried, n) /\ Replies' = Append(Replies, n)
           /\ answered' = answered
    BY DEF Queue!Execute
  <1>2. n \in Nat
    BY DEF Pending, Request
  <1>3. /\ \A i \in DOMAIN Replies : Replies[i] < n
        /\ \A i \in DOMAIN answered : answered[i] < n
    BY <1>1 DEF QueueInv, Queue!InOrder
  <1>4. /\ Carried' \in Seq(Nat) /\ Queue!Increasing(Carried')
        /\ DOMAIN Carried' = DOMAIN Carried \cup {Len(Carried) + 1}
        /\ \A i \in DOMAIN Carried : Carried'[i] = Carried[i]
        /\ Carried'[Len(Carried) + 1] = n
    BY <1>1, <1>2, IncreasingAppend DEF QueueInv, Queue!InOrder
  <1>5. /\ Replies' \in Seq(Nat) /\ Queue!Increasing(Replies')
        /\ DOMAIN Replies' = DOMAIN Replies \cup {Len(Replies) + 1}
        /\ \A i \in DOMAIN Replies : Replies'[i] = Replies[i]
        /\ Replies'[Len(Replies) + 1] = n
    BY <1>1, <1>2, <1>3, IncreasingAppend DEF QueueInv
  <1>6. Queue!InOrder'
    <2>1. \A i \in DOMAIN answered' : \E k \in DOMAIN Carried' : Carried'[k] = answered'[i]
      BY <1>1, <1>4 DEF QueueInv, Queue!InOrder
    <2>2. Queue!Increasing(answered)'
      BY <1>1 DEF QueueInv, Queue!InOrder, Queue!Increasing
    <2> QED
      BY <1>4, <2>1, <2>2 DEF Queue!InOrder, Queue!Increasing
  <1>7. \A i \in DOMAIN answered', j \in DOMAIN Replies' : answered'[i] < Replies'[j]
    BY <1>1, <1>3, <1>5 DEF QueueInv
  <1>8. \A i \in DOMAIN Replies' : \E k \in DOMAIN Carried' : Carried'[k] = Replies'[i]
    BY <1>4, <1>5 DEF QueueInv
  <1>9. answered' \in Seq(Nat)
    BY <1>1 DEF QueueInv
  <1> QED
    BY <1>4, <1>5, <1>6, <1>7, <1>8, <1>9 DEF QueueInv, Queue!Increasing

LEMMA QueueDeliver == ASSUME QueueInv, Queue!Deliver PROVE QueueInv'
  <1> DEFINE n == Head(Replies)
  <1>1. /\ Replies # <<>> /\ Replies' = Tail(Replies) /\ answered' = Append(answered, n)
        /\ Carried' = Carried
    BY DEF Queue!Deliver
  <1>2. /\ Replies' \in Seq(Nat) /\ Queue!Increasing(Replies') /\ n \in Nat
        /\ \A j \in DOMAIN Replies' : /\ j + 1 \in DOMAIN Replies
                                      /\ Replies'[j] = Replies[j + 1] /\ n < Replies'[j]
        /\ 1 \in DOMAIN Replies /\ n = Replies[1]
    BY <1>1, IncreasingTail DEF QueueInv
  <1>3. \A i \in DOMAIN answered : answered[i] < n
    BY <1>2 DEF QueueInv
  <1> HIDE DEF n
  <1>4. /\ answered' \in Seq(Nat) /\ Queue!Increasing(answered')
        /\ DOMAIN answered' = DOMAIN answered \cup {Len(answered) + 1}
        /\ \A i \in DOMAIN answered : answered'[i] = answered[i]
        /\ answered'[Len(answered) + 1] = n
    BY <1>1, <1>2, <1>3, IncreasingAppend DEF QueueInv, Queue!InOrder
  <1>5. ASSUME NEW i \in DOMAIN answered'
        PROVE  \E k \in DOMAIN Carried' : Carried'[k] = answered'[i]
    <2>1. CASE i \in DOMAIN answered
      BY <1>1, <1>4, <2>1 DEF QueueInv, Queue!InOrder
    <2>2. CASE i = Len(answered) + 1
      BY <1>1, <1>2, <1>4, <2>2 DEF QueueInv
    <2> QED
      BY <1>4, <2>1, <2>2
  <1>6. Queue!InOrder'
    BY <1>1, <1>4, <1>5 DEF QueueInv, Queue!InOrder, Queue!Increasing
  <1>7. \A i \in DOMAIN answered', j \in DOMAIN Replies' : answered'[i] < Replies'[j]
    BY <1>2, <1>4 DEF QueueInv
  <1>8. \A i \in DOMAIN Replies' : \E k \in DOMAIN Carried' : Carried'[k] = Replies'[i]
    BY <1>1, <1>2 DEF QueueInv
  <1>9. Carried' \in Seq(Nat)
    BY <1>1 DEF QueueInv
  <1> QED
    BY <1>2, <1>4, <1>6, <1>7, <1>8, <1>9 DEF QueueInv, Queue!Increasing

LEMMA QueueLose == ASSUME QueueInv, Queue!Lose PROVE QueueInv'
  <1>1. Carried' = Carried /\ answered' = answered
        /\ (Replies' = Replies \/ (Replies # <<>> /\ Replies' = Tail(Replies)))
    BY DEF Queue!Lose
  <1>2. CASE Replies' = Replies
    BY <1>1, <1>2 DEF QueueInv, Queue!InOrder, Queue!Increasing
  <1>3. CASE Replies # <<>> /\ Replies' = Tail(Replies)
    <2>1. /\ Replies' \in Seq(Nat) /\ Queue!Increasing(Replies')
          /\ \A j \in DOMAIN Replies' : j + 1 \in DOMAIN Replies /\ Replies'[j] = Replies[j + 1]
      BY <1>3, IncreasingTail DEF QueueInv
    <2>2. \A i \in DOMAIN answered', j \in DOMAIN Replies' : answered'[i] < Replies'[j]
      BY <1>1, <2>1 DEF QueueInv
    <2>3. \A i \in DOMAIN Replies' : \E k \in DOMAIN Carried' : Carried'[k] = Replies'[i]
      BY <1>1, <2>1 DEF QueueInv
    <2>4. Queue!InOrder'
      BY <1>1 DEF QueueInv, Queue!InOrder, Queue!Increasing
    <2>5. Carried' \in Seq(Nat) /\ answered' \in Seq(Nat)
      BY <1>1 DEF QueueInv
    <2> QED
      BY <2>1, <2>2, <2>3, <2>4, <2>5 DEF QueueInv, Queue!Increasing
  <1> QED
    BY <1>1, <1>2, <1>3

LEMMA QueueKeeps == ASSUME QueueInv, [Queue!RRNext]_(Queue!rrVars) PROVE QueueInv'
  <1>1. CASE Queue!Send \/ UNCHANGED Queue!rrVars
    BY <1>1 DEF Queue!Send, Queue!rrVars, QueueInv, Queue!InOrder, Queue!Increasing
  <1> QED
    BY <1>1, QueueExecute, QueueDeliver, QueueLose DEF Queue!RRNext

LEMMA QueueInvariant == ASSUME Gapped PROVE SpiSpec => []QueueInv
  <1>1. Queue!RRSpec => []QueueInv
    BY QueueInit, QueueKeeps, PTL DEF Queue!RRSpec
  <1> QED
    BY LinkImplements, <1>1, PTL DEF ImplementsRequestReply

(* Whatever is spoilt or lost on the link, requests are carried out in the *)
(* order sent, none twice, and the host receives replies in that order,    *)
(* none twice, only to what was carried out (MC_Comms_HandleTransaction    *)
(* behind the two transmit buffers): it needs no retransmission check of   *)
(* its own.                                                                *)
THEOREM LinkInOrder == ASSUME Gapped PROVE SpiSpec => []Queue!InOrder
  <1>1. QueueInv => Queue!InOrder
    BY DEF QueueInv
  <1> QED
    BY QueueInvariant, <1>1, PTL

(* A reply in a transmit buffer stays there until the host has it, in      *)
(* every step but an SPI error, and only an error puts the DMA out of step *)
(* with the master's frames (HAL_SPI_TxRxCpltCallback fills the buffer     *)
(* that is not armed, HAL_SPI_ErrorCallback wipes the one that is).  With  *)
(* a master that goes on polling this is why every reply arrives.          *)
THEOREM RepliesKept == ASSUME Gapped PROVE SpiSpec => ReplyKept
  <1>1. ASSUME LInv, QueueInv, [SpiNext]_spiVars
        PROVE  [InStep /\ errors' = errors =>
                   /\ InStep'
                   /\ \A n \in Request : Owed(n) => Owed(n)' \/ Answered(n)']_spiVars
    <2> SUFFICES ASSUME SpiNext, InStep, errors' = errors
                 PROVE  InStep' /\ \A n \in Request : Owed(n) => Owed(n)' \/ Answered(n)'
      BY <1>1
    <2>1. Replies \in Seq(Nat) /\ answered \in Seq(0 .. MaxRequests)
      BY <1>1 DEF QueueInv, LInv, IInv, SpiTypeOK
    <2>2. InStep' /\ (Replies' = Replies \/ Queue!Deliver \/ Queue!Execute)
      BY <1>1, StepKeepsReplies
    <2> QED
      BY <2>1, <2>2, OwedOrAnswered
  <1> QED
    BY BufferInvariant, QueueInvariant, <1>1, PTL DEF SpiSpec, ReplyKept
===============================================================================
