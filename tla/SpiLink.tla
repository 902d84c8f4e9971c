------------------------------- MODULE SpiLink -------------------------------
(***************************************************************************)
(* The SPI slave: two transmit buffers, one receive buffer, one DMA pair   *)
(* (src/src/mc_spi_slave_stm32g474.c), with the protocol handler of        *)
(* src/src/mc_comms.c reduced to validate, dispatch and encode.            *)
(*                                                                         *)
(* The completion and error callbacks run at one interrupt priority, so    *)
(* they never nest; the DMA and the master go on while they run.  A frame  *)
(* is clocked in two parts, header and payload, so that a transfer aborted *)
(* half way, and a receive buffer overwritten while it is parsed, show.    *)
(* The master is external: it sends requests, or frames that ask for       *)
(* nothing (cyclic commands and heartbeats: a "poll"), for ever.           *)
(***************************************************************************)
EXTENDS Naturals, Sequences

CONSTANTS MaxRequests,  \* bound: requests the host numbers
          MaxErrors,    \* bound: SPI errors
          Gapped        \* the master leaves time for the handler between frames

ASSUME SpiAssumption == MaxRequests \in Nat /\ MaxErrors \in Nat /\ Gapped \in BOOLEAN

VARIABLES sent,         \* requests the master has sent
          clocking,     \* the frame of which the master has clocked out the first part
          read,         \* the frame the first part of which the master has read
          got,          \* parts the DMA has received since it was armed; 2 is complete
          rx,           \* s_rx: the parts received last, by place
          tx,           \* s_tx_a and s_tx_b
          armed,        \* s_armed
          prepared,     \* s_prepared
          justSent,     \* just_sent, the completion callback's local
          seq,          \* seq, the handler's local; 0 when it returns
          pc,           \* where the completion callback is
          errors,       \* SPI errors so far
          executed,     \* history: what was validated and what was carried out
          answered,     \* history: requests whose response the host received, in order
          refused       \* history: requests refused by an error reply the host received

master   == <<sent, clocking, read>>
handler  == <<armed, prepared, justSent, seq, pc>>
history  == <<executed, answered, refused>>
spiVars  == <<master, got, rx, tx, handler, errors, history>>

Buffer    == {"a", "b"}
Request   == 1 .. MaxRequests
Telemetry == [type |-> "telemetry", seq |-> 0]
Noise     == [type |-> "noise", seq |-> 0]
ReplyType == {"response", "error", "headerError"}
Reply     == {Telemetry} \cup [type : ReplyType, seq : 0 .. MaxRequests]

(* A part is the header or the payload of one message, or damaged.         *)
Message == [kind : {"request"}, seq : Request] \cup [kind : {"poll"}, seq : {0}]
Poll    == [kind |-> "poll", seq |-> 0]
Idle    == [kind |-> "none", seq |-> 0]
Part    == [place : {"header", "payload", "damaged"}, of : Message \cup {Idle}]

(* Mutant: the payload's CRC is not looked at.                             *)
WholeHeader(r) == r[1].place = "header"

(* Sync word and CRCs hold: header and payload of one message.             *)
Whole(r) == r[1].place = "header" /\ r[2].place = "payload" /\ r[1].of = r[2].of

SpiInit == /\ sent = 0 /\ clocking = Idle /\ read = Noise
           /\ got = 0
           /\ rx = [i \in 1 .. 2 |-> [place |-> "damaged", of |-> Idle]]
           /\ tx = [b \in Buffer |-> Telemetry]
           /\ armed = "a" /\ prepared = "b" /\ justSent = "b" /\ seq = 0
           /\ pc = "idle"
           /\ errors = 0 /\ executed = <<>> /\ answered = <<>> /\ refused = {}

-----------------------------------------------------------------------------
(* The master and the DMA: each part goes to the next place of s_rx, and   *)
(* the same place of the armed buffer goes out.  A part that finds the DMA *)
(* complete is lost.                                                       *)

(* Mutant: the DMA runs on past the frame.                                 *)
ReceiveOn(part, m) == /\ got' = got + 1
                      /\ \E p \in {part, "damaged"} :
                            rx' = [rx EXCEPT ![got'] = [place |-> p, of |-> m]]

Receive(part, m) ==
    IF got = 2 THEN UNCHANGED <<got, rx>>
               ELSE /\ got' = got + 1
                    /\ \E p \in {part, "damaged"} :
                          rx' = [rx EXCEPT ![got'] = [place |-> p, of |-> m]]

ClockHeader(m) ==
    /\ clocking = Idle /\ got # 2
    /\ Gapped => pc = "idle"
    /\ clocking' = m
    /\ read' = IF got = 0 THEN tx[armed] ELSE Noise
    /\ Receive("header", m)
    /\ UNCHANGED <<tx, handler, errors, history>>

ClockPoll    == ClockHeader(Poll) /\ UNCHANGED sent
ClockRequest == /\ sent < MaxRequests
                /\ sent' = sent + 1
                /\ ClockHeader([kind |-> "request", seq |-> sent'])

(* The host takes a reply both parts of which it read from one transfer.   *)
(* An error reply refuses the request it names, unless its class says that *)
(* the header it names it from was damaged.                                *)
ClockPayload ==
    /\ clocking # Idle
    /\ clocking' = Idle /\ read' = Noise
    /\ Receive("payload", clocking)
    /\ answered' = IF got = 1 /\ read.type = "response"
                   THEN Append(answered, read.seq) ELSE answered
    /\ refused' = IF got = 1 /\ read.type = "error"
                  THEN refused \cup {read.seq} ELSE refused
    /\ UNCHANGED <<sent, tx, handler, errors, executed>>

-----------------------------------------------------------------------------
(* Mutant: the next frame starts fresh, as the error callback's does.      *)
CompleteFresh == /\ pc = "idle" /\ got = 2
                 /\ justSent' = armed /\ armed' = prepared
                 /\ tx' = [tx EXCEPT ![prepared] = Telemetry]
                 /\ got' = 0
                 /\ pc' = "validate"
                 /\ UNCHANGED <<master, rx, prepared, seq, errors, history>>

(* HAL_SPI_TxRxCpltCallback: swap, re-arm at once, then handle the frame.  *)
(* A re-arm the HAL refuses is repeated after reset_and_arm unlocked its   *)
(* handles, and ends the same.                                             *)
Complete == /\ pc = "idle" /\ got = 2
            /\ justSent' = armed /\ armed' = prepared
            /\ got' = 0
            /\ pc' = "validate"
            /\ UNCHANGED <<master, rx, tx, prepared, seq, errors, history>>

(* Mutant: the handler fills the buffer the DMA is clocking out.           *)
AnswerArmed(reply) == /\ tx' = [tx EXCEPT ![armed] = reply]
                      /\ prepared' = justSent /\ seq' = 0 /\ pc' = "idle"
                      /\ UNCHANGED <<armed, justSent>>

(* The outbound frame goes to the freed buffer, which becomes the next.    *)
Answer(reply) == /\ tx' = [tx EXCEPT ![justSent] = reply]
                 /\ prepared' = justSent /\ seq' = 0 /\ pc' = "idle"
                 /\ UNCHANGED <<armed, justSent>>

(* The sequence field of a damaged or misplaced header may be anything.    *)
SequenceOf(r) == IF r[1].place = "header" THEN {r[1].of.seq} ELSE 0 .. MaxRequests

(* Mutant: every frame that fails is reported as a bad payload.            *)
RefusalUnclassed(r, n) == [type |-> "error", seq |-> n]

(* The class of an error reply: BAD_SYNC, BAD_VERSION and HEADER_CRC say   *)
(* that the header was damaged, BAD_LENGTH and PAYLOAD_CRC that it was not.*)
Refusal(r, n) == [type |-> IF r[1].place = "header" THEN "error" ELSE "headerError", seq |-> n]

(* MC_Comms_HandleTransaction up to the first use of the payload.          *)
Validate ==
    /\ pc = "validate"
    /\ \E n \in SequenceOf(rx) :
          \/ /\ Whole(rx)
             /\ seq' = n /\ pc' = "dispatch"
             /\ UNCHANGED <<tx, armed, prepared, justSent>>
          \/ ~Whole(rx) /\ Answer(Refusal(rx, n))
    /\ UNCHANGED <<master, got, rx, errors, history>>

(* The type and the payload are read from s_rx again, the sequence is not. *)
Dispatch ==
    /\ pc = "dispatch"
    /\ \/ /\ rx[1].place = "header" /\ rx[1].of.kind = "request"
          /\ executed' = Append(executed, [validated |-> seq, operation |-> rx[2]])
          /\ Answer([type |-> "response", seq |-> seq])
       \/ /\ ~(rx[1].place = "header" /\ rx[1].of.kind = "request")
          /\ Answer(IF rx[1].place = "header" THEN Telemetry
                    ELSE [type |-> "error", seq |-> seq])
          /\ UNCHANGED executed
    /\ UNCHANGED <<master, got, rx, errors, answered, refused>>

(* HAL_SPI_ErrorCallback: a fresh frame in the armed buffer, and the DMA   *)
(* is armed again from the start, also in the middle of a frame.           *)
Error == /\ pc = "idle" /\ errors < MaxErrors
         /\ errors' = errors + 1
         /\ tx' = [tx EXCEPT ![armed] = Telemetry]
         /\ got' = 0
         /\ UNCHANGED <<master, rx, handler, history>>

Handle  == Complete \/ Validate \/ Dispatch
SpiNext == ClockPoll \/ ClockRequest \/ ClockPayload \/ Handle \/ Error

SpiSpec == SpiInit /\ [][SpiNext]_spiVars

(* The master polls for ever, and the callback is an interrupt.            *)
SpiFairSpec == SpiSpec /\ WF_spiVars(ClockPoll) /\ WF_spiVars(ClockPayload) /\ WF_spiVars(Handle)

-----------------------------------------------------------------------------
(* Properties *)

(* Type invariant of the module.                                           *)
SpiTypeOK == /\ sent \in 0 .. MaxRequests
             /\ clocking \in Message \cup {Idle}
             /\ read \in Reply \cup {Noise}
             /\ got \in 0 .. 2
             /\ rx \in [1 .. 2 -> Part]
             /\ tx \in [Buffer -> Reply]
             /\ armed \in Buffer /\ prepared \in Buffer /\ justSent \in Buffer
             /\ seq \in 0 .. MaxRequests
             /\ pc \in {"idle", "validate", "dispatch"}
             /\ errors \in 0 .. MaxErrors
             /\ executed \in Seq([validated : 0 .. MaxRequests, operation : Part])
             /\ answered \in Seq(0 .. MaxRequests)
             /\ refused \subseteq 0 .. MaxRequests

(* What is carried out is the payload of the frame that was validated: the *)
(* single receive buffer is not overwritten between the check and the use. *)
AppliesWhatItValidated ==
    \A i \in DOMAIN executed :
       /\ executed[i].operation.place = "payload"
       /\ executed[i].operation.of.seq = executed[i].validated

(* A request the host takes for refused - by an error reply, received in   *)
(* whatever transaction, that says the header was good - was not carried   *)
(* out and is not any more, so the host may send it again.  (The number in *)
(* a reply about a damaged header may be that of any request, carried out  *)
(* or not: the host learns nothing from it.)                               *)
ErrorMeansNotExecuted ==
    \A i \in DOMAIN executed : executed[i].operation.of.seq \notin refused

(* A reply still in a buffer: the armed one counts until it is clocked     *)
(* out, the prepared one while it is not also the armed one.               *)
Waiting(b) == IF tx[b].type = "response" THEN <<tx[b].seq>> ELSE <<>>
Replies == (IF got = 0 \/ (got = 1 /\ clocking # Idle) THEN Waiting(armed) ELSE <<>>)
           \o (IF pc = "idle" THEN Waiting(prepared) ELSE <<>>)

(* A request the slave will still carry out.                               *)
Pending == {n \in Request :
               LET m == [kind |-> "request", seq |-> n] IN
               \/ /\ got = 1 /\ clocking = m
                  /\ rx[1] = [place |-> "header", of |-> m]
               \/ /\ got = 2 \/ pc # "idle"
                  /\ Whole(rx) /\ rx[1].of = m}

(* The numbers of the requests that were carried out.                      *)
Carried == [i \in DOMAIN executed |-> executed[i].operation.of.seq]

(* With a gap between frames, the double-buffered link is a request and    *)
(* reply queue that may lose but never repeats, reorders or invents.       *)
Queue == INSTANCE RequestReply WITH
            pending  <- Pending,
            executed <- Carried,
            replies  <- Replies

ImplementsRequestReply == Queue!RRSpec

InStep      == IF clocking = Idle THEN got # 1 ELSE got = 1
Answered(n) == \E i \in DOMAIN answered : answered[i] = n
Owed(n)     == \E i \in DOMAIN Replies : Replies[i] = n

(* Only an SPI error loses a reply or puts the DMA out of step: without    *)
(* one, no swap of the buffers, no later request and no damaged frame does *)
(* away with a reply the host has not received.                            *)
ReplyKept ==
    [][InStep /\ errors' = errors =>
          /\ InStep'
          /\ \A n \in Request : Owed(n) => Owed(n)' \/ Answered(n)']_spiVars

(* A reply in a buffer reaches the host, unless another SPI error strikes  *)
(* first - if the DMA starts its transfers where the master starts its     *)
(* frames, which an error in the middle of a frame may put an end to.      *)
ReplyArrives ==
    \A n \in Request, e \in 0 .. MaxErrors :
       Owed(n) /\ InStep /\ errors = e ~> Answered(n) \/ errors # e
==============================================================================
