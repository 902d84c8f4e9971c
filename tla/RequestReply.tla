---------------------------- MODULE RequestReply ----------------------------
(***************************************************************************)
(* What the SPI link promises the host about numbered object dictionary    *)
(* requests: a request is executed at most once and in the order sent, a   *)
(* reply belongs to a request that was executed, and replies come back in  *)
(* order, each at most once.  Requests and replies may be lost.            *)
(***************************************************************************)
EXTENDS Naturals, Sequences

CONSTANT MaxRequests    \* requests the host numbers

VARIABLES sent,         \* requests sent so far; the last one has this number
          pending,      \* requests under way to the motor MCU
          executed,     \* operations carried out, in order
          replies,      \* replies under way to the host, oldest first
          answered      \* replies the host received, in order

rrVars == <<sent, pending, executed, replies, answered>>

RRInit == sent = 0 /\ pending = {} /\ executed = <<>> /\ replies = <<>> /\ answered = <<>>

(* A request may be spoilt by the first bit that is sent.                  *)
Send == /\ sent < MaxRequests
        /\ sent' = sent + 1
        /\ pending' \in {pending, pending \cup {sent'}}
        /\ UNCHANGED <<executed, replies, answered>>

(* A request later than all that were carried out is carried out.          *)
Execute == \E n \in pending :
              /\ \A i \in DOMAIN executed : executed[i] < n
              /\ pending' = pending \ {n}
              /\ executed' = Append(executed, n)
              /\ replies' = Append(replies, n)
              /\ UNCHANGED <<sent, answered>>

(* The oldest reply arrives; or it is lost, and requests may be lost too.  *)
Deliver == /\ replies # <<>>
           /\ replies' = Tail(replies)
           /\ answered' = Append(answered, Head(replies))
           /\ pending' \in SUBSET pending
           /\ UNCHANGED <<sent, executed>>

Lose == /\ pending' \in SUBSET pending
        /\ replies' = replies \/ (replies # <<>> /\ replies' = Tail(replies))
        /\ UNCHANGED <<sent, executed, answered>>

RRNext == Send \/ Execute \/ Deliver \/ Lose

RRSpec == RRInit /\ [][RRNext]_rrVars

-----------------------------------------------------------------------------
(* Properties *)

Increasing(s) == \A i, j \in DOMAIN s : i < j => s[i] < s[j]

(* Requests are executed in the order sent and none twice; replies reach   *)
(* the host in that order, none twice, each for a request that was         *)
(* executed: whatever is lost, the host never takes one reply for another. *)
InOrder == /\ Increasing(executed)
           /\ Increasing(answered)
           /\ \A i \in DOMAIN answered :
                 \E k \in DOMAIN executed : executed[k] = answered[i]
==============================================================================
