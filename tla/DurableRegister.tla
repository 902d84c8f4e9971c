--------------------------- MODULE DurableRegister ---------------------------
(***************************************************************************)
(* What the A/B parameter store promises the rest of the firmware: one     *)
(* durable register whose value survives a loss of power.                  *)
(*                                                                         *)
(* A write first becomes tentative (it is complete in flash, but the store *)
(* has not acknowledged it) and is then acknowledged or withdrawn.  A loss *)
(* of power keeps the acknowledged value or promotes the tentative one;    *)
(* nothing else may come back.  From the start of a factory reset until it *)
(* has erased everything (or power is cycled) the store promises nothing   *)
(* about what the next boot finds.                                         *)
(***************************************************************************)
CONSTANTS Payload,      \* the parameter sets a caller may save
          None          \* "no record": the next boot loads defaults

VARIABLES committed,    \* the acknowledged value, or None
          tentative,    \* a value a loss of power may promote, or None
          resetting     \* a factory reset has begun and not erased everything

vars == <<committed, tentative, resetting>>

TypeOK == /\ committed \in Payload \cup {None}
          /\ tentative \in Payload \cup {None}
          /\ resetting \in BOOLEAN

Init == /\ committed = None
        /\ tentative = None
        /\ resetting = FALSE

Write == /\ ~resetting
         /\ tentative' \in Payload
         /\ UNCHANGED <<committed, resetting>>

Withdraw == /\ ~resetting
            /\ tentative' = None
            /\ UNCHANGED <<committed, resetting>>

Acknowledge == /\ ~resetting
               /\ tentative # None
               /\ committed' = tentative
               /\ tentative' = None
               /\ UNCHANGED resetting

BeginReset == /\ ~resetting
              /\ resetting' = TRUE
              /\ committed' = None
              /\ tentative' = None

EndReset == /\ resetting
            /\ resetting' = FALSE
            /\ UNCHANGED <<committed, tentative>>

(* Power is lost and the device boots again. *)
Crash == /\ \/ resetting /\ committed' \in Payload \cup {None}
            \/ ~resetting /\ committed' = committed
            \/ ~resetting /\ tentative # None /\ committed' = tentative
         /\ tentative' = None
         /\ resetting' = FALSE

Next == \/ Write
        \/ Withdraw
        \/ Acknowledge
        \/ BeginReset
        \/ EndReset
        \/ Crash

Spec == Init /\ [][Next]_vars
==============================================================================
