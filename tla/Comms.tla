-------------------------------- MODULE Comms --------------------------------
(***************************************************************************)
(* The protocol handler's lasting effects (src/src/mc_comms.c): the cyclic *)
(* command with its dead-man, and the telemetry map 0x2A00; with the tick  *)
(* decimation and the background loop of src/src/mc_scheduler.c that check *)
(* the dead-man.                                                           *)
(*                                                                         *)
(* A transaction is one step: the handler runs in the SPI interrupt, which *)
(* preempts the main loop, and the medium tick that preempts it touches    *)
(* nothing of its state.  Time is counted in medium ticks.  The host sets  *)
(* its velocity by cyclic commands; the other transactions of the handler  *)
(* refresh nothing and are left out.                                       *)
(***************************************************************************)
EXTENDS Integers

CONSTANTS Div,          \* medium ticks per slow tick (10)
          Limit,        \* slow ticks of silence that are a timeout (3)
          MaxBusy,      \* bound: medium ticks a slow loop may take (flash work)
          Bench,        \* a debugger switches commissioning on and off
          Entries,      \* telemetry map entries a host may write
          Mappable,     \* those that name a PDO-mappable object
          Size,         \* the bytes an entry claims
          MaxEntries,   \* MC_IF_TLM_MAX_ENTRIES
          BlobMax,      \* MC_IF_TLM_BLOB_MAX
          Versions,     \* values of the map version before it wraps (256)
          Disciplined   \* the host edits the map only while it is deactivated

NoEntry == "none"       \* the slot holds zeros: no object has index 0

ASSUME CommsAssumption ==
    /\ Div \in Nat \ {0} /\ Limit \in Nat \ {0} /\ MaxBusy \in Nat
    /\ Bench \in BOOLEAN /\ Disciplined \in BOOLEAN
    /\ NoEntry \notin Entries /\ Mappable \subseteq Entries
    /\ Size \in [Entries -> Nat \ {0}]
    /\ MaxEntries \in Nat /\ BlobMax \in Nat /\ Versions \in Nat \ {0, 1}

VARIABLES
    target,      \* g_od.target_velocity: what the host last sent, or zero
    linkActive,  \* s_link_active
    fresh,       \* s_cmd_fresh
    stall,       \* s_stall_ticks, which stops at 255; here one above Limit
    inject,      \* g_mc_inject.inject_enable
    div,         \* s_slow_div
    pending,     \* s_slow_pending
    spc,         \* where the slow loop is
    busy,        \* history: medium ticks since the slow loop started
    silent,      \* history: medium ticks since the last cyclic command
    remote,      \* history: medium ticks since commissioning was left
    map,         \* s_map
    count,       \* s_map_count
    version      \* s_map_version

watchdog  == <<linkActive, fresh, stall>>
clock     == <<div, pending, spc, busy>>
telemetry == <<map, count, version>>
commsVars == <<target, watchdog, inject, clock, silent, remote, telemetry>>

(* Two checks of the dead-man are at most Period ticks apart on average;   *)
(* slow ticks that fall due while the slow loop is busy collapse into one. *)
Period == IF MaxBusy < Div THEN Div ELSE MaxBusy

(* The silence after which the dead-man has acted: the check that takes    *)
(* the last command for fresh, Limit more, and the lateness of the last.   *)
Bound == (Limit + 1) * Period + MaxBusy

(* The silence before which it does not act.  A slow loop busy for longer  *)
(* than a slow period is followed by checks in quick succession.           *)
Grace == IF MaxBusy < Div THEN Limit * Div - MaxBusy ELSE (Limit - 2) * Div + 1

Init == /\ target = "zero"
        /\ linkActive = FALSE /\ fresh = FALSE /\ stall = 0
        /\ inject = FALSE
        /\ div = 0 /\ pending = FALSE /\ spc = "idle" /\ busy = 0
        /\ silent = 0 /\ remote = 0
        /\ map = [i \in 1 .. MaxEntries |-> NoEntry] /\ count = 0 /\ version = 0

-----------------------------------------------------------------------------
(* Transactions *)

(* apply_cyclic *)
ApplyCyclic == /\ target' = "host" /\ silent' = 0
               /\ fresh' = TRUE /\ linkActive' = TRUE
               /\ UNCHANGED <<stall, inject, clock, remote, telemetry>>

SizeOf(e) == IF e = NoEntry THEN 0 ELSE Size[e]
Total[k \in Nat] == IF k = 0 THEN 0 ELSE SizeOf(map[k]) + Total[k - 1]

(* Mutant: the last entry is not looked at.                                *)
ActivatableButLast(n) == /\ \A i \in 1 .. n - 1 : map[i] \in Mappable
                         /\ Total[n] <= BlobMax

(* What map_write checks: the entries exist and are PDOs, their sizes fit. *)
Activatable(n) == /\ \A i \in 1 .. n : map[i] \in Mappable
                  /\ Total[n] <= BlobMax

Activate(n) == /\ count' = n
               /\ version' = (version + 1) % Versions
               /\ UNCHANGED map

WriteCount == \E n \in 0 .. MaxEntries :
                 /\ Activatable(n)
                 /\ Activate(n)
                 /\ UNCHANGED <<target, watchdog, inject, clock, silent, remote>>

(* A slot is written in place, unchecked.                                  *)
WriteSlot == \E i \in 1 .. MaxEntries, e \in Entries :
                /\ Disciplined => count = 0
                /\ map' = [map EXCEPT ![i] = e]
                /\ UNCHANGED <<target, watchdog, inject, clock, silent, remote, count, version>>

-----------------------------------------------------------------------------
(* The medium tick's decimation, and the slow loop in the main loop *)

Capped(n, max) == IF n < max THEN n + 1 ELSE n

(* A pending slow tick is taken before the next medium tick; a slow loop   *)
(* may be at its flash work for MaxBusy of them.                           *)
MediumTick ==
    /\ IF spc = "idle" THEN ~pending ELSE busy < MaxBusy
    /\ busy' = IF spc = "idle" THEN 0 ELSE busy + 1
    /\ div' = (div + 1) % Div
    /\ pending' = (pending \/ div' = 0)
    /\ silent' = Capped(silent, Bound + 1)
    /\ remote' = IF inject THEN 0 ELSE Capped(remote, Bound + 1)
    /\ UNCHANGED <<target, watchdog, inject, spc, telemetry>>

ServiceBackground == /\ spc = "idle" /\ pending
                     /\ pending' = FALSE /\ spc' = "run" /\ busy' = 0
                     /\ UNCHANGED <<target, watchdog, inject, div, silent, remote, telemetry>>

(* Mutants: a command is taken for fresh for ever; it makes up for one     *)
(* silent check only; the count does not stop at its largest value.        *)
CountStallsFresh == /\ fresh' = fresh
                    /\ stall' = IF fresh THEN 0 ELSE Capped(stall, Limit + 1)
CountStallsOn    == /\ fresh' = FALSE
                    /\ stall' = IF fresh THEN 0 ELSE stall + 1
CountStallsDown  == /\ fresh' = FALSE
                    /\ stall' = IF ~fresh THEN Capped(stall, Limit + 1)
                                ELSE IF stall = 0 THEN 0 ELSE stall - 1

CountStalls == /\ fresh' = FALSE
               /\ stall' = IF fresh THEN 0 ELSE Capped(stall, Limit + 1)

(* MC_Comms_CommandTimedOut, asked unless commissioning.                   *)
CheckCommand ==
    /\ spc = "run"
    /\ \/ /\ ~inject /\ linkActive
          /\ CountStalls
          /\ spc' = IF stall' >= Limit THEN "zero" ELSE "idle"
       \/ /\ inject \/ ~linkActive
          /\ spc' = "idle"
          /\ UNCHANGED <<fresh, stall>>
    /\ busy' = IF spc' = "idle" THEN 0 ELSE busy
    /\ UNCHANGED <<target, linkActive, inject, div, pending, silent, remote, telemetry>>

(* The target is zeroed after the check: a command may have come between.  *)
ZeroVelocity == /\ spc = "zero"
                /\ target' = "zero" /\ spc' = "idle" /\ busy' = 0
                /\ UNCHANGED <<watchdog, inject, div, pending, silent, remote, telemetry>>

SwitchBench == /\ Bench
               /\ inject' = ~inject /\ remote' = 0
               /\ UNCHANGED <<target, watchdog, clock, silent, telemetry>>

Next == \/ ApplyCyclic \/ WriteCount \/ WriteSlot
        \/ MediumTick \/ ServiceBackground \/ CheckCommand \/ ZeroVelocity
        \/ SwitchBench

Spec == Init /\ [][Next]_commsVars

-----------------------------------------------------------------------------
(* Properties *)

(* Type invariant of the module.                                           *)
TypeOK == /\ target \in {"host", "zero"}
          /\ linkActive \in BOOLEAN /\ fresh \in BOOLEAN
          /\ stall \in 0 .. Limit + 1
          /\ inject \in BOOLEAN
          /\ div \in 0 .. Div - 1 /\ pending \in BOOLEAN
          /\ spc \in {"idle", "run", "zero"} /\ busy \in 0 .. MaxBusy
          /\ silent \in 0 .. Bound + 1 /\ remote \in 0 .. Bound + 1
          /\ map \in [1 .. MaxEntries -> Entries \cup {NoEntry}]
          /\ count \in 0 .. MaxEntries /\ version \in 0 .. Versions - 1

(* When the host falls silent its velocity does not outlive Bound ticks of *)
(* remote operation, however the slow loop is delayed and whatever         *)
(* commissioning came between.                                             *)
SilenceStops == silent > Bound /\ remote > Bound => target = "zero"

(* A host that sends at least every Grace ticks is never zeroed.           *)
OnlySilenceStops == [][spc' = "zero" /\ spc # "zero" => silent >= Grace]_commsVars

(* What the frames carry was validated: all entries are PDOs and all fit.  *)
LayoutValidated == count # 0 => /\ \A i \in 1 .. count : map[i] \in Mappable
                                /\ Total[count] <= BlobMax
==============================================================================
