---------------------------- MODULE Comms_proofs ----------------------------
(***************************************************************************)
(* Proofs about Comms: the dead-man for any decimation, timeout and delay  *)
(* of the slow loop, and the version of the telemetry map for any table.   *)
(*                                                                         *)
(* The dead-man counts checks, the host's silence is measured in ticks,    *)
(* and neither the checks nor the starts of the slow loop are evenly       *)
(* spaced.  The invariant bounds the silence by the checks that have       *)
(* counted it (Counted) plus the time since the slow loop last started     *)
(* (Elapsed): two starts are never more than Period apart, since a slow    *)
(* loop that has just started has left no slow tick behind (Started).      *)
(* The other way round, the slow ticks counted as silent are Div apart, so *)
(* that the dead-man does not act too soon (Spaced).                       *)
(***************************************************************************)
EXTENDS Comms, TLAPS

(* Ticks since the slow loop started, as far as the clock knows.           *)
Elapsed == IF spc # "idle" THEN busy ELSE IF pending THEN Period ELSE div

(* Starts of the slow loop since the last command, at most.                *)
Counted == CASE spc = "run" -> (IF fresh THEN 1 ELSE stall + 2)
             [] OTHER       -> (IF fresh THEN 0 ELSE stall + 1)

(* The command is fresh enough, or remote operation is.                    *)
Recent(ticks) == silent <= ticks \/ remote <= ticks

Started == spc # "idle" /\ ~pending => busy <= div
Linked  == target = "host" => linkActive
Benched == inject => remote = 0
Few     == target = "host" /\ ~fresh => IF spc = "zero" THEN stall = Limit ELSE stall < Limit
Waited  == target = "host" => Recent(Counted * Period + Elapsed)

IInv == TypeOK /\ Started /\ Linked /\ Benched /\ Few /\ Waited
-----------------------------------------------------------------------------
USE CommsAssumption DEF watchdog, clock, telemetry

LEMMA Bounds == /\ Period \in Nat /\ Period >= 1 /\ Div <= Period /\ MaxBusy <= Period
                /\ Bound \in Nat
  <1>1. Period \in Nat /\ Period >= 1 /\ Div <= Period /\ MaxBusy <= Period
    BY DEF Period
  <1>2. (Limit + 1) * Period \in Nat
    BY <1>1
  <1> QED
    BY <1>1, <1>2 DEF Bound

(* The decimation counts modulo Div.                                       *)
LEMMA Decimation ==
    ASSUME NEW d \in 0 .. Div - 1
    PROVE  (d + 1) % Div = IF d + 1 = Div THEN 0 ELSE d + 1
  <1>1. \A a, b \in Nat : b # 0 /\ a < b => a % b = a
    OBVIOUS
  <1>2. Div % Div = 0
    OBVIOUS
  <1> QED
    BY <1>1, <1>2

(* The variables that are not Boolean.                                     *)
Numbers == /\ target \in {"host", "zero"} /\ stall \in 0 .. Limit + 1
           /\ div \in 0 .. Div - 1 /\ spc \in {"idle", "run", "zero"} /\ busy \in 0 .. MaxBusy
           /\ silent \in 0 .. Bound + 1 /\ remote \in 0 .. Bound + 1
           /\ map \in [1 .. MaxEntries -> Entries \cup {NoEntry}]
           /\ count \in 0 .. MaxEntries /\ version \in 0 .. Versions - 1

Booleans == /\ linkActive \in BOOLEAN /\ fresh \in BOOLEAN
            /\ inject \in BOOLEAN /\ pending \in BOOLEAN

LEMMA Types == TypeOK <=> Numbers /\ Booleans
  BY Zenon DEF TypeOK, Numbers, Booleans

LEMMA BooleansKept == Booleans /\ [Next]_commsVars => Booleans'
  <1> SUFFICES ASSUME Booleans, [Next]_commsVars PROVE Booleans'
    OBVIOUS
  <1> USE DEF Booleans
  <1>1. CASE ApplyCyclic
    BY Zenon, <1>1 DEF ApplyCyclic
  <1>2. CASE WriteCount
    BY Zenon, <1>2 DEF WriteCount
  <1>3. CASE WriteSlot
    BY Zenon, <1>3 DEF WriteSlot
  <1>4. CASE MediumTick
    <2>1. pending' = (pending \/ div' = 0)
          /\ UNCHANGED <<linkActive, fresh, inject>>
      BY Zenon, <1>4 DEF MediumTick
    <2> QED
      BY Zenon, <2>1
  <1>5. CASE ServiceBackground
    BY Zenon, <1>5 DEF ServiceBackground
  <1>6. CASE CheckCommand
    BY Zenon, <1>6 DEF CheckCommand, CountStalls
  <1>7. CASE ZeroVelocity
    BY Zenon, <1>7 DEF ZeroVelocity
  <1>8. CASE SwitchBench
    <2>1. inject' = ~inject /\ UNCHANGED <<linkActive, fresh, pending>>
      BY Zenon, <1>8 DEF SwitchBench
    <2> QED
      BY Zenon, <2>1
  <1>9. CASE UNCHANGED commsVars
    BY Zenon, <1>9 DEF commsVars
  <1> QED
    BY Zenon, <1>1, <1>2, <1>3, <1>4, <1>5, <1>6, <1>7, <1>8, <1>9 DEF Next

LEMMA NumbersKept == Numbers /\ [Next]_commsVars => Numbers'
  <1> SUFFICES ASSUME Numbers, [Next]_commsVars PROVE Numbers'
    OBVIOUS
  <1> USE DEF Numbers
  <1>1. CASE ApplyCyclic
    BY <1>1, Bounds DEF ApplyCyclic
  <1>2. CASE WriteCount
    <2>1. PICK n \in 0 .. MaxEntries : Activate(n)
          /\ UNCHANGED <<target, watchdog, inject, clock, silent, remote>>
      BY <1>2 DEF WriteCount
    <2>2. (version + 1) % Versions \in 0 .. Versions - 1
      OBVIOUS
    <2> QED
      BY <2>1, <2>2 DEF Activate
  <1>3. CASE WriteSlot
    BY <1>3 DEF WriteSlot
  <1>4. CASE MediumTick
    <2>1. (div + 1) % Div \in 0 .. Div - 1
      OBVIOUS
    <2>2. Capped(silent, Bound + 1) \in 0 .. Bound + 1 /\ Capped(remote, Bound + 1) \in 0 .. Bound + 1
      BY Bounds DEF Capped
    <2>3. busy' \in 0 .. MaxBusy
      BY <1>4 DEF MediumTick
    <2>4. silent' \in 0 .. Bound + 1 /\ remote' \in 0 .. Bound + 1 /\ div' \in 0 .. Div - 1
      BY <1>4, <2>1, <2>2, Bounds DEF MediumTick
    <2>5. UNCHANGED <<target, stall, spc, map, count, version>>
      BY <1>4 DEF MediumTick
    <2> QED
      BY <2>3, <2>4, <2>5
  <1>5. CASE ServiceBackground
    BY <1>5 DEF ServiceBackground
  <1>6. CASE CheckCommand
    <2>1. Capped(stall, Limit + 1) \in 0 .. Limit + 1
      BY DEF Capped
    <2>2. stall' \in 0 .. Limit + 1
      BY <1>6, <2>1 DEF CheckCommand, CountStalls
    <2>3. spc' \in {"idle", "zero"} /\ busy' \in 0 .. MaxBusy
      BY <1>6 DEF CheckCommand
    <2>4. UNCHANGED <<target, div, silent, remote, map, count, version>>
      BY <1>6 DEF CheckCommand
    <2> QED
      BY <2>2, <2>3, <2>4
  <1>7. CASE ZeroVelocity
    BY <1>7 DEF ZeroVelocity
  <1>8. CASE SwitchBench
    BY <1>8, Bounds DEF SwitchBench
  <1>9. CASE UNCHANGED commsVars
    BY <1>9 DEF commsVars
  <1> QED
    BY <1>1, <1>2, <1>3, <1>4, <1>5, <1>6, <1>7, <1>8, <1>9 DEF Next

LEMMA InitIInv == Init => IInv
  <1> SUFFICES ASSUME Init PROVE IInv
    OBVIOUS
  <1>1. Booleans
    BY Zenon DEF Init, Booleans
  <1>2. Numbers
    BY Bounds DEF Init, Numbers
  <1>3. Started /\ Linked /\ Benched /\ Few /\ Waited
    BY DEF Init, Started, Linked, Benched, Few, Waited
  <1> QED
    BY <1>1, <1>2, <1>3, Types DEF IInv

(* One more check, one more period.                                        *)
LEMMA OneMore == \A k \in Nat : k * Period \in Nat /\ (k + 1) * Period = k * Period + Period
  BY Bounds

(* Recent is monotone, and a tick makes everything older by one.           *)
LEMMA Later ==
    ASSUME Numbers, NEW x \in Nat, NEW y \in Nat, Recent(x)
    PROVE  /\ x <= y /\ silent' = silent /\ remote' = remote => Recent(y)'
           /\ x < y /\ MediumTick => Recent(y)'
  <1>1. x <= y /\ silent' = silent /\ remote' = remote => Recent(y)'
    BY DEF Recent, Numbers
  <1>2. ASSUME x < y, MediumTick
        PROVE  Recent(y)'
    <2>1. silent' <= silent + 1 /\ remote' <= remote + 1 /\ silent' \in Nat /\ remote' \in Nat
      <3>1. Capped(silent, Bound + 1) <= silent + 1 /\ Capped(remote, Bound + 1) <= remote + 1
            /\ Capped(silent, Bound + 1) \in Nat /\ Capped(remote, Bound + 1) \in Nat
        BY Bounds DEF Capped, Numbers
      <3> QED
        BY <1>2, <3>1 DEF MediumTick, Numbers
    <2> QED
      BY <1>2, <2>1 DEF Recent, Numbers
  <1> QED
    BY <1>1, <1>2

(* Types of what is counted.                                               *)
Counts == Numbers /\ Counted \in Nat /\ Elapsed \in Nat

LEMMA CountsTyped == Numbers => Counts
  <1> SUFFICES ASSUME Numbers PROVE Counts
    OBVIOUS
  <1>1. Elapsed \in Nat
    BY Bounds DEF Elapsed, Numbers
  <1>2. stall \in Nat
    BY DEF Numbers
  <1>3. Counted \in {0, 1, stall + 1, stall + 2}
    BY Zenon DEF Counted
  <1> QED
    BY <1>1, <1>2, <1>3 DEF Counts

(* Nobody waits longer when the same checks count and the time goes on.    *)
LEMMA SameCount ==
    ASSUME Counts, Counts', Waited, target = "host", Counted' = Counted,
           \/ silent' = silent /\ remote' = remote /\ Elapsed <= Elapsed'
           \/ MediumTick /\ Elapsed + 1 <= Elapsed'
    PROVE  Waited'
  <1>1. Counted * Period \in Nat
    BY OneMore DEF Counts
  <1>2. PICK x \in Nat : x = Counted * Period + Elapsed
    BY <1>1 DEF Counts
  <1>3. PICK y \in Nat : y = Counted' * Period + Elapsed'
    BY <1>1 DEF Counts
  <1>4. Recent(x)
    BY <1>2 DEF Waited
  <1>5. x <= y /\ (Elapsed + 1 <= Elapsed' => x < y)
    BY <1>1, <1>2, <1>3 DEF Counts
  <1>6. Recent(y)'
    BY <1>4, <1>5, Later DEF Counts
  <1> QED
    BY <1>3, <1>6 DEF Waited, Recent

(* A start counts one check more and begins a new period.                  *)
LEMMA StartCounts ==
    ASSUME Counts, Counts', Waited, target = "host", Counted' = Counted + 1,
           Elapsed = Period, Elapsed' = 0, silent' = silent, remote' = remote
    PROVE  Waited'
  <1>1. Counted * Period \in Nat /\ Counted' * Period = Counted * Period + Period
    BY OneMore DEF Counts
  <1> DEFINE x == Counted * Period + Elapsed
  <1>2. x \in Nat /\ Recent(x) /\ Counted' * Period + Elapsed' = x
    BY <1>1, Bounds DEF Counts, Waited
  <1> QED
    BY <1>2 DEF Waited, Recent

LEMMA NowRecent ==
    ASSUME Counts', silent' = 0 \/ remote' = 0
    PROVE  Waited'
  <1>1. Counted' * Period \in Nat
    BY OneMore DEF Counts
  <1> QED
    BY <1>1 DEF Waited, Recent, Counts
LEMMA WaitedKept ==
    ASSUME Counts, Counts', Started, Linked, Linked', Benched, Few, Waited, [Next]_commsVars
    PROVE  Waited'
  <1> SUFFICES ASSUME target' = "host" PROVE Waited'
    BY DEF Waited
  <1>1. CASE ApplyCyclic
    BY <1>1, NowRecent DEF ApplyCyclic
  <1>2. CASE SwitchBench
    BY <1>2, NowRecent DEF SwitchBench
  <1>3. CASE WriteCount \/ WriteSlot \/ UNCHANGED commsVars
    <2>1. UNCHANGED <<target, fresh, stall, spc, busy, pending, div, silent, remote>>
      BY <1>3 DEF WriteCount, WriteSlot, commsVars
    <2>2. Counted' = Counted /\ Elapsed' = Elapsed
      BY <2>1 DEF Counted, Elapsed
    <2> QED
      BY <2>1, <2>2, SameCount DEF Counts
  <1>4. CASE MediumTick
    <2>1. /\ UNCHANGED <<target, fresh, stall, spc>>
          /\ busy' = IF spc = "idle" THEN 0 ELSE busy + 1
          /\ div' = (div + 1) % Div /\ (pending' <=> pending \/ div' = 0)
          /\ (spc = "idle" => ~pending)
      BY <1>4 DEF MediumTick
    <2>2. Counted' = Counted
      BY <2>1 DEF Counted
    <2>3. div' = IF div + 1 = Div THEN 0 ELSE div + 1
      BY <2>1, Decimation DEF Counts, Numbers
    <2>4. Elapsed + 1 <= Elapsed'
      BY <2>1, <2>3, Bounds DEF Elapsed, Counts, Numbers
    <2> QED
      BY <1>4, <2>1, <2>2, <2>4, SameCount
  <1>5. CASE ServiceBackground
    <2>1. /\ spc = "idle" /\ pending /\ spc' = "run" /\ busy' = 0
          /\ UNCHANGED <<target, fresh, stall, silent, remote>>
      BY <1>5 DEF ServiceBackground
    <2>2. Elapsed = Period /\ Elapsed' = 0
      BY <2>1 DEF Elapsed
    <2>3. Counted = IF fresh THEN 0 ELSE stall + 1
      BY <2>1 DEF Counted
    <2>4. Counted' = IF fresh THEN 1 ELSE stall + 2
      BY <2>1 DEF Counted
    <2>5. Counted' = Counted + 1
      BY <2>3, <2>4 DEF Counts, Numbers
    <2> QED
      BY <2>1, <2>2, <2>5, StartCounts
  <1>6. CASE CheckCommand
    <2>1. /\ spc = "run" /\ spc' \in {"idle", "zero"}
          /\ busy' = (IF spc' = "idle" THEN 0 ELSE busy)
          /\ UNCHANGED <<target, linkActive, inject, div, pending, silent, remote>>
      BY <1>6 DEF CheckCommand
    <2>2. CASE inject \/ ~linkActive
      <3>1. remote' = 0
        BY <2>1, <2>2 DEF Linked, Benched
      <3> QED
        BY <3>1, NowRecent
    <2>3. CASE CountStalls /\ (stall' >= Limit <=> spc' = "zero")
      <3>1. Elapsed <= Elapsed'
        BY <2>1, Bounds DEF Elapsed, Started, Counts, Numbers
      <3>2. ~fresh'
        BY <2>3 DEF CountStalls
      <3>3. stall' = IF fresh THEN 0 ELSE stall + 1
        BY <2>1, <2>3 DEF CountStalls, Few, Capped, Counts, Numbers
      <3>4. Counted' = stall' + 1
        BY <2>1, <3>2 DEF Counted
      <3>5. Counted = IF fresh THEN 1 ELSE stall + 2
        BY <2>1 DEF Counted
      <3>6. Counted' = Counted
        BY <3>3, <3>4, <3>5 DEF Counts, Numbers
      <3> QED
        BY <2>1, <3>1, <3>6, SameCount
    <2> QED
      BY <1>6, <2>2, <2>3 DEF CheckCommand, CountStalls
  <1>7. CASE ZeroVelocity
    BY <1>7 DEF ZeroVelocity
  <1> QED
    BY <1>1, <1>2, <1>3, <1>4, <1>5, <1>6, <1>7 DEF Next

LEMMA OthersKept ==
    ASSUME Numbers, Numbers', Started, Linked, Benched, Few, [Next]_commsVars
    PROVE  Started' /\ Linked' /\ Benched' /\ Few'
  <1> USE DEF Numbers, Started, Linked, Benched, Few
  <1>1. CASE ApplyCyclic
    BY <1>1 DEF ApplyCyclic
  <1>2. CASE SwitchBench
    BY <1>2 DEF SwitchBench
  <1>3. CASE WriteCount \/ WriteSlot \/ UNCHANGED commsVars
    BY <1>3 DEF WriteCount, WriteSlot, commsVars
  <1>4. CASE MediumTick
    <2>1. /\ UNCHANGED <<target, linkActive, inject, fresh, stall, spc>>
          /\ busy' = IF spc = "idle" THEN 0 ELSE busy + 1
          /\ div' = (div + 1) % Div /\ (pending' <=> pending \/ div' = 0)
          /\ remote' = IF inject THEN 0 ELSE Capped(remote, Bound + 1)
      BY <1>4 DEF MediumTick
    <2>2. div' = IF div + 1 = Div THEN 0 ELSE div + 1
      BY <2>1, Decimation
    <2> QED
      BY <2>1, <2>2
  <1>5. CASE ServiceBackground
    BY <1>5 DEF ServiceBackground
  <1>6. CASE CheckCommand
    <2>1. /\ spc = "run"
          /\ UNCHANGED <<target, linkActive, inject, div, pending, remote>>
          /\ busy' = IF spc' = "idle" THEN 0 ELSE busy
      BY <1>6 DEF CheckCommand
    <2>2. CASE (inject \/ ~linkActive) /\ spc' = "idle" /\ UNCHANGED <<fresh, stall>>
      BY <2>1, <2>2
    <2>3. CASE CountStalls /\ spc' = IF stall' >= Limit THEN "zero" ELSE "idle"
      <3>1. stall' = IF fresh THEN 0 ELSE Capped(stall, Limit + 1)
        BY <2>3 DEF CountStalls
      <3>2. target = "host" => stall' <= Limit
        BY <2>1, <3>1 DEF Capped
      <3> QED
        BY <2>1, <2>3, <3>2
    <2> QED
      BY <1>6, <2>2, <2>3 DEF CheckCommand
  <1>7. CASE ZeroVelocity
    BY <1>7 DEF ZeroVelocity
  <1> QED
    BY <1>1, <1>2, <1>3, <1>4, <1>5, <1>6, <1>7 DEF Next

LEMMA Invariant == Spec => []IInv
  <1>1. ASSUME IInv, [Next]_commsVars PROVE IInv'
    <2>1. Numbers /\ Booleans
      BY <1>1, Types DEF IInv
    <2>2. Numbers' /\ Booleans'
      BY <1>1, <2>1, NumbersKept, BooleansKept
    <2>3. TypeOK'
      BY Zenon, <2>2 DEF TypeOK, Numbers, Booleans
    <2>4. Counts /\ Counts'
      <3>1. Numbers' => Counts'
        BY CountsTyped, PTL
      <3> QED
        BY <2>1, <2>2, <3>1, CountsTyped
    <2> QED
      BY <1>1, <2>1, <2>2, <2>3, <2>4, WaitedKept, OthersKept DEF IInv
  <1> QED
    BY <1>1, InitIInv, PTL DEF Spec

-----------------------------------------------------------------------------
(* The properties.                                                         *)

(* Type correctness.                                                       *)
THEOREM TypeCorrect == Spec => []TypeOK
  <1>1. IInv => TypeOK
    BY DEF IInv
  <1> QED
    BY <1>1, Invariant, PTL

(* The dead-man (mc_comms.c and the slow loop of mc_scheduler.c): a host   *)
(* that falls silent has its velocity zeroed within Bound ticks of remote  *)
(* operation, for every decimation, timeout and delay of the slow loop.    *)
THEOREM SilenceZeroes == Spec => []SilenceStops
  <1>1. ASSUME IInv, target = "host" PROVE silent <= Bound \/ remote <= Bound
    <2>1. Numbers /\ Counts
      BY <1>1, Types, CountsTyped DEF IInv
    <2>2. Recent(Counted * Period + Elapsed)
      BY <1>1 DEF IInv, Waited
    <2>3. /\ spc = "idle" => Counted <= Limit /\ Elapsed <= Period
          /\ spc # "idle" => Counted <= Limit + 1 /\ Elapsed <= MaxBusy
      <3>1. Elapsed <= Period /\ (spc # "idle" => Elapsed <= MaxBusy)
        BY <2>1, Bounds DEF Elapsed, Numbers
      <3>2. fresh => Counted <= 1 /\ (spc = "idle" => Counted = 0)
        BY <2>1 DEF Counted, Numbers
      <3>3. CASE ~fresh /\ spc = "zero"
        <4>1. stall = Limit
          BY <1>1, <3>3 DEF IInv, Few
        <4> QED
          BY <3>1, <3>3, <4>1 DEF Counted
      <3>4. CASE ~fresh /\ spc # "zero"
        <4>1. stall < Limit
          BY <1>1, <3>4 DEF IInv, Few
        <4>2. Counted = IF spc = "run" THEN stall + 2 ELSE stall + 1
          BY <3>4 DEF Counted
        <4> QED
          BY <2>1, <3>1, <3>4, <4>1, <4>2 DEF Numbers
      <3> QED
        BY <2>1, <3>1, <3>2, <3>3, <3>4 DEF Counts
    <2>4. \A a, b \in Nat : a <= b => a * Period <= b * Period
      BY Bounds
    <2>5. (Limit + 1) * Period = Limit * Period + Period /\ Limit * Period \in Nat
          /\ Counted * Period \in Nat
      BY <2>1, OneMore DEF Counts
    <2>6. Counted * Period + Elapsed <= Bound
      <3>1. CASE spc = "idle"
        <4>1. Counted * Period <= Limit * Period
          BY <2>1, <2>3, <2>4, <3>1 DEF Counts
        <4> QED
          BY <2>1, <2>3, <2>5, <3>1, <4>1, Bounds DEF Counts, Bound
      <3>2. CASE spc # "idle"
        <4>1. Counted * Period <= (Limit + 1) * Period
          BY <2>1, <2>3, <2>4, <3>2 DEF Counts
        <4> QED
          BY <2>1, <2>3, <2>5, <3>2, <4>1, Bounds DEF Counts, Bound
      <3> QED
        BY <3>1, <3>2
    <2> QED
      BY <2>1, <2>2, <2>5, <2>6, Bounds DEF Recent, Counts, Numbers
  <1>2. IInv => SilenceStops
    <2> SUFFICES ASSUME IInv, silent > Bound, remote > Bound PROVE target = "zero"
      BY DEF SilenceStops
    <2>1. Numbers
      BY Types DEF IInv
    <2> QED
      BY <1>1, <2>1, Bounds DEF Numbers
  <1> QED
    BY <1>2, Invariant, PTL

(* Slow ticks that fell due, taken or not, since the last check that found *)
(* a command: the silent checks, one being made, one not yet begun.        *)
Due == stall + (IF spc = "run" THEN 1 ELSE 0) + (IF pending THEN 1 ELSE 0)

(* They are Div ticks apart, and the last was div ticks ago at least.  The *)
(* first may have fallen due before the command, while the slow loop was   *)
(* busy; a slow loop that is quicker than a slow period starts when the    *)
(* slow tick is due (Prompt), and then only the check itself may be late.  *)
Quick == MaxBusy < Div

Prompt == Quick => /\ pending => div = 0 /\ spc = "idle"
                   /\ spc # "idle" => div = busy

Apart(due) == /\ Quick => silent + MaxBusy >= due * Div + div
              /\ due >= 2 => silent >= (due - 2) * Div + 1 + div

Spaced == ~fresh /\ silent <= Bound => Apart(Due)

LEMMA OneMoreTick == \A k \in Int : k * Div \in Int /\ (k + 1) * Div = k * Div + Div
  OBVIOUS

LEMMA Fewer == \A j, k \in Int : j <= k => j * Div <= k * Div
  OBVIOUS

LEMMA PromptKept ==
    ASSUME Numbers, Prompt, [Next]_commsVars
    PROVE  Prompt'
  <1> SUFFICES ASSUME Quick PROVE Prompt'
    BY DEF Prompt, Quick
  <1> USE DEF Numbers, Prompt, Quick
  <1>1. CASE ApplyCyclic \/ WriteCount \/ WriteSlot \/ SwitchBench \/ UNCHANGED commsVars
    BY <1>1 DEF ApplyCyclic, WriteCount, WriteSlot, SwitchBench, commsVars
  <1>2. CASE MediumTick
    <2>1. /\ IF spc = "idle" THEN ~pending ELSE busy < MaxBusy
          /\ busy' = IF spc = "idle" THEN 0 ELSE busy + 1
          /\ div' = (div + 1) % Div /\ (pending' <=> pending \/ div' = 0) /\ spc' = spc
      BY <1>2 DEF MediumTick
    <2>2. div' = IF div + 1 = Div THEN 0 ELSE div + 1
      BY <2>1, Decimation
    <2> QED
      BY <2>1, <2>2
  <1>3. CASE ServiceBackground
    BY <1>3 DEF ServiceBackground
  <1>4. CASE CheckCommand
    <2>1. spc = "run" /\ UNCHANGED <<div, pending>> /\ busy' = IF spc' = "idle" THEN 0 ELSE busy
      BY <1>4 DEF CheckCommand
    <2> QED
      BY <2>1
  <1>5. CASE ZeroVelocity
    BY <1>5 DEF ZeroVelocity
  <1> QED
    BY <1>1, <1>2, <1>3, <1>4, <1>5 DEF Next

LEMMA FewerApart ==
    ASSUME Numbers, NEW j \in Nat, NEW k \in Nat, j <= k, Apart(k)
    PROVE  Apart(j)
  <1>1. j * Div <= k * Div /\ (j - 2) * Div <= (k - 2) * Div
    BY Fewer
  <1>2. /\ j * Div \in Int /\ k * Div \in Int
        /\ (j - 2) * Div \in Int /\ (k - 2) * Div \in Int
    BY OneMoreTick
  <1> QED
    BY <1>1, <1>2 DEF Apart, Numbers, Bounds

LEMMA DueTyped == Numbers => Due \in Nat
  BY DEF Due, Numbers

LEMMA TickApart ==
    ASSUME Numbers, NEW j \in Nat, Apart(j), MediumTick, silent' <= Bound
    PROVE  /\ Apart(j)'
           /\ div' = 0 => Apart(j + 1)'
  <1>1. silent' = silent + 1 /\ silent \in Nat
    BY Bounds DEF MediumTick, Capped, Numbers
  <1>2. div' = (IF div + 1 = Div THEN 0 ELSE div + 1) /\ div \in 0 .. Div - 1
    BY Decimation DEF MediumTick, Numbers
  <1>3. /\ j * Div \in Int /\ (j + 1) * Div = j * Div + Div
        /\ (j - 2) * Div \in Int /\ (j - 1) * Div = (j - 2) * Div + Div
    BY OneMoreTick
  <1>4. (j + 1) - 2 = j - 1 /\ (j = 1 => (j - 1) * Div = 0)
    OBVIOUS
  <1> QED
    BY <1>1, <1>2, <1>3, <1>4 DEF Apart

LEMMA SpacedKept ==
    ASSUME Numbers, Numbers', Prompt, Spaced, [Next]_commsVars
    PROVE  Spaced'
  <1> SUFFICES ASSUME ~fresh', silent' <= Bound PROVE Apart(Due)'
    BY DEF Spaced, Apart
  <1>0. Due \in Nat /\ (~fresh /\ silent <= Bound => Apart(Due))
    BY DueTyped DEF Spaced, Apart
  <1>1. CASE ApplyCyclic
    BY <1>1 DEF ApplyCyclic
  <1>2. CASE WriteCount \/ WriteSlot \/ SwitchBench \/ UNCHANGED commsVars
    <2>1. UNCHANGED <<fresh, stall, silent, div, pending, spc>>
      BY <1>2 DEF WriteCount, WriteSlot, SwitchBench, commsVars
    <2> QED
      BY <1>0, <2>1 DEF Apart, Due
  <1>3. CASE MediumTick
    <2>1. /\ UNCHANGED <<fresh, stall, spc>>
          /\ (pending' <=> (pending \/ div' = 0))
          /\ silent <= Bound
      <3>1. UNCHANGED <<fresh, stall, spc>> /\ pending' = (pending \/ div' = 0)
            /\ silent' = Capped(silent, Bound + 1)
        BY Zenon, <1>3 DEF MediumTick
      <3>2. silent <= Bound
        BY <3>1, Bounds DEF Capped, Numbers
      <3> QED
        BY <3>1, <3>2
    <2>2. Due' = Due \/ (Due' = Due + 1 /\ div' = 0)
      BY <2>1 DEF Due, Numbers
    <2>3. Apart(Due)
      BY <1>0, <2>1
    <2> PICK j \in Nat : j = Due
      BY <1>0
    <2>4. Apart(j)
      BY <2>3
    <2>5. Apart(j)' /\ (div' = 0 => Apart(j + 1)')
      BY <1>3, <2>4, TickApart
    <2> QED
      BY <2>2, <2>5 DEF Apart
  <1>4. CASE ServiceBackground
    <2>1. UNCHANGED <<fresh, stall, silent, div>> /\ Due' = Due
      BY <1>4 DEF ServiceBackground, Due, Numbers
    <2> QED
      BY <1>0, <2>1 DEF Apart
  <1>5. CASE CheckCommand
    <2>1. spc = "run" /\ spc' # "run" /\ UNCHANGED <<silent, div, pending>>
      BY <1>5 DEF CheckCommand
    <2>2. CASE fresh
      <3>1. stall' = 0
        BY <1>5, <2>2 DEF CheckCommand, CountStalls
      <3>2. Due' = IF pending THEN 1 ELSE 0
        BY <2>1, <3>1 DEF Due
      <3>3. Quick => ~pending /\ div <= MaxBusy
        BY <2>1 DEF Prompt, Numbers
      <3> QED
        BY <2>1, <3>2, <3>3 DEF Apart, Numbers
    <2>3. CASE ~fresh
      <3>1. stall' <= stall + 1
        BY <1>5, <2>3 DEF CheckCommand, CountStalls, Capped, Numbers
      <3>2. Due' \in Nat /\ Due' <= Due
        <4> DEFINE p == IF pending THEN 1 ELSE 0
        <4>1. Due' = stall' + p /\ Due = stall + 1 + p /\ p \in Nat
          BY <2>1 DEF Due, Numbers
        <4>2. stall' \in Nat /\ stall \in Nat
          BY DEF Numbers
        <4>3. \A a, b, q \in Nat : a <= b + 1 => a + q \in Nat /\ a + q <= b + 1 + q
          OBVIOUS
        <4> HIDE DEF p
        <4> QED
          BY Zenon, <3>1, <4>1, <4>2, <4>3
      <3>3. Apart(Due)
        BY <1>0, <2>1, <2>3
      <3> PICK j \in Nat : j = Due'
        BY <3>2
      <3>4. Apart(j)
        BY <1>0, <3>2, <3>3, FewerApart
      <3> QED
        BY <2>1, <3>4 DEF Apart
    <2> QED
      BY <2>2, <2>3
  <1>6. CASE ZeroVelocity
    <2>1. UNCHANGED <<fresh, stall, silent, div>> /\ Due' = Due
      BY <1>6 DEF ZeroVelocity, Due, Numbers
    <2> QED
      BY <1>0, <2>1 DEF Apart
  <1> QED
    BY <1>1, <1>2, <1>3, <1>4, <1>5, <1>6 DEF Next

SInv == IInv /\ Prompt /\ Spaced

LEMMA SpacedInvariant == Spec => []SInv
  <1>1. Init => Prompt /\ Spaced
    <2> SUFFICES ASSUME Init PROVE Prompt /\ Spaced
      OBVIOUS
    <2>1. Due = 0 /\ div = 0 /\ silent = 0 /\ ~pending /\ spc = "idle"
      BY DEF Init, Due
    <2> QED
      BY <2>1 DEF Prompt, Spaced, Apart
  <1>2. IInv /\ IInv' /\ Prompt /\ Spaced /\ [Next]_commsVars => Prompt' /\ Spaced'
    <2> SUFFICES ASSUME IInv, IInv', Prompt, Spaced, [Next]_commsVars PROVE Prompt' /\ Spaced'
      OBVIOUS
    <2>1. Numbers
      BY Types DEF IInv
    <2>2. Numbers'
      BY DEF IInv, TypeOK, Numbers
    <2> QED
      BY <2>1, <2>2, PromptKept, SpacedKept
  <1> QED
    BY <1>1, <1>2, Invariant, PTL DEF Spec, SInv

(* The dead-man zeroes nothing while the host sends at least every Grace   *)
(* ticks, however the slow loop is delayed and its checks bunch.           *)
THEOREM ZeroedOnlyBySilence == Spec => OnlySilenceStops
  <1>1. ASSUME SInv, [Next]_commsVars, spc' = "zero", spc # "zero"
        PROVE  silent >= Grace
    <2>1. Numbers
      BY <1>1, Types DEF SInv, IInv
    <2>2. CheckCommand
      BY <1>1 DEF Next, ApplyCyclic, WriteCount, WriteSlot, MediumTick, ServiceBackground,
                  ZeroVelocity, SwitchBench, commsVars
    <2>3. spc = "run" /\ CountStalls /\ stall' >= Limit
      BY <1>1, <2>2 DEF CheckCommand
    <2>4. ~fresh /\ stall + 1 >= Limit
      BY <2>1, <2>3 DEF CountStalls, Capped, Numbers
    <2>5. Due \in Nat /\ Due >= Limit
      BY <2>1, <2>3, <2>4 DEF Due, Numbers
    <2>6. /\ Limit * Div <= Due * Div /\ (Limit - 2) * Div <= (Due - 2) * Div
          /\ Limit * Div \in Int /\ (Limit - 2) * Div \in Int
          /\ Due * Div \in Int /\ (Due - 2) * Div \in Int
      BY <2>5, Fewer, OneMoreTick
    <2>7. CASE silent <= Bound
      <3>1. Apart(Due)
        BY <1>1, <2>4, <2>7 DEF SInv, Spaced, Apart
      <3>2. CASE Quick
        BY <2>1, <2>6, <3>1, <3>2 DEF Apart, Quick, Grace, Numbers
      <3>3. CASE ~Quick /\ Due >= 2
        BY <2>1, <2>6, <3>1, <3>3 DEF Apart, Quick, Grace, Numbers
      <3>4. CASE ~Quick /\ Due < 2
        <4>1. Limit = 1 /\ (Limit - 2) * Div = 0 - Div
          BY <2>5, <3>4
        <4> QED
          BY <2>1, <3>4, <4>1 DEF Quick, Grace, Numbers
      <3> QED
        BY <2>5, <3>2, <3>3, <3>4
    <2>8. CASE silent > Bound
      <3>1. /\ (Limit + 1) * Period = Limit * Period + Period /\ Limit * Period \in Nat
            /\ Limit * Div <= Limit * Period /\ (Limit - 2) * Div <= Limit * Div
        <4>1. \A a, b \in Nat : a <= b => Limit * a <= Limit * b
          OBVIOUS
        <4> QED
          BY <4>1, OneMore, Bounds, Fewer
      <3>2. Grace <= Limit * Div + 1
        BY <2>6, <3>1 DEF Grace
      <3>3. Bound = Limit * Period + Period + MaxBusy
        BY <3>1 DEF Bound
      <3>4. Grace \in Int
        BY <2>6 DEF Grace
      <3>5. silent \in Nat
        BY <2>1 DEF Numbers
      <3> QED
        BY <2>6, <2>8, <3>1, <3>2, <3>3, <3>4, <3>5, Bounds
    <2> QED
      BY <2>1, <2>7, <2>8, Bounds DEF Numbers
  <1>2. SInv /\ [Next]_commsVars => [spc' = "zero" /\ spc # "zero" => silent >= Grace]_commsVars
    BY <1>1
  <1> QED
    BY <1>2, SpacedInvariant, PTL DEF Spec, OnlySilenceStops

(* What telemetry frames carry was validated when the map was activated    *)
(* (map_write of mc_comms.c), for a host that deactivates the map before   *)
(* it edits it.                                                            *)
THEOREM LayoutWasValidated == ASSUME Disciplined PROVE Spec => []LayoutValidated
  <1>1. Init => LayoutValidated
    BY DEF Init, LayoutValidated
  <1>2. ASSUME LayoutValidated, [Next]_commsVars
        PROVE  LayoutValidated'
    <2>1. CASE UNCHANGED <<map, count>>
      BY <1>2, <2>1 DEF LayoutValidated, Total, SizeOf
    <2>2. CASE WriteSlot
      BY <2>2 DEF WriteSlot, LayoutValidated
    <2>3. CASE WriteCount
      <3>1. PICK n \in 0 .. MaxEntries : Activatable(n) /\ count' = n /\ map' = map
        BY <2>3 DEF WriteCount, Activate
      <3>2. Total' = Total
        BY <3>1 DEF Total, SizeOf
      <3> QED
        BY <3>1, <3>2 DEF Activatable, LayoutValidated
    <2> QED
      BY <1>2, <2>1, <2>2, <2>3
         DEF Next, ApplyCyclic, MediumTick, ServiceBackground, CheckCommand, ZeroVelocity,
             SwitchBench, commsVars
  <1> QED
    BY <1>1, <1>2, PTL DEF Spec
===============================================================================
