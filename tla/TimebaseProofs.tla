--------------------------- MODULE TimebaseProofs ---------------------------
(***************************************************************************)
(* For every number of ticks in a second, every set of channels and every  *)
(* width of the counters: a second of the RTC holds the same number of     *)
(* ticks wherever its pulse comes, time moves forward, the callbacks and   *)
(* interrupts that the catch-up loop turns off are on again, no callback   *)
(* is entered twice, and between ticks every periodic channel is due       *)
(* within its period.                                                      *)
(***************************************************************************)
EXTENDS Timebase, FiniteSetTheorems, TLAPS

Inner == {"scan", "store", "callback", "mark", "marked", "reload", "clear"}

\* What a level executes: only Low ticks from its own interrupt, only the other
\* levels reset the count, and Low, the pulse and Main without requests have
\* nothing to do with the setting of the clock.
NestedAt(l) ==
  /\ frame[l].pc = "idle" => frame[l] = Idle
  /\ frame[l].pc \in Inner \ {"scan"} => frame[l].ch \in Channel
  /\ frame[l].pc = "zero" => frame[l].caller = "last"
  /\ frame[l].pc = "loop" => frame[l].caller # "last"
  /\ frame[l].pc \in Inner \cup {"enter"} /\ frame[l].caller = "isr" => l = Low
  /\ l = Low => /\ frame[l].pc \in Inner \cup {"enter", "idle"}
                /\ frame[l].caller = "isr"
  /\ l \in {Low, High} => ~frame[l].quiet
  /\ frame[l].pc # "idle" /\ l \in {Main, Med} => sets > 0 /\ l \in SetLevels

Nested == \A l \in Level : NestedAt(l)

\* Behind the last call of the catch-up loop the second is full.
LastCall ==
  frame[High].caller = "last" =>
    msec >= N - 1 /\ (frame[High].pc # "enter" => msec = N)

Counted == sets = 0 => ticks = (N * secs + msec) % TickWidth

\* Who turned the callbacks off will turn them on.
WillTurnOn ==
  runCallbacks \/ \E l \in SetLevels : frame[l].quiet /\ frame[l].caller # "last"

\* Who turned the interrupts off is still running, above the main loop.
WillRestore == Main \notin SetLevels /\ ~irq => \E l \in Level : ~InIdle(l)

IInv == TypeOK /\ Nested /\ LastCall /\ Counted /\ WillTurnOn /\ WillRestore

-----------------------------------------------------------------------------
(***************************************************************************)
(* Numbers.                                                                *)
(***************************************************************************)
LEMMA Widths ==
  /\ N \in Nat /\ N >= 2 /\ SecWidth \in Nat /\ SecWidth >= 1
  /\ TickWidth \in Nat /\ TickWidth >= 1 /\ TickWidth = N * SecWidth
  /\ CountWidth \in Nat /\ CountWidth >= 1
<1>1. N * (MaxNest + 2) \in Nat
  BY TimebaseAssumption
<1>2. CountWidth \in Nat /\ CountWidth > N * (MaxNest + 2)
  BY TimebaseAssumption
<1>3. N \in Nat /\ SecWidth \in Nat /\ N >= 2 /\ SecWidth >= 1
  BY TimebaseAssumption
<1>4. N * SecWidth >= 1 /\ N * SecWidth \in Nat
  BY <1>3
<1>5. QED
  BY <1>1, <1>2, <1>3, <1>4, TimebaseAssumption

LEMMA ModRange ==
  ASSUME NEW a \in Int, NEW w \in Nat, w >= 1
  PROVE  a % w \in 0 .. w - 1
OBVIOUS

LEMMA ModSmall ==
  ASSUME NEW w \in Nat, w >= 1
  PROVE  (\A a \in 0 .. w - 1 : a % w = a) /\ w % w = 0
OBVIOUS

\* N times the seconds plus the ticks of this one, counted modulo TickWidth.
LEMMA InSecond ==
  ASSUME NEW s \in 0 .. SecWidth - 1, NEW m \in 0 .. N
  PROVE  /\ N * s \in Nat /\ N * s + m \in 0 .. TickWidth
         /\ N * s + N = N * (s + 1)
<1>1. N \in Nat /\ s \in Nat /\ SecWidth \in Nat /\ s + 1 <= SecWidth
  BY Widths
<1>2. N * s + N = N * (s + 1)
  BY <1>1
<1>3. N * (s + 1) <= N * SecWidth
  BY <1>1
<1>4. N * s \in Nat
  BY <1>1
<1>5. QED
  BY <1>1, <1>2, <1>3, <1>4, Widths

LEMMA TickOn ==
  ASSUME NEW s \in 0 .. SecWidth - 1, NEW m \in 0 .. N - 1
  PROVE  (((N * s + m) % TickWidth) + 1) % TickWidth = (N * s + (m + 1)) % TickWidth
<1>1. m \in 0 .. N /\ m + 1 \in 0 .. N
  BY Widths
<1>2. N * s \in Nat /\ N * s + (m + 1) \in 0 .. TickWidth
  BY <1>1, InSecond
<1> DEFINE p == N * s
<1>3. p \in Nat /\ p + (m + 1) \in 0 .. TickWidth /\ TickWidth \in Nat /\ m \in Nat
  BY <1>2, Widths
<1> HIDE DEF p
<1>4. p + m \in 0 .. TickWidth - 1
  BY <1>3
<1>5. (p + m) % TickWidth = p + m
  BY <1>4, Widths, ModSmall
<1>6. (p + m) + 1 = p + (m + 1)
  BY <1>3
<1>7. (((p + m) % TickWidth) + 1) % TickWidth = (p + (m + 1)) % TickWidth
  BY <1>5, <1>6
<1>8. QED
  BY <1>7 DEF p

LEMMA SecondOn ==
  ASSUME NEW s \in 0 .. SecWidth - 1
  PROVE  (N * s + N) % TickWidth = (N * ((s + 1) % SecWidth) + 0) % TickWidth
<1>1. N \in 0 .. N /\ N \in Nat
  BY Widths
<1>2. N * s + N = N * (s + 1)
  BY <1>1, InSecond
<1>3. CASE s + 1 < SecWidth
  <2>1. (s + 1) % SecWidth = s + 1
    BY <1>3, Widths, ModSmall
  <2>2. N * (s + 1) + 0 = N * (s + 1)
    BY <1>1
  <2>3. QED
    BY <1>2, <2>1, <2>2
<1>4. CASE s + 1 = SecWidth
  <2>1. (s + 1) % SecWidth = 0
    BY <1>4, Widths, ModSmall
  <2>2. N * s + N = TickWidth
    BY <1>2, <1>4, Widths
  <2>3. TickWidth % TickWidth = 0 /\ 0 % TickWidth = 0
    BY Widths, ModSmall
  <2>4. N * 0 + 0 = 0
    BY <1>1
  <2>5. QED
    BY <2>1, <2>2, <2>3, <2>4
<1>5. QED
  BY <1>3, <1>4, Widths

-----------------------------------------------------------------------------
(***************************************************************************)
(* Frames.                                                                 *)
(***************************************************************************)
Frames == frame \in [Level -> Frame] /\ Nested

Others(l) == /\ frame' \in [Level -> Frame]
             /\ \A k \in Level \ {l} : frame'[k] = frame[k]

\* A step inside tick_handler.
Follows(l) ==
  /\ Others(l)
  /\ frame[l].pc \in Inner \cup {"enter"} /\ frame'[l].pc \in Inner
  /\ frame'[l].pc # "scan" => frame'[l].ch \in Channel
  /\ frame'[l].caller = frame[l].caller /\ frame'[l].quiet = frame[l].quiet

LEMMA Indices ==
  /\ Cardinality(Channel) \in Nat
  /\ \A c \in Channel : c \in 0 .. Cardinality(Channel) /\ c + 1 \in 0 .. Cardinality(Channel)
  /\ 0 \in 0 .. Cardinality(Channel) /\ 0 \in 0 .. CountWidth - 1
<1>1. Cardinality(Channel) \in Nat
  BY TimebaseAssumption, FS_CardinalityType
<1>2. \A c \in Channel : c \in 0 .. Cardinality(Channel) - 1
  BY TimebaseAssumption
<1>3. QED
  BY <1>1, <1>2, Widths

LEMMA IdleTyped == Idle \in Frame
BY Indices DEF Idle, Frame, Pc

LEMMA InnerStep ==
  ASSUME TypeOK, Nested, NEW l \in Level,
         \/ TickCounted(l) \/ ScanChannel(l) \/ StoreCount(l) \/ CallbackReturns(l)
         \/ LoadExpired(l) \/ StoreExpired(l) \/ Reload(l) \/ StoreActive(l)
  PROVE  Follows(l)
<1>1. /\ frame \in [Level -> Frame] /\ frame[l] \in Frame
      /\ frame[l].pc \in Inner \ {"scan"} => frame[l].ch \in Channel
  BY DEF TypeOK, Nested, NestedAt
<1>2. CASE TickCounted(l)
  BY <1>1, <1>2, Indices DEF TickCounted, At, FirstChannel, Follows, Others, Frame, Pc, Inner
<1>3. CASE ScanChannel(l)
  <2>1. count[frame[l].ch] \in 0 .. CountWidth - 1 /\ frame[l].ch + 1 \in 0 .. Cardinality(Channel)
    BY <1>3, Indices DEF ScanChannel, TypeOK
  <2>2. QED
    BY <1>1, <1>3, <2>1 DEF ScanChannel, At, Follows, Others, Frame, Pc, Inner
<1>4. CASE CallbackReturns(l)
  BY <1>1, <1>4 DEF CallbackReturns, At, Goto, Follows, Others, Frame, Pc, Inner
<1>5. CASE LoadExpired(l) \/ StoreExpired(l)
  <2>1. expired \subseteq Channel
    BY DEF TypeOK
  <2>2. QED
    BY <1>1, <1>5, <2>1 DEF LoadExpired, StoreExpired, At, Follows, Others, Frame, Pc, Inner
<1>6. CASE StoreCount(l)
  <2> DEFINE left == Decremented(frame[l].held)
             next == IF left # 0 THEN "scan"
                     ELSE IF frame[l].ch \in WithCallback /\ runCallbacks THEN "callback"
                     ELSE IF frame[l].ch \notin WithCallback THEN "mark" ELSE "reload"
  <2>1. frame[l].ch \in Channel /\ frame[l].pc = "store"
    BY <1>1, <1>6 DEF StoreCount, At, Inner
  <2>2. frame[l].ch + 1 \in 0 .. Cardinality(Channel) /\ 0 \in 0 .. CountWidth - 1
    BY <2>1, Indices
  <2>3. frame' = [frame EXCEPT ![l].held = 0,
                    ![l].ch = IF left # 0 THEN @ + 1 ELSE @, ![l].pc = next]
    BY <1>6 DEF StoreCount
  <2>4. next \in Inner /\ (next # "scan" => left = 0)
    BY DEF Inner
  <2> HIDE DEF left, next
  <2>5. QED
    BY <1>1, <2>1, <2>2, <2>3, <2>4 DEF Follows, Others, Frame, Pc, Inner
<1>7. CASE Reload(l) \/ StoreActive(l)
  <2>1. frame[l].ch \in Channel /\ active \subseteq Channel
    BY <1>1, <1>7 DEF Reload, StoreActive, At, Inner, TypeOK
  <2>2. frame[l].ch + 1 \in 0 .. Cardinality(Channel)
    BY <2>1, Indices
  <2>3. QED
    BY <1>1, <1>7, <2>1, <2>2 DEF Reload, StoreActive, At, Follows, Others, Frame, Pc, Inner
<1>8. QED
  BY <1>2, <1>3, <1>4, <1>5, <1>6, <1>7

\* The return from tick_handler.
Returns(l) ==
  /\ Others(l)
  /\ frame'[l].caller = frame[l].caller
  /\ \/ frame[l].caller = "isr" /\ frame'[l] = Idle /\ irq' = TRUE
     \/ /\ frame'[l].quiet = frame[l].quiet
        /\ \/ frame[l].caller = "loop" /\ frame'[l].pc = "loop"
           \/ frame[l].caller = "last" /\ frame'[l].pc = "zero"

LEMMA ReturnStep ==
  ASSUME TypeOK, NEW l \in Level, TickRefused(l) \/ ScanDone(l)
  PROVE  Returns(l) /\ frame[l].pc \in {"enter", "scan"} /\ UNCHANGED <<clock, runCallbacks>>
<1>1. /\ frame \in [Level -> Frame] /\ frame[l] \in Frame
  BY DEF TypeOK
<1>2. PICK flag \in BOOLEAN : ReturnFromTick(l, flag)
  BY DEF TickRefused, ScanDone, TypeOK
<1>3. frame[l].caller \in {"isr", "loop", "last"} /\ 0 \in 0 .. Cardinality(Channel)
  BY <1>1, Indices DEF Frame
<1>4. CASE frame[l].caller = "isr"
  <2>1. frame' = [frame EXCEPT ![l] = Idle] /\ irq' = TRUE
    BY <1>2, <1>4 DEF ReturnFromTick
  <2>2. QED
    BY <1>1, <1>4, <2>1, IdleTyped DEF Returns, Others, TickRefused, ScanDone, At, Idle
<1>5. CASE frame[l].caller # "isr"
  <2>1. frame' = [frame EXCEPT ![l].ch = 0,
                     ![l].pc = IF frame[l].caller = "loop" THEN "loop" ELSE "zero"]
    BY <1>2, <1>5 DEF ReturnFromTick
  <2>2. QED
    BY <1>1, <1>3, <1>5, <2>1 DEF Returns, Others, TickRefused, ScanDone, At, Frame, Pc
<1>6. QED
  BY <1>4, <1>5

LEMMA LoopStep ==
  ASSUME TypeOK, NEW l \in Level, ResetLoop(l)
  PROVE  /\ Others(l) /\ frame[l].pc = "loop" /\ frame'[l].pc = "enter"
         /\ frame'[l].quiet = frame[l].quiet
         /\ \/ SecondShort /\ frame'[l].caller = "loop" /\ runCallbacks' = runCallbacks
            \/ /\ ~SecondShort /\ frame'[l].caller = "last"
               /\ runCallbacks' = (runCallbacks \/ frame[l].quiet)
<1>1. /\ frame \in [Level -> Frame] /\ frame[l] \in Frame
  BY DEF TypeOK
<1>2. QED
  BY <1>1 DEF ResetLoop, At, CallbacksFor, Others, Frame, Pc

LEMMA DoneStep ==
  ASSUME TypeOK, NEW l \in Level, ResetDone(l)
  PROVE  Others(l) /\ frame[l].pc = "zero" /\ frame'[l] = Idle
BY IdleTyped DEF TypeOK, ResetDone, At, Others

\* A level that was idle begins to reset the count.
LEMMA EnterStep ==
  ASSUME TypeOK, NEW l \in Level, NEW run \in BOOLEAN, EnterReset(l, run)
  PROVE  /\ Others(l) /\ frame'[l].pc = "loop" /\ frame'[l].caller = "isr"
         /\ frame'[l].quiet <=> ~run
<1> DEFINE f == [Idle EXCEPT !.pc = "loop", !.quiet = ~run]
<1>1. f \in Frame /\ f.pc = "loop" /\ f.caller = "isr" /\ (f.quiet <=> ~run)
  BY IdleTyped DEF Idle, Frame, Pc
<1>2. frame' = [frame EXCEPT ![l] = f]
  BY DEF EnterReset
<1> HIDE DEF f
<1>3. QED
  BY <1>1, <1>2 DEF TypeOK, Others

LEMMA TimerStep ==
  ASSUME TypeOK, TimerInterrupt
  PROVE  /\ Others(Low) /\ frame'[Low].pc = "enter" /\ frame'[Low].caller = "isr"
         /\ ~frame'[Low].quiet
<1> DEFINE f == [Idle EXCEPT !.pc = "enter"]
<1>1. f \in Frame /\ f.pc = "enter" /\ f.caller = "isr" /\ ~f.quiet
  BY IdleTyped DEF Idle, Frame, Pc
<1>2. frame' = [frame EXCEPT ![Low] = f] /\ Low \in Level
  BY DEF TimerInterrupt, Level, Low, Main, High
<1> HIDE DEF f
<1>3. QED
  BY <1>1, <1>2 DEF TypeOK, Others

-----------------------------------------------------------------------------
LEMMA Levels == /\ Level = {Main, Low, Med, High}
                /\ Main = 0 /\ Low = 1 /\ Med = 2 /\ High = 3
BY DEF Level, Main, Low, Med, High

LEMMA NestedOthers ==
  ASSUME TypeOK, Nested, NEW l \in Level, Others(l), NestedAt(l)',
         sets' = sets \/ sets' = sets + 1
  PROVE  Nested'
<1>1. sets \in Nat
  BY DEF TypeOK
<1>2. ASSUME NEW k \in Level, k # l PROVE NestedAt(k)'
  BY <1>1, <1>2 DEF Nested, NestedAt, Others
<1>3. QED
  BY <1>2 DEF Nested

LEMMA NestedNext == IInv /\ [Next]_vars => Nested'
<1> SUFFICES ASSUME IInv, [Next]_vars PROVE Nested'
  OBVIOUS
<1> USE DEF IInv
<1>1. ASSUME NEW l \in Level, Tick(l) PROVE Nested'
  <2>1. sets' = sets
    BY <1>1 DEF Tick, TickRefused, TickCounted, ScanChannel, StoreCount,
       CallbackReturns, LoadExpired, StoreExpired, Reload, StoreActive, ScanDone, hardware
  <2>2. CASE TickRefused(l) \/ ScanDone(l)
    <3>1. Returns(l) /\ frame[l].pc \in {"enter", "scan"}
      BY <2>2, ReturnStep
    <3>2. NestedAt(l)
      BY DEF Nested
    <3>3. NestedAt(l)'
      BY <2>1, <3>1, <3>2, Levels DEF Returns, NestedAt, Inner, Idle
    <3>4. QED
      BY <2>1, <3>1, <3>3, NestedOthers DEF Returns
  <2>3. CASE Follows(l)
    <3>1. NestedAt(l)'
      BY <2>1, <2>3 DEF Follows, Nested, NestedAt, Inner
    <3>2. QED
      BY <2>1, <2>3, <3>1, NestedOthers DEF Follows
  <2>4. QED
    BY <1>1, <2>2, <2>3, InnerStep DEF Tick
<1>2. ASSUME NEW l \in Level, ResetLoop(l) PROVE Nested'
  <2>1. sets' = sets
    BY <1>2 DEF ResetLoop, hardware
  <2>2. NestedAt(l)
    BY DEF Nested
  <2>3. NestedAt(l)'
    BY <1>2, <2>1, <2>2, LoopStep, Levels DEF NestedAt, Inner
  <2>4. QED
    BY <1>2, <2>1, <2>3, LoopStep, NestedOthers
<1>3. ASSUME NEW l \in Level, ResetDone(l) PROVE Nested'
  <2>1. sets' = sets
    BY <1>3 DEF ResetDone, hardware
  <2>2. NestedAt(l)'
    BY <1>3, <2>1, DoneStep DEF NestedAt, Inner, Idle
  <2>3. QED
    BY <1>3, <2>1, <2>2, DoneStep, NestedOthers
<1>4. ASSUME NEW l \in SetLevels, NEW stamp \in Stamp, SetTime(l, stamp) PROVE Nested'
  <2>1. l \in Level /\ l \in {Main, Med}
    BY TimebaseAssumption, Levels
  <2>2. sets' = sets + 1 /\ sets \in Nat
    BY <1>4 DEF SetTime, TypeOK
  <2>3. CASE EnterReset(l, FALSE)
    <3>1. Others(l) /\ frame'[l].pc = "loop" /\ frame'[l].caller = "isr"
      BY <2>1, <2>3, EnterStep
    <3>2. NestedAt(l)'
      BY <2>1, <2>2, <3>1, Levels DEF NestedAt, Inner
    <3>3. QED
      BY <2>1, <2>2, <3>1, <3>2, NestedOthers
  <2>4. CASE UNCHANGED frame
    BY <2>2, <2>4 DEF Nested, NestedAt
  <2>5. QED
    BY <1>4, <2>3, <2>4 DEF SetTime
<1>5. CASE TimerInterrupt
  <2>1. sets' = sets /\ Low \in Level
    BY <1>5, Levels DEF TimerInterrupt
  <2>2. NestedAt(Low)'
    BY <1>5, TimerStep, Levels DEF NestedAt, Inner
  <2>3. QED
    BY <1>5, <2>1, <2>2, TimerStep, NestedOthers
<1>6. CASE PulseInterrupt
  <2>1. sets' = sets /\ High \in Level /\ EnterReset(High, TRUE)
    BY <1>6, Levels DEF PulseInterrupt
  <2>2. /\ Others(High) /\ frame'[High].pc = "loop" /\ frame'[High].caller = "isr"
        /\ ~frame'[High].quiet
    BY <2>1, EnterStep
  <2>3. NestedAt(High)'
    BY <2>1, <2>2, Levels DEF NestedAt, Inner
  <2>4. QED
    BY <2>1, <2>2, <2>3, NestedOthers
<1>7. CASE TimerOverflows \/ RtcPulses \/ MainLoop \/ UNCHANGED vars
  <2>1. UNCHANGED <<frame, sets>>
    BY <1>7 DEF TimerOverflows, RtcPulses, MainLoop, StartTimer, StartChannel, StopTimer,
       TestAndClear, SetEtimer, MainRound, MainOnly, hardware, vars
  <2>2. QED
    BY <2>1 DEF Nested, NestedAt
<1>8. QED
  BY <1>1, <1>2, <1>3, <1>4, <1>5, <1>6, <1>7 DEF Next, Step

-----------------------------------------------------------------------------
(***************************************************************************)
(* Types.                                                                  *)
(***************************************************************************)
LEMMA DecrementedTyped ==
  \A held \in 0 .. CountWidth - 1 : Decremented(held) \in 0 .. CountWidth - 1
BY Widths, ModRange DEF Decremented

LEMMA PeriodsTyped ==
  /\ 0 \in 0 .. CountWidth - 1
  /\ \A p \in Period \cup Delay \cup {0} : p \in 0 .. CountWidth - 1
BY Widths, TimebaseAssumption

LEMMA StepTyped ==
  ASSUME IInv, NEW l \in Level, Step(l) PROVE TypeOK'
<1> USE DEF IInv
<1>1. frame' \in [Level -> Frame]
  BY InnerStep, ReturnStep, LoopStep, DoneStep
     DEF Step, Tick, Follows, Returns, Others
<1>2. UNCHANGED <<nest, sets, overflow, pulse, period, etimerNext>>
  BY DEF Step, Tick, TickRefused, TickCounted, ScanChannel, StoreCount,
     CallbackReturns, LoadExpired, StoreExpired, Reload, StoreActive, ScanDone,
     ResetLoop, ResetDone, hardware, channels, etimers
<1>3. msec' \in 0 .. N /\ ticks' \in 0 .. TickWidth - 1 /\ secs' \in 0 .. SecWidth - 1
  <2>1. CASE TickCounted(l)
    <3>1. ticks \in 0 .. TickWidth - 1 /\ msec \in 0 .. N /\ N \in Nat
      BY Widths DEF TypeOK
    <3>2. (ticks + 1) % TickWidth \in 0 .. TickWidth - 1
      BY <3>1, Widths, ModRange
    <3>3. msec + 1 \in 0 .. N
      BY <2>1, <3>1 DEF TickCounted, SecondOver
    <3>4. QED
      BY <2>1, <3>2, <3>3 DEF TickCounted, TypeOK
  <2>2. CASE ResetDone(l)
    <3>1. secs \in 0 .. SecWidth - 1 /\ secs + 1 \in Int /\ 0 \in 0 .. N
      BY Widths DEF TypeOK
    <3>2. (secs + 1) % SecWidth \in 0 .. SecWidth - 1
      BY <3>1, Widths, ModRange
    <3>3. QED
      BY <2>2, <3>1, <3>2 DEF ResetDone, NextSecond, TypeOK
  <2>3. CASE UNCHANGED clock
    BY <2>3 DEF clock, TypeOK
  <2>4. QED
    BY <2>1, <2>2, <2>3 DEF Step, Tick, TickRefused, ScanChannel, StoreCount,
       CallbackReturns, LoadExpired, StoreExpired, Reload, StoreActive, ScanDone, ResetLoop
<1>4. /\ count' \in [Channel -> 0 .. CountWidth - 1]
      /\ active' \subseteq Channel /\ expired' \subseteq Channel
  <2>1. CASE StoreCount(l)
    <3>1. frame[l] \in Frame
      BY DEF TypeOK
    <3>2. Decremented(frame[l].held) \in 0 .. CountWidth - 1
      BY <3>1, DecrementedTyped DEF Frame
    <3>3. QED
      BY <2>1, <3>2 DEF StoreCount, TypeOK
  <2>2. CASE StoreExpired(l) \/ StoreActive(l)
    <3>1. frame[l] \in Frame /\ frame[l].ch \in Channel
      BY <2>2 DEF TypeOK, StoreExpired, StoreActive, At, Nested, NestedAt, Inner
    <3>2. QED
      BY <2>2, <3>1 DEF StoreExpired, Flagged, StoreActive, Frame, TypeOK
  <2>3. CASE Reload(l)
    <3>1. frame[l].ch \in Channel
      BY <2>3 DEF Reload, At, Nested, NestedAt, Inner
    <3>2. Reloaded(frame[l].ch) \in 0 .. CountWidth - 1
      BY <3>1, PeriodsTyped DEF Reloaded, TypeOK
    <3>3. QED
      BY <2>3, <3>2 DEF Reload, TypeOK
  <2>4. CASE UNCHANGED <<count, active, expired>>
    BY <2>4 DEF TypeOK
  <2>5. QED
    BY <2>1, <2>2, <2>3, <2>4 DEF Step, Tick, TickRefused, TickCounted, ScanChannel,
       CallbackReturns, LoadExpired, ScanDone, ResetLoop, ResetDone, channels
<1>5. {runCallbacks', polled', irq'} \subseteq BOOLEAN
  <2>1. /\ {runCallbacks, polled, irq} \subseteq BOOLEAN
        /\ EtimerDue \in BOOLEAN /\ frame[l].quiet \in BOOLEAN
    BY DEF TypeOK, Frame, EtimerDue
  <2>2. runCallbacks' \in BOOLEAN
    BY <2>1 DEF Step, Tick, TickRefused, TickCounted, ScanChannel, StoreCount,
       CallbackReturns, LoadExpired, StoreExpired, Reload, StoreActive, ScanDone,
       ResetLoop, CallbacksFor, ResetDone
  <2>3. polled' \in BOOLEAN
    BY <2>1 DEF Step, Tick, TickRefused, TickCounted, ScanChannel, StoreCount,
       CallbackReturns, LoadExpired, StoreExpired, Reload, StoreActive, ScanDone,
       ResetLoop, ResetDone, etimers, PolledNow
  <2>4. irq' \in BOOLEAN
    BY <2>1 DEF Step, Tick, TickRefused, TickCounted, ScanChannel, StoreCount,
       CallbackReturns, LoadExpired, StoreExpired, Reload, StoreActive, ScanDone,
       ResetLoop, ResetDone, IrqAfter, ReturnFromTick
  <2>5. QED
    BY <2>2, <2>3, <2>4
<1>6. seen' \in [Channel -> Nat \cup {Disturbed}]
  <2>1. seen \in [Channel -> Nat \cup {Disturbed}]
    BY DEF TypeOK
  <2>2. CASE TickCounted(l)
    <3>1. \A c \in Channel : seen[c] # Disturbed => seen[c] + 1 \in Nat
      BY <2>1
    <3>2. QED
      BY <2>1, <2>2, <3>1 DEF TickCounted
  <2>3. CASE Reload(l)
    BY <2>1, <2>3 DEF Reload
  <2>4. CASE UNCHANGED seen
    BY <2>1, <2>4
  <2>5. QED
    BY <2>2, <2>3, <2>4 DEF Step, Tick, TickRefused, ScanChannel, StoreCount,
       CallbackReturns, LoadExpired, StoreExpired, StoreActive, ScanDone, ResetLoop,
       ResetDone, channels
<1>7. QED
  BY <1>1, <1>2, <1>3, <1>4, <1>5, <1>6 DEF TypeOK

LEMMA ResetTyped ==
  ASSUME TypeOK, NEW l \in Level, NEW run \in BOOLEAN, EnterReset(l, run)
  PROVE  frame' \in [Level -> Frame] /\ {overflow', runCallbacks'} \subseteq BOOLEAN
<1>1. frame' \in [Level -> Frame]
  BY EnterStep DEF Others
<1>2. QED
  BY <1>1 DEF EnterReset, TypeOK

LEMMA SetTimeTyped ==
  ASSUME IInv, NEW l \in SetLevels, NEW stamp \in Stamp, SetTime(l, stamp)
  PROVE  TypeOK'
<1> USE DEF IInv
<1>1. l \in Level /\ stamp \in 0 .. SecWidth - 1
  BY TimebaseAssumption, Levels
<1>2. frame' \in [Level -> Frame] /\ {overflow', runCallbacks'} \subseteq BOOLEAN
  BY <1>1, ResetTyped DEF SetTime, TypeOK
<1>3. nest' \in 0 .. MaxNest /\ sets' \in 0 .. MaxSets
  BY TimebaseAssumption DEF SetTime, TypeOK
<1>4. UNCHANGED <<msec, ticks, count, period, active, expired, seen, etimerNext, polled,
                  irq, pulse>>
      /\ secs' = stamp
  BY DEF SetTime, channels, etimers
<1>5. QED
  BY <1>1, <1>2, <1>3, <1>4 DEF TypeOK

LEMMA HardwareTyped ==
  ASSUME IInv, TimerInterrupt \/ PulseInterrupt \/ TimerOverflows \/ RtcPulses
  PROVE  TypeOK'
<1> USE DEF IInv
<1>1. CASE TimerInterrupt
  BY <1>1, TimerStep DEF TimerInterrupt, Others, TypeOK, clock, channels, etimers
<1>2. CASE PulseInterrupt
  <2>1. frame' \in [Level -> Frame] /\ {overflow', runCallbacks'} \subseteq BOOLEAN
    BY <1>2, ResetTyped, Levels DEF PulseInterrupt
  <2>2. nest' \in 0 .. MaxNest
    BY <1>2, TimebaseAssumption DEF PulseInterrupt, TypeOK
  <2>3. QED
    BY <1>2, <2>1, <2>2 DEF PulseInterrupt, TypeOK, clock, channels, etimers
<1>3. CASE TimerOverflows \/ RtcPulses
  BY <1>3 DEF TimerOverflows, RtcPulses, TypeOK, clock, channels, etimers
<1>4. QED
  BY <1>1, <1>2, <1>3

LEMMA MainTyped ==
  ASSUME IInv, MainLoop PROVE TypeOK'
<1> USE DEF IInv
<1>1. CASE MainRound
  <2>1. 0 \in 0 .. MaxNest
    BY TimebaseAssumption
  <2>2. QED
    BY <1>1, <2>1 DEF MainRound, TypeOK, clock, channels
<1>2. ASSUME NEW d \in EtimerDelay, SetEtimer(d) PROVE TypeOK'
  <2>1. (ticks + d) % TickWidth \in 0 .. TickWidth - 1
    <3>1. ticks + d \in Int
      BY Widths, TimebaseAssumption DEF TypeOK
    <3>2. QED
      BY <3>1, Widths, ModRange
  <2>2. QED
    BY <1>2, <2>1 DEF SetEtimer, MainOnly, TypeOK, clock, channels, hardware
<1>3. ASSUME NEW c \in Channel, StopTimer(c) \/ TestAndClear(c) PROVE TypeOK'
  BY <1>3 DEF StopTimer, TestAndClear, MainOnly, TypeOK, clock, etimers, hardware
<1>4. ASSUME NEW c \in Channel, NEW p \in Period \cup {0}, NEW d \in Period \cup Delay,
             StartChannel(c, p, d)
      PROVE  TypeOK'
  <2>1. d \in 0 .. CountWidth - 1
    BY PeriodsTyped
  <2>2. QED
    BY <1>4, <2>1 DEF StartChannel, MainOnly, TypeOK, clock, etimers, hardware
<1>5. QED
  BY <1>1, <1>2, <1>3, <1>4 DEF MainLoop, StartTimer

LEMMA TypeNext == IInv /\ [Next]_vars => TypeOK'
<1>1. UNCHANGED vars /\ TypeOK => TypeOK'
  BY DEF vars, TypeOK
<1>2. QED
  BY <1>1, StepTyped, SetTimeTyped, HardwareTyped, MainTyped DEF IInv, Next

-----------------------------------------------------------------------------
(***************************************************************************)
(* The count of the second.                                                *)
(***************************************************************************)
\* While the pulse resets the count nothing else is executed.
LEMMA OnlyHigh ==
  ASSUME TypeOK, NEW l \in Level, l # High, Running(l)
  PROVE  frame[High].pc = "idle"
BY Levels DEF Running, InIdle

LEMMA LastCallNext == IInv /\ [Next]_vars => LastCall'
<1> SUFFICES ASSUME IInv, [Next]_vars PROVE LastCall'
  OBVIOUS
<1> USE DEF IInv
<1>1. msec \in 0 .. N /\ N \in Nat /\ N >= 2 /\ NestedAt(High) /\ High \in Level
  BY Widths, Levels DEF TypeOK, Nested
<1>2. frame[High].pc = "idle" => frame[High].caller # "last"
  BY <1>1 DEF NestedAt, Idle
<1>3. ASSUME NEW l \in Level, l # High, Step(l) PROVE LastCall'
  <2>1. Running(l)
    BY <1>3 DEF Step, Tick, TickRefused, TickCounted, ScanChannel, StoreCount,
       CallbackReturns, LoadExpired, StoreExpired, Reload, StoreActive, ScanDone,
       ResetLoop, ResetDone, At
  <2>2. Others(l)
    BY <1>3, InnerStep, ReturnStep, LoopStep, DoneStep
       DEF Step, Tick, Follows, Returns
  <2>3. frame'[High] = frame[High] /\ frame[High].pc = "idle"
    BY <1>1, <1>3, <2>1, <2>2, OnlyHigh DEF Others
  <2>4. QED
    BY <1>2, <2>3 DEF LastCall
<1>4. CASE Tick(High)
  <2>1. CASE TickCounted(High)
    <3>1. Follows(High)
      BY <1>1, <2>1, InnerStep
    <3>2. frame[High].caller = "last" => msec >= N - 1
      BY DEF LastCall
    <3>3. msec' = msec + 1 /\ msec < N
      BY <1>1, <2>1 DEF TickCounted, SecondOver
    <3>4. QED
      BY <1>1, <3>1, <3>2, <3>3 DEF LastCall, Follows, Inner
  <2>2. CASE ScanChannel(High) \/ StoreCount(High) \/ CallbackReturns(High)
             \/ LoadExpired(High) \/ StoreExpired(High) \/ Reload(High) \/ StoreActive(High)
    <3>1. Follows(High)
      BY <1>1, <2>2, InnerStep
    <3>2. frame[High].pc # "enter" /\ msec' = msec
      BY <2>2 DEF ScanChannel, StoreCount, CallbackReturns, LoadExpired, StoreExpired,
         Reload, StoreActive, At, clock
    <3>3. QED
      BY <3>1, <3>2 DEF LastCall, Follows
  <2>3. CASE TickRefused(High) \/ ScanDone(High)
    <3>1. Returns(High) /\ UNCHANGED clock
      BY <1>1, <2>3, ReturnStep
    <3>2. frame[High].pc = "enter" => msec >= N
      BY <2>3 DEF TickRefused, ScanDone, At, SecondOver
    <3>3. QED
      BY <1>1, <3>1, <3>2 DEF LastCall, Returns, clock, Idle
  <2>4. QED
    BY <1>4, <2>1, <2>2, <2>3 DEF Tick
<1>5. CASE ResetLoop(High)
  <2>1. /\ frame'[High].pc = "enter"
        /\ frame'[High].caller = "last" => ~SecondShort
    BY <1>1, <1>5, LoopStep
  <2>2. msec' = msec
    BY <1>5 DEF ResetLoop, clock
  <2>3. QED
    BY <1>1, <2>1, <2>2 DEF LastCall, SecondShort
<1>6. CASE ResetDone(High)
  BY <1>1, <1>6, DoneStep DEF LastCall, Idle
<1>7. ASSUME NEW l \in SetLevels, NEW stamp \in Stamp, SetTime(l, stamp) PROVE LastCall'
  <2>1. l \in Level /\ l # High
    BY TimebaseAssumption, Levels
  <2>2. frame'[High] = frame[High] /\ msec' = msec
    BY <1>1, <1>7, <2>1, EnterStep DEF SetTime, Others
  <2>3. QED
    BY <2>2 DEF LastCall
<1>8. CASE TimerInterrupt
  <2>1. frame'[High] = frame[High] /\ msec' = msec
    BY <1>1, <1>8, TimerStep, Levels DEF TimerInterrupt, Others, clock
  <2>2. QED
    BY <2>1 DEF LastCall
<1>9. CASE PulseInterrupt
  <2>1. frame'[High].caller = "isr"
    BY <1>1, <1>9, EnterStep DEF PulseInterrupt
  <2>2. QED
    BY <2>1 DEF LastCall
<1>10. CASE TimerOverflows \/ RtcPulses \/ MainLoop \/ UNCHANGED vars
  <2>1. UNCHANGED <<frame, msec>>
    BY <1>10 DEF TimerOverflows, RtcPulses, MainLoop, StartTimer, StartChannel, StopTimer,
       TestAndClear, SetEtimer, MainRound, MainOnly, clock, vars
  <2>2. QED
    BY <2>1 DEF LastCall
<1>11. QED
  BY <1>3, <1>4, <1>5, <1>6, <1>7, <1>8, <1>9, <1>10 DEF Next, Step

\* Without settings of the clock only the pulse gets to the end of the reset.
LEMMA FullAtZero ==
  ASSUME IInv, sets = 0, NEW l \in Level, frame[l].pc = "zero"
  PROVE  l = High /\ msec = N
<1>1. NestedAt(l) /\ NestedAt(High) /\ High \in Level
  BY Levels DEF IInv, Nested
<1>2. l = High
  BY <1>1, Levels DEF NestedAt, Inner
<1>3. frame[High].caller = "last"
  BY <1>1, <1>2 DEF NestedAt
<1>4. QED
  BY <1>2, <1>3 DEF IInv, LastCall

LEMMA CountedNext == IInv /\ [Next]_vars => Counted'
<1> SUFFICES ASSUME IInv, [Next]_vars, sets' = 0
             PROVE  ticks' = (N * secs' + msec') % TickWidth
  BY DEF Counted
<1> USE DEF IInv
<1>1. secs \in 0 .. SecWidth - 1 /\ msec \in 0 .. N /\ sets \in Nat /\ N \in Nat
  BY Widths DEF TypeOK
<1>2. sets = 0 /\ ~(\E l \in SetLevels, stamp \in Stamp : SetTime(l, stamp))
  <2>1. ASSUME NEW l \in SetLevels, NEW stamp \in Stamp, SetTime(l, stamp) PROVE FALSE
    BY <1>1, <2>1 DEF SetTime
  <2>2. sets' = sets
    BY <2>1 DEF Next, Step, Tick, TickRefused, TickCounted, ScanChannel, StoreCount,
       CallbackReturns, LoadExpired, StoreExpired, Reload, StoreActive, ScanDone,
       ResetLoop, ResetDone, TimerInterrupt, PulseInterrupt, TimerOverflows,
       RtcPulses, MainLoop, StartTimer, StartChannel, StopTimer, TestAndClear,
       SetEtimer, MainRound, MainOnly, hardware, vars
  <2>3. QED
    BY <2>1, <2>2
<1>3. ticks = (N * secs + msec) % TickWidth
  BY <1>2 DEF Counted
<1>4. ASSUME NEW l \in Level, TickCounted(l)
      PROVE  ticks' = (N * secs' + msec') % TickWidth
  <2>1. /\ msec \in 0 .. N - 1 /\ msec' = msec + 1 /\ secs' = secs
        /\ ticks' = (ticks + 1) % TickWidth
    BY <1>1, <1>4 DEF TickCounted, SecondOver
  <2>2. QED
    BY <1>1, <1>3, <2>1, TickOn
<1>5. ASSUME NEW l \in Level, ResetDone(l)
      PROVE  ticks' = (N * secs' + msec') % TickWidth
  <2>1. frame[l].pc = "zero"
    BY <1>5 DEF ResetDone, At
  <2>2. l = High /\ msec = N
    BY <1>2, <2>1, FullAtZero
  <2>3. ticks' = ticks /\ msec' = 0 /\ secs' = (secs + 1) % SecWidth
    BY <1>5, <2>2 DEF ResetDone, NextSecond
  <2>4. QED
    BY <1>1, <1>3, <2>2, <2>3, SecondOn
<1>6. CASE UNCHANGED clock
  BY <1>3, <1>6 DEF clock
<1>7. QED
  BY <1>2, <1>4, <1>5, <1>6 DEF Next, Step, Tick, TickRefused, ScanChannel, StoreCount,
     CallbackReturns, LoadExpired, StoreExpired, Reload, StoreActive, ScanDone,
     ResetLoop, TimerInterrupt, PulseInterrupt, TimerOverflows,
     RtcPulses, MainLoop, StartTimer, StartChannel, StopTimer, TestAndClear,
     SetEtimer, MainRound, MainOnly, vars, clock

-----------------------------------------------------------------------------
(***************************************************************************)
(* Callbacks and interrupts.                                               *)
(***************************************************************************)
LEMMA TurnOnNext == IInv /\ [Next]_vars => WillTurnOn'
<1> SUFFICES ASSUME IInv, [Next]_vars PROVE WillTurnOn'
  OBVIOUS
<1> USE DEF IInv
<1>1. SetLevels \subseteq Level /\ High \notin SetLevels
  BY TimebaseAssumption, Levels
<1>2. CASE UNCHANGED <<frame, runCallbacks>>
  BY <1>2 DEF WillTurnOn
<1>3. ASSUME NEW l \in Level, Follows(l), runCallbacks' = runCallbacks PROVE WillTurnOn'
  BY <1>1, <1>3 DEF WillTurnOn, Follows, Others
<1>4. ASSUME NEW l \in Level, TickRefused(l) \/ ScanDone(l) PROVE WillTurnOn'
  <2>1. Returns(l) /\ frame[l].pc \in {"enter", "scan"} /\ UNCHANGED runCallbacks
    BY <1>4, ReturnStep
  <2>2. frame[l].caller = "isr" => ~frame[l].quiet
    BY <2>1, Levels DEF Nested, NestedAt, Inner
  <2>3. QED
    BY <1>1, <2>1, <2>2 DEF WillTurnOn, Returns, Others
<1>5. ASSUME NEW l \in Level, ResetLoop(l) PROVE WillTurnOn'
  <2>1. CASE SecondShort
    BY <1>1, <1>5, <2>1, LoopStep DEF WillTurnOn, Others
  <2>2. CASE ~SecondShort
    <3>1. /\ Others(l) /\ runCallbacks' = (runCallbacks \/ frame[l].quiet)
      BY <1>5, <2>2, LoopStep
    <3>2. CASE runCallbacks \/ frame[l].quiet
      BY <3>1, <3>2 DEF WillTurnOn
    <3>3. CASE ~runCallbacks /\ ~frame[l].quiet
      BY <1>1, <3>1, <3>3 DEF WillTurnOn, Others
    <3>4. QED
      BY <3>2, <3>3
  <2>3. QED
    BY <2>1, <2>2
<1>6. ASSUME NEW l \in Level, ResetDone(l) PROVE WillTurnOn'
  <2>1. Others(l) /\ frame[l].caller = "last" /\ runCallbacks' = runCallbacks
    BY <1>6, DoneStep DEF ResetDone, Nested, NestedAt
  <2>2. QED
    BY <1>1, <2>1 DEF WillTurnOn, Others
<1>7. ASSUME NEW l \in SetLevels, EnterReset(l, FALSE) PROVE WillTurnOn'
  <2>1. frame'[l].quiet /\ frame'[l].caller = "isr"
    BY <1>1, <1>7, EnterStep
  <2>2. QED
    BY <2>1 DEF WillTurnOn
<1>8. CASE TimerInterrupt
  <2>1. Others(Low) /\ runCallbacks' = runCallbacks /\ ~frame[Low].quiet
    BY <1>8, TimerStep, Levels DEF TimerInterrupt, Nested, NestedAt
  <2>2. QED
    BY <1>1, <2>1 DEF WillTurnOn, Others
<1>9. CASE PulseInterrupt
  <2>1. EnterReset(High, TRUE) /\ High \in Level
    BY <1>9, Levels DEF PulseInterrupt
  <2>2. Others(High) /\ (runCallbacks => runCallbacks')
    BY <2>1, EnterStep DEF EnterReset
  <2>3. QED
    BY <1>1, <2>2 DEF WillTurnOn, Others
<1>10. ASSUME NEW l \in Level, Tick(l) PROVE WillTurnOn'
  BY <1>3, <1>4, <1>10, InnerStep DEF Tick, TickCounted, ScanChannel, StoreCount,
     CallbackReturns, LoadExpired, StoreExpired, Reload, StoreActive
<1>11. QED
  BY <1>2, <1>5, <1>6, <1>7, <1>8, <1>9, <1>10 DEF Next, Step, SetTime,
     TimerOverflows, RtcPulses, MainLoop, StartTimer, StartChannel, StopTimer,
     TestAndClear, SetEtimer, MainRound, MainOnly, vars

LEMMA RestoreNext == IInv /\ [Next]_vars => WillRestore'
<1> SUFFICES ASSUME IInv, [Next]_vars, Main \notin SetLevels, ~irq'
             PROVE  \E l \in Level : ~InIdle(l)'
  BY DEF WillRestore
<1> USE DEF IInv
<1>1. CASE UNCHANGED <<frame, irq>>
  BY <1>1 DEF WillRestore, InIdle
<1>2. ASSUME NEW l \in Level, Follows(l) PROVE ~InIdle(l)'
  BY <1>2 DEF Follows, InIdle, Inner
<1>3. ASSUME NEW l \in Level, TickRefused(l) \/ ScanDone(l) PROVE ~InIdle(l)'
  BY <1>3, ReturnStep DEF Returns, InIdle
<1>4. ASSUME NEW l \in Level, ResetLoop(l) PROVE ~InIdle(l)'
  BY <1>4, LoopStep DEF InIdle
<1>5. ASSUME NEW l \in Level, ResetDone(l) PROVE FALSE
  <2>1. frame[l].pc = "zero" /\ irq' = (irq \/ l # Main)
    BY <1>5 DEF ResetDone, At, IrqAfter
  <2>2. l = Main /\ Main \in SetLevels
    BY <2>1, Levels DEF Nested, NestedAt
  <2>3. QED
    BY <2>2
<1>6. ASSUME NEW l \in Level, NEW run \in BOOLEAN, EnterReset(l, run) PROVE ~InIdle(l)'
  BY <1>6, EnterStep DEF InIdle
<1>7. CASE TimerInterrupt
  BY <1>7, TimerStep, Levels DEF InIdle
<1>8. ASSUME NEW l \in Level, Tick(l) PROVE ~InIdle(l)'
  BY <1>2, <1>3, <1>8, InnerStep DEF Tick
<1>9. ASSUME NEW l \in SetLevels, NEW stamp \in Stamp, SetTime(l, stamp)
      PROVE  \E k \in Level : ~InIdle(k)'
  <2>1. l \in Level
    BY TimebaseAssumption, Levels
  <2>2. QED
    BY <1>1, <1>6, <1>9, <2>1 DEF SetTime
<1>10. CASE PulseInterrupt
  BY <1>6, <1>10, Levels DEF PulseInterrupt
<1>11. CASE TimerOverflows \/ RtcPulses \/ MainLoop \/ UNCHANGED vars
  BY <1>1, <1>11 DEF TimerOverflows, RtcPulses, MainLoop, StartTimer, StartChannel,
     StopTimer, TestAndClear, SetEtimer, MainRound, MainOnly, vars
<1>12. QED
  BY <1>4, <1>5, <1>7, <1>8, <1>9, <1>10, <1>11, Levels DEF Next, Step

LEMMA InitInv == Init => IInv
<1> SUFFICES ASSUME Init PROVE IInv
  OBVIOUS
<1>1. \A l \in Level : frame[l] = Idle
  BY DEF Init
<1>2. TypeOK
  <2>1. /\ 0 \in 0 .. N /\ 0 \in 0 .. TickWidth - 1 /\ 0 \in 0 .. SecWidth - 1
        /\ 0 \in 0 .. CountWidth - 1 /\ 0 \in 0 .. MaxNest /\ 0 \in 0 .. MaxSets
    BY Widths, TimebaseAssumption
  <2>2. frame \in [Level -> Frame]
    BY IdleTyped DEF Init
  <2>3. QED
    BY <2>1, <2>2 DEF Init, TypeOK
<1>3. Nested
  BY <1>1, Levels DEF Nested, NestedAt, Idle, Inner
<1>4. LastCall
  BY <1>1, Levels DEF LastCall, Idle
<1>5. Counted
  <2>1. N * 0 + 0 = 0 /\ 0 % TickWidth = 0
    BY Widths, ModSmall
  <2>2. QED
    BY <2>1 DEF Init, Counted
<1>6. WillTurnOn /\ WillRestore
  BY DEF Init, WillTurnOn, WillRestore
<1>7. QED
  BY <1>2, <1>3, <1>4, <1>5, <1>6 DEF IInv

-----------------------------------------------------------------------------
\* The invariant the theorems rest on.
THEOREM Invariance == Spec => []IInv
<1>1. IInv /\ [Next]_vars => IInv'
  BY TypeNext, NestedNext, LastCallNext, CountedNext, TurnOnNext, RestoreNext DEF IInv
<1>2. QED
  BY InitInv, <1>1, PTL DEF Spec

\* Type correctness; the counters of the channels stay in their 16 bits and the
\* scan in its table (timeout.c:138-171).
THEOREM Types == Spec => []TypeOK
<1>1. IInv => TypeOK
  BY DEF IInv
<1>2. QED
  BY <1>1, Invariance, PTL

\* While the clock is not set, a second of the RTC holds N ticks, wherever its
\* pulse lands in the tick handler (timeout.c:116-133, 410-440).
THEOREM Seconds == Spec => []SecondHasNTicks
<1>1. IInv => SecondHasNTicks
  BY DEF IInv, Counted, SecondHasNTicks
<1>2. QED
  BY <1>1, Invariance, PTL

\* When the count starts again it stands at a full second (timeout.c:435-438).
THEOREM FullSeconds == Spec => []FullSecondAtReset
<1>1. IInv => FullSecondAtReset
  BY FullAtZero DEF FullSecondAtReset, At
<1>2. QED
  BY <1>1, Invariance, PTL

\* Time does not run back while the clock is not set.
THEOREM Forward == Spec => TimeMovesForward
<1>1. IInv /\ [Next]_vars =>
        ((secs' # secs \/ msec' # msec) /\ sets' = 0 =>
           \/ secs' = secs /\ msec' = msec + 1
           \/ secs' = (secs + 1) % SecWidth /\ msec = N /\ msec' = 0)
  <2> SUFFICES ASSUME IInv, [Next]_vars, sets' = 0, secs' # secs \/ msec' # msec
               PROVE  \/ secs' = secs /\ msec' = msec + 1
                      \/ secs' = (secs + 1) % SecWidth /\ msec = N /\ msec' = 0
    OBVIOUS
  <2>1. sets \in Nat
    BY DEF IInv, TypeOK
  <2>2. ASSUME NEW l \in SetLevels, NEW stamp \in Stamp, SetTime(l, stamp) PROVE FALSE
    BY <2>1, <2>2 DEF SetTime
  <2>3. PICK l \in Level : TickCounted(l) \/ ResetDone(l)
    BY <2>2 DEF Next, Step, Tick, TickRefused, ScanChannel, StoreCount,
       CallbackReturns, LoadExpired, StoreExpired, Reload, StoreActive, ScanDone,
       ResetLoop, TimerInterrupt, PulseInterrupt, TimerOverflows,
       RtcPulses, MainLoop, StartTimer, StartChannel, StopTimer, TestAndClear,
       SetEtimer, MainRound, MainOnly, vars, clock
  <2>4. CASE TickCounted(l)
    BY <2>4 DEF TickCounted
  <2>5. CASE ResetDone(l)
    <3>1. frame[l].pc = "zero" /\ sets = 0
      BY <2>5 DEF ResetDone, At, hardware
    <3>2. l = High /\ msec = N
      BY <3>1, FullAtZero
    <3>3. QED
      BY <2>5, <3>2 DEF ResetDone, NextSecond
  <2>6. QED
    BY <2>3, <2>4, <2>5
<1>2. IInv /\ [Next]_vars => [ (secs' # secs \/ msec' # msec) /\ sets' = 0 =>
        \/ secs' = secs /\ msec' = msec + 1
        \/ secs' = (secs + 1) % SecWidth /\ msec = N /\ msec' = 0 ]_<<secs, msec, sets>>
  BY <1>1
<1>3. QED
  BY <1>2, Invariance, PTL DEF Spec, TimeMovesForward

\* The callbacks are only off while a level sets the clock (timeout.c:418-430).
THEOREM Callbacks == Spec => []CallbacksOnAgain
<1>1. IInv => CallbacksOnAgain
  BY DEF IInv, WillTurnOn, CallbacksOnAgain
<1>2. QED
  BY <1>1, Invariance, PTL

\* As long as only the GPS pulse sets the clock, the main loop has its
\* interrupts, although a refused tick leaves them off (timeout.c:116-119).
THEOREM Interrupts ==
  ASSUME Main \notin SetLevels
  PROVE  Spec => []MainHasInterrupts
<1>1. IInv => MainHasInterrupts
  BY DEF IInv, WillRestore, MainHasInterrupts, AllIdle
<1>2. QED
  BY <1>1, Invariance, PTL

-----------------------------------------------------------------------------
(***************************************************************************)
(* Callbacks are not reentered.  A level serves a channel from the moment  *)
(* it found the counter at 0 until it has reloaded the counter or stopped  *)
(* the channel.  A nested tick takes the counter below 0, to the top of    *)
(* its range; before it were down at 0 again, all ticks there can be until *)
(* the main loop runs have been counted.                                   *)
(***************************************************************************)
ServePc == {"callback", "mark", "marked", "reload", "clear"}

Serves(l, c) == frame[l].pc \in ServePc /\ frame[l].ch = c

\* A level whose tick has yet to decrement channel c.
Ahead(l, c) ==
  \/ frame[l].pc \in {"scan", "store"} /\ frame[l].ch <= c
  \/ frame[l].pc \in ServePc /\ frame[l].ch < c

\* A level that will start the count of the second again: any but Low.
WillReset(l) == l # Low /\ ~InIdle(l)

One(b) == IF b THEN 1 ELSE 0
Sum(f) == f[Main] + f[Low] + f[Med] + f[High]

AheadOf(c) == [l \in Level |-> One(Ahead(l, c))]
Resetters  == [l \in Level |-> One(WillReset(l))]

\* Ticks of n seconds more than have begun, all but r of those being over.
GrantOf(n, r) == N * (MaxNest - n + r)

\* All the decrements of channel c there can be before the main loop runs: the
\* ticks left of this second and of those that may begin, and the ticks under way.
Budget(c) == (N - msec) + GrantOf(nest, Sum(Resetters)) + Sum(AheadOf(c))

\* A counter at 0, or further from it than ticks can take it.
Safe(v, c) == v = 0 \/ v > Budget(c)

Bounded == \A c \in Channel : Budget(c) <= N * (MaxNest + 1)

\* Whoever finds a channel due, nobody below is serving it.
ServedSafely ==
  \A l \in Level, c \in Channel : Serves(l, c) =>
    /\ Safe(count[c], c)
    /\ \A h \in Level : h > l =>
         /\ ~Serves(h, c)
         /\ frame[h].pc = "store" /\ frame[h].ch = c => Safe(frame[h].held, c)

CallInv == Bounded /\ ServedSafely

LEMMA SumType ==
  ASSUME NEW f \in [Level -> {0, 1}] PROVE Sum(f) \in Nat
BY Levels DEF Sum

\* The sum after a step of one level.
LEMMA SumStep ==
  ASSUME NEW f \in [Level -> {0, 1}], NEW g \in [Level -> {0, 1}], NEW l \in Level,
         \A k \in Level : k # l => g[k] = f[k]
  PROVE  Sum(g) = Sum(f) - f[l] + g[l]
<1>1. l \in {Main, Low, Med, High} /\ {Main, Low, Med, High} \subseteq Level
  BY Levels
<1>2. \A k \in {Main, Low, Med, High} : f[k] \in Nat /\ g[k] \in Nat
  BY <1>1
<1>3. QED
  BY <1>1, <1>2, Levels DEF Sum

\* The seconds still to begin: as many, or one less.
LEMMA GrantStep ==
  ASSUME NEW n \in 0 .. MaxNest, NEW m \in 0 .. MaxNest, NEW r \in Nat, NEW q \in Nat
  PROVE  /\ GrantOf(n, r) \in Nat /\ GrantOf(m, q) \in Nat
         /\ q - m = r - n => GrantOf(m, q) = GrantOf(n, r)
         /\ q - m = r - n - 1 => GrantOf(m, q) = GrantOf(n, r) - N
<1>1. MaxNest \in Nat /\ N \in Nat
  BY TimebaseAssumption
<1> DEFINE k == MaxNest - n + r
           j == MaxNest - m + q
<1>2. k \in Nat /\ j \in Nat
  BY <1>1
<1>3. q - m = r - n => j = k
  BY <1>1
<1>4. q - m = r - n - 1 => j = k - 1
  BY <1>1
<1>5. GrantOf(n, r) = N * k /\ GrantOf(m, q) = N * j
  BY DEF GrantOf
<1> HIDE DEF k, j
<1>6. N * k \in Nat /\ N * j \in Nat /\ N * (k - 1) = N * k - N
  BY <1>1, <1>2
<1>7. QED
  BY <1>3, <1>4, <1>5, <1>6

\* What a step of one level does to the budget: a tick may be used up, and a
\* second begin or end.
LEMMA BudgetStep ==
  ASSUME TypeOK, TypeOK', NEW l \in Level, Others(l), NEW c \in Channel
  PROVE  /\ Budget(c) \in Nat /\ Budget(c)' \in Nat
         /\ (nest' = nest /\ (WillReset(l)' <=> WillReset(l)))
              \/ (nest' = nest + 1 /\ WillReset(l)' /\ ~WillReset(l)) =>
              Budget(c)' = Budget(c) + msec - msec' - One(Ahead(l, c)) + One(Ahead(l, c)')
         /\ nest' = nest /\ WillReset(l) /\ ~WillReset(l)' /\ msec' = 0
            /\ (Ahead(l, c)' => Ahead(l, c)) => Budget(c)' <= Budget(c)
         /\ nest' = nest + 1 /\ (WillReset(l)' <=> WillReset(l)) /\ msec' = msec
            /\ (Ahead(l, c)' => Ahead(l, c)) => Budget(c)' <= Budget(c)
<1> DEFINE a == AheadOf(c)
           b == AheadOf(c)'
           r == Resetters
           q == Resetters'
<1>1. /\ a \in [Level -> {0, 1}] /\ b \in [Level -> {0, 1}]
      /\ r \in [Level -> {0, 1}] /\ q \in [Level -> {0, 1}]
  BY DEF AheadOf, Resetters, One
<1>2. \A k \in Level : k # l => b[k] = a[k] /\ q[k] = r[k]
  BY DEF Others, AheadOf, Resetters, Ahead, WillReset, InIdle, One
<1>3. /\ a[l] = One(Ahead(l, c)) /\ b[l] = One(Ahead(l, c)')
      /\ r[l] = One(WillReset(l)) /\ q[l] = One(WillReset(l)')
  BY DEF AheadOf, Resetters, One
<1>4. /\ Budget(c) = (N - msec) + GrantOf(nest, Sum(r)) + Sum(a)
      /\ Budget(c)' = (N - msec') + GrantOf(nest', Sum(q)) + Sum(b)
  BY DEF Budget
<1> HIDE DEF a, b, r, q
<1>5. /\ Sum(b) = Sum(a) - a[l] + b[l] /\ Sum(q) = Sum(r) - r[l] + q[l]
      /\ Sum(a) \in Nat /\ Sum(b) \in Nat /\ Sum(r) \in Nat /\ Sum(q) \in Nat
  BY <1>1, <1>2, SumStep, SumType
<1>6. /\ msec \in 0 .. N /\ msec' \in 0 .. N /\ N \in Nat
      /\ nest \in 0 .. MaxNest /\ nest' \in 0 .. MaxNest /\ MaxNest \in Nat
  BY TimebaseAssumption DEF TypeOK
<1>7. /\ GrantOf(nest, Sum(r)) \in Nat /\ GrantOf(nest', Sum(q)) \in Nat
      /\ Sum(q) - nest' = Sum(r) - nest => GrantOf(nest', Sum(q)) = GrantOf(nest, Sum(r))
      /\ Sum(q) - nest' = Sum(r) - nest - 1 => GrantOf(nest', Sum(q)) = GrantOf(nest, Sum(r)) - N
  <2> DEFINE x == Sum(r)
             y == Sum(q)
             n == nest
             m == nest'
  <2>1. x \in Nat /\ y \in Nat /\ n \in 0 .. MaxNest /\ m \in 0 .. MaxNest
    BY <1>5, <1>6
  <2> HIDE DEF x, y, n, m
  <2>2. /\ GrantOf(n, x) \in Nat /\ GrantOf(m, y) \in Nat
        /\ y - m = x - n => GrantOf(m, y) = GrantOf(n, x)
        /\ y - m = x - n - 1 => GrantOf(m, y) = GrantOf(n, x) - N
    BY <2>1, GrantStep
  <2>3. QED
    BY <2>2 DEF x, y, n, m
<1>8. a[l] \in {0, 1} /\ b[l] \in {0, 1} /\ r[l] \in {0, 1} /\ q[l] \in {0, 1}
  BY <1>1
<1>9. /\ (WillReset(l)' <=> WillReset(l)) => q[l] = r[l]
      /\ WillReset(l)' /\ ~WillReset(l) => q[l] = r[l] + 1
      /\ WillReset(l) /\ ~WillReset(l)' => q[l] = r[l] - 1
      /\ (Ahead(l, c)' => Ahead(l, c)) => b[l] <= a[l]
  BY <1>3 DEF One
<1> DEFINE g == GrantOf(nest, Sum(r))
           h == GrantOf(nest', Sum(q))
           s == Sum(a)
           t == Sum(b)
<1>10. /\ Budget(c) = (N - msec) + g + s /\ Budget(c)' = (N - msec') + h + t
       /\ g \in Nat /\ h \in Nat /\ s \in Nat /\ t \in Nat /\ t = s - a[l] + b[l]
  BY <1>4, <1>5, <1>7
<1>11. q[l] - nest' = r[l] - nest => h = g
  BY <1>5, <1>6, <1>7, <1>8
<1>12. q[l] - nest' = r[l] - nest - 1 => h = g - N
  BY <1>5, <1>6, <1>7, <1>8
<1> HIDE DEF g, h, s, t
<1>13. Budget(c) \in Nat /\ Budget(c)' \in Nat
  BY <1>6, <1>10
<1>14. ASSUME \/ nest' = nest /\ (WillReset(l)' <=> WillReset(l))
              \/ nest' = nest + 1 /\ WillReset(l)' /\ ~WillReset(l)
       PROVE  Budget(c)' = Budget(c) + msec - msec' - a[l] + b[l]
  <2>1. q[l] - nest' = r[l] - nest
    BY <1>6, <1>8, <1>9, <1>14
  <2>2. h = g
    BY <1>11, <2>1
  <2>3. QED
    BY <1>6, <1>8, <1>10, <2>2
<1>15. ASSUME nest' = nest, WillReset(l), ~WillReset(l)', msec' = 0, Ahead(l, c)' => Ahead(l, c)
       PROVE  Budget(c)' <= Budget(c)
  <2>1. q[l] - nest' = r[l] - nest - 1 /\ b[l] <= a[l]
    BY <1>6, <1>8, <1>9, <1>15
  <2>2. h = g - N
    BY <1>12, <2>1
  <2>3. QED
    BY <1>6, <1>8, <1>10, <1>15, <2>1, <2>2
<1>16. ASSUME nest' = nest + 1, WillReset(l)' <=> WillReset(l), msec' = msec,
              Ahead(l, c)' => Ahead(l, c)
       PROVE  Budget(c)' <= Budget(c)
  <2>1. q[l] - nest' = r[l] - nest - 1 /\ b[l] <= a[l]
    BY <1>6, <1>8, <1>9, <1>16
  <2>2. h = g - N
    BY <1>12, <2>1
  <2>3. QED
    BY <1>6, <1>8, <1>10, <1>16, <2>1, <2>2
<1>17. QED
  BY <1>3, <1>13, <1>14, <1>15, <1>16

\* The step of a level that is and stays in tick_handler.
LEMMA InnerBudget ==
  ASSUME IInv, TypeOK', NEW l \in Level, Follows(l), nest' = nest, NEW c \in Channel,
         \/ msec' = msec /\ (Ahead(l, c)' => Ahead(l, c))
         \/ msec' = msec + 1 /\ ~Ahead(l, c)
  PROVE  /\ Budget(c)' <= Budget(c)
         /\ msec' = msec /\ Ahead(l, c) /\ ~Ahead(l, c)' => Budget(c)' < Budget(c)
<1>1. WillReset(l)' <=> WillReset(l)
  BY DEF Follows, WillReset, InIdle, Inner
<1>2. /\ Budget(c) \in Nat /\ Budget(c)' \in Nat /\ msec \in Nat
      /\ Budget(c)' = Budget(c) + msec - msec' - One(Ahead(l, c)) + One(Ahead(l, c)')
  <2>1. Others(l) /\ TypeOK
    BY DEF Follows, IInv
  <2>2. QED
    BY <1>1, <2>1, BudgetStep DEF TypeOK
<1>3. (Ahead(l, c) => One(Ahead(l, c)) = 1) /\ (~Ahead(l, c) => One(Ahead(l, c)) = 0)
  BY DEF One
<1>4. (Ahead(l, c)' => One(Ahead(l, c)') = 1) /\ (~Ahead(l, c)' => One(Ahead(l, c)') = 0)
  BY DEF One
<1>5. QED
  BY <1>2, <1>3, <1>4

\* What a step inside tick_handler leaves to be decremented.
LEMMA InnerAhead ==
  ASSUME IInv, NEW l \in Level, NEW c \in Channel,
         \/ TickCounted(l) \/ ScanChannel(l) \/ StoreCount(l) \/ CallbackReturns(l)
         \/ LoadExpired(l) \/ StoreExpired(l) \/ Reload(l) \/ StoreActive(l)
  PROVE  /\ nest' = nest
         /\ \/ msec' = msec /\ (Ahead(l, c)' => Ahead(l, c))
            \/ msec' = msec + 1 /\ ~Ahead(l, c)
         /\ StoreCount(l) /\ c = frame[l].ch =>
              msec' = msec /\ Ahead(l, c) /\ ~Ahead(l, c)'
<1>1. /\ frame \in [Level -> Frame] /\ frame[l] \in Frame /\ c \in Nat
      /\ frame[l].ch \in Nat
      /\ frame[l].pc \in Inner \ {"scan"} => frame[l].ch \in Channel
  BY Indices DEF IInv, TypeOK, Nested, NestedAt, Frame
<1>0. StoreCount(l) => frame[l].pc = "store"
  BY DEF StoreCount, At
<1> USE DEF Ahead, ServePc
<1>2. CASE TickCounted(l)
  BY <1>0, <1>2 DEF TickCounted, At, hardware
<1>3. CASE ScanChannel(l)
  BY <1>0, <1>1, <1>3 DEF ScanChannel, At, hardware, clock
<1>4. CASE CallbackReturns(l) \/ LoadExpired(l) \/ StoreExpired(l)
  <2>1. /\ frame[l].pc \in ServePc /\ frame'[l].pc \in ServePc /\ frame'[l].ch = frame[l].ch
        /\ UNCHANGED <<nest, msec>>
    BY <1>1, <1>4 DEF Frame, CallbackReturns, LoadExpired, StoreExpired, Goto, At, hardware, clock
  <2>2. QED
    BY <1>0, <2>1
<1>5. CASE Reload(l) \/ StoreActive(l)
  <2>1. /\ frame[l].pc \in ServePc /\ UNCHANGED <<nest, msec>>
        /\ \/ frame'[l].pc = "scan" /\ frame'[l].ch = frame[l].ch + 1
           \/ frame'[l].pc = "clear" /\ frame'[l].ch = frame[l].ch
    <3>1. CASE Reload(l)
      BY <1>1, <3>1 DEF Frame, Reload, At, hardware, clock
    <3>2. CASE StoreActive(l)
      BY <1>1, <3>2 DEF StoreActive, At, hardware, clock
    <3>3. QED
      BY <1>5, <3>1, <3>2
  <2>2. QED
    BY <1>0, <1>1, <2>1
<1>6. CASE StoreCount(l)
  <2> DEFINE left == Decremented(frame[l].held)
             next == IF left # 0 THEN "scan"
                     ELSE IF frame[l].ch \in WithCallback /\ runCallbacks THEN "callback"
                     ELSE IF frame[l].ch \notin WithCallback THEN "mark" ELSE "reload"
  <2>1. frame' = [frame EXCEPT ![l].held = 0,
                    ![l].ch = IF left # 0 THEN @ + 1 ELSE @, ![l].pc = next]
    BY <1>6 DEF StoreCount
  <2>2. (left # 0 /\ next = "scan") \/ (left = 0 /\ next \in ServePc)
    <3>1. CASE left # 0
      BY <3>1
    <3>2. CASE left = 0
      BY <3>2 DEF ServePc
    <3>3. QED
      BY <3>1, <3>2
  <2>3. frame[l].pc = "store" /\ UNCHANGED <<nest, msec>>
    BY <1>6 DEF StoreCount, At, hardware, clock
  <2> HIDE DEF left, next
  <2>4. \/ frame'[l].pc = "scan" /\ frame'[l].ch = frame[l].ch + 1
        \/ frame'[l].pc \in ServePc /\ frame'[l].ch = frame[l].ch
    BY <1>1, <2>1, <2>2
  <2>5. QED
    BY <1>1, <2>3, <2>4
<1>7. QED
  BY <1>2, <1>3, <1>4, <1>5, <1>6

\* Nothing but a round of the main loop, when nothing else runs, lets more ticks
\* come than could come before.
LEMMA BudgetNext ==
  ASSUME IInv, TypeOK', [Next]_vars, ~MainRound, NEW c \in Channel
  PROVE  Budget(c)' <= Budget(c)
<1> USE DEF IInv
<1>0. TypeOK /\ Nested /\ msec \in 0 .. N /\ N \in Nat /\ nest \in Nat
  BY Widths DEF TypeOK
<1>1. ASSUME NEW l \in Level, Tick(l) PROVE Budget(c)' <= Budget(c)
  <2>1. CASE TickRefused(l) \/ ScanDone(l)
    <3>1. Returns(l) /\ frame[l].pc \in {"enter", "scan"} /\ msec' = msec /\ nest' = nest
      BY <1>0, <2>1, ReturnStep DEF clock, TickRefused, ScanDone, hardware
    <3>2. frame[l].caller = "isr" => l = Low
      BY <1>0, <3>1 DEF Nested, NestedAt, Inner
    <3>3. (WillReset(l)' <=> WillReset(l)) /\ ~Ahead(l, c)'
      BY <3>1, <3>2 DEF Returns, WillReset, InIdle, Ahead, ServePc, Idle
    <3>4. /\ Budget(c) \in Nat
          /\ Budget(c)' = Budget(c) + msec - msec' - One(Ahead(l, c)) + One(Ahead(l, c)')
      BY <1>0, <3>1, <3>3, BudgetStep DEF Returns
    <3>5. One(Ahead(l, c)) \in {0, 1} /\ One(Ahead(l, c)') = 0
      BY <3>3 DEF One
    <3>6. QED
      BY <1>0, <3>1, <3>4, <3>5
  <2>2. CASE ~(TickRefused(l) \/ ScanDone(l))
    <3>1. \/ TickCounted(l) \/ ScanChannel(l) \/ StoreCount(l) \/ CallbackReturns(l)
          \/ LoadExpired(l) \/ StoreExpired(l) \/ Reload(l) \/ StoreActive(l)
      BY <1>1, <2>2 DEF Tick
    <3>2. Follows(l)
      BY <1>0, <3>1, InnerStep
    <3>3. /\ nest' = nest
          /\ \/ msec' = msec /\ (Ahead(l, c)' => Ahead(l, c))
             \/ msec' = msec + 1 /\ ~Ahead(l, c)
      BY <3>1, InnerAhead
    <3>4. QED
      BY <3>2, <3>3, InnerBudget
  <2>3. QED
    BY <2>1, <2>2
\* A level that has nothing ahead before and after.
<1>2. ASSUME NEW l \in Level, Others(l), ~Ahead(l, c), ~Ahead(l, c)', msec' = msec,
             \/ nest' = nest /\ (WillReset(l)' <=> WillReset(l))
             \/ nest' = nest + 1 /\ WillReset(l)' /\ ~WillReset(l)
      PROVE  Budget(c)' <= Budget(c)
  <2>1. /\ Budget(c) \in Nat
        /\ Budget(c)' = Budget(c) + msec - msec' - One(Ahead(l, c)) + One(Ahead(l, c)')
    BY <1>0, <1>2, BudgetStep
  <2>2. One(Ahead(l, c)) = 0 /\ One(Ahead(l, c)') = 0
    BY <1>2 DEF One
  <2>3. QED
    BY <1>0, <1>2, <2>1, <2>2
<1>3. ASSUME NEW l \in Level, ResetLoop(l) PROVE Budget(c)' <= Budget(c)
  <2>1. Others(l) /\ frame[l].pc = "loop" /\ frame'[l].pc = "enter"
    BY <1>0, <1>3, LoopStep
  <2>2. msec' = msec /\ nest' = nest
    BY <1>3 DEF ResetLoop, clock, hardware
  <2>3. QED
    BY <1>2, <2>1, <2>2 DEF Ahead, ServePc, WillReset, InIdle
<1>4. ASSUME NEW l \in Level, ResetDone(l) PROVE Budget(c)' <= Budget(c)
  <2>1. Others(l) /\ frame[l].pc = "zero" /\ frame'[l] = Idle
    BY <1>0, <1>4, DoneStep
  <2>2. msec' = 0 /\ nest' = nest
    BY <1>4 DEF ResetDone, hardware
  <2>3. l # Low
    BY <1>0, <2>1 DEF Nested, NestedAt, Inner
  <2>4. WillReset(l) /\ ~WillReset(l)' /\ ~Ahead(l, c)'
    BY <2>1, <2>3 DEF Ahead, ServePc, WillReset, InIdle, Idle
  <2>5. QED
    BY <1>0, <2>1, <2>2, <2>4, BudgetStep
\* A level above Low begins to reset the count.
<1>5. ASSUME NEW l \in Level, NEW run \in BOOLEAN, EnterReset(l, run), InIdle(l), l # Low,
             nest' = nest + 1, msec' = msec
      PROVE  Budget(c)' <= Budget(c)
  <2>1. Others(l) /\ frame'[l].pc = "loop" /\ frame[l].pc = "idle"
    BY <1>0, <1>5, EnterStep DEF InIdle
  <2>2. QED
    BY <1>2, <1>5, <2>1 DEF Ahead, ServePc, WillReset, InIdle
<1>6. ASSUME NEW l \in SetLevels, NEW stamp \in Stamp, SetTime(l, stamp)
      PROVE  Budget(c)' <= Budget(c)
  <2>1. l \in Level /\ l # Low /\ nest' = nest + 1 /\ msec' = msec
    BY <1>6, TimebaseAssumption, Levels DEF SetTime
  <2>2. InIdle(l)
    <3>1. l >= l
      BY <2>1, Levels
    <3>2. QED
      BY <1>6, <2>1, <3>1 DEF SetTime, AllIdle, Accepts
  <2>3. CASE EnterReset(l, FALSE)
    BY <1>5, <2>1, <2>2, <2>3
  <2>4. CASE UNCHANGED frame
    <3>1. Others(l) /\ (WillReset(l)' <=> WillReset(l)) /\ (Ahead(l, c)' <=> Ahead(l, c))
      BY <1>0, <2>4 DEF TypeOK, Others, WillReset, InIdle, Ahead
    <3>2. QED
      BY <1>0, <2>1, <3>1, BudgetStep
  <2>5. QED
    BY <1>6, <2>3, <2>4 DEF SetTime
<1>7. CASE PulseInterrupt
  <2>1. nest' = nest + 1 /\ msec' = msec /\ High \in Level /\ High # Low /\ High >= High
    BY <1>7, Levels DEF PulseInterrupt, clock
  <2>0. EnterReset(High, TRUE)
    BY <1>7 DEF PulseInterrupt
  <2>2. InIdle(High)
    BY <1>7, <2>1 DEF PulseInterrupt, Accepts
  <2>3. QED
    BY <1>5, <2>0, <2>1, <2>2
<1>8. CASE TimerInterrupt
  <2>1. Others(Low) /\ frame'[Low].pc = "enter" /\ Low \in Level
    BY <1>0, <1>8, TimerStep, Levels
  <2>2. frame[Low].pc = "idle" /\ msec' = msec /\ nest' = nest
    BY <1>8, <2>1, Levels DEF TimerInterrupt, Accepts, InIdle, clock
  <2>3. QED
    BY <1>2, <2>1, <2>2 DEF Ahead, ServePc, WillReset
<1>9. CASE TimerOverflows \/ RtcPulses \/ MainLoop \/ UNCHANGED vars
  <2>1. UNCHANGED <<frame, msec, nest>>
    BY <1>9 DEF TimerOverflows, RtcPulses, MainLoop, StartTimer, StartChannel, StopTimer,
       TestAndClear, SetEtimer, MainOnly, clock, hardware, vars
  <2>2. Budget(c)' = Budget(c) /\ Main \in Level
    BY <2>1, Levels DEF Budget, GrantOf, Resetters, AheadOf, WillReset, InIdle, Ahead
  <2>3. Budget(c) \in Nat
    <3>1. Others(Main)
      BY <1>0, <2>1 DEF Others, TypeOK
    <3>2. QED
      BY <1>0, <2>2, <3>1, BudgetStep
  <2>4. QED
    BY <2>2, <2>3
<1>10. QED
  BY <1>1, <1>3, <1>4, <1>6, <1>7, <1>8, <1>9 DEF Next, Step

\* When the main loop runs no tick is under way.
LEMMA NothingWhenIdle ==
  ASSUME AllIdle, NEW c \in Channel
  PROVE  Sum(AheadOf(c)) = 0 /\ Sum(Resetters) = 0
<1>1. \A l \in Level : ~Ahead(l, c) /\ ~WillReset(l)
  BY DEF AllIdle, InIdle, Ahead, ServePc, WillReset
<1>2. \A l \in Level : AheadOf(c)[l] = 0 /\ Resetters[l] = 0
  BY <1>1 DEF AheadOf, Resetters, One
<1>3. QED
  BY <1>2, Levels DEF Sum

LEMMA BoundedNext ==
  ASSUME IInv, TypeOK', Bounded, [Next]_vars
  PROVE  Bounded'
<1> SUFFICES ASSUME NEW c \in Channel PROVE Budget(c)' <= N * (MaxNest + 1)
  BY DEF Bounded
<1>0. MaxNest \in Nat /\ N \in Nat /\ N * (MaxNest + 1) \in Nat /\ N * (MaxNest + 1) = N + N * MaxNest
      /\ N * MaxNest \in Nat
  BY TimebaseAssumption
<1>1. CASE MainRound
  <2>1. AllIdle /\ UNCHANGED <<frame, msec>> /\ nest' = 0 /\ msec \in 0 .. N
    BY <1>1 DEF MainRound, clock, IInv, TypeOK
  <2>2. Sum(AheadOf(c)) = 0 /\ Sum(Resetters) = 0
    BY <2>1, NothingWhenIdle
  <2>3. AheadOf(c)' = AheadOf(c) /\ Resetters' = Resetters
    BY <2>1 DEF AheadOf, Resetters, Ahead, WillReset, InIdle
  <2>4. Budget(c)' = (N - msec) + N * (MaxNest - 0 + 0) + 0
    BY <2>1, <2>2, <2>3 DEF Budget, GrantOf
  <2>5. MaxNest - 0 + 0 = MaxNest
    BY <1>0
  <2>6. QED
    BY <1>0, <2>1, <2>4, <2>5
<1>2. CASE ~MainRound
  <2>1. Budget(c) <= N * (MaxNest + 1) /\ Budget(c)' <= Budget(c)
    BY <1>2, BudgetNext DEF Bounded
  <2>2. Budget(c) \in Int /\ Budget(c)' \in Int
    <3>1. \A f \in [Level -> {0, 1}] : Sum(f) \in Nat
      BY SumType
    <3>2. AheadOf(c) \in [Level -> {0, 1}] /\ Resetters \in [Level -> {0, 1}]
          /\ AheadOf(c)' \in [Level -> {0, 1}] /\ Resetters' \in [Level -> {0, 1}]
      BY DEF AheadOf, Resetters, One
    <3>3. QED
      BY <1>0, <3>1, <3>2 DEF Budget, GrantOf, IInv, TypeOK
  <2>3. QED
    BY <1>0, <2>1, <2>2
<1>3. QED
  BY <1>1, <1>2

\* What a step inside tick_handler does to the counters and to who serves what.
ServeStep(l) ==
  /\ \A c \in Channel : Serves(l, c)' =>
       Serves(l, c) \/ (StoreCount(l) /\ c = frame[l].ch /\ count'[c] = 0)
  /\ \A c \in Channel : frame'[l].pc = "store" /\ frame'[l].ch = c =>
       frame'[l].held = count[c] /\ count' = count
  /\ \A c \in Channel : count'[c] # count[c] =>
       \/ StoreCount(l) /\ c = frame[l].ch /\ count'[c] = Decremented(frame[l].held)
       \/ Serves(l, c) /\ ~Serves(l, c)'

LEMMA ServeStepHolds ==
  ASSUME TypeOK, Nested, NEW l \in Level,
         \/ TickCounted(l) \/ ScanChannel(l) \/ StoreCount(l) \/ CallbackReturns(l)
         \/ LoadExpired(l) \/ StoreExpired(l) \/ Reload(l) \/ StoreActive(l)
  PROVE  ServeStep(l)
<1>1. /\ frame \in [Level -> Frame] /\ frame[l] \in Frame
      /\ count \in [Channel -> 0 .. CountWidth - 1]
      /\ frame[l].pc \in Inner \ {"scan"} => frame[l].ch \in Channel
  BY DEF TypeOK, Nested, NestedAt
<1>2. CASE TickCounted(l) \/ ScanChannel(l)
  <2>1. count' = count /\ frame'[l].pc \in {"scan", "store"}
        /\ (frame'[l].pc = "store" =>
              frame'[l].held = count[frame[l].ch] /\ frame'[l].ch = frame[l].ch)
    <3>1. CASE TickCounted(l)
      BY <1>1, <3>1 DEF Frame, TickCounted, channels
    <3>2. CASE ScanChannel(l) /\ frame[l].ch \in active
      <4>1. frame' = [frame EXCEPT ![l].pc = "store", ![l].held = count[frame[l].ch]]
            /\ count' = count
        BY <3>2 DEF ScanChannel, channels
      <4>2. QED
        BY <1>1, <4>1 DEF Frame
    <3>3. CASE ScanChannel(l) /\ frame[l].ch \notin active
      BY <1>1, <3>3 DEF Frame, ScanChannel, At, channels
    <3>4. QED
      BY <1>2, <3>1, <3>2, <3>3
  <2>2. QED
    BY <2>1 DEF ServeStep, Serves, ServePc
<1>3. CASE CallbackReturns(l) \/ LoadExpired(l) \/ StoreExpired(l)
  <2>1. /\ frame[l].pc \in ServePc /\ frame'[l].pc \in ServePc /\ frame'[l].ch = frame[l].ch
        /\ count' = count
    BY <1>1, <1>3 DEF Frame, CallbackReturns, LoadExpired, StoreExpired, Goto, At, channels,
       ServePc
  <2>2. QED
    BY <2>1 DEF ServeStep, Serves, ServePc
<1>4. CASE Reload(l) \/ StoreActive(l)
  <2>1. /\ frame[l].pc \in ServePc /\ frame[l].ch \in Channel
    BY <1>1, <1>4 DEF Reload, StoreActive, At, ServePc, Inner
  <2>2. \/ count' = count /\ frame'[l].pc = "clear" /\ frame'[l].ch = frame[l].ch
        \/ /\ frame'[l].pc = "scan"
           /\ \A c \in Channel : c # frame[l].ch => count'[c] = count[c]
    <3>1. CASE Reload(l)
      BY <1>1, <3>1 DEF Frame, Reload
    <3>2. CASE StoreActive(l)
      BY <1>1, <3>2 DEF Frame, StoreActive
    <3>3. QED
      BY <1>4, <3>1, <3>2
  <2>3. QED
    BY <2>1, <2>2 DEF ServeStep, Serves, ServePc
<1>5. CASE StoreCount(l)
  <2> DEFINE left == Decremented(frame[l].held)
             next == IF left # 0 THEN "scan"
                     ELSE IF frame[l].ch \in WithCallback /\ runCallbacks THEN "callback"
                     ELSE IF frame[l].ch \notin WithCallback THEN "mark" ELSE "reload"
  <2>1. frame' = [frame EXCEPT ![l].held = 0,
                    ![l].ch = IF left # 0 THEN @ + 1 ELSE @, ![l].pc = next]
        /\ count' = [count EXCEPT ![frame[l].ch] = left] /\ frame[l].pc = "store"
    BY <1>5 DEF StoreCount, At
  <2>2. (left # 0 /\ next = "scan") \/ (left = 0 /\ next \in ServePc)
    <3>1. CASE left # 0
      BY <3>1
    <3>2. CASE left = 0
      BY <3>2 DEF ServePc
    <3>3. QED
      BY <3>1, <3>2
  <2>3. frame[l].ch \in Channel
    BY <1>1, <2>1 DEF Inner
  <2> HIDE DEF next
  <2>4. frame'[l].pc = next /\ (left = 0 => frame'[l].ch = frame[l].ch)
    BY <1>1, <2>1 DEF Frame
  <2>5. /\ count'[frame[l].ch] = left
        /\ \A c \in Channel : c # frame[l].ch => count'[c] = count[c]
    BY <1>1, <2>1, <2>3
  <2> HIDE DEF left
  <2>6. \A c \in Channel : Serves(l, c)' => c = frame[l].ch /\ count'[c] = 0
    BY <2>2, <2>4, <2>5 DEF Serves, ServePc
  <2>7. frame'[l].pc # "store"
    BY <2>2, <2>4 DEF ServePc
  <2>8. QED
    BY <1>5, <2>5, <2>6, <2>7 DEF ServeStep, left
<1>6. QED
  BY <1>2, <1>3, <1>4, <1>5

\* A counter that is safe is safe after a tick more, and does not reach 0.
LEMMA SafeDecremented ==
  ASSUME Bounded, NEW c \in Channel, NEW v \in 0 .. CountWidth - 1, Safe(v, c),
         Budget(c) \in Nat, Budget(c)' \in Nat, Budget(c)' < Budget(c)
  PROVE  Decremented(v) # 0 /\ Decremented(v) > Budget(c)'
<1>1. /\ N \in Nat /\ N >= 2 /\ MaxNest \in Nat /\ CountWidth \in Nat
      /\ CountWidth > N * (MaxNest + 2)
  BY TimebaseAssumption
<1>2. N * (MaxNest + 2) = N * (MaxNest + 1) + N /\ N * (MaxNest + 1) \in Nat
  BY <1>1
<1>3. Budget(c) <= N * (MaxNest + 1)
  BY DEF Bounded
<1>4. CountWidth - 1 > Budget(c)
  BY <1>1, <1>2, <1>3
<1>5. CASE v = 0
  <2>1. Decremented(v) = CountWidth - 1
    BY <1>1, <1>4, <1>5 DEF Decremented
  <2>2. QED
    BY <1>1, <1>4, <2>1
<1>6. CASE v # 0
  <2>1. v - 1 \in 0 .. CountWidth - 1 /\ CountWidth >= 1
    BY <1>1, <1>4, <1>6
  <2>2. (v - 1) % CountWidth = v - 1
    BY <1>1, <2>1, ModSmall
  <2>3. (v + CountWidth - 1) % CountWidth = (v - 1) % CountWidth
    BY <1>1, <2>1
  <2>4. v > Budget(c)
    BY <1>6 DEF Safe
  <2>5. QED
    BY <2>1, <2>2, <2>3, <2>4 DEF Decremented
<1>7. QED
  BY <1>5, <1>6

\* A counter that is safe stays so while no more ticks may come.
LEMMA SafeKept ==
  ASSUME NEW c \in Channel, NEW v \in Nat, Safe(v, c),
         Budget(c) \in Nat, Budget(c)' \in Nat, Budget(c)' <= Budget(c)
  PROVE  v = 0 \/ v > Budget(c)'
BY DEF Safe

LEMMA BudgetType ==
  ASSUME TypeOK, NEW c \in Channel PROVE Budget(c) \in Nat
<1>1. AheadOf(c) \in [Level -> {0, 1}] /\ Resetters \in [Level -> {0, 1}]
  BY DEF AheadOf, Resetters, One
<1>2. Sum(AheadOf(c)) \in Nat /\ Sum(Resetters) \in Nat
  BY <1>1, SumType
<1>3. nest \in 0 .. MaxNest /\ msec \in 0 .. N /\ N \in Nat
  BY Widths DEF TypeOK
<1>4. GrantOf(nest, Sum(Resetters)) \in Nat
  BY <1>2, <1>3, GrantStep
<1>5. QED
  BY <1>2, <1>3, <1>4 DEF Budget

LEMMA BudgetTypeNext ==
  ASSUME TypeOK', NEW c \in Channel PROVE Budget(c)' \in Nat
<1>1. AheadOf(c)' \in [Level -> {0, 1}] /\ Resetters' \in [Level -> {0, 1}]
  BY DEF AheadOf, Resetters, One
<1>2. Sum(AheadOf(c)') \in Nat /\ Sum(Resetters') \in Nat
  BY <1>1, SumType
<1>3. nest' \in 0 .. MaxNest /\ msec' \in 0 .. N /\ N \in Nat
  BY Widths DEF TypeOK
<1>4. GrantOf(nest', Sum(Resetters')) \in Nat
  BY <1>2, <1>3, GrantStep
<1>5. QED
  BY <1>2, <1>3, <1>4 DEF Budget

\* A step of a level that serves nothing new and changes no counter.
LEMMA ServedElse ==
  ASSUME IInv, TypeOK', ServedSafely, NEW l \in Level, Others(l), count' = count,
         frame'[l].pc \notin ServePc \cup {"store"},
         \A c \in Channel : Budget(c)' <= Budget(c)
  PROVE  ServedSafely'
<1> SUFFICES ASSUME NEW j \in Level, NEW c \in Channel, Serves(j, c)'
             PROVE  /\ Safe(count[c], c)'
                    /\ \A h \in Level : h > j =>
                         /\ ~Serves(h, c)'
                         /\ frame'[h].pc = "store" /\ frame'[h].ch = c =>
                              Safe(frame[h].held, c)'
  BY DEF ServedSafely
<1>1. j # l /\ Serves(j, c)
  BY DEF Others, Serves
<1>2. Budget(c) \in Nat /\ Budget(c)' \in Nat /\ Budget(c)' <= Budget(c)
  BY BudgetType, BudgetTypeNext DEF IInv
<1>3. Safe(count[c], c)'
  <2>1. Safe(count[c], c) /\ count[c] \in Nat
    BY <1>1 DEF ServedSafely, IInv, TypeOK
  <2>2. QED
    BY <1>2, <2>1, SafeKept DEF Safe
<1>4. ASSUME NEW h \in Level, h > j
      PROVE  /\ ~Serves(h, c)'
             /\ frame'[h].pc = "store" /\ frame'[h].ch = c => Safe(frame[h].held, c)'
  <2>1. CASE h = l
    BY <2>1 DEF Serves
  <2>2. CASE h # l
    <3>1. frame'[h] = frame[h] /\ ~Serves(h, c)
      BY <1>1, <1>4, <2>2 DEF Others, ServedSafely
    <3>2. frame[h].pc = "store" /\ frame[h].ch = c =>
             Safe(frame[h].held, c) /\ frame[h].held \in Nat
      BY <1>1, <1>4 DEF ServedSafely, IInv, TypeOK, Frame
    <3>3. frame'[h].held = frame[h].held
      BY <3>1
    <3>4. QED
      BY <1>2, <3>1, <3>2, <3>3, SafeKept DEF Safe, Serves
  <2>3. QED
    BY <2>1, <2>2
<1>5. QED
  BY <1>3, <1>4

\* A step inside tick_handler.  Whoever serves the channel below the running
\* level keeps it from being found due again.
LEMMA ServedInner ==
  ASSUME IInv, TypeOK', Bounded, ServedSafely, NEW l \in Level, Running(l), Others(l),
         ServeStep(l), StoreCount(l) => frame[l].pc = "store",
         \A c \in Channel : /\ Budget(c)' <= Budget(c)
                            /\ StoreCount(l) /\ c = frame[l].ch => Budget(c)' < Budget(c)
  PROVE  ServedSafely'
<1> SUFFICES ASSUME NEW j \in Level, NEW c \in Channel, Serves(j, c)'
             PROVE  /\ Safe(count[c], c)'
                    /\ \A h \in Level : h > j =>
                         /\ ~Serves(h, c)'
                         /\ frame'[h].pc = "store" /\ frame'[h].ch = c =>
                              Safe(frame[h].held, c)'
  BY DEF ServedSafely
<1>1. /\ Budget(c) \in Nat /\ Budget(c)' \in Nat /\ Budget(c)' <= Budget(c)
      /\ count[c] \in 0 .. CountWidth - 1
      /\ \A h \in Level : frame[h].held \in 0 .. CountWidth - 1
  BY BudgetType, BudgetTypeNext DEF IInv, TypeOK, Frame
<1>2. \A h \in Level : h > l => frame'[h].pc = "idle"
  <2>1. \A h \in Level : h > l => h # l /\ frame[h].pc = "idle"
    BY Levels DEF Running, InIdle
  <2>2. QED
    BY <2>1 DEF Others
<1>3. CASE j = l
  <2>1. Safe(count[c], c)'
    <3>1. CASE Serves(l, c)
      <4>1. count'[c] = count[c] \/ (StoreCount(l) /\ frame[l].pc = "store")
        BY <1>3 DEF ServeStep
      <4>2. frame[l].pc # "store"
        BY <3>1 DEF Serves, ServePc
      <4>3. Safe(count[c], c)
        BY <3>1 DEF ServedSafely
      <4>4. QED
        BY <1>1, <4>1, <4>2, <4>3, SafeKept DEF Safe
    <3>2. CASE ~Serves(l, c)
      BY <1>3, <3>2 DEF ServeStep, Safe
    <3>3. QED
      BY <3>1, <3>2
  <2>2. QED
    BY <1>2, <1>3, <2>1 DEF Serves, ServePc
<1>4. CASE j # l
  <2>1. Serves(j, c)
    BY <1>4 DEF Others, Serves
  <2>2. j < l
    <3>1. ~(j > l)
      BY <1>2, <1>4 DEF Serves, ServePc
    <3>2. QED
      BY <1>4, <3>1, Levels
  <2>3. /\ Safe(count[c], c) /\ ~Serves(l, c)
        /\ frame[l].pc = "store" /\ frame[l].ch = c => Safe(frame[l].held, c)
    BY <2>1, <2>2 DEF ServedSafely
  \* When the running level decrements the counter, it stays away from 0.
  <2>4. StoreCount(l) /\ c = frame[l].ch =>
           Decremented(frame[l].held) # 0 /\ Decremented(frame[l].held) > Budget(c)'
    BY <1>1, <2>3, SafeDecremented
  <2>5. Safe(count[c], c)'
    <3>1. CASE count'[c] = count[c]
      BY <1>1, <2>3, <3>1, SafeKept DEF Safe
    <3>2. CASE count'[c] # count[c]
      BY <2>3, <2>4, <3>2 DEF ServeStep, Safe
    <3>3. QED
      BY <3>1, <3>2
  <2>6. ~Serves(l, c)'
    <3>1. Serves(l, c)' => StoreCount(l) /\ c = frame[l].ch /\ count'[c] = 0
      BY <2>3 DEF ServeStep
    <3>2. StoreCount(l) /\ c = frame[l].ch /\ count'[c] = 0 => FALSE
      <4>1. SUFFICES ASSUME StoreCount(l), c = frame[l].ch, count'[c] = 0 PROVE FALSE
        OBVIOUS
      <4>2. count[c] # 0 => count'[c] = Decremented(frame[l].held)
        BY <2>3, <4>1 DEF ServeStep
      <4>3. count'[c] = Decremented(frame[l].held)
        BY <1>1, <4>1 DEF StoreCount, IInv, TypeOK
      <4>4. QED
        BY <2>4, <4>1, <4>3
    <3>3. QED
      BY <3>1, <3>2
  <2>7. frame'[l].pc = "store" /\ frame'[l].ch = c => Safe(frame[l].held, c)'
    <3>1. frame'[l].pc = "store" /\ frame'[l].ch = c =>
             frame'[l].held = count[c] /\ count'[c] = count[c]
      BY DEF ServeStep
    <3>2. QED
      BY <2>5, <3>1 DEF Safe
  <2>8. ASSUME NEW h \in Level, h > j, h # l
        PROVE  /\ ~Serves(h, c)'
               /\ frame'[h].pc = "store" /\ frame'[h].ch = c => Safe(frame[h].held, c)'
    <3>1. frame'[h] = frame[h] /\ ~Serves(h, c)
      BY <2>1, <2>8 DEF Others, ServedSafely
    <3>2. frame[h].pc = "store" /\ frame[h].ch = c => Safe(frame[h].held, c)
      BY <2>1, <2>8 DEF ServedSafely
    <3>3. frame'[h].held = frame[h].held
      BY <3>1
    <3>4. QED
      BY <1>1, <3>1, <3>2, <3>3, SafeKept DEF Safe, Serves
  <2>9. QED
    BY <2>5, <2>6, <2>7, <2>8
<1>5. QED
  BY <1>3, <1>4

LEMMA ServedNext ==
  ASSUME IInv, IInv', CallInv, [Next]_vars
  PROVE  ServedSafely'
<1>0. TypeOK /\ TypeOK' /\ Nested /\ Bounded /\ ServedSafely
  BY DEF IInv, CallInv
<1>1. CASE MainRound \/ MainLoop
  <2>1. AllIdle /\ frame' = frame
    BY <1>1 DEF MainRound, MainLoop, StartTimer, StartChannel, StopTimer, TestAndClear,
       SetEtimer, MainOnly
  <2>2. \A l \in Level, c \in Channel : ~Serves(l, c)'
    BY <2>1 DEF AllIdle, InIdle, Serves, ServePc
  <2>3. QED
    BY <2>2 DEF ServedSafely
<1>2. CASE ~(MainRound \/ MainLoop)
  <2>1. \A c \in Channel : Budget(c)' <= Budget(c)
    BY <1>0, <1>2, BudgetNext
  <2>2. ASSUME NEW l \in Level,
               \/ TickCounted(l) \/ ScanChannel(l) \/ StoreCount(l) \/ CallbackReturns(l)
               \/ LoadExpired(l) \/ StoreExpired(l) \/ Reload(l) \/ StoreActive(l)
        PROVE  ServedSafely'
    <3>1. Follows(l) /\ ServeStep(l)
      BY <1>0, <2>2, InnerStep, ServeStepHolds
    <3>2. Running(l) /\ (StoreCount(l) => frame[l].pc = "store")
      BY <2>2 DEF TickCounted, ScanChannel, StoreCount, CallbackReturns, LoadExpired,
         StoreExpired, Reload, StoreActive, At
    <3>3. ASSUME NEW c \in Channel, StoreCount(l), c = frame[l].ch
          PROVE  Budget(c)' < Budget(c)
      <4>1. nest' = nest /\ msec' = msec /\ Ahead(l, c) /\ ~Ahead(l, c)'
        BY <3>3, InnerAhead
      <4>2. QED
        BY <1>0, <3>1, <4>1, InnerBudget
    <3>4. QED
      BY <1>0, <2>1, <3>1, <3>2, <3>3, ServedInner DEF Follows
  <2>3. ASSUME NEW l \in Level, TickRefused(l) \/ ScanDone(l) \/ ResetLoop(l) \/ ResetDone(l)
        PROVE  ServedSafely'
    <3>1. Others(l) /\ frame'[l].pc \in {"idle", "loop", "zero", "enter"}
      <4>1. CASE TickRefused(l) \/ ScanDone(l)
        <5>1. Returns(l)
          BY <1>0, <4>1, ReturnStep
        <5>2. Idle.pc = "idle"
          BY DEF Idle
        <5>3. QED
          BY <5>1, <5>2 DEF Returns
      <4>2. CASE ResetLoop(l)
        BY <1>0, <4>2, LoopStep
      <4>3. CASE ResetDone(l)
        BY <1>0, <4>3, DoneStep DEF Idle
      <4>4. QED
        BY <2>3, <4>1, <4>2, <4>3
    <3>2. frame'[l].pc \notin ServePc \cup {"store"}
      BY <3>1 DEF ServePc
    <3>3. count' = count
      BY <2>3 DEF TickRefused, ScanDone, ResetLoop, ResetDone, channels
    <3>4. QED
      BY <1>0, <2>1, <3>1, <3>2, <3>3, ServedElse
  <2>4. ASSUME NEW l \in Level, NEW run \in BOOLEAN, EnterReset(l, run), count' = count
        PROVE  ServedSafely'
    <3>1. Others(l) /\ frame'[l].pc \notin ServePc \cup {"store"}
      BY <1>0, <2>4, EnterStep DEF ServePc
    <3>2. QED
      BY <1>0, <2>1, <2>4, <3>1, ServedElse
  <2>5. CASE TimerInterrupt
    <3>1. Others(Low) /\ frame'[Low].pc \notin ServePc \cup {"store"} /\ Low \in Level
      BY <1>0, <2>5, TimerStep, Levels DEF ServePc
    <3>2. count' = count
      BY <2>5 DEF TimerInterrupt, channels
    <3>3. QED
      BY <1>0, <2>1, <3>1, <3>2, ServedElse
  \* Nobody moves and no counter changes.
  <2>6. CASE UNCHANGED <<count, frame>>
    <3>1. \A j \in Level, c \in Channel : /\ Serves(j, c)' <=> Serves(j, c)
                                         /\ count'[c] = count[c] /\ frame'[j] = frame[j]
      BY <2>6 DEF Serves
    <3>2. \A c \in Channel : \A v \in Nat : Safe(v, c) => v = 0 \/ v > Budget(c)'
      BY <1>0, <2>1, BudgetType, BudgetTypeNext, SafeKept
    <3>3. \A c \in Channel : count[c] \in Nat /\ \A h \in Level : frame[h].held \in Nat
      BY <1>0 DEF TypeOK, Frame
    <3>4. QED
      BY <1>0, <3>1, <3>2, <3>3 DEF ServedSafely, Safe
  <2>7. ASSUME NEW l \in SetLevels, NEW stamp \in Stamp, SetTime(l, stamp) PROVE ServedSafely'
    <3>1. l \in Level /\ count' = count
      BY <2>7, TimebaseAssumption, Levels DEF SetTime, channels
    <3>2. QED
      BY <2>4, <2>6, <2>7, <3>1 DEF SetTime
  <2>8. CASE PulseInterrupt
    <3>1. count' = count /\ High \in Level
      BY <2>8, Levels DEF PulseInterrupt, channels
    <3>2. EnterReset(High, TRUE)
      BY <2>8 DEF PulseInterrupt
    <3>3. QED
      BY <2>4, <3>1, <3>2
  <2>9. CASE TimerOverflows \/ RtcPulses \/ UNCHANGED vars
    BY <2>6, <2>9 DEF TimerOverflows, RtcPulses, channels, vars
  <2>10. QED
    BY <1>2, <2>2, <2>3, <2>5, <2>7, <2>8, <2>9 DEF Next, Step, Tick
<1>3. QED
  BY <1>1, <1>2

LEMMA CallInit == Init => CallInv
<1> SUFFICES ASSUME Init PROVE CallInv
  OBVIOUS
<1>1. AllIdle
  BY DEF Init, AllIdle, InIdle, Idle
<1>2. ServedSafely
  BY <1>1 DEF AllIdle, InIdle, ServedSafely, Serves, ServePc
<1>3. Bounded
  <2> SUFFICES ASSUME NEW c \in Channel PROVE Budget(c) <= N * (MaxNest + 1)
    BY DEF Bounded
  <2>1. Sum(AheadOf(c)) = 0 /\ Sum(Resetters) = 0
    BY <1>1, NothingWhenIdle
  <2>2. MaxNest \in Nat /\ N \in Nat
    BY TimebaseAssumption
  <2>3. Budget(c) = (N - 0) + N * (MaxNest - 0 + 0) + 0
    BY <2>1 DEF Budget, GrantOf, Init
  <2>4. MaxNest - 0 + 0 = MaxNest /\ N * (MaxNest + 1) = N + N * MaxNest
    BY <2>2
  <2>5. N * MaxNest \in Nat
    BY <2>2
  <2>6. QED
    BY <2>2, <2>3, <2>4, <2>5
<1>4. QED
  BY <1>2, <1>3 DEF CallInv

\* The invariant of the callbacks: what ticks may still come is too little to
\* take a counter that is being served round to 0.
THEOREM CallsInvariance == Spec => []CallInv
<1>1. IInv /\ IInv' /\ CallInv /\ [Next]_vars => CallInv'
  BY BoundedNext, ServedNext DEF CallInv, IInv
<1>2. QED
  BY CallInit, <1>1, Invariance, PTL DEF Spec

\* No callback is entered again while it runs, however the ticks of the nested
\* catch-up loops decrement its counter (timeout.c:147-166): the watchdog ends
\* what would be long enough for the counter to come round.
THEOREM CallbacksOnce == Spec => []NotReentered
<1>1. IInv /\ CallInv => NotReentered
  <2> SUFFICES ASSUME IInv, CallInv, NEW l \in Level, NEW h \in Level, l < h,
                      frame[l].pc = "callback", frame[h].pc = "callback",
                      frame[l].ch = frame[h].ch
               PROVE  FALSE
    BY DEF NotReentered
  <2>1. frame[l].ch \in Channel
    BY DEF IInv, Nested, NestedAt, Inner
  <2>2. Serves(l, frame[l].ch) /\ Serves(h, frame[l].ch)
    BY DEF Serves, ServePc
  <2>3. h > l
    BY Levels
  <2>4. QED
    BY <2>1, <2>2, <2>3 DEF CallInv, ServedSafely
<1>2. QED
  BY <1>1, Invariance, CallsInvariance, PTL

-----------------------------------------------------------------------------
(***************************************************************************)
(* Periodic channels are on time.                                          *)
(***************************************************************************)

\* A periodic channel nobody serves is due within its period, and so is what a
\* level holds of its counter when nobody below serves the channel: such a tick
\* may write a stale value back, never a wrong one.
OnTime ==
  \A c \in active : period[c] # 0 =>
    /\ (\A l \in Level : ~Serves(l, c)) => count[c] \in 1 .. period[c]
    /\ \A h \in Level :
         frame[h].pc = "store" /\ frame[h].ch = c /\ (\A l \in Level : l < h => ~Serves(l, c))
           => frame[h].held \in 1 .. period[c]

\* Who stops a channel stops a single shot, and holds a mask that has every
\* periodic channel that runs, whatever single shots ended since.
Stops ==
  \A l \in Level : frame[l].pc = "clear" =>
    /\ period[frame[l].ch] = 0
    /\ \A c \in Channel : period[c] # 0 => (c \in frame[l].mask <=> c \in active)

DueInv == OnTime /\ Stops

\* A step that changes no channel, and after which every channel is served that
\* was, nobody else stores a counter and nobody else stops a channel.
LEMMA DueElse ==
  ASSUME DueInv, UNCHANGED <<count, period, active>>,
         \A j \in Level, c \in Channel : Serves(j, c) => Serves(j, c)',
         \A j \in Level : frame'[j].pc \in {"store", "clear"} => frame'[j] = frame[j],
         TypeOK
  PROVE  DueInv'
<1>1. OnTime'
  <2> SUFFICES ASSUME NEW c \in active, period[c] # 0
               PROVE  /\ (\A l \in Level : ~Serves(l, c)') => count[c] \in 1 .. period[c]
                      /\ \A h \in Level :
                           /\ frame'[h].pc = "store" /\ frame'[h].ch = c
                           /\ \A l \in Level : l < h => ~Serves(l, c)'
                           => frame'[h].held \in 1 .. period[c]
    BY DEF OnTime
  <2>1. c \in Channel /\ \A l \in Level : ~Serves(l, c)' => ~Serves(l, c)
    BY DEF TypeOK
  <2>2. (\A l \in Level : ~Serves(l, c)') => count[c] \in 1 .. period[c]
    BY <2>1 DEF DueInv, OnTime
  <2>3. ASSUME NEW h \in Level, frame'[h].pc = "store", frame'[h].ch = c,
               \A l \in Level : l < h => ~Serves(l, c)'
        PROVE  frame'[h].held \in 1 .. period[c]
    <3>1. frame'[h] = frame[h]
      BY <2>3
    <3>2. \A l \in Level : l < h => ~Serves(l, c)
      BY <2>1, <2>3
    <3>3. QED
      BY <2>3, <3>1, <3>2 DEF DueInv, OnTime
  <2>4. QED
    BY <2>2, <2>3
<1>2. Stops'
  BY DEF DueInv, Stops
<1>3. QED
  BY <1>1, <1>2 DEF DueInv

LEMMA DueNext ==
  ASSUME IInv, IInv', DueInv, [Next]_vars
  PROVE  DueInv'
<1> USE DEF DueInv
<1>0. /\ TypeOK /\ Nested
      /\ frame \in [Level -> Frame] /\ \A l \in Level : frame[l] \in Frame
      /\ count \in [Channel -> 0 .. CountWidth - 1]
      /\ period \in [Channel -> Nat] /\ active \subseteq Channel
      /\ \A l \in Level : frame[l].pc \in Inner \ {"scan"} => frame[l].ch \in Channel
  <2>1. TypeOK /\ Nested
    BY DEF IInv
  <2>2. Period \cup {0} \subseteq Nat
    BY TimebaseAssumption
  <2>3. period \in [Channel -> Nat]
    BY <2>1, <2>2 DEF TypeOK
  <2>4. \A l \in Level : frame[l].pc \in Inner \ {"scan"} => frame[l].ch \in Channel
    BY <2>1 DEF Nested, NestedAt
  <2>5. QED
    BY <2>1, <2>3, <2>4 DEF TypeOK
\* The main loop has the channels to itself.
<1>1. CASE MainRound \/ MainLoop
  <2>1. AllIdle /\ frame' = frame
    BY <1>1 DEF MainRound, MainLoop, StartTimer, StartChannel, StopTimer, TestAndClear,
       SetEtimer, MainOnly
  <2>2. \A l \in Level : frame[l].pc = "idle" /\ frame'[l].pc = "idle"
    BY <2>1 DEF AllIdle, InIdle
  <2>3. (\A l \in Level, c \in Channel : ~Serves(l, c)) /\ Stops'
    BY <2>2 DEF Serves, ServePc, Stops
  <2>4. \A c \in active' : period'[c] # 0 => count'[c] \in 1 .. period'[c]
    <3>1. \A c \in active : period[c] # 0 => count[c] \in 1 .. period[c]
      BY <1>0, <2>3 DEF OnTime
    <3>2. ASSUME NEW c \in Channel, NEW p \in Nat, NEW delay \in Nat, StartChannel(c, p, delay),
                 p = 0 \/ (delay = p /\ p # 0)
          PROVE  \A d \in active' : period'[d] # 0 => count'[d] \in 1 .. period'[d]
      BY <1>0, <3>1, <3>2 DEF StartChannel
    <3>3. ASSUME NEW c \in Channel, StartTimer(c)
          PROVE  \A d \in active' : period'[d] # 0 => count'[d] \in 1 .. period'[d]
      <4>1. Period \subseteq Nat \ {0} /\ Delay \subseteq Nat \ {0}
        BY TimebaseAssumption
      <4>2. QED
        BY <3>2, <3>3, <4>1 DEF StartTimer
    <3>4. ASSUME NEW c \in Channel, StopTimer(c) \/ TestAndClear(c)
          PROVE  \A d \in active' : period'[d] # 0 => count'[d] \in 1 .. period'[d]
      BY <3>1, <3>4 DEF StopTimer, TestAndClear
    <3>5. CASE MainRound \/ \E d \in EtimerDelay : SetEtimer(d)
      BY <3>1, <3>5 DEF MainRound, SetEtimer, channels
    <3>6. QED
      BY <1>1, <3>3, <3>4, <3>5 DEF MainLoop
  <2>5. QED
    BY <2>2, <2>3, <2>4 DEF OnTime
\* The scan loads the counter of a channel.
<1>2. ASSUME NEW l \in Level, ScanChannel(l), frame[l].ch \in active PROVE DueInv'
  <2> DEFINE d == frame[l].ch
  <2>1. /\ frame[l].pc = "scan" /\ d \in Channel /\ Running(l)
        /\ frame' = [frame EXCEPT ![l].pc = "store", ![l].held = count[d]]
        /\ UNCHANGED <<count, period, active>>
    BY <1>2 DEF ScanChannel, At, channels
  <2>2. /\ frame'[l].pc = "store" /\ frame'[l].ch = d /\ frame'[l].held = count[d]
        /\ \A j \in Level : j # l => frame'[j] = frame[j]
    BY <1>0, <2>1 DEF Frame
  <2>3. \A j \in Level : j # l => (j < l \/ frame[j].pc = "idle")
    BY <2>1, Levels DEF Running, InIdle
  <2> HIDE DEF d
  <2>4. \A j \in Level, c \in Channel : Serves(j, c)' <=> Serves(j, c)
    BY <2>1, <2>2 DEF Serves, ServePc
  <2>5. Stops'
    BY <2>1, <2>2 DEF Stops
  <2>6. ASSUME NEW c \in active, period[c] # 0,
               NEW h \in Level, frame'[h].pc = "store", frame'[h].ch = c,
               \A j \in Level : j < h => ~Serves(j, c)'
        PROVE  frame'[h].held \in 1 .. period[c]
    <3>1. \A j \in Level : j < h => ~Serves(j, c)
      BY <1>0, <2>4, <2>6
    <3>2. CASE h = l
      <4>1. \A j \in Level : ~Serves(j, c)
        BY <2>1, <2>3, <3>1, <3>2 DEF Serves, ServePc
      <4>2. QED
        BY <2>2, <2>6, <3>2, <4>1 DEF OnTime
    <3>3. CASE h # l
      BY <2>2, <2>6, <3>1, <3>3 DEF OnTime
    <3>4. QED
      BY <3>2, <3>3
  <2>7. ASSUME NEW c \in active, period[c] # 0, \A j \in Level : ~Serves(j, c)'
        PROVE  count[c] \in 1 .. period[c]
    BY <1>0, <2>4, <2>7 DEF OnTime
  <2>8. OnTime'
    BY <2>1, <2>6, <2>7 DEF OnTime
  <2>9. QED
    BY <2>5, <2>8
\* The decremented counter is stored: when it is 0 the level now serves it.
<1>3. ASSUME NEW l \in Level, StoreCount(l) PROVE DueInv'
  <2> DEFINE d    == frame[l].ch
             left == Decremented(frame[l].held)
             next == IF left # 0 THEN "scan"
                     ELSE IF d \in WithCallback /\ runCallbacks THEN "callback"
                     ELSE IF d \notin WithCallback THEN "mark" ELSE "reload"
  <2>1. /\ frame[l].pc = "store" /\ Running(l) /\ UNCHANGED <<period, active>>
        /\ count' = [count EXCEPT ![d] = left]
        /\ frame' = [frame EXCEPT ![l].held = 0,
                      ![l].ch = IF left # 0 THEN @ + 1 ELSE @, ![l].pc = next]
    BY <1>3 DEF StoreCount, At
  <2>2. d \in Channel
    BY <1>0, <2>1 DEF Inner
  <2>3. (left # 0 /\ next = "scan") \/ (left = 0 /\ next \in {"callback", "mark", "reload"})
    OBVIOUS
  <2>4. \A v \in 0 .. CountWidth - 1 : v # 0 => Decremented(v) = v - 1
    <3>1. CountWidth \in Nat /\ CountWidth >= 1
      BY Widths
    <3>2. ASSUME NEW v \in 0 .. CountWidth - 1, v # 0 PROVE Decremented(v) = v - 1
      <4>1. v - 1 \in 0 .. CountWidth - 1 /\ (v + CountWidth - 1) % CountWidth = (v - 1) % CountWidth
        BY <3>1, <3>2
      <4>2. QED
        BY <3>1, <4>1, ModSmall DEF Decremented
    <3>3. QED
      BY <3>2
  <2>5. frame[l].held \in 0 .. CountWidth - 1 /\ (frame[l].held # 0 => left = frame[l].held - 1)
    BY <1>0, <2>4 DEF Frame
  <2> HIDE DEF left, next
  <2>6. /\ frame'[l].pc = next /\ (left = 0 => frame'[l].ch = d)
        /\ \A j \in Level : j # l => frame'[j] = frame[j]
    BY <1>0, <2>1 DEF Frame
  <2>7. \A c \in Channel : count'[c] = IF c = d THEN left ELSE count[c]
    BY <1>0, <2>1
  <2>8. frame'[l].pc \notin {"store", "clear"}
    BY <2>3, <2>6
  <2>9. left = 0 => \A c \in Channel : c = d => Serves(l, c)'
    BY <2>3, <2>6 DEF Serves, ServePc
  <2>10. \A c \in Channel : ~Serves(l, c)
    BY <2>1 DEF Serves, ServePc
  <2>11. \A j \in Level, c \in Channel : Serves(j, c) => Serves(j, c)'
    BY <2>6, <2>10 DEF Serves
  <2>12. \A j \in Level : j # l => (j < l \/ frame[j].pc = "idle")
    BY <2>1, Levels DEF Running, InIdle
  <2> HIDE DEF d
  <2>13. Stops'
    BY <2>1, <2>6, <2>8 DEF Stops
  <2>14. ASSUME NEW c \in active, period[c] # 0, \A j \in Level : ~Serves(j, c)'
         PROVE  count'[c] \in 1 .. period[c]
    <3>1. c \in Channel /\ \A j \in Level : ~Serves(j, c)
      BY <1>0, <2>11, <2>14
    <3>2. CASE c # d
      BY <2>7, <2>14, <3>1, <3>2 DEF OnTime
    <3>3. CASE c = d
      <4>1. frame[l].held \in 1 .. period[c]
        <5>1. frame[l].pc = "store" /\ frame[l].ch = c
          BY <2>1, <3>3 DEF d
        <5>2. QED
          BY <2>14, <3>1, <5>1 DEF OnTime
      <4>2. left = frame[l].held - 1 /\ left # 0
        <5>1. frame[l].held # 0
          BY <4>1
        <5>2. QED
          BY <2>5, <2>9, <2>14, <3>1, <3>3, <5>1
      <4>3. period[c] \in Nat /\ count'[c] = left
        BY <1>0, <2>7, <3>1, <3>3
      <4>4. QED
        BY <4>1, <4>2, <4>3
    <3>4. QED
      BY <3>2, <3>3
  <2>15. ASSUME NEW c \in active, period[c] # 0,
                NEW h \in Level, frame'[h].pc = "store", frame'[h].ch = c,
                \A j \in Level : j < h => ~Serves(j, c)'
         PROVE  frame'[h].held \in 1 .. period[c]
    <3>1. h # l /\ frame'[h] = frame[h]
      BY <2>6, <2>8, <2>15
    <3>2. \A j \in Level : j < h => ~Serves(j, c)
      BY <1>0, <2>11, <2>15
    <3>3. QED
      BY <2>15, <3>1, <3>2 DEF OnTime
  <2>16. OnTime'
    BY <2>1, <2>14, <2>15 DEF OnTime
  <2>17. QED
    BY <2>13, <2>16
\* A periodic channel starts again, or a single shot is to stop.
<1>4. ASSUME NEW l \in Level, Reload(l) PROVE DueInv'
  <2> DEFINE d == frame[l].ch
  <2>1. /\ frame[l].pc = "reload" /\ Running(l) /\ UNCHANGED <<period, active>>
        /\ d \in Channel /\ period[d] \in Nat
    BY <1>0, <1>4 DEF Reload, At, Inner
  <2>2. \A j \in Level : j # l => (j < l \/ frame[j].pc = "idle")
    BY <2>1, Levels DEF Running, InIdle
  <2>3. CASE period[d] # 0
    <3>1. /\ frame'[l].pc = "scan" /\ \A j \in Level : j # l => frame'[j] = frame[j]
          /\ \A c \in Channel : count'[c] = IF c = d THEN period[d] ELSE count[c]
      BY <1>0, <1>4, <2>3 DEF Frame, Reload, Reloaded
    <3> HIDE DEF d
    <3>2. /\ \A j \in Level, c \in Channel : j # l => (Serves(j, c)' <=> Serves(j, c))
          /\ \A c \in Channel : c # d => ~Serves(l, c)
      <4>1. \A j \in Level, c \in Channel : j # l => (Serves(j, c)' <=> Serves(j, c))
        BY <3>1 DEF Serves
      <4>2. QED
        BY <4>1 DEF Serves, d
    <3>3. Stops'
      BY <2>1, <3>1 DEF Stops
    <3>4. ASSUME NEW c \in active, period[c] # 0, \A j \in Level : ~Serves(j, c)'
          PROVE  count'[c] \in 1 .. period[c]
      <4>1. c \in Channel
        BY <1>0
      <4>2. CASE c = d
        BY <2>1, <2>3, <3>1, <4>1, <4>2
      <4>3. CASE c # d
        <5>1. \A j \in Level : ~Serves(j, c)
          BY <3>2, <3>4, <4>1, <4>3
        <5>2. QED
          BY <3>1, <3>4, <4>1, <4>3, <5>1 DEF OnTime
      <4>4. QED
        BY <4>2, <4>3
    <3>5. ASSUME NEW c \in active, period[c] # 0,
                 NEW h \in Level, frame'[h].pc = "store", frame'[h].ch = c,
                 \A j \in Level : j < h => ~Serves(j, c)'
          PROVE  frame'[h].held \in 1 .. period[c]
      <4>1. h # l /\ frame'[h] = frame[h] /\ h < l
        BY <2>2, <3>1, <3>5
      <4>2. \A j \in Level : j < h => j # l /\ j < l
        BY <4>1, Levels
      <4>3. \A j \in Level : j < h => ~Serves(j, c)
        BY <1>0, <3>2, <3>5, <4>2
      <4>4. QED
        BY <3>5, <4>1, <4>3 DEF OnTime
    <3>6. OnTime'
      BY <2>1, <3>4, <3>5 DEF OnTime
    <3>7. QED
      BY <3>3, <3>6
  <2>4. CASE period[d] = 0
    <3>1. /\ frame' = [frame EXCEPT ![l].pc = "clear", ![l].mask = active] /\ count' = count
      BY <1>4, <2>4 DEF Reload
    <3>2. /\ frame'[l].pc = "clear" /\ frame'[l].ch = d /\ frame'[l].mask = active
          /\ \A j \in Level : j # l => frame'[j] = frame[j]
      BY <1>0, <3>1 DEF Frame
    <3> HIDE DEF d
    <3>3. \A j \in Level, c \in Channel : Serves(j, c) <=> Serves(j, c)'
      BY <2>1, <3>2 DEF Serves, ServePc, d
    <3>4. Stops'
      BY <2>1, <2>4, <3>2 DEF Stops
    <3>5. \A h \in Level : frame'[h].pc = "store" => frame'[h] = frame[h]
      BY <3>2
    <3>6. OnTime'
      BY <1>0, <2>1, <3>1, <3>3, <3>5 DEF OnTime
    <3>7. QED
      BY <3>4, <3>6
  <2>5. QED
    BY <2>3, <2>4
\* The single shot stops.
<1>5. ASSUME NEW l \in Level, StoreActive(l) PROVE DueInv'
  <2> DEFINE d == frame[l].ch
  <2>1. /\ frame[l].pc = "clear" /\ UNCHANGED <<count, period>> /\ period[d] = 0
        /\ d \in Channel /\ active' = frame[l].mask \ {d}
    BY <1>0, <1>5 DEF StoreActive, At, Stops, Inner
  <2>2. \A c \in Channel : period[c] # 0 => (c \in active' <=> c \in active)
    BY <2>1 DEF Stops
  <2>3. frame'[l].pc = "scan" /\ \A j \in Level : j # l => frame'[j] = frame[j]
    BY <1>0, <1>5 DEF Frame, StoreActive
  <2> HIDE DEF d
  <2>4. \A j \in Level, c \in Channel : period[c] # 0 => (Serves(j, c)' <=> Serves(j, c))
    BY <2>1, <2>3 DEF Serves, ServePc, d
  <2>5. Stops'
    BY <2>1, <2>2, <2>3 DEF Stops
  <2>6. \A h \in Level : frame'[h].pc = "store" => frame'[h] = frame[h]
    BY <2>3
  <2>7. active' \subseteq Channel
    BY DEF IInv, TypeOK
  <2>8. OnTime'
    BY <2>1, <2>2, <2>4, <2>6, <2>7 DEF OnTime
  <2>9. QED
    BY <2>5, <2>8
\* Every other step of a level: it serves nobody it did not, and drops nobody.
<1>6. ASSUME NEW l \in Level, Others(l), UNCHANGED <<count, period, active>>,
             frame'[l].pc \notin {"store", "clear"},
             \/ frame[l].pc \notin ServePc
             \/ frame'[l].pc \in ServePc /\ frame'[l].ch = frame[l].ch
      PROVE  DueInv'
  <2>1. \A j \in Level, c \in Channel : Serves(j, c) => Serves(j, c)'
    BY <1>6 DEF Others, Serves
  <2>2. \A j \in Level : frame'[j].pc \in {"store", "clear"} => frame'[j] = frame[j]
    BY <1>6 DEF Others
  <2>3. QED
    BY <1>0, <1>6, <2>1, <2>2, DueElse
<1>7. ASSUME NEW l \in Level, Step(l) PROVE DueInv'
  <2>1. CASE TickRefused(l) \/ ScanDone(l)
    <3>1. Returns(l) /\ frame[l].pc \in {"enter", "scan"} /\ UNCHANGED <<count, period, active>>
      BY <1>0, <2>1, ReturnStep DEF TickRefused, ScanDone, channels
    <3>2. Idle.pc = "idle"
      BY DEF Idle
    <3>3. QED
      BY <1>6, <3>1, <3>2 DEF Returns, ServePc
  <2>2. CASE TickCounted(l) \/ (ScanChannel(l) /\ frame[l].ch \notin active)
    <3>1. frame'[l].pc = "scan" /\ frame[l].pc \in {"enter", "scan"} /\ Others(l)
          /\ UNCHANGED <<count, period, active>>
      <4>1. Others(l)
        BY <1>0, <2>2, InnerStep DEF Follows
      <4>2. QED
        BY <1>0, <2>2, <4>1 DEF Frame, TickCounted, ScanChannel, At, channels
    <3>2. QED
      BY <1>6, <3>1 DEF ServePc
  <2>3. CASE CallbackReturns(l) \/ LoadExpired(l) \/ StoreExpired(l)
    <3>1. Others(l)
      BY <1>0, <2>3, InnerStep DEF Follows
    <3>2. /\ frame'[l].pc \in {"reload", "marked"} /\ frame'[l].ch = frame[l].ch
          /\ UNCHANGED <<count, period, active>>
      BY <1>0, <2>3 DEF Frame, CallbackReturns, LoadExpired, StoreExpired, Goto, channels
    <3>3. QED
      BY <1>6, <3>1, <3>2 DEF ServePc
  <2>4. CASE ResetLoop(l)
    <3>1. UNCHANGED <<count, period, active>>
      BY <2>4 DEF ResetLoop, channels
    <3>2. QED
      BY <1>0, <1>6, <2>4, <3>1, LoopStep DEF ServePc
  <2>5. CASE ResetDone(l)
    <3>1. UNCHANGED <<count, period, active>> /\ Idle.pc = "idle"
      BY <2>5 DEF ResetDone, channels, Idle
    <3>2. QED
      BY <1>0, <1>6, <2>5, <3>1, DoneStep DEF ServePc
  <2>6. QED
    BY <1>2, <1>3, <1>4, <1>5, <1>7, <2>1, <2>2, <2>3, <2>4, <2>5 DEF Step, Tick
<1>8. ASSUME NEW l \in Level, NEW run \in BOOLEAN, EnterReset(l, run), InIdle(l),
             UNCHANGED <<count, period, active>>
      PROVE  DueInv'
  <2>1. Others(l) /\ frame'[l].pc = "loop" /\ frame[l].pc = "idle"
    BY <1>0, <1>8, EnterStep DEF InIdle
  <2>2. QED
    BY <1>6, <1>8, <2>1 DEF ServePc
<1>9. CASE UNCHANGED <<count, period, active, frame>>
  <2>1. \A j \in Level, c \in Channel : Serves(j, c) => Serves(j, c)'
    BY <1>9 DEF Serves
  <2>2. QED
    BY <1>0, <1>9, <2>1, DueElse
<1>10. ASSUME NEW l \in SetLevels, NEW stamp \in Stamp, SetTime(l, stamp) PROVE DueInv'
  <2>1. l \in Level /\ l >= l /\ UNCHANGED <<count, period, active>>
    BY <1>10, TimebaseAssumption, Levels DEF SetTime, channels
  <2>2. InIdle(l)
    BY <1>10, <2>1 DEF SetTime, AllIdle, Accepts
  <2>3. QED
    BY <1>8, <1>9, <1>10, <2>1, <2>2 DEF SetTime
<1>11. CASE PulseInterrupt
  <2>1. High \in Level /\ High >= High /\ UNCHANGED <<count, period, active>>
    BY <1>11, Levels DEF PulseInterrupt, channels
  <2>2. InIdle(High)
    BY <1>11, <2>1 DEF PulseInterrupt, Accepts
  <2>3. EnterReset(High, TRUE)
    BY <1>11 DEF PulseInterrupt
  <2>4. QED
    BY <1>8, <2>1, <2>2, <2>3
<1>12. CASE TimerInterrupt
  <2>1. Low \in Level /\ Low >= Low /\ UNCHANGED <<count, period, active>>
    BY <1>12, Levels DEF TimerInterrupt, channels
  <2>2. InIdle(Low)
    BY <1>12, <2>1 DEF TimerInterrupt, Accepts
  <2>3. Others(Low) /\ frame'[Low].pc = "enter" /\ frame[Low].pc = "idle"
    BY <1>0, <1>12, <2>2, TimerStep DEF InIdle
  <2>4. QED
    BY <1>6, <2>1, <2>3 DEF ServePc
<1>13. CASE TimerOverflows \/ RtcPulses \/ UNCHANGED vars
  BY <1>9, <1>13 DEF TimerOverflows, RtcPulses, channels, vars
<1>14. QED
  BY <1>1, <1>7, <1>10, <1>11, <1>12, <1>13 DEF Next

THEOREM DueInvariance == Spec => []DueInv
<1>1. Init => DueInv
  BY DEF Init, DueInv, OnTime, Stops, Idle
<1>2. IInv /\ IInv' /\ DueInv /\ [Next]_vars => DueInv'
  BY DueNext
<1>3. QED
  BY <1>1, <1>2, Invariance, PTL DEF Spec

-----------------------------------------------------------------------------
(***************************************************************************)
(* Every tick is counted.                                                  *)
(***************************************************************************)

\* Of two ticks that are nested the counts are disturbed.  A tick that runs
\* alone leaves one decrement open in the counters it has not reached, has
\* taken what it holds from the counter, and serves a counter at its end.
CountsAlone(l, c) ==
  /\ Ahead(l, c) /\ c \in active => count[c] + seen[c] = period[c] + 1
  /\ Serves(l, c) => count[c] = 0 /\ seen[c] = period[c]
  /\ ~Serves(l, c) /\ (c \in active => ~Ahead(l, c)) => count[c] + seen[c] = period[c]
  /\ frame[l].pc = "store" /\ frame[l].ch = c => frame[l].held = count[c] /\ c \in active

SeenInv ==
  /\ (\E l, h \in Level : l # h /\ InTick(l) /\ InTick(h)) =>
        \A c \in Channel : seen[c] = Disturbed
  /\ \A c \in Channel : period[c] # 0 /\ seen[c] # Disturbed =>
        /\ NoTickRunning => count[c] + seen[c] = period[c]
        /\ \A l \in Level : InTick(l) => CountsAlone(l, c)

\* A step that changes no channel and no level in the middle of a tick.
LEMMA SeenElse ==
  ASSUME SeenInv, UNCHANGED <<count, period, active, seen>>,
         \A k \in Level : frame'[k] = frame[k] \/ (~InTick(k) /\ ~InTick(k)')
  PROVE  SeenInv'
<1>1. \A k \in Level : InTick(k)' => InTick(k) /\ frame'[k] = frame[k]
  BY DEF InTick
<1>2. \A k \in Level : InTick(k) => InTick(k)'
  BY DEF InTick
<1>3. \A k \in Level, c \in Channel : InTick(k)' /\ CountsAlone(k, c) => CountsAlone(k, c)'
  BY <1>1 DEF CountsAlone, Ahead, Serves
<1>4. NoTickRunning' => NoTickRunning
  BY <1>2 DEF NoTickRunning
<1>5. QED
  BY <1>1, <1>3, <1>4 DEF SeenInv

\* A step of a level while no other is in the middle of a tick.
LEMMA SeenAlone ==
  ASSUME NEW l \in Level, Alone(l), \A k \in Level \ {l} : frame'[k] = frame[k],
         \A c \in Channel : period'[c] # 0 /\ seen'[c] # Disturbed =>
            /\ InTick(l)' => CountsAlone(l, c)'
            /\ ~InTick(l)' => count'[c] + seen'[c] = period'[c]
  PROVE  SeenInv'
<1>1. \A k \in Level : InTick(k)' => k = l
  BY DEF Alone, InTick
<1>2. NoTickRunning' => ~InTick(l)'
  BY DEF NoTickRunning
<1>3. QED
  BY <1>1, <1>2 DEF SeenInv

LEMMA SeenStep ==
  ASSUME IInv, IInv', DueInv, SeenInv, NEW l \in Level, Tick(l), InTick(l), Alone(l)
  PROVE  SeenInv'
<1> DEFINE d == frame[l].ch
<1>1. /\ TypeOK /\ Nested /\ frame[l] \in Frame /\ frame \in [Level -> Frame]
      /\ count \in [Channel -> Nat] /\ period \in [Channel -> Nat] /\ active \subseteq Channel
      /\ seen \in [Channel -> Nat \cup {Disturbed}] /\ Disturbed \notin Nat
      /\ Channel \subseteq Nat /\ d \in Nat
      /\ frame[l].pc \in Inner \ {"scan"} => d \in Channel
      /\ d \notin Channel => \A c \in Channel : c < d
  <2>1. TypeOK /\ Nested
    BY DEF IInv
  <2>2. Period \cup {0} \subseteq Nat /\ 0 .. CountWidth - 1 \subseteq Nat
    BY TimebaseAssumption
  <2>3. frame[l] \in Frame /\ (frame[l].pc \in Inner \ {"scan"} => d \in Channel)
    BY <2>1 DEF Nested, NestedAt, TypeOK
  <2>4. /\ d \in 0 .. Cardinality(Channel) /\ Cardinality(Channel) \in Nat
        /\ Channel = 0 .. Cardinality(Channel) - 1
    BY <2>3, Indices, TimebaseAssumption DEF Frame
  <2>5. Channel \subseteq Nat /\ d \in Nat /\ (d \notin Channel => \A c \in Channel : c < d)
    BY <2>4
  <2>6. count \in [Channel -> Nat] /\ period \in [Channel -> Nat]
    BY <2>1, <2>2 DEF TypeOK
  <2>7. QED
    BY <2>1, <2>3, <2>5, <2>6 DEF TypeOK, Disturbed
<1>2. \A k \in Level \ {l} : frame'[k] = frame[k]
  BY <1>1, InnerStep, ReturnStep DEF Tick, Follows, Returns, Others
<1>3. ASSUME NEW c \in Channel, period[c] # 0, seen[c] # Disturbed
      PROVE  CountsAlone(l, c) /\ seen[c] \in Nat /\ count[c] \in Nat /\ period[c] \in Nat
  BY <1>1, <1>3 DEF SeenInv
<1>4. SUFFICES ASSUME NEW c \in Channel, period'[c] # 0, seen'[c] # Disturbed
               PROVE  /\ InTick(l)' => CountsAlone(l, c)'
                      /\ ~InTick(l)' => count'[c] + seen'[c] = period'[c]
  BY <1>2, SeenAlone
<1>5. frame[l].pc # "enter" /\ ~TickRefused(l) /\ ~TickCounted(l)
  BY DEF InTick, TickRefused, TickCounted, At
<1>6. CASE ScanChannel(l) /\ d \in active
  <2>1. /\ frame[l].pc = "scan" /\ UNCHANGED <<count, period, active, seen>>
        /\ frame' = [frame EXCEPT ![l].pc = "store", ![l].held = count[d]]
    BY <1>6 DEF ScanChannel, At, channels
  <2>2. frame'[l].pc = "store" /\ frame'[l].ch = d /\ frame'[l].held = count[d]
    BY <1>1, <2>1 DEF Frame
  <2>3. InTick(l)'
    BY <2>2 DEF InTick
  <2>4. CountsAlone(l, c)
    BY <1>3, <1>4, <2>1
  <2>5. QED
    BY <1>6, <2>1, <2>2, <2>3, <2>4 DEF CountsAlone, Ahead, Serves, ServePc
<1>7. CASE ScanChannel(l) /\ d \notin active
  <2>1. /\ frame[l].pc = "scan" /\ UNCHANGED <<count, period, active, seen>>
        /\ frame' = [frame EXCEPT ![l].ch = @ + 1]
    BY <1>7 DEF ScanChannel, At, channels
  <2>2. frame'[l].pc = "scan" /\ frame'[l].ch = d + 1
    BY <1>1, <2>1 DEF Frame
  <2>3. InTick(l)'
    BY <2>2 DEF InTick
  <2>4. CountsAlone(l, c)
    BY <1>3, <1>4, <2>1
  <2>5. c # d => (d + 1 <= c <=> d <= c)
    BY <1>1
  <2>6. c = d => ~(d + 1 <= c)
    BY <1>1
  <2>7. QED
    BY <1>7, <2>1, <2>2, <2>3, <2>4, <2>5, <2>6 DEF CountsAlone, Ahead, Serves, ServePc
<1>8. CASE StoreCount(l)
  <2> DEFINE left == Decremented(frame[l].held)
             next == IF left # 0 THEN "scan"
                     ELSE IF d \in WithCallback /\ runCallbacks THEN "callback"
                     ELSE IF d \notin WithCallback THEN "mark" ELSE "reload"
  <2>1. /\ frame[l].pc = "store" /\ UNCHANGED <<period, active, seen>>
        /\ count' = [count EXCEPT ![d] = left]
        /\ frame' = [frame EXCEPT ![l].held = 0,
                      ![l].ch = IF left # 0 THEN @ + 1 ELSE @, ![l].pc = next]
    BY <1>8 DEF StoreCount, At
  <2>2. d \in Channel
    BY <1>1, <2>1 DEF Inner
  <2>3. (left # 0 /\ next = "scan") \/ (left = 0 /\ next \in {"callback", "mark", "reload"})
    OBVIOUS
  <2>4. frame[l].held \in 0 .. CountWidth - 1 /\ frame[l].held # 0 => left = frame[l].held - 1
    <3>1. CountWidth \in Nat /\ CountWidth >= 1
      BY Widths
    <3>2. ASSUME NEW v \in 0 .. CountWidth - 1, v # 0 PROVE Decremented(v) = v - 1
      <4>1. v - 1 \in 0 .. CountWidth - 1 /\ (v + CountWidth - 1) % CountWidth = (v - 1) % CountWidth
        BY <3>1, <3>2
      <4>2. QED
        BY <3>1, <4>1, ModSmall DEF Decremented
    <3>3. QED
      BY <3>2
  <2>5. frame[l].held \in 0 .. CountWidth - 1
    BY <1>1 DEF Frame
  <2> HIDE DEF left, next
  <2>6. frame'[l].pc = next /\ frame'[l].ch = (IF left # 0 THEN d + 1 ELSE d)
    BY <1>1, <2>1 DEF Frame
  <2>7. InTick(l)' /\ frame'[l].pc # "store"
    BY <2>3, <2>6 DEF InTick
  <2>8. CountsAlone(l, c) /\ seen[c] \in Nat /\ period[c] \in Nat
    BY <1>3, <1>4, <2>1
  <2>9. CASE c = d
    <3>1. c \in active /\ frame[l].held = count[c] /\ count[c] + seen[c] = period[c] + 1
      BY <1>1, <2>1, <2>8, <2>9 DEF CountsAlone, Ahead
    <3>2. frame[l].held \in 1 .. period[c]
      <4>1. ASSUME NEW k \in Level, k < l PROVE ~Serves(k, c)
        <5>1. k # l
          BY <4>1 DEF Level, Main, High
        <5>2. ~InTick(k)
          BY <5>1 DEF Alone
        <5>3. QED
          BY <5>2 DEF InTick, Serves, ServePc
      <4>2. period[c] # 0
        BY <1>4, <2>1
      <4>3. QED
        BY <2>1, <2>9, <3>1, <4>1, <4>2 DEF DueInv, OnTime
    <3>3. left = count[c] - 1 /\ count'[c] = left
      BY <1>1, <2>1, <2>2, <2>4, <2>5, <2>9, <3>1, <3>2
    <3>4. count'[c] + seen'[c] = period'[c]
      <4>1. seen[c] \in Nat /\ period[c] \in Nat /\ count[c] \in Nat
        BY <1>1, <2>8
      <4>2. (count[c] - 1) + seen[c] = period[c]
        BY <3>1, <4>1
      <4>3. QED
        BY <2>1, <3>3, <4>2
    <3>5. CASE left # 0
      <4>1. frame'[l].pc = "scan" /\ ~(frame'[l].ch <= c)
        BY <1>1, <2>3, <2>6, <2>9, <3>5
      <4>2. QED
        BY <2>7, <3>4, <4>1 DEF CountsAlone, Ahead, Serves, ServePc
    <3>6. CASE left = 0
      <4>1. frame'[l].pc \in ServePc /\ frame'[l].pc \notin {"scan", "store"} /\ frame'[l].ch = c
        BY <2>3, <2>6, <2>9, <3>6 DEF ServePc
      <4>2. count'[c] = 0 /\ seen'[c] = period'[c]
        BY <2>1, <2>8, <3>3, <3>4, <3>6
      <4>3. ~(c < c)
        BY <1>1
      <4>4. QED
        BY <2>7, <4>1, <4>2, <4>3 DEF CountsAlone, Ahead, Serves
    <3>7. QED
      BY <3>5, <3>6
  <2>10. CASE c # d
    <3>1. count'[c] = count[c] /\ ~Serves(l, c)' /\ ~Serves(l, c)
      BY <1>1, <2>1, <2>3, <2>6, <2>10 DEF Serves, ServePc
    <3>2. Ahead(l, c)' <=> Ahead(l, c)
      BY <1>1, <2>1, <2>3, <2>6, <2>10 DEF Ahead, ServePc
    <3>3. QED
      BY <2>1, <2>7, <2>8, <3>1, <3>2 DEF CountsAlone
  <2>11. QED
    BY <2>9, <2>10
<1>9. CASE CallbackReturns(l) \/ LoadExpired(l) \/ StoreExpired(l)
  <2>1. /\ frame[l].pc \in {"callback", "mark", "marked"}
        /\ frame'[l].pc \in {"marked", "reload"} /\ frame'[l].ch = d
        /\ UNCHANGED <<count, period, active, seen>>
    BY <1>1, <1>9 DEF CallbackReturns, LoadExpired, StoreExpired, At, Goto, Frame, channels
  <2>2. CountsAlone(l, c) /\ InTick(l)'
    BY <1>3, <1>4, <2>1 DEF InTick
  <2>3. QED
    BY <2>1, <2>2 DEF CountsAlone, Ahead, Serves, ServePc
<1>10. CASE Reload(l) /\ period[d] # 0
  <2>1. /\ frame[l].pc = "reload" /\ UNCHANGED <<period, active>>
        /\ count' = [count EXCEPT ![d] = period[d]] /\ seen' = [seen EXCEPT ![d] = 0]
        /\ frame' = [frame EXCEPT ![l].pc = "scan", ![l].ch = @ + 1]
    BY <1>10 DEF Reload, Reloaded, At
  <2>2. d \in Channel /\ frame'[l].pc = "scan" /\ frame'[l].ch = d + 1
    BY <1>1, <2>1 DEF Frame, Inner
  <2>3. InTick(l)' /\ ~Serves(l, c)'
    BY <2>2 DEF InTick, Serves, ServePc
  <2>4. CASE c = d
    <3>1. count'[c] = period[c] /\ seen'[c] = 0 /\ ~(d + 1 <= c) /\ period[c] + 0 = period[c]
      BY <1>1, <2>1, <2>2, <2>4
    <3>2. QED
      BY <2>1, <2>2, <2>3, <3>1 DEF CountsAlone, Ahead, ServePc
  <2>5. CASE c # d
    <3>1. count'[c] = count[c] /\ seen'[c] = seen[c]
      BY <1>1, <2>1, <2>5
    <3>2. CountsAlone(l, c)
      BY <1>3, <1>4, <2>1, <3>1
    <3>3. d + 1 <= c <=> d < c
      BY <1>1, <2>5
    <3>4. QED
      BY <2>1, <2>2, <2>3, <2>5, <3>1, <3>2, <3>3 DEF CountsAlone, Ahead, Serves, ServePc
  <2>6. QED
    BY <2>4, <2>5
<1>11. CASE Reload(l) /\ period[d] = 0
  <2>1. /\ frame[l].pc = "reload" /\ UNCHANGED <<count, period, active, seen>>
        /\ frame' = [frame EXCEPT ![l].pc = "clear", ![l].mask = active]
    BY <1>11 DEF Reload, At
  <2>2. frame'[l].pc = "clear" /\ frame'[l].ch = d
    BY <1>1, <2>1 DEF Frame
  <2>3. CountsAlone(l, c) /\ InTick(l)'
    BY <1>3, <1>4, <2>1, <2>2 DEF InTick
  <2>4. QED
    BY <2>1, <2>2, <2>3 DEF CountsAlone, Ahead, Serves, ServePc
<1>12. CASE StoreActive(l)
  <2>1. /\ frame[l].pc = "clear" /\ UNCHANGED <<count, period, seen>>
        /\ active' = frame[l].mask \ {d}
        /\ frame' = [frame EXCEPT ![l].pc = "scan", ![l].ch = @ + 1, ![l].mask = {}]
    BY <1>12 DEF StoreActive, At
  <2>2. frame'[l].pc = "scan" /\ frame'[l].ch = d + 1
    BY <1>1, <2>1 DEF Frame
  <2>3. c # d /\ (c \in active' <=> c \in active)
    BY <1>4, <2>1 DEF DueInv, Stops
  <2>4. CountsAlone(l, c) /\ InTick(l)'
    BY <1>3, <1>4, <2>1, <2>2 DEF InTick
  <2>5. d + 1 <= c <=> d < c
    BY <1>1, <2>3
  <2>6. QED
    BY <2>1, <2>2, <2>3, <2>4, <2>5 DEF CountsAlone, Ahead, Serves, ServePc
<1>13. CASE ScanDone(l)
  <2>1. frame[l].pc = "scan" /\ d \notin Channel /\ UNCHANGED <<count, period, active, seen>>
    BY <1>13 DEF ScanDone, At, channels
  <2>2. Returns(l) /\ Idle.pc = "idle"
    BY <1>1, <1>13, ReturnStep DEF Idle
  <2>3. ~InTick(l)'
    BY <2>2 DEF Returns, InTick
  <2>4. c < d /\ ~(d <= c)
    BY <1>1, <2>1
  <2>5. CountsAlone(l, c)
    BY <1>3, <1>4, <2>1
  <2>6. QED
    BY <2>1, <2>3, <2>4, <2>5 DEF CountsAlone, Ahead, Serves, ServePc
<1>14. QED
  BY <1>5, <1>6, <1>7, <1>8, <1>9, <1>10, <1>11, <1>12, <1>13 DEF Tick

LEMMA SeenNext ==
  ASSUME IInv, IInv', DueInv, SeenInv, [Next]_vars
  PROVE  SeenInv'
<1>1. /\ TypeOK /\ frame \in [Level -> Frame] /\ seen \in [Channel -> Nat \cup {Disturbed}]
      /\ Disturbed \notin Nat /\ active \subseteq Channel
      /\ count \in [Channel -> Nat] /\ period \in [Channel -> Nat]
  <2>1. Period \cup {0} \subseteq Nat /\ 0 .. CountWidth - 1 \subseteq Nat
    BY TimebaseAssumption
  <2>2. QED
    BY <2>1 DEF IInv, TypeOK, Disturbed
\* Nested in another tick or not, every channel keeps its mark.
<1>2. ASSUME NEW l \in Level, Tick(l), InTick(l), ~Alone(l) PROVE SeenInv'
  <2>1. \A c \in Channel : seen[c] = Disturbed
    BY <1>2 DEF SeenInv, Alone
  <2>2. ~TickCounted(l) /\ ~TickRefused(l)
    BY <1>2 DEF InTick, TickCounted, TickRefused, At
  <2>3. seen' = seen
    BY <1>2, <2>2 DEF Tick, ScanChannel, StoreCount, CallbackReturns, LoadExpired,
       StoreExpired, Reload, StoreActive, ScanDone, channels
  <2>4. QED
    BY <2>1, <2>3 DEF SeenInv
\* A tick begins.
<1>3. ASSUME NEW l \in Level, TickCounted(l) PROVE SeenInv'
  <2>1. /\ frame[l].pc = "enter" /\ UNCHANGED <<count, period, active>>
        /\ frame' = [frame EXCEPT ![l].pc = "scan", ![l].ch = 0]
        /\ seen' = [c \in Channel |->
                     IF ~Alone(l) THEN Disturbed
                     ELSE IF c \in active /\ seen[c] # Disturbed THEN seen[c] + 1
                     ELSE seen[c]]
    BY <1>3 DEF TickCounted, FirstChannel, At
  <2>2. frame'[l].pc = "scan" /\ frame'[l].ch = 0 /\ \A k \in Level \ {l} : frame'[k] = frame[k]
    BY <1>1, <2>1 DEF Frame
  <2>3. CASE ~Alone(l)
    BY <2>1, <2>3 DEF SeenInv
  <2>4. CASE Alone(l)
    <3>1. NoTickRunning
      BY <2>1, <2>4 DEF NoTickRunning, Alone, InTick
    <3>2. ASSUME NEW c \in Channel, period'[c] # 0, seen'[c] # Disturbed
          PROVE  CountsAlone(l, c)'
      <4>1. /\ seen[c] # Disturbed /\ period[c] # 0
            /\ seen'[c] = IF c \in active THEN seen[c] + 1 ELSE seen[c]
        BY <2>1, <2>4, <3>2
      <4>2. count[c] + seen[c] = period[c]
        BY <3>1, <4>1 DEF SeenInv
      <4>3. 0 <= c /\ seen[c] \in Nat /\ count[c] \in Nat /\ period[c] \in Nat
        BY <1>1, <4>1, TimebaseAssumption, Indices
      <4>4. count[c] + (seen[c] + 1) = period[c] + 1
        BY <4>2, <4>3
      <4>5. QED
        BY <2>1, <2>2, <4>1, <4>2, <4>3, <4>4 DEF CountsAlone, Ahead, Serves, ServePc
    <3>3. InTick(l)'
      BY <2>2 DEF InTick
    <3>4. QED
      BY <2>2, <2>4, <3>2, <3>3, SeenAlone
  <2>5. QED
    BY <2>3, <2>4
\* What happens outside of the ticks.
<1>4. ASSUME NEW l \in Level, Others(l), ~InTick(l), ~InTick(l)',
             UNCHANGED <<count, period, active, seen>>
      PROVE  SeenInv'
  BY <1>4, SeenElse DEF Others
<1>5. ASSUME NEW l \in Level, Step(l) PROVE SeenInv'
  <2>1. CASE TickRefused(l)
    <3>1. Returns(l) /\ Idle.pc = "idle" /\ UNCHANGED <<count, period, active, seen>>
      BY <1>1, <2>1, ReturnStep DEF Idle, TickRefused, channels
    <3>2. ~InTick(l) /\ ~InTick(l)'
      BY <2>1, <3>1 DEF TickRefused, At, Returns, InTick
    <3>3. QED
      BY <1>4, <3>1, <3>2 DEF Returns
  <2>2. CASE ResetLoop(l)
    <3>1. UNCHANGED <<count, period, active, seen>>
      BY <2>2 DEF ResetLoop, channels
    <3>2. QED
      BY <1>1, <1>4, <2>2, <3>1, LoopStep DEF InTick
  <2>3. CASE ResetDone(l)
    <3>1. UNCHANGED <<count, period, active, seen>> /\ Idle.pc = "idle"
      BY <2>3 DEF ResetDone, channels, Idle
    <3>2. QED
      BY <1>1, <1>4, <2>3, <3>1, DoneStep DEF InTick
  <2>4. CASE Tick(l) /\ InTick(l)
    BY <1>2, <2>4, SeenStep
  <2>5. Tick(l) /\ ~InTick(l) => TickRefused(l) \/ TickCounted(l)
    BY DEF Tick, InTick, ScanChannel, StoreCount, CallbackReturns, LoadExpired,
       StoreExpired, Reload, StoreActive, ScanDone, At
  <2>6. QED
    BY <1>3, <1>5, <2>1, <2>2, <2>3, <2>4, <2>5 DEF Step
<1>6. ASSUME NEW l \in Level, NEW run \in BOOLEAN, EnterReset(l, run), InIdle(l),
             UNCHANGED <<count, period, active, seen>>
      PROVE  SeenInv'
  BY <1>1, <1>4, <1>6, EnterStep DEF InIdle, InTick
<1>7. CASE UNCHANGED <<count, period, active, seen, frame>>
  BY <1>7, SeenElse
<1>8. ASSUME NEW l \in SetLevels, NEW stamp \in Stamp, SetTime(l, stamp) PROVE SeenInv'
  <2>1. l \in Level /\ l >= l /\ UNCHANGED <<count, period, active, seen>>
    BY <1>8, TimebaseAssumption, Levels DEF SetTime, channels
  <2>2. InIdle(l)
    BY <1>8, <2>1 DEF SetTime, AllIdle, Accepts
  <2>3. QED
    BY <1>6, <1>7, <1>8, <2>1, <2>2 DEF SetTime
<1>9. CASE PulseInterrupt
  <2>1. High \in Level /\ High >= High /\ UNCHANGED <<count, period, active, seen>>
    BY <1>9, Levels DEF PulseInterrupt, channels
  <2>2. InIdle(High) /\ EnterReset(High, TRUE)
    BY <1>9, <2>1 DEF PulseInterrupt, Accepts
  <2>3. QED
    BY <1>6, <2>1, <2>2
<1>10. CASE TimerInterrupt
  <2>1. Low \in Level /\ Low >= Low /\ UNCHANGED <<count, period, active, seen>>
    BY <1>10, Levels DEF TimerInterrupt, channels
  <2>2. InIdle(Low)
    BY <1>10, <2>1 DEF TimerInterrupt, Accepts
  <2>3. QED
    BY <1>1, <1>4, <1>10, <2>1, <2>2, TimerStep DEF InIdle, InTick
\* The main loop has the channels to itself.
<1>11. CASE MainRound \/ MainLoop
  <2>1. AllIdle /\ frame' = frame
    BY <1>11 DEF MainRound, MainLoop, StartTimer, StartChannel, StopTimer, TestAndClear,
       SetEtimer, MainOnly
  <2>2. NoTickRunning /\ NoTickRunning'
    BY <2>1 DEF AllIdle, InIdle, NoTickRunning, InTick
  <2>3. SUFFICES ASSUME NEW d \in Channel, period'[d] # 0, seen'[d] # Disturbed
                 PROVE  count'[d] + seen'[d] = period'[d]
    BY <2>2 DEF SeenInv, NoTickRunning
  <2>4. CASE UNCHANGED <<count, period, seen>>
    BY <2>2, <2>3, <2>4 DEF SeenInv
  <2>5. ASSUME NEW c \in Channel, NEW p \in Nat, NEW delay \in Nat, StartChannel(c, p, delay),
               p = 0 \/ delay = p
        PROVE  count'[d] + seen'[d] = period'[d]
    <3>1. CASE c = d
      BY <1>1, <2>3, <2>5, <3>1 DEF StartChannel
    <3>2. CASE c # d
      BY <1>1, <2>2, <2>3, <2>5, <3>2 DEF StartChannel, SeenInv
    <3>3. QED
      BY <3>1, <3>2
  <2>6. Period \subseteq Nat /\ Delay \subseteq Nat
    BY TimebaseAssumption
  <2>7. QED
    BY <1>11, <2>4, <2>5, <2>6 DEF MainRound, MainLoop, StartTimer, StopTimer, TestAndClear,
       SetEtimer, channels
<1>12. CASE TimerOverflows \/ RtcPulses \/ UNCHANGED vars
  BY <1>7, <1>12 DEF TimerOverflows, RtcPulses, channels, vars
<1>13. QED
  BY <1>5, <1>8, <1>9, <1>10, <1>11, <1>12 DEF Next

THEOREM SeenInvariance == Spec => []SeenInv
<1>1. Init => SeenInv
  BY DEF Init, SeenInv, InTick, Idle
<1>2. IInv /\ IInv' /\ DueInv /\ SeenInv /\ [Next]_vars => SeenInv'
  BY SeenNext
<1>3. QED
  BY <1>1, <1>2, Invariance, DueInvariance, PTL DEF Spec

\* Between ticks a periodic channel has counted every tick, unless one was
\* nested in another, and however ticks nested it is due within its period
\* (timeout.c:70-71, 147-166).
THEOREM OnTimeAlways == Spec => []ChannelOnTime
<1>1. TypeOK /\ DueInv /\ SeenInv => ChannelOnTime
  <2> SUFFICES ASSUME TypeOK, DueInv, SeenInv, NoTickRunning, NEW c \in active, period[c] # 0
               PROVE  /\ count[c] \in 1 .. period[c]
                      /\ seen[c] # Disturbed => count[c] + seen[c] = period[c]
    BY DEF ChannelOnTime
  <2>1. (\A l \in Level : ~Serves(l, c)) /\ c \in Channel
    BY DEF NoTickRunning, InTick, Serves, ServePc, TypeOK
  <2>2. QED
    BY <2>1 DEF DueInv, OnTime, SeenInv
<1>2. QED
  BY <1>1, Types, DueInvariance, SeenInvariance, PTL
=============================================================================
