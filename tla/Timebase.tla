------------------------------ MODULE Timebase ------------------------------
(***************************************************************************)
(* The time base of the node: the tick handler of the timeout service, its *)
(* channels, the catch-up loop that pins a second to a fixed number of     *)
(* ticks (services/timeout/timeout.c) and the two users of that loop, the  *)
(* one-second pulse of the external RTC and the setting of the clock       *)
(* (HAL/hal_system_time.c).                                                *)
(*                                                                         *)
(* The code runs on one CPU with nested interrupts.  A level is Main (the  *)
(* background loop) or one of the three interrupt levels; the code of a    *)
(* level only advances while every higher level is idle, and an interrupt  *)
(* of a level starts only while this level and the higher ones are idle    *)
(* and the global interrupt flag is set.  The local tick (TCD0 overflow)   *)
(* runs at Low, the GPS pulse at Med, the RTC pulse at High.               *)
(*                                                                         *)
(* Time is counted in ticks: the 10 ms of the code are the unit, N ticks   *)
(* are its 1000 ms and N - 1 its 990 ms.                                   *)
(***************************************************************************)
EXTENDS Integers, FiniteSets

CONSTANTS
  N,           \* ticks of one second (TIMEOUT_TICK_HZ)
  Channel,     \* timeout channels, 0 .. TIMERS_COUNT - 1
  WithCallback,\* channels whose owner registered a callback
  Restarted,   \* channels whose owner may stop them, or start them again,
               \* while they run
  Period,      \* periods, in ticks, a periodic channel is started with
  Delay,       \* delays, in ticks, a single shot is started with
  CountWidth,  \* values of a channel counter (2^16 in the code)
  SecWidth,    \* values of system_global_time (2^32 in the code)
  TickWidth,   \* values of the tick counter (2^32 in the code)
  SetLevels,   \* levels at which the clock may be set, a subset of {Main, Med}
  Stamp,       \* times the clock may be set to
  EtimerDelay, \* intervals, in ticks, an event timer is set with
  NoEtimer,    \* no event timer is pending
  MaxSets,     \* bound: how often the clock is set (a fix turns the GPS off
               \* for two hours)
  MaxNest      \* bound: seconds started (by pulse or by setting the clock)
               \* between two rounds of the main loop; its watchdog allows 8

Main == 0
Low  == 1
Med  == 2
High == 3
Level == Main .. High

ASSUME TimebaseAssumption ==
  /\ N \in Nat /\ N >= 2
  /\ IsFiniteSet(Channel) /\ Channel = 0 .. Cardinality(Channel) - 1
  /\ WithCallback \subseteq Channel
  /\ Period \subseteq Nat \ {0} /\ Delay \subseteq Nat \ {0}
  /\ SecWidth \in Nat \ {0} /\ TickWidth = N * SecWidth
  /\ MaxNest \in Nat /\ MaxSets \in Nat /\ CountWidth \in Nat
  /\ CountWidth > N * (MaxNest + 2)
  /\ \A p \in Period \cup Delay : p < CountWidth
  /\ SetLevels \subseteq {Main, Med}
  /\ Stamp \subseteq 0 .. SecWidth - 1
  /\ \A d \in EtimerDelay : d \in Nat /\ 2 * (d + N * (MaxNest + 2)) < TickWidth
  /\ NoEtimer \notin 0 .. TickWidth - 1

VARIABLES
  msec,      \* system_msec_time, in ticks
  ticks,     \* ticks
  secs,      \* system_global_time
  count,     \* timeout_array[i].count
  period,    \* timeout_array[i].period
  active,    \* timeout_active
  expired,   \* timeout_expired
  runCallbacks, \* run_callbacks
  etimerNext,\* next_expiration of the event timers, NoEtimer when none is set
  polled,    \* the event timer process has been asked to run
  irq,       \* the global interrupt flag
  overflow,  \* TCD0 overflow flag, pending for Low
  pulse,     \* RTC pin interrupt flag, pending for High
  frame,     \* what each level is executing
  nest,      \* seconds started since the main loop last reset the watchdog
  sets,      \* how often the clock was set
  seen       \* history: ticks counted since the counter of a channel was last
             \* loaded, Disturbed when one of them was nested in another tick

vars == <<msec, ticks, secs, count, period, active, expired, runCallbacks,
          etimerNext, polled, irq, overflow, pulse, frame, nest, sets, seen>>

clock    == <<msec, ticks, secs>>
channels == <<count, period, active, expired, seen>>
etimers  == <<etimerNext, polled>>
hardware == <<overflow, pulse, nest, sets>>

(***************************************************************************)
(* A frame: where the level is, the channel the scan of tick_handler has   *)
(* reached, the counter value it holds in a register, who called           *)
(* tick_handler ("isr", the catch-up "loop", or the "last" call after the  *)
(* loop), whether this reset_msec_count turned the callbacks off, and the  *)
(* channel mask it has loaded to change a bit of it.                       *)
(***************************************************************************)
Pc == {"idle", "enter", "scan", "store", "callback", "mark", "marked",
       "reload", "clear", "loop", "zero"}
Frame == [pc : Pc, ch : 0 .. Cardinality(Channel), held : 0 .. CountWidth - 1,
          caller : {"isr", "loop", "last"}, quiet : BOOLEAN,
          mask : SUBSET Channel]

Idle == [pc |-> "idle", ch |-> 0, held |-> 0, caller |-> "isr",
         quiet |-> FALSE, mask |-> {}]

InIdle(l)   == frame[l].pc = "idle"
AllIdle     == \A l \in Level : InIdle(l)
Running(l)  == ~InIdle(l) /\ \A h \in Level : h > l => InIdle(h)
At(l, pc)   == frame[l].pc = pc /\ Running(l)
Goto(l, pc) == frame' = [frame EXCEPT ![l].pc = pc]

\* An interrupt of level l can be taken.
Accepts(l) == irq /\ \A h \in Level : h >= l => InIdle(h)

\* A tick is counted, and its scan not over.
InTick(l) ==
  frame[l].pc \in {"scan", "store", "callback", "mark", "marked", "reload", "clear"}

NoTickRunning == \A l \in Level : ~InTick(l)

\* No tick is nested in the tick of level l, nor this one in another.
Alone(l) == \A k \in Level \ {l} : ~InTick(k)

Disturbed == -1

-----------------------------------------------------------------------------
(***************************************************************************)
(* tick_handler.                                                           *)
(***************************************************************************)

\* Return from tick_handler at level l: to the interrupt epilogue, which
\* restores the flag the interrupt was entered with (it was set, or the
\* interrupt would not have been taken), or to reset_msec_count with the flag
\* as tick_handler leaves it.
ReturnFromTick(l, flag) ==
  IF frame[l].caller = "isr"
  THEN frame' = [frame EXCEPT ![l] = Idle] /\ irq' = TRUE
  ELSE /\ frame' = [frame EXCEPT ![l].ch = 0,
                     ![l].pc = IF frame[l].caller = "loop" THEN "loop" ELSE "zero"]
       /\ irq' = flag

SecondOverLate == msec > N    \* mutant: one tick too many

\* The second has all its ticks.
SecondOver == msec >= N

\* Nothing is counted until the next reset, and the flag saved by
\* cpu_irq_save is not restored on this path.
TickRefused(l) ==
  /\ At(l, "enter")
  /\ SecondOver
  /\ ReturnFromTick(l, FALSE)
  /\ UNCHANGED <<clock, channels, runCallbacks, etimers, hardware>>

SecondChannel == 1            \* mutant: the scan misses channel 0

\* The scan of the channels starts with the first.
FirstChannel == 0

\* The protected update of the millisecond and tick counters.
TickCounted(l) ==
  /\ At(l, "enter")
  /\ ~SecondOver
  /\ msec' = msec + 1
  /\ ticks' = (ticks + 1) % TickWidth
  /\ frame' = [frame EXCEPT ![l].pc = "scan", ![l].ch = FirstChannel]
  /\ seen' = [c \in Channel |->
                IF ~Alone(l) THEN Disturbed
                ELSE IF c \in active /\ seen[c] # Disturbed THEN seen[c] + 1
                ELSE seen[c]]
  /\ UNCHANGED <<secs, count, period, active, expired, runCallbacks, etimers, irq,
                 hardware>>

\* The scan looks at the next channel: skips it when inactive, else loads its
\* counter for the decrement.
ScanChannel(l) ==
  /\ At(l, "scan")
  /\ frame[l].ch \in Channel
  /\ frame' = IF frame[l].ch \in active
              THEN [frame EXCEPT ![l].pc = "store",
                                 ![l].held = count[frame[l].ch]]
              ELSE [frame EXCEPT ![l].ch = @ + 1]
  /\ UNCHANGED <<clock, channels, runCallbacks, etimers, irq, hardware>>

Saturated(held) == IF held = 0 THEN 0 ELSE held - 1  \* mutant: no wrap

\* The counter after a tick: 16 bits, unsigned.
Decremented(held) == (held + CountWidth - 1) % CountWidth

\* The decremented counter is stored and tested.  A callback runs only while
\* callbacks are enabled; a channel without one is to be marked expired.
StoreCount(l) ==
  LET c    == frame[l].ch
      left == Decremented(frame[l].held)
  IN /\ At(l, "store")
     /\ count' = [count EXCEPT ![c] = left]
     /\ frame' = [frame EXCEPT
                    ![l].held = 0,
                    ![l].ch = IF left # 0 THEN @ + 1 ELSE @,
                    ![l].pc = CASE left # 0 -> "scan"
                                [] left = 0 /\ c \in WithCallback /\ runCallbacks
                                     -> "callback"
                                [] left = 0 /\ c \notin WithCallback -> "mark"
                                [] OTHER -> "reload"]
     /\ UNCHANGED <<clock, period, active, expired, seen, runCallbacks, etimers,
                    irq, hardware>>

\* Setting its bit of timeout_expired: the mask is loaded, then stored.
LoadExpired(l) ==
  /\ At(l, "mark")
  /\ frame' = [frame EXCEPT ![l].pc = "marked", ![l].mask = expired]
  /\ UNCHANGED <<clock, channels, runCallbacks, etimers, irq, hardware>>

NotFlagged(l) == frame[l].mask   \* mutant: the flag is not raised

\* The mask that was loaded, with the channel.
Flagged(l) == frame[l].mask \cup {frame[l].ch}

StoreExpired(l) ==
  /\ At(l, "marked")
  /\ expired' = Flagged(l)
  /\ frame' = [frame EXCEPT ![l].pc = "reload", ![l].mask = {}]
  /\ UNCHANGED <<clock, count, period, active, seen, runCallbacks, etimers, irq,
                 hardware>>

\* The callback of the channel returns.  What it does is the business of the
\* module that owns the channel; while it runs, higher levels may interrupt.
CallbackReturns(l) ==
  /\ At(l, "callback")
  /\ Goto(l, "reload")
  /\ UNCHANGED <<clock, channels, runCallbacks, etimers, irq, hardware>>

\* The counter of a periodic channel starts again from the period.
Reloaded(c) == period[c]

\* A periodic channel starts its next period, a single shot is to stop: the
\* mask of the active channels is loaded ...
Reload(l) ==
  LET c == frame[l].ch
  IN /\ At(l, "reload")
     /\ IF period[c] # 0
        THEN /\ count' = [count EXCEPT ![c] = Reloaded(c)]
             /\ seen' = IF Alone(l) THEN [seen EXCEPT ![c] = 0] ELSE seen
             /\ frame' = [frame EXCEPT ![l].pc = "scan", ![l].ch = @ + 1]
        ELSE /\ frame' = [frame EXCEPT ![l].pc = "clear", ![l].mask = active]
             /\ UNCHANGED <<count, seen>>
     /\ UNCHANGED <<clock, period, active, expired, runCallbacks, etimers, irq,
                    hardware>>

\* ... and stored without the channel, whatever became of it in between.
StoreActive(l) ==
  /\ At(l, "clear")
  /\ active' = frame[l].mask \ {frame[l].ch}
  /\ frame' = [frame EXCEPT ![l].pc = "scan", ![l].ch = @ + 1, ![l].mask = {}]
  /\ UNCHANGED <<clock, count, period, expired, seen, runCallbacks, etimers, irq,
                 hardware>>

\* The wrap-around test of tick_handler: the difference is unsigned.
EtimerDue ==
  /\ etimerNext # NoEtimer
  /\ (etimerNext - ticks - 1) % TickWidth > TickWidth \div 2 - 1

NotPolled == polled           \* mutant: the tick does not ask for the poll

\* etimer_request_poll, when a timer is due.
PolledNow == polled \/ EtimerDue

\* All channels were looked at; a due event timer has its process polled.
ScanDone(l) ==
  /\ At(l, "scan")
  /\ frame[l].ch \notin Channel
  /\ polled' = PolledNow
  /\ ReturnFromTick(l, irq)
  /\ UNCHANGED <<clock, channels, runCallbacks, etimerNext, hardware>>

Tick(l) ==
  \/ TickRefused(l) \/ TickCounted(l) \/ ScanChannel(l) \/ StoreCount(l)
  \/ CallbackReturns(l) \/ LoadExpired(l) \/ StoreExpired(l)
  \/ Reload(l) \/ StoreActive(l) \/ ScanDone(l)

-----------------------------------------------------------------------------
(***************************************************************************)
(* reset_msec_count: the missing ticks of the second are run one after the *)
(* other, then the tick of the new second, and the count starts again.     *)
(***************************************************************************)

\* Entry, from level l; run says whether callbacks stay enabled.  The timer
\* counter is cleared, and with it a pending overflow.
EnterReset(l, run) ==
  /\ frame' = [frame EXCEPT ![l] = [Idle EXCEPT !.pc = "loop", !.quiet = ~run]]
  /\ overflow' = FALSE
  /\ runCallbacks' = (run /\ runCallbacks)

TwoShort == msec < N - 2      \* mutant: the loop ends one tick early

\* The loop of reset_msec_count goes on.
SecondShort == msec < N - 1

StillQuiet(l) == runCallbacks \* mutant: callbacks are not turned on again

\* run_callbacks for the last tick of the second.
CallbacksFor(l) == runCallbacks \/ frame[l].quiet

\* One round of the loop while the second is short of ticks, or the last call
\* with callbacks enabled again.
ResetLoop(l) ==
  /\ At(l, "loop")
  /\ IF SecondShort
     THEN /\ frame' = [frame EXCEPT ![l].pc = "enter", ![l].caller = "loop"]
          /\ UNCHANGED runCallbacks
     ELSE /\ frame' = [frame EXCEPT ![l].pc = "enter", ![l].caller = "last"]
          /\ runCallbacks' = CallbacksFor(l)
  /\ UNCHANGED <<clock, channels, etimers, irq, hardware>>

SameSecond(l) == secs         \* mutant: the pulse does not count

\* The RTC interrupt counts a second.
NextSecond(l) == IF l = High THEN (secs + 1) % SecWidth ELSE secs

\* An interrupt restores the flag it was entered with.
IrqAfter(l) == irq \/ l # Main

\* The count of the second starts again.  The RTC interrupt (High) also
\* advances the seconds before it returns; nothing can come between, since no
\* level is higher.
ResetDone(l) ==
  /\ At(l, "zero")
  /\ msec' = 0
  /\ secs' = NextSecond(l)
  /\ irq' = IrqAfter(l)
  /\ frame' = [frame EXCEPT ![l] = Idle]
  /\ UNCHANGED <<ticks, channels, runCallbacks, etimers, hardware>>

\* hal_system_time_write_time, from a CoAP request (Main) or from the GPS
\* pulse (Med): the seconds are set, then written to the external RTC over
\* TWI; only when that write succeeds is the count of the second reset,
\* without callbacks.
SetTime(l, stamp) ==
  /\ IF l = Main THEN AllIdle ELSE Accepts(l)
  /\ secs' = stamp
  /\ \/ EnterReset(l, FALSE)
     \/ UNCHANGED <<frame, overflow, runCallbacks>>
  /\ nest < MaxNest /\ nest' = nest + 1
  /\ sets < MaxSets /\ sets' = sets + 1
  /\ UNCHANGED <<msec, ticks, channels, etimers, irq, pulse>>

-----------------------------------------------------------------------------
(***************************************************************************)
(* Interrupts and the hardware that raises them.                           *)
(***************************************************************************)

\* TCD0 overflow: the local tick, at Low.
TimerInterrupt ==
  /\ overflow /\ Accepts(Low)
  /\ overflow' = FALSE
  /\ frame' = [frame EXCEPT ![Low] = [Idle EXCEPT !.pc = "enter"]]
  /\ UNCHANGED <<clock, channels, runCallbacks, etimers, irq, pulse, nest, sets>>

\* PORTB_INT0: the pulse of the external RTC, at High.
PulseInterrupt ==
  /\ pulse /\ Accepts(High)
  /\ nest < MaxNest /\ nest' = nest + 1
  /\ pulse' = FALSE
  /\ EnterReset(High, TRUE)
  /\ UNCHANGED <<clock, channels, etimers, irq, sets>>

\* The timer counter reaches its period.
TimerOverflows ==
  /\ ~overflow
  /\ overflow' = TRUE
  /\ UNCHANGED <<clock, channels, runCallbacks, etimers, irq, pulse, frame, nest, sets>>

\* The RTC pin falls, once a second.
RtcPulses ==
  /\ ~pulse
  /\ pulse' = TRUE
  /\ UNCHANGED <<clock, channels, runCallbacks, etimers, irq, overflow, frame, nest, sets>>

-----------------------------------------------------------------------------
(***************************************************************************)
(* What the main loop does with channels and event timers.                 *)
(***************************************************************************)

MainOnly == UNCHANGED <<clock, runCallbacks, irq, frame, hardware>>

\* timeout_start_offset, through timeout_start_periodic (p = the delay) or
\* timeout_start_singleshot (p = 0).
StartChannel(c, p, delay) ==
  /\ AllIdle
  /\ count'   = [count EXCEPT ![c] = delay]
  /\ period'  = [period EXCEPT ![c] = p]
  /\ active'  = active \cup {c}
  /\ expired' = expired \ {c}
  /\ seen'    = [seen EXCEPT ![c] = 0]
  /\ UNCHANGED etimers /\ MainOnly

StartTimer(c) ==
  /\ c \in Restarted \/ c \notin active
  /\ \/ \E p \in Period : StartChannel(c, p, p)
     \/ \E d \in Delay  : StartChannel(c, 0, d)

\* timeout_stop
StopTimer(c) ==
  /\ AllIdle
  /\ c \in Restarted
  /\ active' = active \ {c}
  /\ UNCHANGED <<count, period, expired, seen, etimers>> /\ MainOnly

\* timeout_test_and_clear_expired, when it answers true
TestAndClear(c) ==
  /\ AllIdle
  /\ c \in expired
  /\ expired' = expired \ {c}
  /\ UNCHANGED <<count, period, active, seen, etimers>> /\ MainOnly

\* etimer_set by a process: the earliest expiry moves and the process is polled.
SetEtimer(d) ==
  /\ AllIdle
  /\ etimerNext = NoEtimer
  /\ etimerNext' = (ticks + d) % TickWidth
  /\ polled' = TRUE
  /\ UNCHANGED channels /\ MainOnly

\* A round of the main loop: a polled event timer process runs and posts the
\* timer when it is due; then the watchdog is reset.
MainRound ==
  /\ AllIdle
  /\ polled \/ nest > 0
  /\ polled' = FALSE
  /\ etimerNext' = IF polled /\ EtimerDue THEN NoEtimer ELSE etimerNext
  /\ nest' = 0
  /\ UNCHANGED <<clock, channels, runCallbacks, irq, frame, overflow, pulse, sets>>

-----------------------------------------------------------------------------
Init ==
  /\ msec = 0 /\ ticks = 0 /\ secs = 0
  /\ count = [c \in Channel |-> 0] /\ period = [c \in Channel |-> 0]
  /\ active = {} /\ expired = {}
  /\ runCallbacks = TRUE
  /\ etimerNext = NoEtimer /\ polled = FALSE
  /\ irq = TRUE /\ overflow = FALSE /\ pulse = FALSE
  /\ frame = [l \in Level |-> Idle]
  /\ nest = 0 /\ sets = 0
  /\ seen = [c \in Channel |-> 0]

Step(l) == Tick(l) \/ ResetLoop(l) \/ ResetDone(l)

MainLoop ==
  \/ \E c \in Channel : StartTimer(c) \/ StopTimer(c) \/ TestAndClear(c)
  \/ \E d \in EtimerDelay : SetEtimer(d)
  \/ MainRound

Next ==
  \/ \E l \in Level : Step(l)
  \/ \E l \in SetLevels, stamp \in Stamp : SetTime(l, stamp)
  \/ TimerInterrupt \/ PulseInterrupt
  \/ TimerOverflows \/ RtcPulses
  \/ MainLoop

Spec == Init /\ [][Next]_vars

\* The CPU runs the code of the running level, takes the interrupts that are
\* pending, and the two clocks keep running.  The main loop gets its rounds
\* between interrupts; nothing is assumed of the requests it serves.
Fairness ==
  /\ \A l \in Level : WF_vars(Step(l))
  /\ WF_vars(TimerInterrupt) /\ WF_vars(PulseInterrupt)
  /\ WF_vars(TimerOverflows) /\ WF_vars(RtcPulses)
  /\ SF_vars(MainRound)

FairSpec == Spec /\ Fairness

-----------------------------------------------------------------------------
(***************************************************************************)
(* Properties.                                                             *)
(***************************************************************************)

\* Every variable has its type.
TypeOK ==
  /\ msec \in 0 .. N /\ ticks \in 0 .. TickWidth - 1 /\ secs \in 0 .. SecWidth - 1
  /\ count \in [Channel -> 0 .. CountWidth - 1]
  /\ period \in [Channel -> Period \cup {0}]
  /\ active \subseteq Channel /\ expired \subseteq Channel
  /\ {runCallbacks, polled, irq, overflow, pulse} \subseteq BOOLEAN
  /\ etimerNext \in 0 .. TickWidth - 1 \/ etimerNext = NoEtimer
  /\ frame \in [Level -> Frame]
  /\ nest \in 0 .. MaxNest /\ sets \in 0 .. MaxSets
  /\ seen \in [Channel -> Nat \cup {Disturbed}]

\* A second of the RTC holds exactly N ticks, however early or late the local
\* timer runs and wherever the pulse lands in the tick handler: the tick
\* counter is N times the seconds plus the ticks of this second
\* (reset_msec_count with the refusal of ticks past the end of the second).
\* High is the only level that may see the two apart.  Setting the clock
\* makes the second it falls into longer or shorter.
SecondHasNTicks ==
  sets = 0 /\ frame[High].pc = "idle" => ticks = (N * secs + msec) % TickWidth

\* No two levels are inside the callback of one channel: the counter of a
\* channel stays expired until its callback has returned, so a nested tick
\* takes it through the wrap of the 16-bit counter and not through 0 again.
NotReentered ==
  \A l, h \in Level : l < h /\ frame[l].pc = "callback" /\ frame[h].pc = "callback"
     => frame[l].ch # frame[h].ch

\* "Counts down for every tick" (timeout.c:70-71): between ticks the ticks a
\* periodic channel has seen and those it still counts add up to its period,
\* unless one of them was nested in another tick.  The decrements of a nested
\* tick may be overwritten by the tick below, or be run twice, so then the
\* channel is early or late; but no wrap of its counter from 0 and no counter
\* above the period survives (timeout.c:147-166).  Single shots are left out:
\* where two nested ticks stop two of them, the second store of timeout_active
\* starts one again.
ChannelOnTime ==
  NoTickRunning =>
    \A c \in active : period[c] # 0 =>
      /\ count[c] \in 1 .. period[c]
      /\ seen[c] # Disturbed => count[c] + seen[c] = period[c]

\* When the count of the second starts again it stands at a full second: the
\* check reset_msec_count makes under DEBUG_TIMEOUT, which prints "ERROR system
\* msec not 0" otherwise (services/timeout/timeout.c:435-438).  A pulse that
\* preempts the setting of the clock resets the count for it: then it fails.
FullSecondAtReset ==
  sets = 0 => \A l \in Level : At(l, "zero") => msec = N

\* The callbacks are only off while a level sets the clock.
CallbacksOnAgain ==
  (\A l \in SetLevels : ~frame[l].quiet) => runCallbacks

\* The main loop and everything that calls it run with interrupts enabled
\* (services/timeout/timeout.c:121-124 disables them around the update of the
\* counters and restores them).
MainHasInterrupts == AllIdle => irq

\* Time does not run back: a step that changes seconds or ticks of the second
\* moves the clock forward, by the RTC pulse or by a tick.
TimeMovesForward ==
  [][ (secs' # secs \/ msec' # msec) /\ sets' = 0 =>
        \/ secs' = secs /\ msec' = msec + 1
        \/ secs' = (secs + 1) % SecWidth /\ msec = N /\ msec' = 0 ]_<<secs, msec, sets>>

\* A single shot whose owner leaves it alone raises the flag this owner waits
\* for: it is not enough that the tick handler ends it (timeout.c:161).
SingleShotExpires ==
  \A c \in Channel \ (WithCallback \cup Restarted) :
    (c \in active /\ period[c] = 0) ~> c \in expired

\* An event timer that is set is posted.
EtimerPosted == etimerNext # NoEtimer ~> etimerNext = NoEtimer
=============================================================================
