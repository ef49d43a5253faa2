# Verification of the modsense node

The repository is the firmware of a seismic sensor node: an ATxmega with an
external RTC, a GPS receiver, a converter sampled 100 times a second, an SD card
and a serial line to the network, over which clients read one-second packets by
CoAP. This directory holds a TLA+ model of its own core logic, the TLC runs that
check it and the TLAPS proofs about it. Paths below are relative to
`src/HAL/src/`.

    tlc -config Timebase_seconds.cfg MCTimebase     (one run)
    tlapm KernelProofs.tla                          (the proofs of one module)

## 1. Inventory

| Component | Code | State | Operations | What makes it correct |
|---|---|---|---|---|
| Time base | `asf/xmega/services/timeout/timeout.c`, `Modsense/HAL/hal_system_time.c` | ms count of the second, ticks, seconds, 8 channels (count, period, active, expired), `run_callbacks` | `tick_handler` (TCD0, Low), `reset_msec_count`, `PORTB_INT0` (RTC pulse, High), `write_time`, start / stop / test of a channel | a second has exactly 100 ticks, channels stay on time, callbacks are not nested in themselves, interrupts come on again |
| System clock | `HAL/hal_system_time.c`, `calendar.c`, `twim.c` | the registers of the external RTC, the buffers `rtc_time` and `temp_calendar`, the seconds, the lock of the bus | boot, set from the main loop, set from the GPS pulse | node and chip agree, a boot ends in a usable time, setting ends |
| Serial ports | `asf/xmega/drivers/usart/usart.c`, `Modsense/HAL/hal_usart.c` | two ring buffers, CTRLA, `started` | send, receive, start, stop, RXC and DRE interrupts (Med) | FIFO, loss only on overrun, no lost wake-up, busy-wait ends |
| Acquisition | `main.c:1107-1277` | the packet, its fill pointer and count, `packet_written` | `ads1254_isr_routine` once a tick, start | one sample per place, label of the right second, what is stored is a whole packet |
| Store on the card | `Libs/cyclic_buffer_sd_mmc.c`, `HAL/hal_sd_mmc.c` | slots, in-use flag | hashed write and read | one transfer at a time |
| SD card driver | `sd_mmc.c`, `sd_mmc_spi.c` | state of the slot, `sd_mmc_used`, blocks left, position | check, init / start / wait of a read or write | the card is given back on every path, its asserts hold, a stored packet is whole |
| Seismo resource | `Coap/er-example-server.c:1031-1179` | the buffer of the request | GET by second | the packet asked for, an empty one only when there is none |
| Processes, event timers | `Process/process.c`, `Libs/etimer.c`, `Libs/timer.c` | event queue, list of timers, poll flags, `process_current` | post, poll, run; set, reset, stop, expire | no poll and no timer forgotten, an event goes to the process it is for |
| Framing | `Ethernet_Socat/socat.c` | receive state, buffer, length | send, poll | the packets polled are the packets sent, a loss stays local |
| CoAP server | `Coap/er-coap-13-*.c`, `erbium.c`, power resource | transactions, observers, the static transaction of the receiver, `data_buffer` | receive, retransmit, observe, notify | no block lost, each open transaction looked at again, a silent observer forgotten |
| GPS | `HAL/hal_gps.c` | parser state, last fix | pulse interrupt (Med), start, stop | only a complete fix sets the clock |
| HAL registry | `HAL/hal_interface.c` | used and started flags | get, init, start, stop | one owner per object |
| uIP, Rime, RPL, MACs, FatFS, other ASF drivers | | | | taken over from Contiki, ChaN and Atmel: not modelled |

How they interact. The local tick (Low) and the RTC pulse (High) both run
`tick_handler`, the pulse in a loop that makes up for the ticks the second is
short of; the callback of a channel runs inside it, so the acquisition runs at
either level and may preempt itself. The tick also asks for a poll of the event
timer process. The main loop runs processes, polls the serial line for a packet
(`Framing` over `UsartBuffer`), answers CoAP requests, and through them reads the
card and sets the clock; the GPS pulse sets the clock from Med. Serial interrupts
run at Med. All sharing is by variables, flags and hardware registers; there are
no locks beyond the global interrupt flag and the lock of the TWI bus.

What is hard is therefore preemption between any two accesses of shared state
(every level against every lower one), flags that are tested and set in two
steps, failed and retried transfers, memory blocks used again while somebody
still points to them, datagrams that come late or twice, and restarts by the
watchdog, which both the card and the external RTC outlive. The list of hazards,
with lines, is in `PROJECT.json`.

## 2. Modules

| Module | Role | Proofs |
|---|---|---|
| `Timebase` | time base, one level of detail below the C statement where something can preempt | `TimebaseProofs` |
| `Acquisition` | EXTENDS `Timebase`: acquisition, store and seismo resource on top of it | `AcquisitionProofs` |
| `UsartBuffer` | one serial port: main loop, two interrupts, the line | `UsartBufferProofs` |
| `BoundedFifo` | abstract specification: a bounded queue with two ends | |
| `CoapServer` | transactions, observers, receiver and periodic resource of the CoAP server | `CoapServerProofs` |
| `Clock` | node time, external RTC, calendar forms, two writers, loss of power | `ClockProofs` |
| `Card` | one transfer of several blocks, down to the answers of the card | `CardProofs` |
| `Kernel` | processes, events, polls, event timers | `KernelProofs` |
| `Framing` | packets on the serial line to socat | `FramingProofs` |
| `MC...` | definitions for the TLC instances | |

Composition: `Acquisition` runs inside the callbacks of `Timebase`, and the theorem
`OnTimebase` says that it adds no behaviour to it. `UsartBuffer` implements
`BoundedFifo`, whose loss at the full end is the loss of bytes `Framing` assumes.
`Card` takes apart the one step a transfer is in `Acquisition`. `Kernel` has as its
environment the tick of `Timebase` and delivers the timer events `CoapServer`
starts from.

An operator with the comment `mutant:` is never used by the model. It is a
plausible mistake in the operator it stands in front of, kept to show that the
property named in `PROJECT.json` notices it.

### Timebase

A *level* is Main, Low, Med or High. `frame[l]` says where the code of level `l`
is; a step of level `l` needs every higher level idle (`Running`), an interrupt
starts only when its level and all higher ones are idle and the interrupt flag is
set (`Accepts`). `tick_handler` is cut where preemption matters: the protected
update of the two counts is one step (`TickCounted`, or `TickRefused` with its
early return), the scan of a channel is load (`ScanChannel`), store and test
(`StoreCount`), callback (`CallbackReturns`), load and store of the masks
(`LoadExpired`, `StoreExpired`, `Reload`, `StoreActive`), and the event-timer test
(`ScanDone`). `reset_msec_count` is `EnterReset`, `ResetLoop`, `ResetDone`;
called from the pulse it ends with the next second, from `SetTime` without.
`StartTimer`, `StopTimer`, `TestAndClear`, `SetEtimer` and `MainRound` are the
calls of the main loop; those that the code runs with interrupts off are single
steps. One model tick is the 10 ms of the code, `N` is the 100 of
`TIMEOUT_TICK_HZ`. A counter wraps at `CountWidth`, seconds and ticks at
`SecWidth` and `TickWidth = N * SecWidth`, for 2^16 and 2^32. `seen` is history: the
ticks counted since the counter of a channel was loaded, or `Disturbed` if one of them
was nested in another. `ChannelOnTime` compares it with the counter: a tick that runs
alone is never lost, a nested one may be (see Observations).

`MainRound` stands for a round of the main loop: the watchdog of the loop
(`main.c:552`, about 8 s) bounds how many seconds can pass between two, and
`MaxNest` is that bound.

### Acquisition

Channel 0 is the acquisition, started periodic with one tick. `ads[l]` is the place
of level `l` in `ads1254_isr_routine`; a place is a new step where the code reads
the time, tests or sets the in-use flag of the card, or transfers. The main loop's
`reader` goes through `seismo_handler`: read refused or begun, transfer, comparison
of labels, comparison of times, answer. A packet is a label and the set of places
that hold a sample; a card is a slot array indexed by `label % Slots`. Any transfer
may fail when `Faults = {TRUE}`; every path of failure in `sd_mmc.c` gives the card
back (`Card` shows it), so they are one outcome. The RTC pulse comes when the local clock lags at
most `Late` ticks, which is what two crystal clocks do; `Timebase` itself lets it
come at any time.

### UsartBuffer

`pc`, `task`, `byte` and `held` are the main loop's place and registers. Each read
or write of a head, a tail, a slot or CTRLA is a step of its own; changing CTRLA is
`ReadCtrl` and `WriteCtrl`. Interrupts of one port have the same level and are
atomic to the main loop and to each other. `ByteArrives` overwrites a byte not yet
fetched, as the line does; that loss is outside the buffer. Heads and tails are
16-bit variables whose high byte is always 0, so one access reads them whole.

### Clock

The unit of time is the minute. `pc` is the main loop: the three steps of
`hal_system_time_init` (first read, replacement of a date that is none or too old,
second read), or the steps of `hal_system_time_write_time`, cut where they touch
what the pulse handler shares with them. Each access of `timestamp_to_calendar` to
`temp_calendar` is a step: the stores of the fields, the test of a loop (`YearTest`,
`MonthTest`), the load behind its subtraction (`YearTaken`, `MonthTaken`), the count of
the year or month (`YearAdded`, `MonthAdded`), and the date (`StoreDate`, `DateAdded`,
`LastMonth`). The build may keep year and month in registers from one access to the
next, or load them again: `held` is what it loaded last and `Years`, `Months` are the
values an access may see. A test and its subtraction may thus be of different years or
months, and `day` may underflow, modulo `DayWidth`. Then come `rtc_time` (`Formed`) and
the chip (`Sent`). The pulse handler is one step (`GpsSets`) between any
two of them, unless the main loop owns the bus: then it spins (`GpsSpins`) until the
watchdog. A transfer moves the first `k` registers only, in the order of the
registers. `Stop` is loss of power or the watchdog. `DateToTimestamp`,
`TimestampToCalendar`, `CalendarToRtc`, `RtcToCalendar` are the conversions, with the
width of their bytes and with the hours as the code reads and writes them. The byte
behind the table of months is what `Beyond` says: the torn loop may read it. With 2^32
for `DayWidth` an underflow costs up to 11.7 million rounds, which the watchdog cuts
short; both ends are in the model.

Left out is that `calendar_date_to_timestamp` counts the date and month of
`temp_calendar` down: nothing reads them before they are set again. The two bytes of the
year are loaded and stored as one, and the conversion to registers in `Formed` is one
step: a pulse in the middle of it leaves its own time, as it does just after, but for
one register whose value was being computed. `HourPasses` is the only passing
of time and stops short of the end of the day. The clock is set to times before 2106,
the last year a `calendar_date` has (`calendar.h:74`): later ones, which 32 bits still
reach until February, are converted to a date that the conversion back refuses.

### Card

`op[c]` is a transfer of context `c`: the interrupt that stores, or the main loop
that reads; the main loop goes on only when the interrupt is idle. Its places are
the busy test of `hal_sd_mmc.c`, `sd_mmc_init_*_blocks` (`Take`: select and mark in
use), CMD13 before a read (`Status`), the command (`Command`), each block
(`WriteBlock`, `ReadBlock`), the busy-wait before the next block of a store (`BusyWait`)
and the end (`Wait`). The card answers or fails
(`Answers`); it never answers when it is out, was not initialised since it is in, or is
programming. A block it accepts is in `buffer` until it `Programs` it. A card that is
pulled meanwhile may have programmed it or not (`torn` remembers the slot), and leaves
the line as a card that has finished does (`LineFree`), so the wait ends well and the
store may be reported as done. The driver can take the zeros of a busy line as the
answer to a command; the model lets the command fail instead, as the first block would.
`Changes` pulls it or puts it back at any time, `Restart` is the watchdog. `boot`
follows `hal_sd_mmc_init`, which waits for the card and then selects it up to four
more times to print and keep its type and size.

### Kernel

`pc` is the round of the main loop, `stack` the handlers that run inside each other,
`walk` the processes `do_poll` still visits, `scanning`/`unseen` the loop of
`etimer_process`, `step`/`nearest` the place inside `update_time`: reading the time
and the list (`UpdateTime`) is apart from the store of `next_expiration`
(`AssignNext`), so that ticks may come between. `Tick` may come at any step. A handler
sets, resets and stops timers and posts synchronous events in any order, at most
`MaxCalls` of them. A timer in `Borrowed` is set in the context of its home
(`PROCESS_CONTEXT_BEGIN` in `coap_send_transaction`), by whichever process sends. A packet (`Packet`) is given to
`uip_input` by `main.c:614` itself, and `tcpip_uipcall` posts it to the process of its
connection; `process_current` is then what the last handler left, which nothing reads
before the next one sets it.
Times are relative; `Sooner` compares distances unsigned, as the code does.

### Framing

The wire carries bytes with their packet of origin, as history. `Send` is
`soc_eth_packet_send`, which prefixes four bytes of packet information; the other end
of the line sends in the same form. `PollByte` is one turn of the loop of
`soc_eth_packet_poll` in its three states. `PacketLength` adds the two bytes of the
length, as the code does (`msb<<8;` is a statement without effect), and the test of
overflow comes where the code has it, after the byte was stored. `LossStaysLocal` says
of any packet what comes in of it (`Arrives`): all of it if its length is below `Width`
(256), else the part up to the sum of its length bytes (`Cut`), the rest being noise.
It says nothing of what follows a packet that was cut off.

### CoapServer

Everything runs in the main loop, so a handler is one step; its interleavings are
those of datagrams, timer events in the queue and the clock. A block is a
transaction of `transactions_memb`; requests hold one only inside their handler
(`Respond`), confirmable notifications keep one until they are answered, reset or
given up. `transaction` is the static variable of `coap_receive` that the error path
clears. The loops that stop at the first entry they remove are modelled as such
(`Removed`, `CheckTransactions`). Message ids are numbers no live message has.

## 3. Runs

| Run | Instance | Question |
|---|---|---|
| `Timebase_seconds` | 3 ticks a second, 2 periodic channels (one with a callback), periods 1 and 2, restarted at will, up to 2 seconds without a main-loop round, clock set once from Med | exact seconds, each tick that is not nested counted by the channels, no callback inside itself, the full-second check of `reset_msec_count`, callbacks on again, time moves forward |
| `Timebase_live` | one channel without callback, an event timer of 1 tick, a clock of 7 seconds, fairness | single shots raise their flags, event timers are posted, across the wrap of the tick counter |
| `Timebase_irq` | clock set from Main | **violated**: interrupts stay off |
| `Usart` | rings of 4 slots, one value of a byte besides that of an untouched slot, fairness | both FIFOs, no lost wake-up, loss only when full, a started port listens, the busy-wait ends |
| `Acquisition_store` | 3 ticks a second, 2 slots, card failures, lag of 1 tick | one transfer at a time, no sample out of the packet, a packet waiting for its retry is left alone, labels current |
| `Acquisition_empty` | no failures | **violated**: an empty packet answered for one that is on the card |
| `Coap` | 2 clients, 2 observers, 3 blocks, 2 retransmissions, refresh of 4, a queue of 2, the clock set forward once | no block lost, transactions looked at again, room for the next request, open notifications intact, silent clients forgotten |
| `Clock` | two times (the evening before a leap year ends, a January morning of the next century), transfers of 2 or all registers, 2 settings, 1 hour, a byte behind the table that is a length of a month or 255, fairness | widths kept wherever the pulse comes in the conversion, chip and node agree, survive a restart, boot gives a time, setting ends |
| `Clock_boot` | a morning and an evening | **violated**: an evening is taken for no time and overwritten |
| `Card` | 1 slot, 2 packets of 2 blocks, 3 pulls, 1 restart, fairness | asserts of the driver, card given back, packets whole but for a block being programmed when the card was pulled, reads in one piece, the boot ends |
| `Kernel` | tcpip, receiver and manager with one timer each, intervals of 1 and 2, a queue of 2, 2 calls a handler, 2 ticks before the loop is idle, fairness | no timer forgotten, right owner, no event dropped, timers are taken |
| `Framing` | bytes below 8, packets of 5, 7 and 9 bytes, two of them, 3 bytes lost | buffer never overrun, a loss costs its own packet, a long packet comes in cut off |

Type invariants are proved in general for `Timebase`, `UsartBuffer`, `CoapServer`,
`Card`, `Kernel` and `Framing` and not repeated in the runs; those of `Clock` and
`Acquisition` are in the runs.

Why the bounds are enough.
- `Timebase`: three ticks are the smallest second with a first, a middle and a last
  tick, so the loop of `reset_msec_count` runs zero, one or two times and the header
  tick differs from the first and the last. Two channels show what one channel's scan
  does to the other. Two nested seconds (`MaxNest`) let a pulse come while the ticks
  of the previous one are unfinished at Low. `CountWidth` only has to exceed what a
  counter can lose between two rounds (an assumption of the module; 2^16 exceeds
  100 * (8 + 2)). `MaxSets` = 1: a fix turns the GPS off for two hours.
- `UsartBuffer`: four slots make the smallest ring in which full, empty, wrapped and
  half full are all different. With one value of a byte the run sees loss and
  repetition; that different bytes keep their order is the theorems' part.
- `Acquisition`: two slots and a clock of three seconds make two seconds share a slot.
- `CoapServer`: two observers that are due together leave one block of three; two
  retransmissions make a first, a repeated and a last timeout; a queue of two is full
  when the periodic event and one retransmission wait. `Jump` is a whole refresh
  interval. The time of a notification (1 + 2) is below the refresh interval (4), as
  45 s is below 60 s.
- `Clock`: two settings give a pulse inside a setting of the main loop, `MaxHours` one
  step of the hours register between write and boot. 2 or all registers are a transfer
  that fails between time and date, and not at all. The two times differ in the number
  of rounds of both loops and in the leap year, so that a test and its subtraction can
  see different lengths and `day` underflows; a `DayWidth` of 50000, just above the days
  until 2106, makes the loops after it long, not endless.
- `Card`: two blocks have one the busy-wait is between and one it is behind; three changes are out, in and out
  again; one restart comes at any place of a transfer.
- `Kernel`: a queue of two is full with three timers due; two calls of a handler make
  a set after a set, a stop or a synchronous call; `MaxBusy` ticks are told apart
  inside one round (the watchdog ends a loop that never becomes idle); `MaxLate` is
  how far in the past a time is told apart from "past".
- `Framing`: 9 is a length whose high byte is not 0 in bytes below 8, and is cut off; two packets, so
  that one may be completed from the next; three lost bytes may all hit one packet.
  `BufSize` is 15, one more than twice the largest byte, the least the theorem allows.

`Framing` is the only run that stops by itself (packets and losses are bounded), so
it is the only one without deadlock checking.

### Findings

1. `timeout.c:118` returns without restoring the flag `cpu_irq_save` saved. In an
   interrupt the epilogue hides it. In the main loop (a CoAP POST of the time,
   `er-example-server.c:1309`) during the last tick of a second, when the count
   stands at 1000, the refused call leaves interrupts off for good: the watchdog is
   what ends it.
2. `seismo_handler` reads the card before the time: a packet stored in between is
   answered as if it had never been recorded (comment at `er-example-server.c:1120`).
3. Hours from 20 on are written with the bit of twenty and read back with that bit
   worth forty (`hal_system_time.c:51,85`): a restart in the evening takes the date
   for none and replaces the correct chip by 18/10/2013, although the branch is for
   "no time or very old time" (`hal_system_time.c:123`). `EveningIsLost` proves it of
   every hour from 20 on, `DateSurvivesChip` that every other date survives.

### Observations

Behaviours of the code that the models have and no document contradicts:
- When the main loop sets the clock and the pulse comes inside `reset_msec_count`,
  the check under `DEBUG_TIMEOUT` (`timeout.c:435-438`) prints its error.
- "Counts down for every tick" (`timeout.c:70-71`) holds of ticks that are not nested.
  When the pulse comes between load and store of a counter, what its ticks took is
  overwritten, or the reload they did is; a period is then longer or shorter.
- A packet of 256 bytes or more is ended too early (`socat.c:119`), although the comment
  (`socat.c:70-76`) has every packet read in full: `LossStaysLocal` says what comes in
  of it.
- A card pulled while it programs the last block of a packet reads as one that has
  finished (`sd_mmc_spi.c:160-183`), and the store may be reported as done:
  `WholeUnlessFailed` has to leave that block out.
- A datagram that cannot be parsed clears the transaction of the last request
  (`er-coap-13-engine.c`), also when its block is a notification's by then; that
  notification is not repeated.
- A packet may hold samples of two seconds, when the tick of 990 ms was lost.
- The first packet after the start is one sample short (`main.c:1270`).
- The last retransmission of a notification is timed out as soon as it is sent.
- A clock set forward makes all observers due for a confirmable notification at once,
  and blocks for requests may run out until they are answered.
- A reset of an older confirmable notification does not unsubscribe its client.
- The block `data_buffer` points to is written by the periodic handler long after it
  was given back. With `POWER_SAMPLES` 5 it writes behind what an open notification
  occupies; its comment allows 30, and from 21 samples on it would overlap.
- A card put back while the program runs is not initialised again.
- A setting of the clock whose transfer fails is answered as done.

## 4. Fairness

`Timebase!Fairness`: the CPU goes on with the running level, pending interrupts
are taken when they can be, both clocks keep running (weak fairness each). A round
of the main loop is only enabled between interrupts, hence strong fairness: the
code between two ticks is far shorter than a tick. No fairness is assumed of
requests, of starting and stopping, or of setting the clock.
`UsartBuffer!FairSpec`: the main loop goes on, a pending DRE interrupt is taken, and
the transmitter shifts its byte out. Nothing is assumed of the line or of the
program that sends.
`Clock!Fairness`: the boot and a setting go on, and the watchdog, which only the main
loop resets, ends a spin. `Card!FairSpec`: the boot and a transfer go on; nothing is
assumed of the card, `CardFound` says itself that it stays in its slot.
`Kernel!FairSpec`: main loop and handlers go on as one (weak fairness of their
disjunction), and time goes on. A handler need not set or stop any timer.
`CoapServer` and `Framing` have safety properties only.

## 5. Proofs

Every theorem holds for all values of the constants that satisfy the module's named
assumption; the assumptions are what the code's definitions and comments say of
sizes, and TLC evaluates them on each run. In each module an inductive invariant
(`IInv`; `AcqInv` in `AcquisitionProofs`) is shown to hold initially and to be kept by
each action, one lemma or step per action.

- `TimebaseProofs`: `Types`, `Seconds`, `FullSeconds`, `Forward`, `Callbacks`,
  `Interrupts`, `CallbacksOnce`, `OnTimeAlways`. `Interrupts` assumes that the main
  loop does not set the clock, and finding 1 shows that it has to. The invariant adds
  to the types what each level can be executing (`Nested`: Low only ticks, High never
  sets), that behind the last call of the catch-up loop the second is full
  (`LastCall`), the count of ticks (`Counted`), and who is going to turn callbacks and
  interrupts on again. `CallInv` is a budget: a channel found due stands at 0 until it
  is reloaded, a nested tick takes it below 0, to the top of its range, and the ticks
  there can be before the main loop runs are too few to bring it down to 0 once more.
  `SeenInv` says that two nested ticks leave every channel `Disturbed`, and that a tick
  that runs alone has one decrement open in the counters it has not reached. `DueInv`
  follows the counter through the load, the change and the store of nested
  ticks: a stale value may be stored, but never one outside the period, and a mask
  about to be stored has every periodic channel that runs.
- `AcquisitionProofs`: `OnTimebase`, by which all of the above holds of the
  acquisition too, `OneTransfer`, `AcqTypes`, `SampleFits`, `Held`, `Labels`. The
  invariant says that whoever found the card free did so while nobody below it was
  writing (`CardInv`), which makes the test and the set of the flag safe although they
  are two steps. Because no callback is entered twice and the only channel is the
  routine's, the routine runs as one thread through the phases of a packet
  (`PacketInv`). `Labels` has the hypothesis that one of the ticks at which the header is
  written is over before the earliest pulse can come (`HeadedInTime`), as it is in the
  program and in the runs; from that tick to the end of the second the packet has the
  label of the second (`Headed`, `Current`).
- `UsartBufferProofs`: `Typing`, `WakeupNotLost`, `ListeningKept`, `LossIsOverrun`,
  and the refinements `TxRefines` and `RxRefines` of `BoundedFifo`. The invariant says
  what task the main loop is in the middle of (`TaskMatches`), that the receive field
  of CTRLA and of a copy about to be written back is what `started` says
  (`ReceiveField`), and that the slot or byte the main loop works on stays reserved
  (`SlotReserved`, `ByteReserved`). The refinement mapping takes the bytes from tail
  to head; `SlotUsed`, `SlotShift`, `WriteBeyond`, `HeadMoves`, `TailMoves` say what
  moving an end does to it in modular arithmetic.
- `CardProofs`: `Types`, `InUse`, `Asserts`, `WholePackets`, `ReadsWhole`. The
  invariant says that an interrupt finds the main loop's transfer out of its way
  (`OneHolds`), how many blocks are left at each place (`BlocksLeft`), that the card only
  programs the block sent last, or one of a store that failed (`BufferHeld`), and that
  what a store sent is on the card, being programmed, or was the last when the card was
  pulled, which then accepts no more (`StoredSoFar`, of `OnCard`), from which the whole
  packet (`WholeSlot`) follows at its end. For a read, what the main loop has got so far is what its slot holds
  (`GotSoFar`): a store that preempts it finds the card in use and writes nothing.
- `KernelProofs`: `Types`, `Timers`, `Owners`, `EventsTaken`. The invariant says that
  a past timer has a poll or scan coming (`PastSeen`), that `next_expiration` is no
  later than any timer still to come unless a poll was asked for, with what
  `update_time` holds while it is between its two reads (`Timely`), and that exactly
  the processes on the stack, each once, are marked as called (`CalledOnStack`).
- `FramingProofs`: `Types`, `BufferBound`, `LossLocal`. The length is the sum of two
  bytes, so a buffer larger than twice the largest byte is enough whatever arrives
  (`Growth`). `Local` ties the place the receiver is at to what is left of the packet
  on the line: it is between packets, in a header, in the data, or making up from the
  preamble of the next packet what was lost (`Progress`), and every unharmed packet up to
  the first long one is recorded as it arrives (`Recorded`). Once that one was cut off
  the receiver is `OutOfStep`, and nothing more is claimed.
- `CoapServerProofs`: `Types`, `NoLeak`, `PacketsIntact`, `RetriesPending`,
  `AlwaysRoom`, `SilentForgotten`. A client has one entry in the list of observers
  (`OneEntry`), which is why removing the first is removing all. `Pending`: every timer
  that expired put an event of its own in the queue. `RoomInv`: every open transaction
  has an entry in the list of observers to itself, empty or with a refresh interval
  that outlasts the waits the transaction has left (the assumption that the longest
  wait is shorter than `Refresh`), so there are no more of them than entries, and there
  is a block more than entries. It needs `RetryPending`, as a second only passes with
  an empty queue. The doubled waits are a function of the number of retransmissions
  (`Growth`) instead of a power of two, of which the provers know nothing.
- `ClockProofs`: `CalendarThereAndBack`, `DateSurvivesChip`, `EveningIsLost`,
  `ClockTypes`, `AgreementKept`, `RestartSurvived`, `BootTime`. The first three are
  facts about every date. That every time lies in a year is an induction, which is
  replaced by doubling: if it is true of `n` years running it is true of `2n`
  (`TwiceTheYears`), eight times over. The invariant: the hours registers only hold
  forms of the hours 0 to 23, every field keeps its width whatever the pulse put in the
  calendar, and a pulse spins only while the main loop owns the bus (`Types`, `Loops`),
  the days counted off and those left add up to the time at each of the thirteen places
  of the conversion as long as no pulse came (`Undisturbed`), the chip holds the time kept
  (`Agreed`), and a time found at boot is from before eight in the evening, also if
  the year did not arrive (`Boot`).

Only model-checked: all liveness (`SingleShotExpires`, `EtimerPosted`, `SpinEnds`,
`SettingEnds`, `CardFound`, `TimersFire`), which is out of the prover's reach.
Every safety property of a passing run is stated by a theorem.

## 6. Not modelled

- Torn reads of 32-bit variables (`system_global_time`, `ticks`), two-byte stores of
  long periods and of the year of a date: values are read and written in one step. So is
  the conversion of a date to the registers of the chip.
- The seconds of single samples: a packet is a label and a set of filled places.
- `TCP_POLL` and `UDP_POLL` events of `tcpip.c`: only `tcp_connect`, `dhcpc.c`,
  `resolv.c` and `uaodv.c` post them, which the program does not use.
- Sector arithmetic and the pointer mode of the store, which the program does not
  use; the identification sequence of a card (one step that may fail).
- A received byte on a port that is initialised but not started keeps its interrupt
  pending (`hal_usart.c:193`): the interrupt is a stuttering step of the model.
- The NMEA parser: all of its state is character buffers filled from the line.
- SLIP (`slip.c`) and the separate responses of CoAP, which the program does not use;
  the client side of CoAP.
- `process_exit` and broadcasts: after the start nothing calls them.
- Message formats, formatting of answers, logging, LEDs, the sampling of power, the
  test programs in `main.c`, the bit-level reading of the converter.
- The registry of hardware objects: it is filled before interrupts are on.
- uIP, sicslowpan, Rime, RPL, the MAC layers and FatFS: code of other projects that is
  carried in the repository, most of it not built or not started. It is the greater
  part of the lines, and modelling it would say nothing about this node's own logic.

## 7. What could follow

- Four-byte reads of the seconds, as a lemma about the largest error.
- The year of `temp_calendar` in two bytes, and the conversion to registers one register
  at a time.
- The second each sample was taken in, as history of `Acquisition`, with the lost tick of
  990 ms.
- The allocation of a request's transaction apart from its release, to say when the block
  a bad datagram clears may be another's.
- The pointer mode of the store, should the program come to use it.
