----------------------------- MODULE Acquisition -----------------------------
(***************************************************************************)
(* The acquisition of seismic data, on top of the time base: a timeout     *)
(* channel calls ads1254_isr_routine every tick, which fills a packet with *)
(* one sample and stores it on the SD card once a second (main.c); the     *)
(* main loop reads packets back for CoAP clients (seismo_handler).  Both   *)
(* go through the hash-indexed store (Libs/cyclic_buffer_sd_mmc.c) and the *)
(* card driver with its in-use flag (HAL/hal_sd_mmc.c, sd_mmc.c).          *)
(*                                                                         *)
(* Channel 0 of the time base is the acquisition: its callback runs at Low *)
(* from the local tick or at High from the catch-up loop of the RTC pulse. *)
(* Of a packet the model keeps the label and which places hold a sample;   *)
(* a place that was never sampled holds the 0x800000 it is filled with.    *)
(***************************************************************************)
EXTENDS Timebase

CONSTANTS
  HeaderAt, \* ticks of the second at which the header is written (100, 900 ms)
  Slots,    \* slots of the card: (SD_MAX_OFFSET - SD_START_OFFSET) / 2
  Wanted,   \* the seconds clients ask for
  Faults,   \* whether a transfer of the card may fail, a subset of {TRUE}
  Late,     \* bound: by how many ticks the local clock lags at an RTC pulse
  Blank     \* what a slot of the card holds before it is first written

ASSUME AcquisitionAssumption ==
  /\ 0 \in Channel /\ 0 \in WithCallback /\ 1 \in Period
  /\ HeaderAt \subseteq 1 .. N - 2
  /\ Wanted \subseteq 0 .. SecWidth - 1
  /\ Slots \in Nat \ {0} /\ Faults \subseteq {TRUE} /\ Late \in 0 .. N

VARIABLES
  packet,  \* packet_seism_power_t: its block_cnt and its samples
  ptr,     \* the sample ads1254_result points to
  cnt,     \* count: samples since the packet was stored
  written, \* packet_written
  ads,     \* where each level is in ads1254_isr_routine
  sdUsed,  \* sd_mmc_used
  card,    \* the packets on the card
  reader   \* the main loop: its place in seismo_handler, the packet asked
           \* for, what it read and the time it compared with

acqVars == <<packet, ptr, cnt, written>>
sdVars  == <<sdUsed, card>>
allVars == <<vars, acqVars, ads, sdVars, reader>>

Sample == 0 .. N - 1          \* positions of a packet (SAMPLES_PER_PACKET = N)
Packet == [label : 0 .. SecWidth - 1, samples : SUBSET Sample]

AdsPc == {"enter", "retry", "retake", "rewrite", "header", "sample", "test",
          "store", "take", "write"}
ReaderPc == {"boot", "idle", "read", "take", "transfer", "compare", "time",
             "found", "empty", "missing"}
Reader == [pc : ReaderPc, asked : 0 .. SecWidth - 1,
           data : Packet \cup {Blank}, now : 0 .. SecWidth - 1]

-----------------------------------------------------------------------------
(***************************************************************************)
(* The hash-indexed store.                                                 *)
(***************************************************************************)

\* The slot of a packet, from write_hashed_sd_buffer and read_hashed_sd_buffer
SlotOf(label) == label % Slots

NeverBusy == FALSE            \* mutant: the flag is not looked at

\* hal_sd_mmc_busy
Busy == sdUsed

-----------------------------------------------------------------------------
(***************************************************************************)
(* ads1254_isr_routine, called by the tick handler at level l.             *)
(***************************************************************************)
Millis == msec % N                                 \* msec_time()

AdsAt(l, at) == At(l, "callback") /\ ads[l] = at
AdsGoto(l, at) == ads' = [ads EXCEPT ![l] = at]

\* A packet that could not be stored at the end of its second is stored now,
\* or discarded: what is already sampled is not counted any more.
AdsEnter(l) ==
  /\ AdsAt(l, "enter")
  /\ IF written
     THEN AdsGoto(l, "header") /\ UNCHANGED acqVars
     ELSE /\ AdsGoto(l, "retry")
          /\ ptr' = 0 /\ cnt' = 0
          /\ UNCHANGED <<packet, written>>
  /\ UNCHANGED <<vars, sdVars, reader>>

\* hal_sd_mmc_write_data: refused while the card is in use, else the card is
\* taken for the transfer, in a later step (sd_mmc_init_write_blocks).
BeginWrite(l, from, take, refused) ==
  /\ AdsAt(l, from)
  /\ AdsGoto(l, IF Busy THEN refused ELSE take)

TakeCard(l, take, transfer) ==
  /\ AdsAt(l, take)
  /\ sdUsed' = TRUE
  /\ AdsGoto(l, transfer)

\* The transfer is over and the card free again; ok tells whether it worked.
EndWrite(l, transfer, next, ok) ==
  /\ AdsAt(l, transfer)
  /\ ok \/ TRUE \in Faults
  /\ sdUsed' = FALSE
  /\ card' = IF ok THEN [card EXCEPT ![SlotOf(packet.label)] = packet] ELSE card
  /\ AdsGoto(l, next)

\* The retry: the packet counts as written whatever comes of it.
AdsRetry(l) ==
  /\ BeginWrite(l, "retry", "retake", "header")
  /\ written' = (written \/ Busy)
  /\ UNCHANGED <<vars, packet, ptr, cnt, sdVars, reader>>

AdsRewrite(l) ==
  /\ \E ok \in BOOLEAN : EndWrite(l, "rewrite", "header", ok)
  /\ written' = TRUE
  /\ UNCHANGED <<vars, packet, ptr, cnt, reader>>

FirstTick == Millis = 0       \* mutant: the header at the start of the second

HeaderDue == Millis \in HeaderAt

\* Twice a second the header is brought up to the current time.
AdsHeader(l) ==
  /\ AdsAt(l, "header")
  /\ packet' = IF HeaderDue THEN [packet EXCEPT !.label = secs] ELSE packet
  /\ AdsGoto(l, "sample")
  /\ UNCHANGED <<vars, ptr, cnt, written, sdVars, reader>>

\* A full packet starts over; the sample is read into its place.
AdsSample(l) ==
  LET at == IF cnt = N THEN 0 ELSE ptr
  IN /\ AdsAt(l, "sample")
     /\ packet' = [packet EXCEPT !.samples = @ \cup {at}]
     /\ ptr' = at + 1
     /\ cnt' = cnt + 1
     /\ AdsGoto(l, "test")
     /\ UNCHANGED <<vars, written, sdVars, reader>>

LastTick == Millis = N - 1    \* mutant: a full packet is not a reason

\* At the last tick of the second, or when the packet is full, it is stored;
\* otherwise the routine returns.
PacketDue == Millis = N - 1 \/ cnt = N

AdsTest(l) ==
  /\ AdsAt(l, "test")
  /\ IF PacketDue
     THEN /\ AdsGoto(l, "store") /\ ptr' = 0
          /\ UNCHANGED vars
     ELSE /\ AdsGoto(l, "enter") /\ UNCHANGED ptr
          /\ CallbackReturns(l)
  /\ UNCHANGED <<packet, cnt, written, sdVars, reader>>

\* Refused by a card in use, the packet waits for the next tick.
AdsStore(l) ==
  /\ BeginWrite(l, "store", "take", "enter")
  /\ IF Busy
     THEN written' = FALSE /\ CallbackReturns(l)
     ELSE UNCHANGED <<written, vars>>
  /\ UNCHANGED <<packet, ptr, cnt, sdVars, reader>>

AdsTake(l) ==
  /\ TakeCard(l, "retake", "rewrite") \/ TakeCard(l, "take", "write")
  /\ UNCHANGED <<vars, acqVars, card, reader>>

AdsWrite(l) ==
  /\ \E ok \in BOOLEAN :
        /\ EndWrite(l, "write", "enter", ok)
        /\ written' = ok
        /\ cnt' = IF ok THEN 0 ELSE cnt
  /\ CallbackReturns(l)
  /\ UNCHANGED <<packet, ptr, reader>>

Ads(l) ==
  \/ AdsEnter(l) \/ AdsRetry(l) \/ AdsRewrite(l) \/ AdsHeader(l)
  \/ AdsSample(l) \/ AdsTest(l) \/ AdsStore(l) \/ AdsTake(l) \/ AdsWrite(l)

-----------------------------------------------------------------------------
(***************************************************************************)
(* The main loop: boot, then requests for packets.                         *)
(***************************************************************************)
Answered == {"idle", "found", "empty", "missing"}  \* between requests

Handler(from, to) ==
  /\ AllIdle
  /\ reader.pc = from
  /\ reader' = [reader EXCEPT !.pc = to]

\* ads1254_save_to_sdmmc_driver_init waits for the start of a second and
\* starts the channel, periodic with one tick, within that tick.
StartAds ==
  /\ Handler("boot", "idle")
  /\ Millis = 0
  /\ StartChannel(0, 1, 1)
  /\ UNCHANGED <<acqVars, ads, sdVars>>

\* A client asks for the packet of a second.
Ask(second) ==
  /\ AllIdle
  /\ reader.pc \in Answered
  /\ reader' = [pc |-> "read", asked |-> second, data |-> Blank, now |-> 0]
  /\ UNCHANGED <<vars, acqVars, ads, sdVars>>

\* hal_sd_mmc_read_data: no answer while the card is in use.
BeginRead ==
  /\ Handler("read", IF Busy THEN "idle" ELSE "take")
  /\ UNCHANGED <<vars, acqVars, ads, sdVars>>

TakeForRead ==
  /\ Handler("take", "transfer")
  /\ sdUsed' = TRUE
  /\ UNCHANGED <<vars, acqVars, ads, card>>

\* The transfer is over; when it failed there is no answer.
EndRead ==
  /\ AllIdle /\ reader.pc = "transfer"
  /\ sdUsed' = FALSE
  /\ \/ reader' = [reader EXCEPT !.pc = "compare",
                                 !.data = card[SlotOf(reader.asked)]]
     \/ TRUE \in Faults /\ reader' = [reader EXCEPT !.pc = "idle"]
  /\ UNCHANGED <<vars, acqVars, ads, card>>

\* The label of what was read decides: it is the answer ...
Compare ==
  /\ Handler("compare", IF reader.data # Blank /\ reader.data.label = reader.asked
                      THEN "found" ELSE "time")
  /\ UNCHANGED <<vars, acqVars, ads, sdVars>>

\* ... or the packet is replaced by an empty one when the second is past and
\* recent enough to be on the card; otherwise the answer is "not found".
CompareTime ==
  /\ AllIdle /\ reader.pc = "time"
  /\ reader' = [reader EXCEPT
                  !.now = secs,
                  !.pc = IF reader.asked < secs /\ secs - reader.asked < Slots
                         THEN "empty" ELSE "missing"]
  /\ UNCHANGED <<vars, acqVars, ads, sdVars>>

Requests ==
  \/ StartAds
  \/ \E second \in Wanted : Ask(second)
  \/ BeginRead \/ TakeForRead \/ EndRead \/ Compare \/ CompareTime

-----------------------------------------------------------------------------
AcqInit ==
  /\ Init
  /\ packet = [label |-> 0, samples |-> {}]
  /\ ptr = 0 /\ cnt = 0 /\ written = TRUE
  /\ ads = [l \in Level |-> "enter"]
  /\ sdUsed = FALSE /\ card = [s \in 0 .. Slots - 1 |-> Blank]
  /\ reader = [pc |-> "boot", asked |-> 0, data |-> Blank, now |-> 0]

\* What the time base does besides the callback and the main loop's own calls;
\* the channel is periodic and has a callback, so no mask is ever changed.
TimeStep(l) ==
  \/ TickRefused(l) \/ TickCounted(l) \/ ScanChannel(l) \/ StoreCount(l)
  \/ Reload(l) \/ ScanDone(l) \/ ResetLoop(l) \/ ResetDone(l)

\* The two clocks run at nearly the same rate: the pulse comes when the
\* previous one has been worked off and the local clock lags by at most Late.
Clocks ==
  \/ TimerInterrupt \/ PulseInterrupt \/ TimerOverflows
  \/ RtcPulses /\ InIdle(High) /\ msec >= N - Late

Time ==
  /\ \/ \E l \in Level : TimeStep(l)
     \/ Clocks
     \/ reader.pc \in Answered \cup {"boot"} /\ MainRound
  /\ UNCHANGED <<acqVars, ads, sdVars, reader>>

AcqNext == Time \/ (\E l \in Level : Ads(l)) \/ Requests

AcqSpec == AcqInit /\ [][AcqNext]_allVars

-----------------------------------------------------------------------------
(***************************************************************************)
(* Properties.                                                             *)
(***************************************************************************)

\* Every variable has its type.
AcqTypeOK ==
  /\ TypeOK
  /\ packet \in Packet /\ ptr \in 0 .. N /\ cnt \in 0 .. N
  /\ {written, sdUsed} \subseteq BOOLEAN
  /\ ads \in [Level -> AdsPc]
  /\ card \in [0 .. Slots - 1 -> Packet \cup {Blank}]
  /\ reader \in Reader

Writing(l) == ads[l] \in {"rewrite", "write"}

\* The card carries one transfer at a time, and is marked in use while it
\* does: testing the flag and setting it are two steps, and what preempts
\* between them is done with the card before the second (hal_sd_mmc.c:134 and
\* sd_mmc.c:1967, against hal_sd_mmc.c:158 and sd_mmc.c:1867).
SdExclusive ==
  /\ \A l, h \in Level : Writing(l) /\ Writing(h) => l = h
  /\ \A l \in Level : Writing(l) => reader.pc # "transfer"
  /\ (\E l \in Level : Writing(l)) \/ reader.pc = "transfer" => sdUsed

\* A sample is read into the packet, never past its end, whatever path of
\* failed stores and overruns led there (main.c:1163-1168).
PtrInBuffer ==
  \A l \in Level : AdsAt(l, "sample") /\ cnt # N => ptr \in Sample

\* The packet is left alone while it is being written to the card, and from a
\* failed store until its retry is over: no nested tick samples into it or
\* changes its header, and the retry stores what the store would have stored
\* (main.c:1121-1142).
PacketHeld ==
  [][ ~written \/ (\E l \in Level : Writing(l))
        => UNCHANGED packet /\ cnt' # cnt + 1 ]_allVars

\* A packet reaches the card with the label of the second that is running, or
\* of the one that has just ended (the header is written at main.c:1144-1159,
\* the store may be retried in the next second).
LabelCurrent ==
  [][ \A s \in DOMAIN card :
        card'[s] # card[s] => (secs - card'[s].label) % SecWidth \in {0, 1} ]_allVars

\* "packet within sd card zone, but not found" (er-example-server.c:1120): an
\* empty packet is answered only for a packet that is not on the card.
EmptyOnlyIfMissing ==
  reader.pc = "empty" =>
    card[SlotOf(reader.asked)] = Blank \/ card[SlotOf(reader.asked)].label # reader.asked
=============================================================================
