-------------------------------- MODULE Card --------------------------------
(***************************************************************************)
(* A transfer of two blocks between the program and the SD card: the busy  *)
(* flag and the state machine of the slot (HAL/hal_sd_mmc.c, sd_mmc.c),    *)
(* the SPI commands and data tokens below (sd_mmc_spi.c), a card that is   *)
(* pulled, put back or does not answer, and a watchdog that restarts the   *)
(* program at any point.  The main loop reads packets for CoAP clients;    *)
(* the acquisition stores them from an interrupt that preempts it.         *)
(*                                                                         *)
(* Which packet goes to which slot is in Acquisition; the nesting of the   *)
(* interrupts too.  Here a transfer is taken apart down to the answers of  *)
(* the card.  Left out: the clock and chip select of the bus, and what the *)
(* initialisation learns of the card (capacity, speed, version).           *)
(***************************************************************************)
EXTENDS Integers, Sequences

CONSTANTS
  Slot,         \* places for a packet on the card
  Packet,       \* packets
  Blank,        \* what a block holds before it is written
  AccessSize,   \* SD_ACCESS_SIZE: blocks of a transfer
  MaxChanges,   \* bound: times the card is pulled or put back
  MaxRestarts   \* bound: watchdog restarts

ASSUME CardAssumption ==
  /\ Slot # {} /\ AccessSize \in Nat \ {0} /\ Blank \notin Packet
  /\ MaxChanges \in Nat /\ MaxRestarts \in Nat

Ctx == {"main", "isr"}
Block == 1 .. AccessSize

VARIABLES
  inserted,  \* level of the card-detect pin
  awake,     \* the card was initialised since it has power
  blocks,    \* what its blocks hold, of each slot
  buffer,    \* the block it accepted and is programming, if any
  state,     \* sd_mmc_cards[0].state
  used,      \* sd_mmc_used[0]
  remaining, \* sd_mmc_nb_block_remaining
  pos,       \* sd_mmc_spi_transfert_pos / sd_mmc_spi_block_size
  boot,      \* hal_sd_mmc_init: where it is, "started" once the program runs
  op,        \* the transfer of each context
  broken,    \* history: slots whose last store failed or was cut off
  torn,      \* history: slots of which a block was being programmed when the
             \* card was pulled
  changes, restarts

vars == <<inserted, awake, blocks, buffer, state, used, remaining, pos, boot, op,
          broken, torn, changes, restarts>>

card   == <<inserted, awake, changes>>
driver == <<state, used, remaining, pos>>
disk   == <<blocks, buffer, broken, torn>>

OpPc == {"idle", "test", "take", "status", "command", "block",
         "busy", "wait"}
Op == [pc : OpPc, write : BOOLEAN, slot : Slot, packet : Packet \cup {Blank},
       got : Seq(Packet \cup {Blank}), result : {"none", "ok", "failed", "refused"}]
Boot == {"check", "replug", "type", "size", "sectors", "kind", "started"}

NoOp == [pc |-> "idle", write |-> FALSE, slot |-> CHOOSE s \in Slot : TRUE,
         packet |-> Blank, got |-> <<>>, result |-> "none"]

Running(c) == boot = "started" /\ (c = "main" => op["isr"].pc = "idle")
At(c, pc)  == Running(c) /\ op[c].pc = pc
Goto(c, pc) == op' = [op EXCEPT ![c].pc = pc]

\* The call returns: what it returns, and the card free for the next call.
Ends(c, result) ==
  op' = [op EXCEPT ![c].pc = "idle", ![c].result = result]

StillUsed == used     \* mutant

Released == FALSE

Fails(c) == Ends(c, "failed") /\ used' = Released

Init ==
  /\ inserted \in BOOLEAN /\ awake = FALSE
  /\ blocks = [s \in Slot |-> [b \in Block |-> Blank]] /\ buffer = {}
  /\ state = "no_card" /\ used = FALSE /\ remaining = 0 /\ pos = 0
  /\ boot = "check" /\ op = [c \in Ctx |-> NoOp]
  /\ broken = {} /\ torn = {} /\ changes = 0 /\ restarts = 0

-----------------------------------------------------------------------------
(***************************************************************************)
(* The card itself.                                                        *)
(***************************************************************************)

Programmed(x) == [blocks EXCEPT ![x.slot][x.block] = x.packet]

\* The card has programmed the block it had accepted.
Programs ==
  /\ \E x \in buffer : blocks' = Programmed(x)
  /\ buffer' = {}
  /\ UNCHANGED <<card, driver, broken, torn, boot, op, restarts>>

\* Pulled or put back, at any time; without power it forgets that it was
\* initialised, not what it holds.  The block it was programming may be there
\* or not.
Changes ==
  /\ changes < MaxChanges
  /\ inserted' = ~inserted /\ awake' = FALSE
  /\ changes' = changes + 1
  /\ blocks' \in {blocks} \cup {Programmed(x) : x \in buffer}
  /\ buffer' = {}
  /\ torn' = torn \cup {x.slot : x \in buffer}
  /\ UNCHANGED <<driver, broken, boot, op, restarts>>

\* What the card may answer to a command or a block: it may always fail, and
\* takes nothing while it is programming.  (The driver may read the zeros of a
\* busy line as the answer to a command; then the first block fails.)
Answers == IF inserted /\ awake /\ buffer = {} THEN BOOLEAN ELSE {FALSE}

\* The watchdog fires: the program starts over with its memory cleared; the
\* card stays as it is, and with it a packet that was half stored.
Restart ==
  /\ restarts < MaxRestarts
  /\ restarts' = restarts + 1
  /\ state' = "no_card" /\ used' = FALSE /\ remaining' = 0 /\ pos' = 0
  /\ boot' = "check" /\ op' = [c \in Ctx |-> NoOp]
  /\ broken' = broken \cup {op[c].slot : c \in
                  {d \in Ctx : op[d].write /\ op[d].pc \in {"block", "busy", "wait"}}}
  /\ UNCHANGED <<card, blocks, buffer, torn>>

-----------------------------------------------------------------------------
(***************************************************************************)
(* sd_mmc_select_slot: the card-detect pin first, then the state; and what *)
(* it returns.  The debounce delay is waited for in the call.              *)
(***************************************************************************)
StillAbsent == "no_card"      \* mutant: a card that is seen is not noted

Seen == "debounce"

Selected ==
  CASE ~inserted           -> "no_card"
    [] state = "no_card"   -> Seen
    [] state = "debounce"  -> "init"
    [] OTHER               -> state

Returned ==
  CASE ~inserted \/ state = "no_card" -> "ERR_NO_CARD"
    [] state = "unusable"             -> "ERR_UNUSABLE"
    [] state = "ready"                -> "OK"
    [] OTHER                          -> "INIT_ONGOING"

-----------------------------------------------------------------------------
(***************************************************************************)
(* hal_sd_mmc_init.                                                        *)
(***************************************************************************)

\* sd_mmc_check: a card that has been seen for the debounce time is
\* initialised; it may fail to be, and only an inserted one can succeed.
Check(err) ==
  \/ /\ Returned # "INIT_ONGOING" /\ err = Returned
     /\ state' = Selected /\ UNCHANGED awake
  \/ /\ Returned = "INIT_ONGOING"
     /\ \/ err = "INIT_ONGOING" /\ state' = "ready" /\ awake' = TRUE
        \/ err = "ERR_UNUSABLE" /\ state' = "unusable" /\ UNCHANGED awake

\* Until the card is ready; one that failed has to be pulled first.
BootCheck ==
  /\ boot \in {"check", "replug"}
  /\ \E err \in {"OK", "ERR_NO_CARD", "INIT_ONGOING", "ERR_UNUSABLE"} :
       /\ Check(err)
       /\ boot' = CASE boot = "replug" ->
                         IF err = "ERR_NO_CARD" THEN "check" ELSE "replug"
                    [] err = "ERR_UNUSABLE" -> "replug"
                    [] err = "OK"           -> "type"
                    [] OTHER                -> "check"
  /\ UNCHANGED <<inserted, changes, used, remaining, pos, disk, op, restarts>>

\* The type is asked, the size when the type is known, the size and the type
\* again: each selects the slot, and answers nothing when the card has gone.
\* The start of the device follows whatever they answered.
BootInfo ==
  /\ boot \in {"type", "size", "sectors", "kind"}
  /\ state' = Selected
  /\ boot' = CASE boot = "type" -> IF Returned = "OK" THEN "size" ELSE "sectors"
               [] boot = "size"    -> "sectors"
               [] boot = "sectors" -> "kind"
               [] boot = "kind"    -> "started"
  /\ UNCHANGED <<card, used, remaining, pos, disk, op, restarts>>

-----------------------------------------------------------------------------
(***************************************************************************)
(* hal_sd_mmc_write_data and hal_sd_mmc_read_data, in context c.           *)
(***************************************************************************)
Store(slot, packet) ==
  /\ At("isr", "idle")
  /\ op' = [op EXCEPT !["isr"] =
              [NoOp EXCEPT !.pc = "test", !.write = TRUE, !.slot = slot,
                           !.packet = packet]]
  /\ UNCHANGED <<card, driver, disk, boot, restarts>>

Fetch(slot) ==
  /\ At("main", "idle")
  /\ op' = [op EXCEPT !["main"] = [NoOp EXCEPT !.pc = "test", !.slot = slot]]
  /\ UNCHANGED <<card, driver, disk, boot, restarts>>

NotLooked == FALSE            \* mutant

Busy == used

\* The call is refused while the card is busy.
Test(c) ==
  /\ At(c, "test")
  /\ IF Busy THEN Ends(c, "refused") ELSE Goto(c, "take")
  /\ UNCHANGED <<card, driver, disk, boot, restarts>>

\* sd_mmc_init_write_blocks and sd_mmc_init_read_blocks: the card is taken
\* and selected; a card that has to be initialised is not, so the call fails.
Take(c) ==
  /\ At(c, "take")
  /\ state' = Selected
  /\ IF Returned = "OK"
     THEN used' = TRUE /\ Goto(c, IF op[c].write THEN "command" ELSE "status")
     ELSE Fails(c)
  /\ UNCHANGED <<card, remaining, pos, disk, boot, restarts>>

\* Before a read the card is asked whether it is ready for data.
Status(c) ==
  /\ At(c, "status")
  /\ \E answer \in Answers :
       IF answer THEN Goto(c, "command") /\ UNCHANGED used ELSE Fails(c)
  /\ UNCHANGED <<card, state, remaining, pos, disk, boot, restarts>>

\* The command that starts the transfer of the blocks. A command that is
\* refused leaves the position where it was.  (A store starts afresh with its
\* slot.)
Command(c) ==
  /\ At(c, "command")
  /\ \E answer \in Answers :
       IF answer
       THEN /\ Goto(c, "block")
            /\ remaining' = AccessSize /\ pos' = 0
            /\ torn' = IF op[c].write THEN torn \ {op[c].slot} ELSE torn
            /\ UNCHANGED used
       ELSE Fails(c) /\ UNCHANGED <<remaining, pos, torn>>
  /\ UNCHANGED <<card, state, blocks, buffer, broken, boot, restarts>>

NothingLeft == remaining      \* mutant: a failed start leaves its blocks

AfterFailure == 0

NeverBusy == TRUE             \* mutant: what was accepted is taken as stored

\* The line is free: the card is not programming, or no longer there.
LineFree == buffer = {}

\* A block of a store: the data, and the answer of the card to it. On an error
\* the rest is not sent. The driver asserts that a block is left to transfer.
WriteBlock(c) ==
  /\ At(c, "block") /\ op[c].write /\ pos < AccessSize
  /\ pos' = pos + 1
  /\ \E accepted \in Answers :
       IF accepted
       THEN /\ buffer' = {[slot |-> op[c].slot, block |-> pos', packet |-> op[c].packet]}
            /\ UNCHANGED <<used, broken>>
            /\ IF pos' < AccessSize
               THEN Goto(c, "busy") /\ UNCHANGED remaining
               ELSE Goto(c, "wait") /\ remaining' = remaining - AccessSize
       ELSE /\ Fails(c) /\ remaining' = AfterFailure
            /\ broken' = broken \cup {op[c].slot}
            /\ UNCHANGED buffer
  /\ UNCHANGED <<card, state, blocks, torn, boot, restarts>>

\* The next block is sent when the line is free, or never.
BusyWait(c) ==
  /\ At(c, "busy")
  /\ \/ /\ LineFree /\ Goto(c, "block")
        /\ UNCHANGED <<used, remaining, broken>>
     \/ /\ Fails(c) /\ remaining' = AfterFailure
        /\ broken' = broken \cup {op[c].slot}
  /\ UNCHANGED <<card, state, pos, blocks, buffer, torn, boot, restarts>>

\* A block of a read: its start token, or an error, then the data.
ReadBlock(c) ==
  /\ At(c, "block") /\ ~op[c].write /\ pos < AccessSize
  /\ \E token \in Answers :
       IF token
       THEN /\ pos' = pos + 1
            /\ op' = [op EXCEPT
                        ![c].got = Append(@, blocks[op[c].slot][pos']),
                        ![c].pc = IF pos' < AccessSize THEN "block" ELSE "wait"]
            /\ remaining' = IF pos' < AccessSize THEN remaining
                            ELSE remaining - AccessSize
            /\ UNCHANGED used
       ELSE Fails(c) /\ remaining' = AfterFailure /\ UNCHANGED pos
  /\ UNCHANGED <<card, state, disk, boot, restarts>>

\* The end of the transfer: of a store, the busy signal, the stop token and the
\* busy signal again, each with a timeout; of a read nothing, the errors of its
\* stop command are ignored.
Wait(c) ==
  /\ At(c, "wait")
  /\ \/ /\ op[c].write => LineFree
        /\ Ends(c, "ok") /\ used' = Released
        /\ broken' = IF op[c].write THEN broken \ {op[c].slot} ELSE broken
     \/ /\ op[c].write
        /\ Fails(c)
        /\ broken' = broken \cup {op[c].slot}
  /\ UNCHANGED <<card, state, remaining, pos, blocks, buffer, torn, boot, restarts>>

Transfer(c) ==
  \/ Test(c) \/ Take(c) \/ Status(c) \/ Command(c)
  \/ WriteBlock(c) \/ BusyWait(c) \/ ReadBlock(c) \/ Wait(c)

Calls ==
  \/ \E s \in Slot, p \in Packet : Store(s, p)
  \/ \E s \in Slot : Fetch(s)

Booting == BootCheck \/ BootInfo

Next ==
  Booting \/ (\E c \in Ctx : Transfer(c)) \/ Calls \/ Programs \/ Changes \/ Restart

Spec == Init /\ [][Next]_vars

\* The processor runs: a loop of the boot goes on, and so does a transfer.
FairSpec == Spec /\ WF_vars(Booting) /\ WF_vars(\E c \in Ctx : Transfer(c))

-----------------------------------------------------------------------------
(***************************************************************************)
(* Properties.                                                             *)
(***************************************************************************)

\* What the driver, the blocks of the card and a transfer hold has its type.
CardTypeOK ==
  /\ op \in [Ctx -> Op]
  /\ used \in BOOLEAN /\ boot \in Boot
  /\ remaining \in 0 .. AccessSize /\ pos \in 0 .. AccessSize
  /\ blocks \in [Slot -> [Block -> Packet \cup {Blank}]]
  /\ buffer \subseteq [slot : Slot, block : Block, packet : Packet \cup {Blank}]
  /\ broken \subseteq Slot /\ torn \subseteq Slot

Holds(c) == op[c].pc \in {"status", "command", "block", "busy", "wait"}

\* The assertions of the driver hold however the transfers before ended: no
\* block of an older transfer is left over when a slot is selected
\* (sd_mmc.c:1337), and none is transferred past those that were asked for
\* (sd_mmc.c:1921 and 2017, sd_mmc_spi.c:554 and 582).
DriverAsserts ==
  \A c \in Ctx :
    /\ At(c, "take") => remaining = 0
    /\ At(c, "block") => remaining = AccessSize /\ pos < AccessSize

\* The card is marked in use exactly while a transfer holds it: no path out
\* of a failed transfer leaves it in use, after which every store and every
\* read would be refused until the next restart (sd_mmc.c:1860-2057).
InUseWhileHeld == used <=> \E c \in Ctx : Holds(c)

\* A packet is on the card in one piece, or its last store was reported as
\* failed, or cut off by a restart: a store that is reported as done is done in
\* all its blocks, if the card stayed in its slot (sd_mmc_spi.c:575-617 up to
\* hal_sd_mmc.c:132-153).  A card that is pulled while it programs the last block
\* leaves the line as one that has finished does: the store is reported as done
\* although that block, and only that one, may be missing.
WholeUnlessFailed ==
  \A s \in Slot \ broken :
    \/ \A b \in Block :
         blocks[s][b] # blocks[s][1] => s \in torn /\ b = AccessSize
    \/ \E c \in Ctx : Holds(c) /\ op[c].write /\ op[c].slot = s

\* A read that succeeds returns what its slot holds, all its blocks of the
\* same moment: no store comes between two blocks (hal_sd_mmc.c:156-177).
ReadInOnePiece ==
  [][ op["main"].result = "none" /\ op'["main"].result = "ok"
        => op["main"].got = blocks[op["main"].slot] ]_vars

\* A card that stays in its slot is found and initialised, or is known not to
\* be usable: the boot does not wait for it for ever (hal_sd_mmc.c:75-87).
CardFound == <>[]inserted => <>(boot = "started" \/ state = "unusable")
=============================================================================
