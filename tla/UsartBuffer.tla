----------------------------- MODULE UsartBuffer -----------------------------
(***************************************************************************)
(* One serial port: the two ring buffers of the interrupt-driven driver    *)
(* (drivers/usart/usart.c) and the operations and interrupt routines of    *)
(* the HAL object around them (HAL/hal_usart.c).                           *)
(*                                                                         *)
(* The code that sends, receives, starts and stops runs in the main loop;  *)
(* the receive-complete and data-register-empty interrupts of the port are *)
(* both at medium level, so each runs to its end and either may come       *)
(* between any two steps of the main loop.  A step of the main loop is one *)
(* access to a volatile variable or to the control register CTRLA: what    *)
(* was read is kept in a register.  Head and tail fit one byte, so reading *)
(* or writing one is a single access.                                      *)
(***************************************************************************)
EXTENDS Naturals, Sequences

CONSTANTS
  Size,    \* USART_TX_BUFFER_SIZE = USART_RX_BUFFER_SIZE
  TxByte,  \* bytes the program sends
  RxByte,  \* bytes the line delivers
  Zero,    \* what the buffers hold after reset
  None     \* no byte has arrived since the last one was read

ASSUME UsartAssumption ==
  /\ Size \in {2, 4, 8, 16, 32, 64, 128, 256}
  /\ None \notin RxByte

VARIABLES
  started,  \* hw_dev->started
  ctrl,     \* CTRLA: which of the two interrupts are enabled
  txBuf, txHead, txTail,  \* buffer.TX, TX_Head, TX_Tail
  rxBuf, rxHead, rxTail,  \* buffer.RX, RX_Head, RX_Tail
  txData,   \* the byte written to the data register last
  txEmpty,  \* the data register can take a byte (DREIF)
  rxData,   \* the byte that waits in the data register (RXCIF), or None
  received, \* the byte hal_usart_receive_byte returned last
  pc,       \* where the main loop is in an operation of the port
  task,     \* for which purpose it changes CTRLA
  byte,     \* the byte it sends or has read from the buffer
  held      \* the value of CTRLA it has read

txVars == <<txBuf, txHead, txTail>>
rxVars == <<rxBuf, rxHead, rxTail>>
mainVars == <<pc, task, byte, held>>
vars == <<started, ctrl, txVars, rxVars, txData, txEmpty, rxData, received,
          mainVars>>

Index == 0 .. Size - 1
Ctrl  == [rx : BOOLEAN, dre : BOOLEAN]
Pc    == {"idle", "wait", "recheck", "check", "store", "advance", "read",
          "write", "get", "consume"}
Task  == {"put", "start_rx", "start_dre", "stop_rx", "stop_dre"}

\* (i + 1) & USART_TX_BUFFER_MASK, the size being a power of two
Inc(i) == (i + 1) % Size

-----------------------------------------------------------------------------
(***************************************************************************)
(* Changing CTRLA: the register is read, one of its fields is replaced,    *)
(* and the whole is written back.                                          *)
(***************************************************************************)
Changed(c, t) ==
  CASE t = "put"       -> [c EXCEPT !.dre = TRUE]
    [] t = "start_rx"  -> [c EXCEPT !.rx = TRUE]
    [] t = "start_dre" -> [c EXCEPT !.dre = TRUE]
    [] t = "stop_rx"   -> [c EXCEPT !.rx = FALSE]
    [] t = "stop_dre"  -> [c EXCEPT !.dre = FALSE]

ReadCtrl ==
  /\ pc = "read"
  /\ held' = ctrl
  /\ pc' = "write"
  /\ UNCHANGED <<started, ctrl, txVars, rxVars, txData, txEmpty, rxData,
                 received, task, byte>>

\* Starting and stopping change the receive interrupt first, then the other.
WriteCtrl ==
  /\ pc = "write"
  /\ ctrl' = Changed(held, task)
  /\ \/ task = "start_rx" /\ task' = "start_dre" /\ pc' = "read"
     \/ task = "stop_rx" /\ task' = "stop_dre" /\ pc' = "read"
     \/ task \notin {"start_rx", "stop_rx"} /\ UNCHANGED task /\ pc' = "idle"
  /\ UNCHANGED <<started, txVars, rxVars, txData, txEmpty, rxData, received,
                 byte, held>>

-----------------------------------------------------------------------------
(***************************************************************************)
(* hal_usart_start and hal_usart_stop.                                     *)
(***************************************************************************)
Start ==
  /\ pc = "idle" /\ ~started
  /\ started' = TRUE
  /\ pc' = "read" /\ task' = "start_rx"
  /\ UNCHANGED <<ctrl, txVars, rxVars, txData, txEmpty, rxData, received, byte,
                 held>>

Stop ==
  /\ pc = "idle"
  /\ started' = FALSE
  /\ pc' = "read" /\ task' = "stop_rx"
  /\ UNCHANGED <<ctrl, txVars, rxVars, txData, txEmpty, rxData, received, byte,
                 held>>

-----------------------------------------------------------------------------
(***************************************************************************)
(* Sending: hal_usart_send_byte waits for free space, looks again, and     *)
(* calls USART_TXBuffer_PutByte, which looks once more.                    *)
(***************************************************************************)

Unmasked == txHead + 1 # txTail          \* mutant: the mask is missing

\* USART_TXBuffer_FreeSpace
FreeSpace == Inc(txHead) # txTail

SendUnchanged == UNCHANGED <<started, ctrl, rxVars, txData, txEmpty, rxData,
                             received, task, held>>

\* A port that is not started refuses the byte and nothing changes.
SendByte(b) ==
  /\ pc = "idle" /\ started
  /\ byte' = b /\ pc' = "wait"
  /\ UNCHANGED txVars /\ SendUnchanged

Wait ==
  /\ pc = "wait" /\ FreeSpace
  /\ pc' = "recheck"
  /\ UNCHANGED <<txVars, byte>> /\ SendUnchanged

\* The second and the third look; without space the byte is dropped.
Recheck ==
  /\ pc \in {"recheck", "check"}
  /\ pc' = IF ~FreeSpace THEN "idle"
           ELSE IF pc = "recheck" THEN "check" ELSE "store"
  /\ UNCHANGED <<txVars, byte>> /\ SendUnchanged

StoreByte ==
  /\ pc = "store"
  /\ txBuf' = [txBuf EXCEPT ![txHead] = byte]
  /\ pc' = "advance"
  /\ UNCHANGED <<txHead, txTail, byte>> /\ SendUnchanged

\* The head moves, then the interrupt is enabled.
AdvanceHead ==
  /\ pc = "advance"
  /\ txHead' = Inc(txHead)
  /\ pc' = "read" /\ task' = "put"
  /\ UNCHANGED <<started, ctrl, txBuf, txTail, rxVars, txData, txEmpty, rxData,
                 received, byte, held>>

-----------------------------------------------------------------------------
(***************************************************************************)
(* Receiving: hal_usart_receive_byte.                                      *)
(***************************************************************************)
ReceiveUnchanged == UNCHANGED <<started, ctrl, txVars, rxBuf, rxHead, txData,
                                txEmpty, rxData, task, held>>

\* USART_RXBufferData_Available, when it answers true
ReceiveByte ==
  /\ pc = "idle" /\ started
  /\ rxHead # rxTail
  /\ pc' = "get"
  /\ UNCHANGED <<rxTail, received, byte>> /\ ReceiveUnchanged

\* USART_RXBuffer_GetByte: the byte is read, then the tail moves.
GetByte ==
  /\ pc = "get"
  /\ byte' = rxBuf[rxTail]
  /\ pc' = "consume"
  /\ UNCHANGED <<rxTail, received>> /\ ReceiveUnchanged

ConsumeByte ==
  /\ pc = "consume"
  /\ rxTail' = Inc(rxTail)
  /\ received' = byte
  /\ pc' = "idle"
  /\ UNCHANGED byte /\ ReceiveUnchanged

-----------------------------------------------------------------------------
(***************************************************************************)
(* The interrupts.  Each is taken while its cause is pending and enabled.  *)
(* While the port is not started both return at once and change nothing.   *)
(***************************************************************************)

OneLeft == Inc(txTail) = txHead          \* mutant: one byte counts as none

\* The transmit buffer is empty.
NothingLeft == txHead = txTail

SameTail == txTail            \* mutant: the byte is sent and stays

\* The tail once the oldest byte is sent.
NextTail == Inc(txTail)

BothOff(c) == [rx |-> FALSE, dre |-> FALSE]  \* mutant: the register is cleared

\* Its interrupt level is set to off, the other fields of CTRLA stay.
DreOff(c) == [c EXCEPT !.dre = FALSE]

\* USART_DataRegEmpty: sends the oldest byte, or turns its interrupt off.
DataRegEmpty ==
  /\ ctrl.dre /\ txEmpty /\ started
  /\ IF NothingLeft
     THEN /\ ctrl' = DreOff(ctrl)
          /\ UNCHANGED <<txData, txEmpty, txTail>>
     ELSE /\ txData' = txBuf[txTail] /\ txEmpty' = FALSE
          /\ txTail' = NextTail
          /\ UNCHANGED ctrl
  /\ UNCHANGED <<started, txBuf, txHead, rxVars, rxData, received, mainVars>>

RxNearlyFull == Inc(Inc(rxHead)) = rxTail  \* mutant: one slot too early
RxUnmasked == rxHead + 1 = rxTail          \* mutant: the mask is missing

\* The receive buffer is full.
RxFull == Inc(rxHead) = rxTail

\* USART_RXComplete: the byte is read from the data register, and dropped
\* when the buffer is full.
RXComplete ==
  /\ ctrl.rx /\ rxData # None /\ started
  /\ rxData' = None
  /\ IF RxFull
     THEN UNCHANGED <<rxBuf, rxHead>>
     ELSE /\ rxBuf' = [rxBuf EXCEPT ![rxHead] = rxData]
          /\ rxHead' = Inc(rxHead)
  /\ UNCHANGED <<started, ctrl, txVars, rxTail, txData, txEmpty, received,
                 mainVars>>

\* The transmitter takes the byte over from the data register.
ShiftOut ==
  /\ ~txEmpty
  /\ txEmpty' = TRUE
  /\ UNCHANGED <<started, ctrl, txVars, rxVars, txData, rxData, received,
                 mainVars>>

\* The line delivers a byte; one that is not fetched in time is lost.
ByteArrives(b) ==
  /\ rxData' = b
  /\ UNCHANGED <<started, ctrl, txVars, rxVars, txData, txEmpty, received,
                 mainVars>>

-----------------------------------------------------------------------------
\* hal_usart_init has run: the receive interrupt is enabled, the port is not
\* started.
Init ==
  /\ started = FALSE
  /\ ctrl = [rx |-> TRUE, dre |-> FALSE]
  /\ txBuf = [i \in Index |-> Zero] /\ txHead = 0 /\ txTail = 0
  /\ rxBuf = [i \in Index |-> Zero] /\ rxHead = 0 /\ rxTail = 0
  /\ txData = Zero /\ txEmpty = TRUE /\ rxData = None /\ received = Zero
  /\ pc = "idle" /\ task = "put" /\ byte = Zero /\ held = ctrl

MainStep ==
  \/ ReadCtrl \/ WriteCtrl
  \/ Wait \/ Recheck \/ StoreByte \/ AdvanceHead
  \/ GetByte \/ ConsumeByte

Next ==
  \/ MainStep
  \/ Start \/ Stop \/ ReceiveByte \/ \E b \in TxByte : SendByte(b)
  \/ DataRegEmpty \/ RXComplete \/ ShiftOut
  \/ \E b \in RxByte : ByteArrives(b)

Spec == Init /\ [][Next]_vars

\* The main loop goes on between interrupts, pending interrupts are taken,
\* and the transmitter empties its register.
FairSpec == Spec /\ WF_vars(MainStep) /\ WF_vars(DataRegEmpty) /\ WF_vars(ShiftOut)

-----------------------------------------------------------------------------
\* Every variable has its type.
TypeOK ==
  /\ {started, txEmpty} \subseteq BOOLEAN
  /\ ctrl \in Ctrl /\ held \in Ctrl
  /\ {txHead, txTail, rxHead, rxTail} \subseteq Index
  /\ txBuf \in [Index -> TxByte \cup {Zero}]
  /\ rxBuf \in [Index -> RxByte \cup {Zero}]
  /\ txData \in TxByte \cup {Zero} /\ received \in RxByte \cup {Zero}
  /\ rxData \in RxByte \cup {None}
  /\ pc \in Pc /\ task \in Task
  /\ byte \in TxByte \cup RxByte \cup {Zero}

\* The bytes between tail and head, oldest first.
Used(head, tail) == IF tail <= head THEN head - tail ELSE head + Size - tail
Slot(tail, k)    == IF tail + k < Size THEN tail + k ELSE tail + k - Size
Contents(buf, head, tail) ==
  [k \in 1 .. Used(head, tail) |-> buf[Slot(tail, k - 1)]]

\* While bytes wait to be sent, the interrupt that sends them is enabled, or
\* the main loop is about to enable it: the interrupt that finds the buffer
\* empty cannot turn itself off under a byte that is just being put
\* (USART_TXBuffer_PutByte against USART_DataRegEmpty).
NoLostWakeup ==
  started /\ txHead # txTail =>
     \/ ctrl.dre
     \/ pc \in {"read", "write"} /\ task \in {"put", "start_rx", "start_dre"}

\* Between operations a started port listens: no read-modify-write of CTRLA,
\* by the main loop or by the interrupt, loses the receive field of another.
StartedListens == started /\ pc = "idle" => ctrl.rx

\* A received byte that was fetched from the data register is only dropped
\* when Size - 1 bytes wait to be read (USART_RXComplete).
LossOnlyWhenFull ==
  [][ rxData # None /\ rxData' = None /\ rxHead' = rxHead
        => Used(rxHead, rxTail) = Size - 1 ]_vars

\* Both buffers are bounded queues to their ends.
Tx == INSTANCE BoundedFifo WITH
  Byte <- TxByte, Capacity <- Size - 1,
  queue <- Contents(txBuf, txHead, txTail), taken <- txData
Rx == INSTANCE BoundedFifo WITH
  Byte <- RxByte, Capacity <- Size - 1,
  queue <- Contents(rxBuf, rxHead, rxTail), taken <- received

\* What is sent is what was put, in that order (the transmit buffer
\* implements the queue).
TxIsFifo == Tx!Spec

\* What is received is what arrived and was kept, in that order (the receive
\* buffer implements the queue).
RxIsFifo == Rx!Spec

\* The busy-wait of hal_usart_send_byte ends: the interrupt frees a slot.
SpinEnds == pc = "wait" ~> pc # "wait"
=============================================================================
