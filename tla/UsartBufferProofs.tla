-------------------------- MODULE UsartBufferProofs --------------------------
(***************************************************************************)
(* Theorems about UsartBuffer, for every ring size the driver allows and   *)
(* every set of bytes: the invariants of the control register and the two  *)
(* buffers, and that each buffer implements BoundedFifo.                   *)
(***************************************************************************)
EXTENDS UsartBuffer, SequenceTheorems, TLAPS

-----------------------------------------------------------------------------
(***************************************************************************)
(* The inductive invariant.                                                *)
(***************************************************************************)
Starting == pc \in {"read", "write"} /\ task \in {"start_rx", "start_dre"}
Stopping == pc \in {"read", "write"} /\ task \in {"stop_rx", "stop_dre"}
Sending  == pc \in {"wait", "recheck", "check", "store", "advance"}

\* Only a stop runs while the port is not started.
TaskMatches == pc # "idle" => (started <=> ~Stopping)

\* CTRLA is written back with the receive field it still has, and that field
\* is set as soon as the start has set it.
ReceiveField ==
  /\ pc = "write" => held.rx = ctrl.rx
  /\ started => ctrl.rx \/ (Starting /\ task = "start_rx")

\* The free slot the sender has seen is still free, and is the one it fills.
SlotReserved ==
  /\ Sending => byte \in TxByte
  /\ pc \in {"recheck", "check", "store", "advance"} => FreeSpace
  /\ pc = "advance" => txBuf[txHead] = byte

\* The byte the receiver has seen is still there, and is the one it returns.
ByteReserved ==
  /\ pc \in {"get", "consume"} => rxHead # rxTail
  /\ pc = "consume" => byte = rxBuf[rxTail]

IInv == TypeOK /\ TaskMatches /\ ReceiveField /\ NoLostWakeup
          /\ SlotReserved /\ ByteReserved

-----------------------------------------------------------------------------
(***************************************************************************)
(* The ring: index arithmetic and what moving head or tail does to the     *)
(* contents.                                                               *)
(***************************************************************************)

\* Advancing an index stays in the ring and wraps at its end.
LEMMA IncStep ==
  ASSUME NEW i \in Index
  PROVE  /\ Inc(i) \in Index
         /\ Inc(i) = IF i = Size - 1 THEN 0 ELSE i + 1
BY UsartAssumption DEF Inc, Index

\* The ring has room for at least one byte.
LEMMA SizeBound == Size \in Nat /\ Size >= 2
BY UsartAssumption

\* The number of bytes used and the slots they are in.
LEMMA UsedBound ==
  ASSUME NEW h \in Index, NEW t \in Index
  PROVE  /\ Used(h, t) \in 0 .. Size - 1
         /\ Used(h, t) = 0 <=> h = t
         /\ Inc(h) # t => Used(h, t) < Size - 1
         /\ Inc(h) # t => Used(Inc(h), t) = Used(h, t) + 1
         /\ h # t => Used(h, Inc(t)) = Used(h, t) - 1
BY SizeBound, IncStep DEF Used, Index

\* The slots of the bytes used are in the ring, and none of them is the slot
\* at the head; the slot after the last one is.
LEMMA SlotUsed ==
  ASSUME NEW h \in Index, NEW t \in Index, NEW k \in 0 .. Used(h, t)
  PROVE  /\ Slot(t, k) \in Index
         /\ Slot(t, k) = h <=> k = Used(h, t)
BY SizeBound DEF Used, Slot, Index

\* Counting from the next tail is counting one further from this one.
LEMMA SlotShift ==
  ASSUME NEW t \in Index, NEW k \in 0 .. Size - 2
  PROVE  Slot(Inc(t), k) = Slot(t, k + 1)
BY SizeBound, IncStep DEF Slot, Index

\* The contents are a sequence of the bytes used.
LEMMA ContentsSeq ==
  ASSUME NEW V, NEW buf \in [Index -> V], NEW h \in Index, NEW t \in Index
  PROVE  /\ Contents(buf, h, t) \in Seq(V)
         /\ Len(Contents(buf, h, t)) = Used(h, t)
         /\ \A k \in 1 .. Used(h, t) : Contents(buf, h, t)[k] = buf[Slot(t, k - 1)]
<1>1. Used(h, t) \in Nat
  BY UsedBound, SizeBound
<1>2. \A k \in 1 .. Used(h, t) : buf[Slot(t, k - 1)] \in V
  <2>1. SUFFICES ASSUME NEW k \in 1 .. Used(h, t)
                 PROVE  buf[Slot(t, k - 1)] \in V
    OBVIOUS
  <2>2. k - 1 \in 0 .. Used(h, t)
    BY <1>1
  <2>3. QED
    BY <2>2, SlotUsed
<1>3. Contents(buf, h, t) \in [1 .. Used(h, t) -> V]
  BY <1>2 DEF Contents
<1>4. QED
  BY <1>1, <1>3 DEF Contents

\* Writing into the free slot at the head does not change the contents.
LEMMA WriteBeyond ==
  ASSUME NEW V, NEW buf \in [Index -> V], NEW h \in Index, NEW t \in Index, NEW b
  PROVE  Contents([buf EXCEPT ![h] = b], h, t) = Contents(buf, h, t)
<1>1. ASSUME NEW k \in 1 .. Used(h, t)
      PROVE  [buf EXCEPT ![h] = b][Slot(t, k - 1)] = buf[Slot(t, k - 1)]
  <2>1. k - 1 \in 0 .. Used(h, t) /\ k - 1 # Used(h, t)
    BY UsedBound, SizeBound
  <2>2. Slot(t, k - 1) \in Index /\ Slot(t, k - 1) # h
    BY <2>1, SlotUsed
  <2>3. QED
    BY <2>2
<1>2. QED
  BY <1>1 DEF Contents

\* Moving the head appends the byte it passes.
LEMMA HeadMoves ==
  ASSUME NEW V, NEW buf \in [Index -> V], NEW h \in Index, NEW t \in Index,
         Inc(h) # t
  PROVE  /\ Len(Contents(buf, h, t)) < Size - 1
         /\ Contents(buf, Inc(h), t) = Append(Contents(buf, h, t), buf[h])
<1> DEFINE n == Used(h, t)
           c == Contents(buf, h, t)
           d == Contents(buf, Inc(h), t)
<1>1. n \in Nat /\ n < Size - 1 /\ Used(Inc(h), t) = n + 1 /\ Inc(h) \in Index
  BY UsedBound, SizeBound, IncStep
<1>2. c \in Seq(V) /\ Len(c) = n /\ \A k \in 1 .. n : c[k] = buf[Slot(t, k - 1)]
  BY ContentsSeq, Zenon
<1>3. d \in Seq(V) /\ Len(d) = n + 1
        /\ \A k \in 1 .. n + 1 : d[k] = buf[Slot(t, k - 1)]
  <2>1. \A i, j \in Index :
           /\ Contents(buf, i, j) \in Seq(V)
           /\ Len(Contents(buf, i, j)) = Used(i, j)
           /\ \A k \in 1 .. Used(i, j) : Contents(buf, i, j)[k] = buf[Slot(j, k - 1)]
    BY ContentsSeq, Zenon
  <2>2. QED
    BY <1>1, <2>1
<1>4. Slot(t, n) = h
  BY <1>1, SlotUsed
<1>5. buf[h] \in V
  OBVIOUS
<1> HIDE DEF n, c, d
<1>6. /\ Append(c, buf[h]) \in Seq(V) /\ Len(Append(c, buf[h])) = n + 1
      /\ \A k \in 1 .. n : Append(c, buf[h])[k] = c[k]
      /\ Append(c, buf[h])[n + 1] = buf[h]
  BY <1>2, <1>5, AppendProperties
<1>7. \A k \in 1 .. n + 1 : d[k] = Append(c, buf[h])[k]
  BY <1>1, <1>2, <1>3, <1>4, <1>6
<1>8. d = Append(c, buf[h])
  BY <1>3, <1>6, <1>7, SeqEqual
<1>9. QED
  BY <1>1, <1>2, <1>8 DEF c, d

\* Moving the tail takes the oldest byte away.
LEMMA TailMoves ==
  ASSUME NEW V, NEW buf \in [Index -> V], NEW h \in Index, NEW t \in Index,
         h # t
  PROVE  /\ Contents(buf, h, t) # << >>
         /\ Head(Contents(buf, h, t)) = buf[t]
         /\ Tail(Contents(buf, h, t)) = Contents(buf, h, Inc(t))
<1> DEFINE n == Used(h, t)
           c == Contents(buf, h, t)
           d == Contents(buf, h, Inc(t))
<1>1. /\ n \in Nat /\ 0 < n /\ n <= Size - 1
      /\ Used(h, Inc(t)) = n - 1 /\ Inc(t) \in Index
  BY UsedBound, SizeBound, IncStep
<1>2. c \in Seq(V) /\ Len(c) = n /\ \A k \in 1 .. n : c[k] = buf[Slot(t, k - 1)]
  BY ContentsSeq, Zenon
<1>3. d \in Seq(V) /\ Len(d) = n - 1
        /\ \A k \in 1 .. n - 1 : d[k] = buf[Slot(Inc(t), k - 1)]
  <2>1. \A i, j \in Index :
           /\ Contents(buf, i, j) \in Seq(V)
           /\ Len(Contents(buf, i, j)) = Used(i, j)
           /\ \A k \in 1 .. Used(i, j) : Contents(buf, i, j)[k] = buf[Slot(j, k - 1)]
    BY ContentsSeq, Zenon
  <2>2. QED
    BY <1>1, <2>1
<1>4. Slot(t, 0) = t
  BY SizeBound DEF Slot, Index
<1> HIDE DEF n, c, d
<1>5. c # << >> /\ Head(c) = buf[t]
  BY <1>1, <1>2, <1>4
<1>6. /\ Tail(c) \in Seq(V) /\ Len(Tail(c)) = n - 1
      /\ \A k \in 1 .. n - 1 : Tail(c)[k] = c[k + 1]
  BY <1>2, <1>5, HeadTailProperties
<1>7. \A k \in 1 .. n - 1 : d[k] = Tail(c)[k]
  <2>1. SUFFICES ASSUME NEW k \in 1 .. n - 1
                 PROVE  d[k] = Tail(c)[k]
    OBVIOUS
  <2>2. Slot(Inc(t), k - 1) = Slot(t, k)
    BY <1>1, SlotShift, SizeBound
  <2>3. c[k + 1] = buf[Slot(t, k)]
    BY <1>1, <1>2
  <2>4. QED
    BY <1>3, <1>6, <2>2, <2>3
<1>8. Tail(c) = d
  BY <1>3, <1>6, <1>7, SeqEqual
<1>9. QED
  BY <1>5, <1>8 DEF c, d

-----------------------------------------------------------------------------
(***************************************************************************)
(* The invariant is inductive.                                             *)
(***************************************************************************)

LEMMA InitIInv == Init => IInv
<1>1. Init => TypeOK
  <2>1. 0 \in Index
    BY SizeBound DEF Index
  <2>2. [rx |-> TRUE, dre |-> FALSE] \in Ctrl
    BY DEF Ctrl
  <2>3. QED
    BY <2>1, <2>2 DEF Init, TypeOK, Pc, Task
<1>2. QED
  BY <1>1 DEF Init, IInv, TaskMatches, ReceiveField, NoLostWakeup, SlotReserved,
              ByteReserved, Starting, Stopping, Sending

LEMMA StepIInv == IInv /\ [Next]_vars => IInv'
<1> SUFFICES ASSUME IInv, [Next]_vars PROVE IInv'
  OBVIOUS
<1> USE DEF IInv, TaskMatches, ReceiveField, NoLostWakeup, SlotReserved,
            ByteReserved, Starting, Stopping, Sending, FreeSpace, txVars, rxVars
<1>0. Inc(txHead) \in Index /\ Inc(txTail) \in Index
        /\ Inc(rxHead) \in Index /\ Inc(rxTail) \in Index
  BY IncStep DEF TypeOK
<1>1. CASE ReadCtrl
  BY <1>1 DEF ReadCtrl, TypeOK, Pc
<1>2. CASE WriteCtrl
  <2>1. held \in Ctrl /\ ctrl \in Ctrl /\ task \in Task
    BY DEF TypeOK
  <2>2. CASE task \in {"put", "start_dre"}
    <3>1. ctrl' \in Ctrl /\ ctrl'.rx = held.rx /\ ctrl'.dre
      BY <1>2, <2>1, <2>2 DEF WriteCtrl, Changed, Ctrl
    <3>2. QED
      BY <1>2, <2>1, <2>2, <3>1 DEF WriteCtrl, TypeOK, Pc
  <2>3. CASE task = "start_rx"
    <3>1. ctrl' \in Ctrl /\ ctrl'.rx
      BY <1>2, <2>1, <2>3 DEF WriteCtrl, Changed, Ctrl
    <3>2. QED
      BY <1>2, <2>1, <2>3, <3>1 DEF WriteCtrl, TypeOK, Pc, Task
  <2>4. CASE task \in {"stop_rx", "stop_dre"}
    <3>1. ctrl' \in Ctrl
      BY <1>2, <2>1, <2>4 DEF WriteCtrl, Changed, Ctrl
    <3>2. QED
      BY <1>2, <2>1, <2>4, <3>1 DEF WriteCtrl, TypeOK, Pc, Task
  <2>5. QED
    BY <2>1, <2>2, <2>3, <2>4 DEF Task
<1>3. CASE Start
  BY <1>3 DEF Start, TypeOK, Pc, Task
<1>4. CASE Stop
  BY <1>4 DEF Stop, TypeOK, Pc, Task
<1>5. ASSUME NEW b \in TxByte, SendByte(b) PROVE IInv'
  BY <1>5 DEF SendByte, SendUnchanged, TypeOK, Pc
<1>6. CASE Wait
  BY <1>6 DEF Wait, SendUnchanged, TypeOK, Pc
<1>7. CASE Recheck
  BY <1>7 DEF Recheck, SendUnchanged, TypeOK, Pc
<1>8. CASE StoreByte
  BY <1>8 DEF StoreByte, SendUnchanged, TypeOK, Pc
<1>9. CASE AdvanceHead
  BY <1>0, <1>9 DEF AdvanceHead, TypeOK, Pc, Task
<1>10. CASE ReceiveByte
  BY <1>10 DEF ReceiveByte, ReceiveUnchanged, TypeOK, Pc
<1>11. CASE GetByte
  BY <1>11 DEF GetByte, ReceiveUnchanged, TypeOK, Pc
<1>12. CASE ConsumeByte
  BY <1>0, <1>12 DEF ConsumeByte, ReceiveUnchanged, TypeOK, Pc
<1>13. CASE DataRegEmpty
  <2>1. CASE txHead = txTail
    <3>1. ctrl' \in Ctrl /\ ctrl'.rx = ctrl.rx
      BY <1>13, <2>1 DEF DataRegEmpty, NothingLeft, NextTail, DreOff, TypeOK, Ctrl
    <3>2. QED
      BY <1>13, <2>1, <3>1 DEF DataRegEmpty, NothingLeft, NextTail, DreOff, mainVars, TypeOK
  <2>2. CASE txHead # txTail
    <3>1. TypeOK'
      BY <1>0, <1>13, <2>2 DEF DataRegEmpty, NothingLeft, NextTail, DreOff, mainVars, TypeOK
    <3>2. FreeSpace => FreeSpace'
      BY <1>13, <2>2, IncStep, SizeBound 
      DEF DataRegEmpty, NothingLeft, NextTail, DreOff, TypeOK, Index
    <3>3. QED
      BY <1>13, <2>2, <3>1, <3>2 DEF DataRegEmpty, NothingLeft, NextTail, DreOff, mainVars
  <2>3. QED
    BY <2>1, <2>2
<1>14. CASE RXComplete
  <2>1. CASE Inc(rxHead) = rxTail
    BY <1>14, <2>1 DEF RXComplete, RxFull, mainVars, TypeOK
  <2>2. CASE Inc(rxHead) # rxTail
    <3>1. TypeOK'
      BY <1>0, <1>14, <2>2 DEF RXComplete, RxFull, mainVars, TypeOK
    <3>2. rxHead # rxTail => rxBuf'[rxTail] = rxBuf[rxTail]
      BY <1>14, <2>2 DEF RXComplete, RxFull, TypeOK
    <3>3. QED
      BY <1>14, <2>2, <3>1, <3>2 DEF RXComplete, RxFull, mainVars
  <2>3. QED
    BY <2>1, <2>2
<1>15. CASE ShiftOut
  BY <1>15 DEF ShiftOut, mainVars, TypeOK
<1>16. ASSUME NEW b \in RxByte, ByteArrives(b) PROVE IInv'
  BY <1>16 DEF ByteArrives, mainVars, TypeOK
<1>17. CASE UNCHANGED vars
  BY <1>17 DEF vars, mainVars, TypeOK
<1>18. QED
  BY <1>1, <1>2, <1>3, <1>4, <1>5, <1>6, <1>7, <1>8, <1>9, <1>10, <1>11,
     <1>12, <1>13, <1>14, <1>15, <1>16, <1>17 DEF Next, MainStep

LEMMA Invariance == Spec => []IInv
<1>1. Init => IInv
  BY InitIInv
<1>2. IInv /\ [Next]_vars => IInv'
  BY StepIInv
<1>3. QED
  BY <1>1, <1>2, PTL DEF Spec

-----------------------------------------------------------------------------
(***************************************************************************)
(* What follows from the invariant.                                        *)
(***************************************************************************)

\* Every variable of the driver keeps its type: heads and tails stay inside
\* the buffers.
THEOREM Typing == Spec => []TypeOK
<1>1. IInv => TypeOK
  BY DEF IInv
<1>2. QED
  BY <1>1, Invariance, PTL

\* Bytes that wait to be sent have the transmit interrupt on, or about to be
\* turned on (USART_TXBuffer_PutByte against USART_DataRegEmpty).
THEOREM WakeupNotLost == Spec => []NoLostWakeup
<1>1. IInv => NoLostWakeup
  BY DEF IInv
<1>2. QED
  BY <1>1, Invariance, PTL

\* A started port between operations has the receive interrupt on: neither
\* side's read-modify-write of CTRLA loses it.
THEOREM ListeningKept == Spec => []StartedListens
<1>1. IInv => StartedListens
  BY DEF IInv, ReceiveField, StartedListens, Starting
<1>2. QED
  BY <1>1, Invariance, PTL

\* USART_RXComplete drops a byte only when the buffer is full.
THEOREM LossIsOverrun == Spec => LossOnlyWhenFull
<1> DEFINE Step == rxData # None /\ rxData' = None /\ rxHead' = rxHead
                     => Used(rxHead, rxTail) = Size - 1
<1>1. IInv /\ [Next]_vars => [Step]_vars
  <2> SUFFICES ASSUME IInv, [Next]_vars, rxData # None, rxData' = None,
                      rxHead' = rxHead
               PROVE  Used(rxHead, rxTail) = Size - 1
    OBVIOUS
  <2>1. RXComplete
    BY UsartAssumption DEF Next, MainStep, vars, ReadCtrl, WriteCtrl, Start, Stop,
       SendByte, Wait, Recheck, StoreByte, AdvanceHead, SendUnchanged, ReceiveByte,
       GetByte, ConsumeByte, ReceiveUnchanged, DataRegEmpty,
       NothingLeft, NextTail, DreOff, ShiftOut, ByteArrives
  <2>2. rxHead \in Index /\ rxTail \in Index
    BY DEF IInv, TypeOK
  <2>3. Inc(rxHead) = rxTail
    BY <2>1, <2>2, IncStep, SizeBound DEF RXComplete, RxFull, Index
  <2>4. QED
    BY <2>2, <2>3, IncStep, SizeBound DEF Used, Index
<1>2. QED
  BY <1>1, Invariance, PTL DEF Spec, LossOnlyWhenFull

-----------------------------------------------------------------------------
(***************************************************************************)
(* Refinement: each buffer implements the bounded queue.                   *)
(***************************************************************************)

\* The transmit buffer implements the queue: every step is a put, a take or
\* a stutter of BoundedFifo.
THEOREM TxRefines == Spec => TxIsFifo
<1> DEFINE Queue == Contents(txBuf, txHead, txTail)
<1>1. Init => Tx!Init
  <2>1. Used(0, 0) = 0
    BY SizeBound DEF Used
  <2>2. QED
    BY <2>1 DEF Init, Tx!Init, Contents
<1>2. IInv /\ [Next]_vars => [Tx!Next]_<<Queue, txData>>
  <2> SUFFICES ASSUME IInv, [Next]_vars
               PROVE  [Tx!Next]_<<Queue, txData>>
    OBVIOUS
  <2>1. txHead \in Index /\ txTail \in Index /\ txBuf \in [Index -> TxByte \cup {Zero}]
    BY DEF IInv, TypeOK
  <2>2. CASE AdvanceHead
    <3>1. Inc(txHead) # txTail /\ txBuf[txHead] = byte /\ byte \in TxByte
      BY <2>2 DEF AdvanceHead, IInv, SlotReserved, FreeSpace, Sending
    <3>2. /\ Len(Queue) < Size - 1
          /\ Queue' = Append(Queue, byte)
      BY <2>1, <2>2, <3>1, HeadMoves DEF AdvanceHead
    <3>3. Tx!Put(byte)
      BY <2>2, <3>2 DEF AdvanceHead, Tx!Put
    <3>4. QED
      BY <3>1, <3>3 DEF Tx!Next
  <2>3. CASE DataRegEmpty /\ txHead # txTail
    <3>1. Queue # << >> /\ Head(Queue) = txBuf[txTail] /\ Tail(Queue) = Queue'
      BY <2>1, <2>3, TailMoves DEF DataRegEmpty, NothingLeft, NextTail, DreOff
    <3>2. Tx!Take
      BY <2>3, <3>1 DEF DataRegEmpty, NothingLeft, NextTail, DreOff, Tx!Take
    <3>3. QED
      BY <3>2 DEF Tx!Next
  <2>4. CASE StoreByte
    <3>1. Queue' = Queue
      BY <2>1, <2>4, WriteBeyond DEF StoreByte
    <3>2. QED
      BY <2>4, <3>1 DEF StoreByte, SendUnchanged
  <2>5. ASSUME ~AdvanceHead, ~StoreByte, ~(DataRegEmpty /\ txHead # txTail)
        PROVE  UNCHANGED <<txBuf, txHead, txTail, txData>>
    BY <2>5 DEF Next, MainStep, vars, ReadCtrl, WriteCtrl, Start, Stop, SendByte,
       Wait, Recheck, SendUnchanged, ReceiveByte, GetByte, ConsumeByte,
       ReceiveUnchanged, DataRegEmpty, NothingLeft, NextTail, DreOff, RXComplete, RxFull,
       ShiftOut, ByteArrives, txVars
  <2>6. QED
    BY <2>2, <2>3, <2>4, <2>5
<1>3. QED
  BY <1>1, <1>2, Invariance, PTL DEF Spec, TxIsFifo, Tx!Spec

\* The receive buffer implements the queue: the interrupt puts, the reader
\* takes.
THEOREM RxRefines == Spec => RxIsFifo
<1> DEFINE Queue == Contents(rxBuf, rxHead, rxTail)
<1>1. Init => Rx!Init
  <2>1. Used(0, 0) = 0
    BY SizeBound DEF Used
  <2>2. QED
    BY <2>1 DEF Init, Rx!Init, Contents
<1>2. IInv /\ [Next]_vars => [Rx!Next]_<<Queue, received>>
  <2> SUFFICES ASSUME IInv, [Next]_vars
               PROVE  [Rx!Next]_<<Queue, received>>
    OBVIOUS
  <2>1. rxHead \in Index /\ rxTail \in Index /\ rxBuf \in [Index -> RxByte \cup {Zero}]
          /\ rxData \in RxByte \cup {None}
    BY DEF IInv, TypeOK
  <2>2. CASE RXComplete /\ Inc(rxHead) # rxTail
    <3>1. rxData \in RxByte /\ UNCHANGED <<rxTail, received>>
      BY <2>1, <2>2 DEF RXComplete, RxFull
    <3>2. rxBuf' \in [Index -> RxByte \cup {Zero}] /\ rxBuf'[rxHead] = rxData
      BY <2>1, <2>2, <3>1 DEF RXComplete, RxFull
    <3>3. Contents(rxBuf', rxHead, rxTail) = Queue
      <4>1. rxBuf' = [rxBuf EXCEPT ![rxHead] = rxData]
        BY <2>2 DEF RXComplete, RxFull
      <4>2. Contents([rxBuf EXCEPT ![rxHead] = rxData], rxHead, rxTail) = Queue
        BY <2>1, WriteBeyond
      <4>3. QED
        BY <4>1, <4>2
    <3>4. /\ Len(Queue) < Size - 1
          /\ Contents(rxBuf', Inc(rxHead), rxTail) = Append(Queue, rxData)
      BY <2>1, <2>2, <3>2, <3>3, HeadMoves
    <3>5. Rx!Put(rxData)
      BY <2>2, <3>1, <3>4 DEF RXComplete, RxFull, Rx!Put
    <3>6. QED
      BY <3>1, <3>5 DEF Rx!Next
  <2>3. CASE ConsumeByte
    <3>1. rxHead # rxTail /\ byte = rxBuf[rxTail]
      BY <2>3 DEF ConsumeByte, IInv, ByteReserved
    <3>2. Queue # << >> /\ Head(Queue) = byte /\ Tail(Queue) = Queue'
      BY <2>1, <2>3, <3>1, TailMoves DEF ConsumeByte, ReceiveUnchanged
    <3>3. Rx!Take
      BY <2>3, <3>2 DEF ConsumeByte, Rx!Take
    <3>4. QED
      BY <3>3 DEF Rx!Next
  <2>4. ASSUME ~ConsumeByte, ~(RXComplete /\ Inc(rxHead) # rxTail)
        PROVE  UNCHANGED <<rxBuf, rxHead, rxTail, received>>
    BY <2>4 DEF Next, MainStep, vars, ReadCtrl, WriteCtrl, Start, Stop, SendByte,
       Wait, Recheck, StoreByte, AdvanceHead, SendUnchanged, ReceiveByte, GetByte,
       ReceiveUnchanged, DataRegEmpty, NothingLeft, NextTail, DreOff, RXComplete, RxFull,
       ShiftOut, ByteArrives, rxVars
  <2>5. QED
    BY <2>2, <2>3, <2>4
<1>3. QED
  BY <1>1, <1>2, Invariance, PTL DEF Spec, RxIsFifo, Rx!Spec
=============================================================================
