----------------------------- MODULE CardProofs -----------------------------
(***************************************************************************)
(* For every number of slots, packets and blocks of a transfer, and any    *)
(* number of restarts and of cards pulled and put back: the card is marked *)
(* in use exactly while a transfer holds it, the driver's assertions hold, *)
(* and a packet that was not reported as failed is on the card in one      *)
(* piece, but for the block a pulled card was programming.                 *)
(***************************************************************************)
EXTENDS Card, TLAPS

\* Before the program runs there are no transfers.
BootIsAlone == boot # "started" => \A c \in Ctx : op[c].pc = "idle"

\* A transfer that is preempted while it holds the card keeps the others out
\* at the test of the flag; the interrupt is never preempted.
OneHolds == Holds("main") => op["isr"].pc \in {"idle", "test"}

\* Blocks are left to transfer exactly from the command to the last block.
BlocksLeft ==
  /\ (\A c \in Ctx : op[c].pc \notin {"block", "busy"}) => remaining = 0
  /\ \A c \in Ctx :
       /\ op[c].pc \in {"block", "busy"} => remaining = AccessSize /\ pos < AccessSize
       /\ op[c].pc = "busy" => op[c].write
       /\ op[c].pc = "wait" => pos = AccessSize

Storing(c) == op[c].write /\ op[c].pc \in {"block", "busy", "wait"}

\* The block of a store that was sent last.
LastSent(c) == [slot |-> op[c].slot, block |-> pos, packet |-> op[c].packet]

\* The card programs the last block of the store there is, or one of a store
\* that failed; a block is sent, and a read goes on, when it programs none.
BufferHeld ==
  /\ \A c \in Ctx : op[c].pc = "block" \/ (op[c].pc = "wait" /\ ~op[c].write)
                     => buffer = {}
  /\ \A c \in Ctx : Storing(c) => buffer \subseteq {LastSent(c)}
  /\ (\A c \in Ctx : ~Storing(c)) => \A x \in buffer : x.slot \in broken

\* A block that was sent is on the card, or is being programmed, or was the last
\* when the card was pulled, which then answers no more.
OnCard(c, b) ==
  \/ blocks[op[c].slot][b] = op[c].packet
  \/ b = pos /\ LastSent(c) \in buffer
  \/ b = pos /\ op[c].slot \in torn /\ ~awake

StoredSoFar == \A c \in Ctx : Storing(c) => \A b \in 1 .. pos : OnCard(c, b)

WholeSlot(s) ==
  \A b \in Block : blocks[s][b] # blocks[s][1] => s \in torn /\ b = AccessSize

\* A slot is whole before the first block of a store and after the last.
Whole ==
  \A s \in Slot \ broken :
    WholeSlot(s) \/ \E c \in Ctx : Storing(c) /\ op[c].slot = s

IInv ==
  /\ CardTypeOK /\ BootIsAlone /\ InUseWhileHeld /\ OneHolds /\ BlocksLeft
  /\ BufferHeld /\ StoredSoFar /\ Whole

-----------------------------------------------------------------------------
(***************************************************************************)
(* What the steps of a transfer do to the record of its context.           *)
(***************************************************************************)
SameCall(c) ==
  /\ op' \in [Ctx -> Op]
  /\ op'[c].write = op[c].write /\ op'[c].slot = op[c].slot
  /\ op'[c].packet = op[c].packet
  /\ \A d \in Ctx \ {c} : op'[d] = op[d]

LEMMA GotoStep ==
  ASSUME CardTypeOK, NEW c \in Ctx, NEW q \in OpPc, Goto(c, q)
  PROVE  SameCall(c) /\ op'[c].pc = q
BY DEF CardTypeOK, Op, Goto, SameCall

LEMMA EndsStep ==
  ASSUME CardTypeOK, NEW c \in Ctx, NEW r \in {"none", "ok", "failed", "refused"}, Ends(c, r)
  PROVE  SameCall(c) /\ op'[c].pc = "idle"
BY DEF CardTypeOK, Op, Ends, SameCall, OpPc

LEMMA FailsStep ==
  ASSUME CardTypeOK, NEW c \in Ctx, Fails(c)
  PROVE  SameCall(c) /\ op'[c].pc = "idle" /\ used' = FALSE
BY EndsStep DEF Fails, Released

LEMMA NoOpTyped == NoOp \in Op /\ NoOp.pc = "idle" /\ NoOp.write = FALSE
BY CardAssumption DEF NoOp, Op, OpPc

\* A context that holds the card, or is about to take it, is alone with it.
LEMMA Alone ==
  ASSUME IInv, NEW c \in Ctx, Running(c),
         Holds(c) \/ op[c].pc = "take", NEW d \in Ctx \ {c}
  PROVE  ~Holds(d) /\ op[d].pc \notin {"status", "command", "block", "busy", "wait"}
BY DEF IInv, OneHolds, Holds, Running, Ctx

\* A step that leaves the card alone and moves no store in or out of the blocks
\* leaves what is known of them.
LEMMA DiskKept ==
  ASSUME IInv, UNCHANGED <<disk, awake, pos>>,
         \A c \in Ctx : /\ Storing(c)' <=> Storing(c)
                        /\ Storing(c) => /\ op'[c].slot = op[c].slot
                                         /\ op'[c].packet = op[c].packet
  PROVE  /\ StoredSoFar' /\ Whole'
         /\ \A c \in Ctx : Storing(c)' => buffer' \subseteq {LastSent(c)'}
         /\ (\A c \in Ctx : ~Storing(c)') => \A x \in buffer' : x.slot \in broken'
<1>1. /\ blocks' = blocks /\ buffer' = buffer /\ broken' = broken /\ torn' = torn
      /\ awake' = awake /\ pos' = pos
  BY DEF disk
<1>2. ASSUME NEW c \in Ctx, Storing(c)
      PROVE  LastSent(c)' = LastSent(c) /\ \A b : OnCard(c, b)' <=> OnCard(c, b)
  BY <1>1, <1>2 DEF LastSent, OnCard
<1>3. StoredSoFar'
  BY <1>1, <1>2 DEF IInv, StoredSoFar
<1>4. \A s \in Slot : WholeSlot(s)' <=> WholeSlot(s)
  BY <1>1 DEF WholeSlot
<1>5. Whole'
  BY <1>1, <1>4 DEF IInv, Whole
<1>6. QED
  BY <1>1, <1>2, <1>3, <1>5 DEF IInv, BufferHeld

-----------------------------------------------------------------------------
LEMMA InitInv == Init => IInv
<1> SUFFICES ASSUME Init PROVE IInv
  OBVIOUS
<1>1. op = [c \in Ctx |-> NoOp] /\ blocks = [s \in Slot |-> [b \in Block |-> Blank]]
  BY DEF Init
<1>2. op \in [Ctx -> Op] /\ \A c \in Ctx : op[c].pc = "idle" /\ op[c].write = FALSE
  BY <1>1, NoOpTyped
<1>3. /\ blocks \in [Slot -> [Block -> Packet \cup {Blank}]]
      /\ \A s \in Slot, b \in Block : blocks[s][b] = Blank
  BY <1>1
<1>4. 1 \in Block /\ buffer = {}
  BY CardAssumption DEF Block, Init
<1>5. CardTypeOK
  <2>1. 0 \in 0 .. AccessSize
    BY CardAssumption
  <2>2. used \in BOOLEAN /\ boot \in Boot /\ broken \subseteq Slot
        /\ torn \subseteq Slot
    BY DEF Init, Boot
  <2>3. remaining \in 0 .. AccessSize /\ pos \in 0 .. AccessSize
    BY <2>1 DEF Init
  <2>4. QED
    BY <1>2, <1>3, <1>4, <2>2, <2>3 DEF CardTypeOK
<1>6. Whole
  BY <1>3, <1>4 DEF Whole, WholeSlot
<1>7. BlocksLeft /\ BufferHeld /\ StoredSoFar
  BY <1>2, <1>4 DEF Init, BlocksLeft, BufferHeld, StoredSoFar, Storing
<1>8. BootIsAlone /\ InUseWhileHeld /\ OneHolds
  BY <1>2 DEF Init, BootIsAlone, InUseWhileHeld, OneHolds, Holds, Ctx
<1>9. QED
  BY <1>5, <1>6, <1>7, <1>8 DEF IInv

LEMMA TestInv == ASSUME IInv, NEW c \in Ctx, Test(c) PROVE IInv'
<1> USE DEF Holds, Storing
<1>1. /\ SameCall(c) /\ op'[c].pc \in {"idle", "take"}
      /\ op[c].pc = "test" /\ Running(c)
      /\ op'[c].pc = "take" => ~used
  <2>1. CASE Busy
    BY <2>1, EndsStep DEF Test, IInv, At
  <2>2. CASE ~Busy
    BY <2>2, GotoStep DEF Test, IInv, At, OpPc, Busy
  <2>3. QED
    BY <2>1, <2>2
<1>2. UNCHANGED <<card, driver, disk, boot, restarts>>
  BY DEF Test
<1>3. CardTypeOK' /\ BootIsAlone'
  BY <1>1, <1>2 DEF IInv, CardTypeOK, BootIsAlone, SameCall, driver, disk, Running
<1>4. InUseWhileHeld' /\ OneHolds'
  BY <1>1, <1>2 DEF IInv, InUseWhileHeld, OneHolds, SameCall, driver, Ctx
<1>5. BlocksLeft'
  BY <1>1, <1>2 DEF IInv, BlocksLeft, SameCall, driver
<1>6. StoredSoFar' /\ Whole' /\ BufferHeld'
  <2>1. \A d \in Ctx : /\ Storing(d)' <=> Storing(d)
                       /\ Storing(d) => op'[d].slot = op[d].slot /\ op'[d].packet = op[d].packet
    BY <1>1 DEF SameCall
  <2>2. UNCHANGED <<disk, awake, pos>>
    BY <1>2 DEF card, driver
  <2>3. \A d \in Ctx : op'[d].pc = "block" \/ (op'[d].pc = "wait" /\ ~op'[d].write)
                       => buffer' = {}
    BY <1>1, <2>2 DEF IInv, BufferHeld, SameCall, disk
  <2>4. QED
    BY <2>1, <2>2, <2>3, DiskKept DEF BufferHeld
<1>7. QED
  BY <1>3, <1>4, <1>5, <1>6 DEF IInv
LEMMA TakeInv == ASSUME IInv, NEW c \in Ctx, Take(c) PROVE IInv'
<1> USE DEF Holds, Storing
<1>0. At(c, "take") /\ op[c].pc = "take" /\ Running(c)
  BY DEF Take, At
<1>1. /\ SameCall(c)
      /\ \/ op'[c].pc = "idle" /\ used' = FALSE
         \/ op'[c].pc \in {"command", "status"} /\ used' = TRUE
  <2>1. CASE Returned = "OK"
    BY <2>1, GotoStep DEF Take, IInv, OpPc
  <2>2. CASE Returned # "OK"
    BY <2>2, FailsStep DEF Take, IInv
  <2>3. QED
    BY <2>1, <2>2
<1>2. UNCHANGED <<remaining, pos, disk, boot>>
  BY DEF Take
<1>3. \A d \in Ctx \ {c} : ~Holds(d)
  BY <1>0, Alone
<1>4. CardTypeOK' /\ BootIsAlone'
  BY <1>0, <1>1, <1>2 DEF IInv, CardTypeOK, BootIsAlone, SameCall, disk, Running
<1>5. InUseWhileHeld'
  BY <1>1, <1>3 DEF InUseWhileHeld, SameCall
<1>6. OneHolds'
  BY <1>0, <1>1, <1>3 DEF OneHolds, SameCall, Ctx, Running
<1>7. BlocksLeft'
  BY <1>0, <1>1, <1>2, <1>3 DEF IInv, BlocksLeft, SameCall
<1>8. StoredSoFar' /\ Whole' /\ BufferHeld'
  <2>1. \A d \in Ctx : ~Storing(d) /\ ~Storing(d)'
    BY <1>0, <1>1, <1>3 DEF SameCall
  <2>2. UNCHANGED <<disk, awake, pos>>
    BY <1>2 DEF Take, card
  <2>3. \A d \in Ctx : op'[d].pc \notin {"block", "wait"}
    BY <1>1, <1>3 DEF SameCall
  <2>4. QED
    BY <2>1, <2>2, <2>3, DiskKept DEF BufferHeld
<1>9. QED
  BY <1>4, <1>5, <1>6, <1>7, <1>8 DEF IInv

LEMMA StatusInv == ASSUME IInv, NEW c \in Ctx, Status(c) PROVE IInv'
<1> USE DEF Holds, Storing
<1>0. op[c].pc = "status" /\ Running(c)
  BY DEF Status, At
<1>1. /\ SameCall(c)
      /\ \/ op'[c].pc = "idle" /\ used' = FALSE
         \/ op'[c].pc = "command" /\ used' = used
  BY GotoStep, FailsStep DEF Status, IInv, OpPc
<1>2. UNCHANGED <<remaining, pos, disk, boot>>
  BY DEF Status
<1>3. \A d \in Ctx \ {c} : ~Holds(d)
  BY <1>0, Alone
<1>4. CardTypeOK' /\ BootIsAlone'
  BY <1>0, <1>1, <1>2 DEF IInv, CardTypeOK, BootIsAlone, SameCall, disk, Running
<1>5. InUseWhileHeld'
  BY <1>0, <1>1, <1>3 DEF IInv, InUseWhileHeld, SameCall
<1>6. OneHolds'
  BY <1>0, <1>1, <1>3 DEF OneHolds, SameCall, Ctx, Running
<1>7. BlocksLeft'
  BY <1>0, <1>1, <1>2, <1>3 DEF IInv, BlocksLeft, SameCall
<1>8. StoredSoFar' /\ Whole' /\ BufferHeld'
  <2>1. \A d \in Ctx : ~Storing(d) /\ ~Storing(d)'
    BY <1>0, <1>1, <1>3 DEF SameCall
  <2>2. UNCHANGED <<disk, awake, pos>>
    BY <1>2 DEF Status, card
  <2>3. \A d \in Ctx : op'[d].pc \notin {"block", "wait"}
    BY <1>1, <1>3 DEF SameCall
  <2>4. QED
    BY <2>1, <2>2, <2>3, DiskKept DEF BufferHeld
<1>9. QED
  BY <1>4, <1>5, <1>6, <1>7, <1>8 DEF IInv

LEMMA CommandInv == ASSUME IInv, NEW c \in Ctx, Command(c) PROVE IInv'
<1> USE DEF Holds, Storing
<1>0. op[c].pc = "command" /\ Running(c)
  BY DEF Command, At
<1>1. /\ SameCall(c)
      /\ \/ op'[c].pc = "idle" /\ used' = FALSE /\ UNCHANGED <<remaining, pos, torn>>
         \/ /\ op'[c].pc = "block" /\ used' = used /\ remaining' = AccessSize
            /\ pos' = 0 /\ buffer = {}
            /\ torn' = IF op[c].write THEN torn \ {op[c].slot} ELSE torn
  BY GotoStep, FailsStep DEF Command, IInv, OpPc, Answers
<1>2. UNCHANGED <<awake, blocks, buffer, broken, boot>>
  BY DEF Command, card
<1>3. \A d \in Ctx \ {c} : ~Holds(d)
  BY <1>0, Alone
<1>4. CardTypeOK' /\ BootIsAlone'
  <2>1. remaining' \in 0 .. AccessSize /\ pos' \in 0 .. AccessSize
    BY <1>1, CardAssumption DEF IInv, CardTypeOK
  <2>2. used' \in BOOLEAN /\ op' \in [Ctx -> Op]
    BY <1>1 DEF IInv, CardTypeOK, SameCall
  <2>3. CardTypeOK'
    BY <1>1, <1>2, <2>1, <2>2 DEF IInv, CardTypeOK
  <2>4. QED
    BY <1>0, <1>2, <2>3 DEF BootIsAlone, Running
<1>5. InUseWhileHeld'
  BY <1>0, <1>1, <1>3 DEF IInv, InUseWhileHeld, SameCall
<1>6. OneHolds'
  BY <1>0, <1>1, <1>3 DEF OneHolds, SameCall, Ctx, Running
<1>7. BlocksLeft'
  BY <1>0, <1>1, <1>3, CardAssumption DEF IInv, BlocksLeft, SameCall
<1>8. \A d \in Ctx : ~Storing(d)
  BY <1>0, <1>3
<1>9. \A s \in Slot \ broken : WholeSlot(s)
  BY <1>8 DEF IInv, Whole
<1>10. CASE op'[c].pc = "idle"
  <2>1. \A d \in Ctx : ~Storing(d)'
    BY <1>1, <1>3, <1>10 DEF SameCall
  <2>2. UNCHANGED <<disk, awake, pos>>
    BY <1>1, <1>2, <1>10 DEF disk
  <2>3. \A d \in Ctx : op'[d].pc \notin {"block", "wait"}
    BY <1>1, <1>3, <1>10 DEF SameCall
  <2>4. StoredSoFar' /\ Whole' /\ BufferHeld'
    BY <1>8, <2>1, <2>2, <2>3, DiskKept DEF BufferHeld
  <2>5. QED
    BY <1>4, <1>5, <1>6, <1>7, <2>4 DEF IInv
<1>11. CASE op'[c].pc = "block"
  <2>1. buffer' = {} /\ pos' = 0
    BY <1>1, <1>2, <1>11
  <2>2. BufferHeld'
    BY <2>1 DEF BufferHeld
  <2>3. StoredSoFar'
    BY <2>1 DEF StoredSoFar
  <2>4. ASSUME NEW s \in Slot \ broken', ~(op[c].write /\ s = op[c].slot)
        PROVE  WholeSlot(s)'
    <3>1. WholeSlot(s)
      BY <1>2, <1>9
    <3>2. s \in torn' <=> s \in torn
      BY <1>1, <1>11, <2>4
    <3>3. QED
      BY <1>2, <3>1, <3>2 DEF WholeSlot
  <2>5. op[c].write => Storing(c)' /\ op'[c].slot = op[c].slot
    BY <1>1, <1>11 DEF SameCall
  <2>6. Whole'
    BY <2>4, <2>5 DEF Whole
  <2>7. QED
    BY <1>4, <1>5, <1>6, <1>7, <2>2, <2>3, <2>6 DEF IInv
<1>12. QED
  BY <1>1, <1>10, <1>11

LEMMA WriteBlockInv == ASSUME IInv, NEW c \in Ctx, WriteBlock(c) PROVE IInv'
<1> USE DEF Holds, Storing
<1>0. op[c].pc = "block" /\ op[c].write /\ Running(c) /\ pos < AccessSize
  BY DEF WriteBlock, At
<1>1. PICK accepted \in Answers :
        IF accepted
        THEN /\ buffer' = {[slot |-> op[c].slot, block |-> pos', packet |-> op[c].packet]}
             /\ UNCHANGED <<used, broken>>
             /\ IF pos' < AccessSize
                THEN Goto(c, "busy") /\ UNCHANGED remaining
                ELSE Goto(c, "wait") /\ remaining' = remaining - AccessSize
        ELSE /\ Fails(c) /\ remaining' = AfterFailure
             /\ broken' = broken \cup {op[c].slot}
             /\ UNCHANGED buffer
  BY DEF WriteBlock
<1>2. UNCHANGED <<awake, blocks, torn, boot>> /\ pos' = pos + 1
  BY DEF WriteBlock, card
<1>3. \A d \in Ctx \ {c} : ~Holds(d)
  BY <1>0, Alone
<1>4. remaining = AccessSize /\ pos \in 0 .. AccessSize - 1 /\ pos + 1 \in Block
  BY <1>0, CardAssumption DEF IInv, BlocksLeft, CardTypeOK, Block
<1>5. /\ SameCall(c)
      /\ \/ /\ op'[c].pc = "idle" /\ used' = FALSE /\ remaining' = 0
            /\ broken' = broken \cup {op[c].slot} /\ ~accepted
         \/ /\ op'[c].pc = "busy" /\ UNCHANGED <<used, broken, remaining>>
            /\ pos + 1 < AccessSize /\ accepted
         \/ /\ op'[c].pc = "wait" /\ UNCHANGED <<used, broken>> /\ remaining' = 0
            /\ pos + 1 = AccessSize /\ accepted
  <2>1. CASE ~accepted
    BY <1>1, <2>1, FailsStep DEF IInv, AfterFailure
  <2>2. CASE accepted /\ pos' < AccessSize
    BY <1>1, <1>2, <2>2, GotoStep DEF IInv, OpPc
  <2>3. CASE accepted /\ ~(pos' < AccessSize)
    BY <1>1, <1>2, <1>4, <2>3, GotoStep, CardAssumption DEF IInv, OpPc
  <2>4. QED
    BY <2>1, <2>2, <2>3
<1>6. op[c] \in Op /\ op[c].slot \in Slot /\ op[c].packet \in Packet \cup {Blank}
  BY DEF IInv, CardTypeOK, Op
<1>7. buffer = {} /\ (accepted => awake)
  BY <1>0 DEF IInv, BufferHeld, Answers
<1>8. LastSent(c)' = [slot |-> op[c].slot, block |-> pos', packet |-> op[c].packet]
  BY <1>5 DEF LastSent, SameCall
<1>9. IF accepted THEN buffer' = {LastSent(c)'} ELSE buffer' = {}
  BY <1>1, <1>7, <1>8
<1>10. CardTypeOK' /\ BootIsAlone'
  <2>1. buffer' \subseteq [slot : Slot, block : Block, packet : Packet \cup {Blank}]
    BY <1>2, <1>4, <1>6, <1>8, <1>9
  <2>2. broken' \subseteq Slot /\ used' \in BOOLEAN
    BY <1>5, <1>6 DEF IInv, CardTypeOK
  <2>3. pos' \in 0 .. AccessSize /\ remaining' \in 0 .. AccessSize
    BY <1>2, <1>4, <1>5, CardAssumption
  <2>4. CardTypeOK'
    BY <1>2, <1>5, <2>1, <2>2, <2>3 DEF IInv, CardTypeOK, SameCall
  <2>5. QED
    BY <1>0, <1>2, <2>4 DEF BootIsAlone, Running
<1>11. InUseWhileHeld'
  BY <1>0, <1>3, <1>5 DEF IInv, InUseWhileHeld, SameCall
<1>12. OneHolds'
  BY <1>0, <1>3, <1>5 DEF OneHolds, SameCall, Ctx, Running
<1>13. \A d \in Ctx \ {c} : op'[d].pc \notin {"block", "busy", "wait"}
  BY <1>3, <1>5 DEF SameCall
<1>14. BlocksLeft'
  BY <1>0, <1>2, <1>4, <1>5, <1>13 DEF BlocksLeft, SameCall
<1>15. BufferHeld'
  <2>1. CASE accepted
    <3>1. op'[c].pc \in {"idle", "busy", "wait"} /\ op'[c].write
      BY <1>0, <1>5 DEF SameCall
    <3>2. op'[c].pc # "idle"
      BY <1>5, <2>1
    <3>3. CASE op'[c].pc \in {"busy", "wait"}
      <4>1. Storing(c)' /\ buffer' \subseteq {LastSent(c)'}
        BY <1>9, <2>1, <3>1, <3>3
      <4>2. \A d \in Ctx \ {c} : ~Storing(d)'
        BY <1>13
      <4>3. \A d \in Ctx : op'[d].pc = "block" \/ (op'[d].pc = "wait" /\ ~op'[d].write)
                           => buffer' = {}
        BY <1>13, <3>1, <3>3
      <4>4. QED
        BY <4>1, <4>2, <4>3 DEF BufferHeld
    <3>4. QED
      BY <3>1, <3>2, <3>3
  <2>2. CASE ~accepted
    BY <1>9, <2>2 DEF BufferHeld
  <2>3. QED
    BY <2>1, <2>2
<1>16. StoredSoFar'
  <2>1. SUFFICES ASSUME op'[c].pc \in {"busy", "wait"}, NEW b \in 1 .. pos'
                 PROVE  OnCard(c, b)'
    BY <1>5, <1>13 DEF StoredSoFar
  <2>2. accepted
    BY <1>5, <2>1
  <2>3. CASE b = pos + 1
    BY <1>2, <1>9, <2>2, <2>3 DEF OnCard
  <2>4. CASE b \in 1 .. pos
    <3>1. OnCard(c, b)
      BY <1>0, <2>4 DEF IInv, StoredSoFar
    <3>2. blocks[op[c].slot][b] = op[c].packet
      BY <1>7, <2>2, <3>1 DEF OnCard
    <3>3. QED
      BY <1>2, <1>5, <3>2 DEF OnCard, SameCall
  <2>5. QED
    BY <1>2, <1>4, <2>1, <2>3, <2>4
<1>17. Whole'
  <2>1. ASSUME NEW s \in Slot \ broken', s # op[c].slot
        PROVE  WholeSlot(s)'
    <3>1. WholeSlot(s)
      BY <1>3, <1>5, <2>1 DEF IInv, Whole
    <3>2. QED
      BY <1>2, <3>1 DEF WholeSlot
  <2>2. op[c].slot \in broken' \/ (Storing(c)' /\ op'[c].slot = op[c].slot)
    BY <1>0, <1>5 DEF SameCall
  <2>3. QED
    BY <2>1, <2>2 DEF Whole
<1>18. QED
  BY <1>10, <1>11, <1>12, <1>14, <1>15, <1>16, <1>17 DEF IInv

\* A store that ends, as failed: nothing is known of its slot any more.
LEMMA StoreFailed ==
  ASSUME IInv, NEW c \in Ctx, Storing(c), Running(c), SameCall(c),
         op'[c].pc = "idle", used' = FALSE, remaining' = 0,
         broken' = broken \cup {op[c].slot},
         UNCHANGED <<awake, pos, blocks, buffer, torn, boot>>
  PROVE  IInv'
<1> USE DEF Holds, Storing
<1>1. \A d \in Ctx \ {c} : ~Holds(d)
  BY Alone
<1>2. \A d \in Ctx : op'[d].pc \notin {"status", "command", "block", "busy", "wait"}
  BY <1>1 DEF SameCall
<1>3. op[c].slot \in Slot
  BY DEF IInv, CardTypeOK, Op
<1>4. CardTypeOK' /\ BootIsAlone'
  <2>1. CardTypeOK'
    <3>1. remaining' \in 0 .. AccessSize
      BY CardAssumption
    <3>2. op' \in [Ctx -> Op] /\ broken' \subseteq Slot
      BY <1>3 DEF IInv, CardTypeOK, SameCall
    <3>3. QED
      BY <3>1, <3>2 DEF IInv, CardTypeOK
  <2>2. QED
    BY <2>1 DEF BootIsAlone, Running
<1>5. InUseWhileHeld' /\ OneHolds' /\ BlocksLeft'
  BY <1>2 DEF InUseWhileHeld, OneHolds, BlocksLeft, Ctx
<1>6. StoredSoFar'
  BY <1>2 DEF StoredSoFar
<1>7. BufferHeld'
  <2>1. \A x \in buffer : x.slot = op[c].slot
    BY DEF IInv, BufferHeld, LastSent
  <2>2. QED
    BY <1>2, <2>1 DEF BufferHeld
<1>8. Whole'
  <2>1. ASSUME NEW s \in Slot \ broken' PROVE WholeSlot(s)'
    <3>1. WholeSlot(s)
      BY <1>1, <2>1 DEF IInv, Whole
    <3>2. QED
      BY <3>1 DEF WholeSlot
  <2>2. QED
    BY <2>1 DEF Whole
<1>9. QED
  BY <1>4, <1>5, <1>6, <1>7, <1>8 DEF IInv

LEMMA BusyWaitInv == ASSUME IInv, NEW c \in Ctx, BusyWait(c) PROVE IInv'
<1>0. op[c].pc = "busy" /\ Running(c) /\ Storing(c)
  BY DEF BusyWait, At, IInv, BlocksLeft, Storing
<1>1. UNCHANGED <<awake, pos, blocks, buffer, torn, boot>>
  BY DEF BusyWait, card
<1>2. CASE Fails(c) /\ remaining' = AfterFailure /\ broken' = broken \cup {op[c].slot}
  BY <1>0, <1>1, <1>2, FailsStep, StoreFailed DEF IInv, AfterFailure
<1>3. CASE LineFree /\ Goto(c, "block") /\ UNCHANGED <<used, remaining, broken>>
  <2> USE DEF Holds, Storing
  <2>1. SameCall(c) /\ op'[c].pc = "block"
    BY <1>3, GotoStep DEF IInv, OpPc
  <2>2. CardTypeOK' /\ BootIsAlone'
    BY <1>0, <1>1, <1>3, <2>1 DEF IInv, CardTypeOK, BootIsAlone, SameCall, Running
  <2>3. InUseWhileHeld' /\ OneHolds'
    BY <1>0, <1>3, <2>1 DEF IInv, InUseWhileHeld, OneHolds, SameCall, Ctx, Running
  <2>4. BlocksLeft'
    BY <1>0, <1>1, <1>3, <2>1 DEF IInv, BlocksLeft, SameCall
  <2>5. \A d \in Ctx : /\ Storing(d)' <=> Storing(d)
                       /\ Storing(d) => op'[d].slot = op[d].slot /\ op'[d].packet = op[d].packet
    BY <1>0, <2>1 DEF SameCall
  <2>6. StoredSoFar' /\ Whole'
    BY <1>1, <1>3, <2>5, DiskKept DEF disk
  <2>7. BufferHeld'
    BY <1>1, <1>3 DEF BufferHeld, LineFree
  <2>8. QED
    BY <2>2, <2>3, <2>4, <2>6, <2>7 DEF IInv
<1>4. QED
  BY <1>2, <1>3 DEF BusyWait

LEMMA ReadBlockInv == ASSUME IInv, NEW c \in Ctx, ReadBlock(c) PROVE IInv'
<1> USE DEF Holds, Storing
<1>0. op[c].pc = "block" /\ ~op[c].write /\ Running(c) /\ pos < AccessSize
  BY DEF ReadBlock, At
<1>1. \A d \in Ctx \ {c} : ~Holds(d)
  BY <1>0, Alone
<1>2. remaining = AccessSize /\ pos \in 0 .. AccessSize - 1 /\ pos + 1 \in Block
  BY <1>0, CardAssumption DEF IInv, BlocksLeft, CardTypeOK, Block
<1>3. UNCHANGED <<disk, boot>>
  BY DEF ReadBlock
<1>4. op[c] \in Op /\ blocks[op[c].slot][pos + 1] \in Packet \cup {Blank}
  BY <1>2 DEF IInv, CardTypeOK, Op
<1>5. /\ SameCall(c)
      /\ \/ /\ op'[c].pc = "idle" /\ used' = FALSE /\ remaining' = 0
            /\ pos' = pos
         \/ /\ op'[c].pc = "block" /\ UNCHANGED <<used, remaining>>
            /\ pos' = pos + 1 /\ pos + 1 < AccessSize
         \/ /\ op'[c].pc = "wait" /\ UNCHANGED used /\ remaining' = 0
            /\ pos' = pos + 1 /\ pos + 1 = AccessSize
  <2>1. PICK token \in Answers :
          IF token
          THEN /\ pos' = pos + 1
               /\ op' = [op EXCEPT
                           ![c].got = Append(@, blocks[op[c].slot][pos']),
                           ![c].pc = IF pos' < AccessSize THEN "block" ELSE "wait"]
               /\ remaining' = IF pos' < AccessSize THEN remaining
                               ELSE remaining - AccessSize
               /\ UNCHANGED used
          ELSE Fails(c) /\ remaining' = AfterFailure /\ UNCHANGED pos
    BY DEF ReadBlock
  <2>2. CASE ~token
    BY <2>1, <2>2, FailsStep DEF IInv, AfterFailure
  <2>3. CASE token
    <3>1. Append(op[c].got, blocks[op[c].slot][pos']) \in Seq(Packet \cup {Blank})
      BY <1>4, <2>1, <2>3 DEF Op
    <3>2. PICK q \in {"block", "wait"}, g \in Seq(Packet \cup {Blank}) :
            /\ op' = [op EXCEPT ![c].got = g, ![c].pc = q]
            /\ q = IF pos' < AccessSize THEN "block" ELSE "wait"
      BY <2>1, <2>3, <3>1
    <3>3. SameCall(c) /\ op'[c].pc = q
      <4> DEFINE call == [op[c] EXCEPT !.got = g, !.pc = q]
      <4>1. call \in Op /\ call.pc = q /\ call.write = op[c].write
            /\ call.slot = op[c].slot /\ call.packet = op[c].packet
        BY <1>4, <3>2 DEF Op, OpPc
      <4>2. op' = [op EXCEPT ![c] = call]
        BY <3>2 DEF IInv, CardTypeOK
      <4> HIDE DEF call
      <4>3. QED
        BY <4>1, <4>2 DEF IInv, CardTypeOK, SameCall
    <3>4. QED
      BY <1>2, <2>1, <2>3, <3>2, <3>3, CardAssumption
  <2>4. QED
    BY <2>2, <2>3
<1>6. CardTypeOK' /\ BootIsAlone'
  <2>1. remaining' \in 0 .. AccessSize /\ pos' \in 0 .. AccessSize
    BY <1>2, <1>5, CardAssumption
  <2>2. used' \in BOOLEAN /\ op' \in [Ctx -> Op]
    BY <1>5 DEF IInv, CardTypeOK, SameCall
  <2>3. CardTypeOK'
    BY <1>3, <2>1, <2>2 DEF IInv, CardTypeOK, disk
  <2>4. QED
    BY <1>0, <1>3, <2>3 DEF BootIsAlone, Running
<1>7. InUseWhileHeld' /\ OneHolds'
  BY <1>0, <1>1, <1>5 DEF IInv, InUseWhileHeld, OneHolds, SameCall, Ctx, Running
<1>8. \A d \in Ctx : ~Storing(d) /\ ~Storing(d)'
  BY <1>0, <1>1, <1>5 DEF SameCall
<1>9. StoredSoFar' /\ Whole' /\ BufferHeld'
  <2>1. buffer = {} /\ buffer' = {}
    BY <1>0, <1>3 DEF IInv, BufferHeld, disk
  <2>2. StoredSoFar' /\ BufferHeld'
    BY <1>8, <2>1 DEF StoredSoFar, BufferHeld
  <2>3. \A s \in Slot \ broken : WholeSlot(s)
    BY <1>8 DEF IInv, Whole
  <2>4. QED
    BY <1>3, <2>2, <2>3 DEF Whole, WholeSlot, disk
<1>10. BlocksLeft'
  BY <1>0, <1>1, <1>2, <1>5 DEF BlocksLeft, SameCall
<1>11. QED
  BY <1>6, <1>7, <1>9, <1>10 DEF IInv

LEMMA WaitInv == ASSUME IInv, NEW c \in Ctx, Wait(c) PROVE IInv'
<1> USE DEF Holds, Storing
<1>0. op[c].pc = "wait" /\ Running(c) /\ op[c].slot \in Slot /\ pos = AccessSize
  BY DEF Wait, At, IInv, CardTypeOK, Op, BlocksLeft
<1>1. UNCHANGED <<awake, remaining, pos, blocks, buffer, torn, boot>>
  BY DEF Wait, card
<1>2. \A d \in Ctx \ {c} : ~Holds(d)
  BY <1>0, Alone
<1>3. remaining = 0
  BY <1>0, <1>2 DEF IInv, BlocksLeft
<1>4. CASE op[c].write /\ Fails(c) /\ broken' = broken \cup {op[c].slot}
  BY <1>0, <1>1, <1>3, <1>4, FailsStep, StoreFailed DEF IInv
<1>5. CASE /\ op[c].write => LineFree
           /\ Ends(c, "ok") /\ used' = Released
           /\ broken' = IF op[c].write THEN broken \ {op[c].slot} ELSE broken
  <2>1. SameCall(c) /\ op'[c].pc = "idle" /\ used' = FALSE
    BY <1>5, EndsStep DEF IInv, Released
  <2>2. CardTypeOK' /\ BootIsAlone'
    BY <1>0, <1>1, <1>5, <2>1 DEF IInv, CardTypeOK, BootIsAlone, SameCall, Running
  <2>3. InUseWhileHeld' /\ OneHolds'
    BY <1>0, <1>2, <2>1 DEF IInv, InUseWhileHeld, OneHolds, SameCall, Ctx, Running
  <2>4. buffer = {}
    BY <1>0, <1>5 DEF IInv, BufferHeld, LineFree
  <2>5. \A d \in Ctx : op'[d].pc \notin {"block", "busy", "wait"}
    BY <1>2, <2>1 DEF SameCall
  <2>6. BlocksLeft' /\ StoredSoFar' /\ BufferHeld'
    BY <1>1, <1>3, <2>4, <2>5 DEF BlocksLeft, StoredSoFar, BufferHeld
  <2>7. ASSUME NEW s \in Slot \ broken' PROVE WholeSlot(s)'
    <3>1. CASE op[c].write /\ s = op[c].slot
      <4>1. \A b \in Block : blocks[s][b] = op[c].packet \/ (b = AccessSize /\ s \in torn)
        BY <1>0, <2>4, <3>1 DEF IInv, StoredSoFar, OnCard, Block
      <4>2. 1 \in Block /\ AccessSize \in Block
        BY CardAssumption DEF Block
      <4>3. WholeSlot(s)
        <5>1. SUFFICES ASSUME NEW b \in Block, blocks[s][b] # blocks[s][1]
                       PROVE  s \in torn /\ b = AccessSize
          BY DEF WholeSlot
        <5>2. CASE blocks[s][b] # op[c].packet
          BY <4>1, <5>2
        <5>3. CASE blocks[s][b] = op[c].packet
          <6>1. blocks[s][1] # op[c].packet
            BY <5>1, <5>3
          <6>2. AccessSize = 1 /\ s \in torn
            BY <4>1, <4>2, <6>1
          <6>3. QED
            BY <6>2 DEF Block
        <5>4. QED
          BY <5>2, <5>3
      <4>4. QED
        BY <1>1, <4>3 DEF WholeSlot
    <3>2. CASE ~(op[c].write /\ s = op[c].slot)
      <4>1. s \in Slot \ broken
        BY <1>5, <2>7, <3>2
      <4>2. WholeSlot(s)
        BY <1>2, <3>2, <4>1 DEF IInv, Whole
      <4>3. QED
        BY <1>1, <4>2 DEF WholeSlot
    <3>3. QED
      BY <3>1, <3>2
  <2>8. QED
    BY <2>2, <2>3, <2>6, <2>7 DEF IInv, Whole
<1>6. QED
  BY <1>4, <1>5 DEF Wait

\* A call, of either context.
LEMMA CallInv ==
  ASSUME IInv, NEW c \in Ctx, NEW call \in Op, call.pc = "test", At(c, "idle"),
         op' = [op EXCEPT ![c] = call], UNCHANGED <<card, driver, disk, boot>>
  PROVE  IInv'
<1> USE DEF Holds, Storing
<1>0. op[c].pc = "idle" /\ Running(c)
  BY DEF At
<1>1. op' \in [Ctx -> Op] /\ op'[c].pc = "test" /\ \A d \in Ctx \ {c} : op'[d] = op[d]
  BY DEF IInv, CardTypeOK
<1>2. CardTypeOK' /\ BootIsAlone'
  BY <1>0, <1>1 DEF IInv, CardTypeOK, BootIsAlone, driver, disk, Running
<1>3. InUseWhileHeld' /\ OneHolds'
  BY <1>0, <1>1 DEF IInv, InUseWhileHeld, OneHolds, driver, Ctx
<1>4. BlocksLeft'
  BY <1>0, <1>1 DEF IInv, BlocksLeft, driver
<1>5. StoredSoFar' /\ Whole' /\ BufferHeld'
  <2>1. \A d \in Ctx : /\ Storing(d)' <=> Storing(d)
                       /\ Storing(d) => op'[d].slot = op[d].slot /\ op'[d].packet = op[d].packet
    BY <1>0, <1>1
  <2>2. UNCHANGED <<disk, awake, pos>>
    BY DEF card, driver
  <2>3. \A d \in Ctx : op'[d].pc = "block" \/ (op'[d].pc = "wait" /\ ~op'[d].write)
                       => buffer' = {}
    BY <1>1, <2>2 DEF IInv, BufferHeld, disk
  <2>4. QED
    BY <2>1, <2>2, <2>3, DiskKept DEF BufferHeld
<1>6. QED
  BY <1>2, <1>3, <1>4, <1>5 DEF IInv

LEMMA CallsInv == ASSUME IInv, Calls PROVE IInv'
<1>1. ASSUME NEW s \in Slot, NEW p \in Packet, Store(s, p)
      PROVE  IInv'
  <2>1. [NoOp EXCEPT !.pc = "test", !.write = TRUE, !.slot = s, !.packet = p] \in Op
    BY NoOpTyped DEF Op, OpPc
  <2>2. [NoOp EXCEPT !.pc = "test", !.write = TRUE, !.slot = s, !.packet = p].pc = "test"
    BY NoOpTyped DEF Op
  <2>3. QED
    BY <1>1, <2>1, <2>2, CallInv DEF Store, Ctx
<1>2. ASSUME NEW s \in Slot, Fetch(s)
      PROVE  IInv'
  <2>1. [NoOp EXCEPT !.pc = "test", !.slot = s] \in Op
    BY NoOpTyped DEF Op, OpPc
  <2>2. [NoOp EXCEPT !.pc = "test", !.slot = s].pc = "test"
    BY NoOpTyped DEF Op
  <2>3. QED
    BY <1>2, <2>1, <2>2, CallInv DEF Fetch, Ctx
<1>3. QED
  BY <1>1, <1>2 DEF Calls

\* While the program boots, there is no transfer it could disturb.
LEMMA BootingInv == ASSUME IInv, Booting PROVE IInv'
<1>1. UNCHANGED <<used, remaining, pos, disk, op>> /\ boot # "started"
  BY DEF Booting, BootCheck, BootInfo
<1>2. boot' \in Boot
  <2>1. CASE BootCheck
    BY <2>1 DEF BootCheck, Boot
  <2>2. CASE BootInfo
    BY <2>2 DEF BootInfo, Boot
  <2>3. QED
    BY <2>1, <2>2 DEF Booting
<1>3. CardTypeOK' /\ BootIsAlone'
  BY <1>1, <1>2 DEF IInv, CardTypeOK, BootIsAlone, disk
<1>4. InUseWhileHeld' /\ OneHolds' /\ BlocksLeft'
  BY <1>1 DEF IInv, InUseWhileHeld, OneHolds, BlocksLeft, Holds
<1>5. \A c \in Ctx : ~Storing(c) /\ ~Storing(c)' /\ op'[c].pc = "idle"
  BY <1>1 DEF IInv, BootIsAlone, Storing
<1>6. StoredSoFar' /\ BufferHeld'
  BY <1>1, <1>5 DEF IInv, StoredSoFar, BufferHeld, disk
<1>7. Whole'
  BY <1>1, <1>5 DEF IInv, Whole, WholeSlot, disk
<1>8. QED
  BY <1>3, <1>4, <1>6, <1>7 DEF IInv

LEMMA RestartInv == ASSUME IInv, Restart PROVE IInv'
<1> USE DEF Holds, Storing
<1>1. op' = [c \in Ctx |-> NoOp] /\ used' = FALSE /\ remaining' = 0 /\ pos' = 0
      /\ boot' = "check" /\ blocks' = blocks /\ buffer' = buffer /\ torn' = torn
      /\ broken' = broken \cup {op[c].slot : c \in {d \in Ctx : Storing(d)}}
  BY DEF Restart
<1>2. op' \in [Ctx -> Op] /\ \A c \in Ctx : op'[c].pc = "idle" /\ op'[c].write = FALSE
  BY <1>1, NoOpTyped
<1>3. CardTypeOK'
  <2>1. broken' \subseteq Slot
    BY <1>1 DEF IInv, CardTypeOK, Op
  <2>2. 0 \in 0 .. AccessSize
    BY CardAssumption
  <2>3. QED
    BY <1>1, <1>2, <2>1, <2>2 DEF IInv, CardTypeOK, Boot
<1>4. BootIsAlone' /\ InUseWhileHeld' /\ OneHolds'
  BY <1>1, <1>2 DEF BootIsAlone, InUseWhileHeld, OneHolds, Ctx
<1>5. BlocksLeft' /\ StoredSoFar'
  BY <1>1, <1>2 DEF BlocksLeft, StoredSoFar
<1>6. Whole'
  <2>1. \A s \in Slot \ broken' : s \notin broken /\ ~\E c \in Ctx : Storing(c) /\ op[c].slot = s
    BY <1>1
  <2>2. QED
    BY <1>1, <2>1 DEF IInv, Whole, WholeSlot
<1>7. BufferHeld'
  <2>1. ASSUME NEW x \in buffer PROVE x.slot \in broken'
    <3>1. CASE \E c \in Ctx : Storing(c)
      <4>1. PICK c \in Ctx : Storing(c)
        BY <3>1
      <4>2. x.slot = op[c].slot
        BY <4>1 DEF IInv, BufferHeld, LastSent
      <4>3. QED
        BY <1>1, <4>1, <4>2
    <3>2. CASE \A c \in Ctx : ~Storing(c)
      BY <1>1, <3>2 DEF IInv, BufferHeld
    <3>3. QED
      BY <3>1, <3>2
  <2>2. QED
    BY <1>1, <1>2, <2>1 DEF BufferHeld
<1>8. QED
  BY <1>3, <1>4, <1>5, <1>6, <1>7 DEF IInv

-----------------------------------------------------------------------------
(***************************************************************************)
(* The card: a block is programmed, or lost when the card is pulled.       *)
(***************************************************************************)
\* What it programs belongs to the store there is or to a slot that is broken.
LEMMA ProgramsWhat ==
  ASSUME IInv, NEW x \in buffer
  PROVE  /\ x.slot \in Slot /\ x.block \in Block /\ x.packet \in Packet \cup {Blank}
         /\ \A c \in Ctx : Storing(c) => x = LastSent(c)
         /\ x.slot \in broken \/ \E c \in Ctx : Storing(c) /\ op[c].slot = x.slot
         /\ \A y \in buffer : x.slot \in broken \/ y = x
<1>1. x \in [slot : Slot, block : Block, packet : Packet \cup {Blank}]
  BY DEF IInv, CardTypeOK
<1>2. \A c \in Ctx : Storing(c) => \A y \in buffer : y = LastSent(c)
  BY DEF IInv, BufferHeld
<1>3. CASE \E c \in Ctx : Storing(c)
  <2>1. PICK c \in Ctx : Storing(c)
    BY <1>3
  <2>2. x.slot = op[c].slot
    BY <1>2, <2>1 DEF LastSent
  <2>3. QED
    BY <1>1, <1>2, <2>1, <2>2
<1>4. CASE \A c \in Ctx : ~Storing(c)
  BY <1>1, <1>2, <1>4 DEF IInv, BufferHeld
<1>5. QED
  BY <1>3, <1>4

LEMMA ProgrammedBlocks ==
  ASSUME IInv, NEW x \in buffer
  PROVE  /\ Programmed(x) \in [Slot -> [Block -> Packet \cup {Blank}]]
         /\ \A s \in Slot : s # x.slot => Programmed(x)[s] = blocks[s]
         /\ \A b \in Block : Programmed(x)[x.slot][b]
                             = IF b = x.block THEN x.packet ELSE blocks[x.slot][b]
<1>1. x.slot \in Slot /\ x.block \in Block /\ x.packet \in Packet \cup {Blank}
  BY ProgramsWhat
<1>2. blocks \in [Slot -> [Block -> Packet \cup {Blank}]]
  BY DEF IInv, CardTypeOK
<1>3. QED
  BY <1>1, <1>2 DEF Programmed

\* The blocks after the card programmed one of its own, or none.
LEMMA CardInv ==
  ASSUME IInv, UNCHANGED <<used, remaining, pos, boot, op, broken>>,
         buffer' = {}, torn' \subseteq Slot, torn \subseteq torn',
         \/ \E x \in buffer : blocks' = Programmed(x)
         \/ /\ blocks' = blocks /\ ~awake'
            /\ \A x \in buffer : x.slot \in torn',
         ~awake => ~awake'
  PROVE  IInv'
<1> USE DEF Holds, Storing
<1>1. blocks' \in [Slot -> [Block -> Packet \cup {Blank}]]
  BY ProgrammedBlocks DEF IInv, CardTypeOK
<1>2. CardTypeOK' /\ BootIsAlone' /\ BufferHeld'
  BY <1>1 DEF IInv, CardTypeOK, BootIsAlone, BufferHeld
<1>3. InUseWhileHeld' /\ OneHolds' /\ BlocksLeft'
  BY DEF IInv, InUseWhileHeld, OneHolds, BlocksLeft
<1>4. StoredSoFar'
  <2>1. SUFFICES ASSUME NEW c \in Ctx, Storing(c), NEW b \in 1 .. pos
                 PROVE  OnCard(c, b)'
    BY DEF StoredSoFar
  <2>2. OnCard(c, b) /\ op[c].slot \in Slot /\ b \in Block
    <3>1. pos \in 0 .. AccessSize /\ op[c] \in Op
      BY DEF IInv, CardTypeOK
    <3>2. QED
      BY <2>1, <3>1, CardAssumption DEF IInv, StoredSoFar, Op, Block
  <2>3. \A x \in buffer : x = LastSent(c)
    BY <2>1, ProgramsWhat
  <2>4. CASE \E x \in buffer : blocks' = Programmed(x)
    <3>1. blocks' = Programmed(LastSent(c)) /\ LastSent(c) \in buffer
      BY <2>3, <2>4
    <3>2. blocks'[op[c].slot][b] = IF b = pos THEN op[c].packet ELSE blocks[op[c].slot][b]
      BY <2>2, <3>1, ProgrammedBlocks DEF LastSent
    <3>3. QED
      BY <2>2, <3>2 DEF OnCard
  <2>5. CASE blocks' = blocks /\ ~awake' /\ \A x \in buffer : x.slot \in torn'
    <3>1. LastSent(c) \in buffer => op[c].slot \in torn'
      BY <2>5 DEF LastSent
    <3>2. QED
      BY <2>2, <2>5, <3>1 DEF OnCard
  <2>6. QED
    BY <2>4, <2>5
<1>5. Whole'
  <2>1. ASSUME NEW s \in Slot \ broken, \A c \in Ctx : ~(Storing(c) /\ op[c].slot = s)
        PROVE  WholeSlot(s)'
    <3>1. WholeSlot(s)
      BY <2>1 DEF IInv, Whole
    <3>2. blocks'[s] = blocks[s]
      BY <2>1, ProgramsWhat, ProgrammedBlocks
    <3>3. QED
      BY <3>1, <3>2 DEF WholeSlot
  <2>2. QED
    BY <2>1 DEF Whole
<1>6. QED
  BY <1>2, <1>3, <1>4, <1>5 DEF IInv

LEMMA ProgramsInv == ASSUME IInv, Programs PROVE IInv'
<1>1. /\ UNCHANGED <<awake, used, remaining, pos, boot, op, broken, torn>>
      /\ buffer' = {} /\ \E x \in buffer : blocks' = Programmed(x)
  BY DEF Programs, card, driver
<1>2. torn \subseteq Slot
  BY DEF IInv, CardTypeOK
<1>3. QED
  BY <1>1, <1>2, CardInv

LEMMA ChangesInv == ASSUME IInv, Changes PROVE IInv'
<1>1. /\ UNCHANGED <<used, remaining, pos, boot, op, broken>>
      /\ buffer' = {} /\ awake' = FALSE
      /\ torn' = torn \cup {x.slot : x \in buffer}
      /\ blocks' \in {blocks} \cup {Programmed(x) : x \in buffer}
  BY DEF Changes, driver
<1>2. torn' \subseteq Slot
  BY <1>1, ProgramsWhat DEF IInv, CardTypeOK
<1>3. \A x \in buffer : x.slot \in torn'
  BY <1>1
<1>4. QED
  BY <1>1, <1>2, <1>3, CardInv

\* A step that changes nothing.
LEMMA StutterInv ==
  ASSUME IInv, UNCHANGED vars
  PROVE  IInv'
<1>1. UNCHANGED <<disk, awake, pos, used, remaining, op, boot>>
  BY DEF vars, disk
<1>2. CardTypeOK' /\ BootIsAlone'
  BY <1>1 DEF IInv, CardTypeOK, BootIsAlone, disk
<1>3. InUseWhileHeld' /\ OneHolds' /\ BlocksLeft'
  BY <1>1 DEF IInv, InUseWhileHeld, OneHolds, BlocksLeft, Holds
<1>4. StoredSoFar' /\ Whole' /\ BufferHeld'
  BY <1>1 DEF IInv, StoredSoFar, OnCard, LastSent, Whole, WholeSlot, BufferHeld,
     Storing, disk
<1>5. QED
  BY <1>2, <1>3, <1>4 DEF IInv

THEOREM Invariance == Spec => []IInv
<1>1. IInv /\ [Next]_vars => IInv'
  <2> SUFFICES ASSUME IInv, [Next]_vars PROVE IInv'
    OBVIOUS
  <2>1. CASE Booting
    BY <2>1, BootingInv
  <2>2. ASSUME NEW c \in Ctx, Transfer(c) PROVE IInv'
    BY <2>2, TestInv, TakeInv, StatusInv, CommandInv, WriteBlockInv, ReadBlockInv,
       BusyWaitInv, WaitInv DEF Transfer
  <2>3. CASE Calls
    BY <2>3, CallsInv
  <2>4. CASE Programs \/ Changes
    BY <2>4, ProgramsInv, ChangesInv
  <2>5. CASE Restart
    BY <2>5, RestartInv
  <2>6. CASE UNCHANGED vars
    BY <2>6, StutterInv DEF vars, disk
  <2>7. QED
    BY <2>1, <2>2, <2>3, <2>4, <2>5, <2>6 DEF Next
<1>2. QED
  BY InitInv, <1>1, PTL DEF Spec

\* The driver, the card and the transfers keep their types.
THEOREM Types == Spec => []CardTypeOK
<1>1. IInv => CardTypeOK
  BY DEF IInv
<1>2. QED
  BY Invariance, <1>1, PTL

-----------------------------------------------------------------------------
\* The card is marked in use exactly while a transfer holds it.
THEOREM InUse == Spec => []InUseWhileHeld
<1>1. IInv => InUseWhileHeld
  BY DEF IInv
<1>2. QED
  BY Invariance, <1>1, PTL

\* The assertions of the driver hold.
THEOREM Asserts == Spec => []DriverAsserts
<1>1. IInv => DriverAsserts
  <2> SUFFICES ASSUME IInv, NEW c \in Ctx
               PROVE  /\ At(c, "take") => remaining = 0
                      /\ At(c, "block") => remaining = AccessSize /\ pos < AccessSize
    BY DEF DriverAsserts
  <2>1. ASSUME At(c, "take") PROVE remaining = 0
    <3>1. \A d \in Ctx : op[d].pc \notin {"block", "busy"}
      BY <2>1, Alone DEF At
    <3>2. QED
      BY <3>1 DEF IInv, BlocksLeft
  <2>2. QED
    BY <2>1 DEF IInv, BlocksLeft, At
<1>2. QED
  BY Invariance, <1>1, PTL

\* A packet is on the card in one piece, or its store failed or was cut off; but
\* for the last block, if the card was pulled while it programmed it.
THEOREM WholePackets == Spec => []WholeUnlessFailed
<1>1. IInv => WholeUnlessFailed
  BY DEF IInv, Whole, WholeSlot, WholeUnlessFailed, Storing, Holds
<1>2. QED
  BY Invariance, <1>1, PTL

-----------------------------------------------------------------------------
(***************************************************************************)
(* A read returns its slot as it is.                                       *)
(***************************************************************************)
\* The main loop only reads, and what it has got so far is what its slot holds.
GotSoFar ==
  /\ ~op["main"].write
  /\ op["main"].pc \in {"test", "take", "status", "command"} => op["main"].got = <<>>
  /\ op["main"].pc \in {"block", "wait"} =>
       /\ Len(op["main"].got) = pos
       /\ \A b \in 1 .. pos : op["main"].got[b] = blocks[op["main"].slot][b]

\* A step that moves or ends a call leaves alone what it has got.
GotKept(c) == op'[c].got = op[c].got

LEMMA MovesKeep ==
  ASSUME CardTypeOK, NEW c \in Ctx,
         \/ \E q \in OpPc : Goto(c, q)
         \/ \E r \in {"none", "ok", "failed", "refused"} : Ends(c, r)
         \/ Fails(c)
  PROVE  GotKept(c)
BY DEF CardTypeOK, Op, Goto, Ends, Fails, GotKept

\* A step of one context leaves the call of the other as it is.
LEMMA OtherCall ==
  ASSUME CardTypeOK, NEW c \in Ctx, Transfer(c), NEW d \in Ctx \ {c}
  PROVE  op'[d] = op[d]
<1>1. CASE Test(c) \/ Take(c) \/ Status(c) \/ Command(c)
  BY <1>1 DEF CardTypeOK, Test, Take, Status, Command, Goto, Fails, Ends
<1>2. CASE WriteBlock(c)
  BY <1>2 DEF CardTypeOK, WriteBlock, Goto, Fails, Ends
<1>3. CASE ReadBlock(c)
  BY <1>3 DEF CardTypeOK, ReadBlock, Fails, Ends
<1>4. CASE BusyWait(c) \/ Wait(c)
  BY <1>4 DEF CardTypeOK, BusyWait, Wait, Goto, Fails, Ends
<1>5. QED
  BY <1>1, <1>2, <1>3, <1>4 DEF Transfer

\* The interrupt: while the main loop holds the card it only finds it busy.
LEMMA GotInterrupted ==
  ASSUME IInv, GotSoFar, Transfer("isr")
  PROVE  GotSoFar'
<1>1. op'["main"] = op["main"]
  BY OtherCall DEF IInv, Ctx
<1>2. CASE op["main"].pc \in {"block", "wait"}
  <2>1. op["isr"].pc \in {"idle", "test"}
    BY <1>2 DEF IInv, OneHolds, Holds
  <2>2. Test("isr")
    BY <2>1 DEF Transfer, Take, Status, Command, WriteBlock, BusyWait, ReadBlock, Wait, At
  <2>3. UNCHANGED <<pos, blocks>>
    BY <2>2 DEF Test, driver, disk
  <2>4. QED
    BY <1>1, <2>3 DEF GotSoFar
<1>3. CASE op["main"].pc \notin {"block", "wait"}
  BY <1>1, <1>3 DEF GotSoFar
<1>4. QED
  BY <1>2, <1>3

\* The next block of the slot is appended.
LEMMA GotBlock ==
  ASSUME IInv, GotSoFar, ReadBlock("main")
  PROVE  GotSoFar'
<1> DEFINE m == op["main"]
<1>1. m \in Op /\ m.pc = "block" /\ pos \in 0 .. AccessSize - 1 /\ "main" \in Ctx
  BY CardAssumption DEF IInv, CardTypeOK, ReadBlock, At, Ctx
<1>2. m.got \in Seq(Packet \cup {Blank}) /\ Len(m.got) = pos
      /\ \A b \in 1 .. pos : m.got[b] = blocks[m.slot][b]
  BY <1>1 DEF Op, GotSoFar
<1>3. blocks[m.slot][pos + 1] \in Packet \cup {Blank}
  BY <1>1, CardAssumption DEF IInv, CardTypeOK, Op, Block
<1>4. PICK token \in Answers :
        IF token
        THEN /\ pos' = pos + 1
             /\ op' = [op EXCEPT
                         !["main"].got = Append(@, blocks[m.slot][pos']),
                         !["main"].pc = IF pos' < AccessSize THEN "block" ELSE "wait"]
        ELSE Fails("main")
  BY DEF ReadBlock
<1>5. blocks' = blocks
  BY DEF ReadBlock, disk
<1>6. CASE ~token
  <2>1. op'["main"].pc = "idle" /\ op'["main"].write = m.write
    BY <1>1, <1>4, <1>6, FailsStep DEF IInv, SameCall
  <2>2. QED
    BY <2>1 DEF GotSoFar
<1>7. CASE token
  <2> DEFINE g == Append(m.got, blocks[m.slot][pos + 1])
  <2>1. /\ Len(g) = pos + 1 /\ g[pos + 1] = blocks[m.slot][pos + 1]
        /\ \A b \in 1 .. pos : g[b] = m.got[b]
    BY <1>1, <1>2, <1>3
  <2>2. /\ op'["main"].got = g /\ op'["main"].slot = m.slot
        /\ op'["main"].write = m.write
        /\ op'["main"].pc \in {"block", "wait"}
    BY <1>1, <1>4, <1>7 DEF IInv, CardTypeOK, Op
  <2>3. \A b \in 1 .. pos + 1 : g[b] = blocks[m.slot][b]
    BY <1>1, <1>2, <2>1
  <2>4. QED
    BY <1>4, <1>5, <1>7, <2>1, <2>2, <2>3 DEF GotSoFar
<1>8. QED
  BY <1>6, <1>7

LEMMA GotByMain ==
  ASSUME IInv, GotSoFar, Transfer("main")
  PROVE  GotSoFar'
<1>0. "main" \in Ctx /\ CardTypeOK
  BY DEF IInv, Ctx
<1>1. CASE Test("main")
  <2>1. SameCall("main") /\ GotKept("main") /\ op'["main"].pc \in {"idle", "take"}
    BY <1>0, <1>1, GotoStep, EndsStep, MovesKeep DEF Test, OpPc
  <2>2. QED
    BY <1>1, <2>1 DEF GotSoFar, SameCall, GotKept, Test, At
<1>2. CASE Take("main")
  <2>1. SameCall("main") /\ GotKept("main")
        /\ op'["main"].pc \in {"idle", "command", "status"}
    BY <1>0, <1>2, GotoStep, FailsStep, MovesKeep DEF Take, OpPc
  <2>2. QED
    BY <1>2, <2>1 DEF GotSoFar, SameCall, GotKept, Take, At
<1>3. CASE Status("main")
  <2>1. SameCall("main") /\ GotKept("main") /\ op'["main"].pc \in {"idle", "command"}
    BY <1>0, <1>3, GotoStep, FailsStep, MovesKeep DEF Status, OpPc
  <2>2. QED
    BY <1>3, <2>1 DEF GotSoFar, SameCall, GotKept, Status, At
<1>4. CASE Command("main")
  <2>1. /\ SameCall("main") /\ GotKept("main")
        /\ op'["main"].pc = "idle" \/ (op'["main"].pc = "block" /\ pos' = 0)
    BY <1>0, <1>4, GotoStep, FailsStep, MovesKeep DEF Command, OpPc
  <2>2. op["main"].got = <<>>
    BY <1>4 DEF GotSoFar, Command, At
  <2>3. QED
    BY <2>1, <2>2 DEF GotSoFar, SameCall, GotKept
<1>5. CASE WriteBlock("main")
  BY <1>5 DEF GotSoFar, WriteBlock
<1>6. CASE ReadBlock("main")
  BY <1>6, GotBlock
<1>7. CASE Wait("main")
  <2>1. SameCall("main") /\ op'["main"].pc = "idle"
    BY <1>0, <1>7, EndsStep, FailsStep DEF Wait
  <2>2. QED
    BY <2>1 DEF GotSoFar, SameCall
<1>8. ~BusyWait("main")
  BY DEF GotSoFar, BusyWait, At, IInv, BlocksLeft, Ctx
<1>9. QED
  BY <1>1, <1>2, <1>3, <1>4, <1>5, <1>6, <1>7, <1>8 DEF Transfer

LEMMA GotByOthers ==
  ASSUME IInv, GotSoFar,
         Booting \/ Calls \/ Programs \/ Changes \/ Restart \/ UNCHANGED vars
  PROVE  GotSoFar'
<1>0. NoOp.got = <<>> /\ "main" \in Ctx /\ "isr" \in Ctx
  BY DEF NoOp, Ctx
<1>1. CASE Booting \/ Programs \/ Changes \/ UNCHANGED vars
  <2>1. UNCHANGED <<op, pos>> /\ (buffer = {} => blocks' = blocks)
    BY <1>1 DEF Booting, BootCheck, BootInfo, Programs, Changes, vars, driver, disk
  <2>2. op["main"].pc \in {"block", "wait"} => buffer = {}
    BY <1>0 DEF IInv, BufferHeld, GotSoFar
  <2>3. QED
    BY <2>1, <2>2 DEF GotSoFar
<1>2. CASE Restart
  BY <1>0, <1>2, NoOpTyped DEF Restart, GotSoFar
<1>3. ASSUME NEW s \in Slot, NEW p \in Packet, Store(s, p) PROVE GotSoFar'
  <2>1. op'["main"] = op["main"] /\ UNCHANGED <<pos, blocks>>
    BY <1>0, <1>3 DEF IInv, CardTypeOK, Store, driver, disk
  <2>2. QED
    BY <2>1 DEF GotSoFar
<1>4. ASSUME NEW s \in Slot, Fetch(s) PROVE GotSoFar'
  <2>1. op'["main"] = [NoOp EXCEPT !.pc = "test", !.slot = s]
    BY <1>0, <1>4 DEF IInv, CardTypeOK, Fetch
  <2>2. op'["main"].pc = "test" /\ op'["main"].got = <<>> /\ ~op'["main"].write
    BY <1>0, <2>1, NoOpTyped DEF NoOp
  <2>3. QED
    BY <2>2 DEF GotSoFar
<1>5. QED
  BY <1>1, <1>2, <1>3, <1>4 DEF Calls

LEMMA GotInvariance == Spec => []GotSoFar
<1>1. Init => GotSoFar
  BY NoOpTyped DEF Init, GotSoFar, Ctx
<1>2. IInv /\ GotSoFar /\ [Next]_vars => GotSoFar'
  BY GotInterrupted, GotByMain, GotByOthers DEF Next, Ctx
<1>3. QED
  BY <1>1, <1>2, Invariance, PTL DEF Spec

\* A read that is reported as done returned the blocks of its slot, all of one
\* moment, although a store may preempt it anywhere (hal_sd_mmc.c:156-177).
THEOREM ReadsWhole == Spec => ReadInOnePiece
<1>1. IInv /\ GotSoFar /\ [Next]_vars
      => (op["main"].result = "none" /\ op'["main"].result = "ok"
            => op["main"].got = blocks[op["main"].slot])
  <2> SUFFICES ASSUME IInv, GotSoFar, [Next]_vars,
                      op["main"].result = "none", op'["main"].result = "ok"
               PROVE  op["main"].got = blocks[op["main"].slot]
    OBVIOUS
  <2>0. CardTypeOK /\ "main" \in Ctx /\ "isr" \in Ctx /\ op["main"] \in Op
    BY DEF IInv, CardTypeOK, Ctx
  <2>1. Wait("main")
    <3>1. op'["main"] # op["main"]
      OBVIOUS
    <3>2. CASE Booting \/ Programs \/ Changes \/ UNCHANGED vars
      BY <3>1, <3>2 DEF Booting, BootCheck, BootInfo, Programs, Changes, vars
    <3>3. CASE Restart
      BY <3>3, <2>0 DEF Restart, NoOp
    <3>4. CASE Calls
      BY <3>4, <2>0 DEF CardTypeOK, Calls, Store, Fetch, NoOp
    <3>5. CASE Transfer("isr")
      BY <3>1, <3>5, <2>0, OtherCall
    <3>6. CASE Transfer("main")
      <4>1. CASE Test("main") \/ Take("main") \/ Status("main") \/ Command("main")
        BY <4>1, <2>0 DEF CardTypeOK, Op, Test, Take, Status, Command, Goto, Fails, Ends
      <4>2. ~WriteBlock("main")
        BY DEF GotSoFar, WriteBlock
      <4>5. ~BusyWait("main")
        BY <2>0 DEF GotSoFar, BusyWait, At, IInv, BlocksLeft
      <4>3. CASE ReadBlock("main")
        BY <4>3, <2>0 DEF CardTypeOK, Op, ReadBlock, Fails, Ends
      <4>4. QED
        BY <3>6, <4>1, <4>2, <4>3, <4>5 DEF Transfer
    <3>7. QED
      BY <3>2, <3>3, <3>4, <3>5, <3>6 DEF Next, Ctx
  <2>2. op["main"].pc = "wait" /\ pos = AccessSize
    BY <2>0, <2>1 DEF Wait, At, IInv, BlocksLeft
  <2>3. Len(op["main"].got) = AccessSize
        /\ \A b \in Block : op["main"].got[b] = blocks[op["main"].slot][b]
    BY <2>2 DEF GotSoFar, Block
  <2>4. blocks[op["main"].slot] \in [Block -> Packet \cup {Blank}]
        /\ op["main"].got \in Seq(Packet \cup {Blank})
    BY <2>0 DEF CardTypeOK, Op
  <2>5. op["main"].got = [b \in Block |-> op["main"].got[b]]
    BY <2>3, <2>4 DEF Block
  <2>6. blocks[op["main"].slot] = [b \in Block |-> blocks[op["main"].slot][b]]
    BY <2>4
  <2>7. QED
    BY <2>3, <2>5, <2>6
<1>2. QED
  BY <1>1, Invariance, GotInvariance, PTL DEF Spec, ReadInOnePiece
=============================================================================
