---------------------------- MODULE FramingProofs ----------------------------
(***************************************************************************)
(* For every size of byte, header and buffer: no byte is stored past the   *)
(* end of socat_buf, whatever the line loses; bytes lost from the data of  *)
(* a packet cost no other packet, and a packet longer than its low length  *)
(* byte can say comes in cut off.                                          *)
(***************************************************************************)
EXTENDS Framing, SequenceTheorems, TLAPS

\* A header is cut off at its length; behind it the buffer grows up to the
\* length the header reports, by a byte at least.
Growth ==
  /\ state = "idle" => Len(buf) = 0
  /\ state = "header" => Len(buf) < HeaderLen
  /\ state = "data" => Len(buf) = HeaderLen \/ Len(buf) < plen

IInv == FramingTypeOK /\ Growth

-----------------------------------------------------------------------------
\* The sizes.
LEMMA Sizes ==
  /\ Width \in Nat \ {0} /\ HeaderLen \in Nat /\ BufSize \in Nat
  /\ HeaderLen >= 4 /\ BufSize > HeaderLen /\ BufSize > 2 * (Width - 1)
BY FramingAssumption

LEMMA Bytes == Start \in Byte /\ 0 \in Byte /\ Preamble \in Seq(Byte) /\ Filling \subseteq Byte
<1>1. Start \in Byte /\ 0 \in Byte /\ Filling \subseteq Byte
  BY FramingAssumption DEF Byte
<1>2. (0 .. Width - 1) \ {Start} \subseteq Byte
  BY DEF Byte
<1>3. Preamble \in Seq(Byte)
  BY <1>2, FramingAssumption
<1>4. QED
  BY <1>1, <1>3

LEMMA PacketTyped == ASSUME NEW p \in Packet PROVE p \in Seq(Byte)
<1>0. PICK n \in Length : p \in {PacketOf(n, d) : d \in [1 .. n - HeaderLen -> Filling]}
  BY DEF Packet
<1>1. PICK d \in [1 .. n - HeaderLen -> Filling] : p = PacketOf(n, d)
  BY <1>0
<1>2. n \in Nat /\ n > HeaderLen /\ n \div Width \in Byte /\ n % Width \in Byte
  BY FramingAssumption DEF Byte
<1>3. <<Start, 0, n \div Width, n % Width>> \in Seq(Byte)
  BY <1>2, Bytes
<1>4. [i \in 1 .. HeaderLen - 4 |-> 0] \in Seq(Byte)
  <2>1. HeaderLen - 4 \in Nat
    BY FramingAssumption
  <2>2. QED
    BY <2>1, Bytes, IsASeq
<1>5. d \in Seq(Byte)
  <2>1. n - HeaderLen \in Nat
    BY <1>2, FramingAssumption
  <2>2. \A i \in 1 .. n - HeaderLen : d[i] \in Byte
    BY Bytes
  <2>3. d = [i \in 1 .. n - HeaderLen |-> d[i]]
    OBVIOUS
  <2>4. QED
    BY <2>1, <2>2, <2>3, IsASeq
<1>6. QED
  BY <1>1, <1>3, <1>4, <1>5, ConcatProperties DEF PacketOf

LEMMA FramedTyped ==
  ASSUME NEW p \in Packet, NEW id \in Nat PROVE Framed(p, id) \in Seq(Item)
<1>1. Preamble \o p \in Seq(Byte)
  BY PacketTyped, Bytes, ConcatProperties
<1> DEFINE bytes == Preamble \o p
           item(i) == [byte |-> bytes[i], id |-> id, data |-> i > Len(Preamble) + HeaderLen]
<1>2. Len(bytes) \in Nat /\ \A i \in 1 .. Len(bytes) : bytes[i] \in Byte
  BY <1>1
<1>3. \A i \in 1 .. Len(bytes) : item(i) \in Item
  BY <1>2 DEF Item
<1>4. Framed(p, id) = [i \in 1 .. Len(bytes) |-> item(i)]
  BY DEF Framed
<1> HIDE DEF bytes, item
<1>5. QED
  BY <1>2, <1>3, <1>4, IsASeq

-----------------------------------------------------------------------------
LEMMA InitInv == Init => IInv
BY Sizes DEF Init, IInv, FramingTypeOK, Growth

\* The sum of two bytes fits into the buffer; so does a header.
LEMMA LengthBound ==
  ASSUME NEW b \in Seq(Byte), Len(b) >= 4
  PROVE  PacketLength(b) \in 0 .. 2 * (Width - 1)
BY Sizes DEF PacketLength, Byte

LEMMA PollInv == ASSUME IInv, PollByte PROVE IInv'
<1> DEFINE c == Head(wire).byte
<1>1. wire # <<>> /\ wire' = Tail(wire) /\ sent' = sent /\ (Skipped(c) \/ HeaderByte(c) \/ DataByte(c))
  BY DEF PollByte
<1>2. c \in Byte /\ wire' \in Seq(Item) /\ sent' \in Seq(Packet)
  <2>1. Head(wire) \in Item /\ Tail(wire) \in Seq(Item)
    BY <1>1, HeadTailProperties DEF IInv, FramingTypeOK
  <2>2. QED
    BY <1>1, <2>1 DEF Item, IInv, FramingTypeOK
<1> HIDE DEF c
<1>3. Append(buf, c) \in Seq(Byte) /\ Len(Append(buf, c)) = Len(buf) + 1 /\ Len(buf) \in Nat
  BY <1>2, AppendProperties DEF IInv, FramingTypeOK
<1>4. CASE Skipped(c)
  <2>1. state = "idle" /\ Len(buf) = 0 /\ plen' = plen
    BY <1>4 DEF Skipped, IInv, FramingTypeOK, Growth
  <2>2. CASE StartsPacket(c)
    <3>1. state' = "header" /\ buf' = Append(buf, c)
      BY <1>4, <2>2 DEF Skipped
    <3>2. buf' \in Seq(Byte) /\ Len(buf') < HeaderLen
      BY <1>3, <2>1, <3>1, Sizes
    <3>3. QED
      BY <1>2, <2>1, <3>1, <3>2 DEF IInv, FramingTypeOK, Growth
  <2>3. CASE ~StartsPacket(c)
    BY <1>2, <1>4, <2>1, <2>3 DEF Skipped, IInv, FramingTypeOK, Growth
  <2>4. QED
    BY <2>2, <2>3
<1>5. CASE HeaderByte(c)
  <2>1. CASE Overflow
    BY <1>2, <1>5, <2>1 DEF HeaderByte, LostPacket, IInv, FramingTypeOK, Growth
  <2>2. CASE ~Overflow /\ Len(buf) + 1 = HeaderLen
    <3>1. PacketLength(Append(buf, c)) \in 0 .. 2 * (Width - 1)
      BY <1>3, <2>2, LengthBound, Sizes
    <3>2. QED
      BY <1>2, <1>3, <1>5, <2>2, <3>1 DEF HeaderByte, IInv, FramingTypeOK, Growth
  <2>3. CASE ~Overflow /\ Len(buf) + 1 # HeaderLen
    <3>1. state = "header" /\ state' = state /\ plen' = plen /\ buf' = Append(buf, c)
      BY <1>3, <1>5, <2>3 DEF HeaderByte
    <3>2. Len(buf') < HeaderLen
      BY <1>3, <2>3, <3>1, Sizes DEF IInv, FramingTypeOK, Growth
    <3>3. QED
      BY <1>2, <1>3, <3>1, <3>2 DEF IInv, FramingTypeOK, Growth
  <2>4. QED
    BY <2>1, <2>2, <2>3
<1>6. CASE DataByte(c)
  <2>1. CASE Overflow
    BY <1>2, <1>6, <2>1 DEF DataByte, LostPacket, IInv, FramingTypeOK, Growth
  <2>2. CASE ~Overflow
    <3>1. state = "data" /\ plen' = plen
      BY <1>6, <2>2 DEF DataByte
    <3>2. CASE Len(buf) + 1 >= plen
      <4>1. state' = "idle" /\ buf' = <<>>
        BY <1>6, <2>2, <3>2 DEF DataByte, NextState
      <4>2. QED
        BY <1>2, <3>1, <4>1 DEF IInv, FramingTypeOK, Growth
    <3>3. CASE ~(Len(buf) + 1 >= plen)
      <4>1. state' = state /\ buf' = Append(buf, c)
        BY <1>6, <2>2, <3>3 DEF DataByte
      <4>2. plen \in Int /\ Len(buf') < plen
        BY <1>3, <3>3, <4>1, Sizes DEF IInv, FramingTypeOK
      <4>3. QED
        BY <1>2, <1>3, <3>1, <4>1, <4>2 DEF IInv, FramingTypeOK, Growth
    <3>4. QED
      BY <3>2, <3>3
  <2>3. QED
    BY <2>1, <2>2
<1>7. QED
  BY <1>1, <1>4, <1>5, <1>6

LEMMA SendInv == ASSUME IInv, NEW p \in Packet, Send(p) PROVE IInv'
<1>1. UNCHANGED <<state, buf, plen>> /\ sent' = Append(sent, p)
      /\ wire' = Framed(p, Len(sent'))
  BY DEF Send
<1>2. sent' \in Seq(Packet) /\ Len(sent') \in Nat
  BY <1>1, AppendProperties DEF IInv, FramingTypeOK
<1>3. QED
  BY <1>1, <1>2, FramedTyped DEF IInv, FramingTypeOK, Growth

LEMMA LoseInv == ASSUME IInv, Lose PROVE IInv'
<1>1. wire # <<>> /\ wire' = Tail(wire) /\ UNCHANGED <<sent, state, buf, plen>>
  BY DEF Lose
<1>2. wire' \in Seq(Item)
  BY <1>1, HeadTailProperties DEF IInv, FramingTypeOK
<1>3. QED
  BY <1>1, <1>2 DEF IInv, FramingTypeOK, Growth

LEMMA NextInv == IInv /\ [Next]_vars => IInv'
<1> SUFFICES ASSUME IInv, [Next]_vars PROVE IInv'
  OBVIOUS
<1>1. ASSUME NEW p \in Packet, Send(p) PROVE IInv'
  BY <1>1, SendInv
<1>2. CASE Lose
  BY <1>2, LoseInv
<1>3. CASE PollByte
  BY <1>3, PollInv
<1>4. CASE UNCHANGED vars
  BY <1>4 DEF vars, IInv, FramingTypeOK, Growth
<1>5. QED
  BY <1>1, <1>2, <1>3, <1>4 DEF Next

-----------------------------------------------------------------------------
\* The line, the packets and the receiver keep their types; the length is never
\* more than two bytes add up to.
THEOREM Types == Spec => []FramingTypeOK
<1>1. IInv => FramingTypeOK
  BY DEF IInv
<1>2. QED
  BY InitInv, NextInv, <1>1, PTL DEF Spec

\* No byte is stored past the end of the buffer, although the test for it
\* comes too late: the sum of two bytes is less than the buffer holds.
THEOREM BufferBound == Spec => []WithinBuffer
<1>1. IInv => WithinBuffer
  BY Sizes DEF IInv, FramingTypeOK, Growth, WithinBuffer
<1>2. QED
  BY InitInv, NextInv, <1>1, PTL DEF Spec

-----------------------------------------------------------------------------
(***************************************************************************)
(* While losses are bearable: where the receiver is, with what is left of  *)
(* the packet on the line.                                                 *)
(***************************************************************************)
Count == Len(sent)
Now   == sent[Count]

\* How many bytes of the framed packet have left the line.
Gone == Len(Preamble) + Len(Now) - Len(wire)

\* On the line is the end of the last packet.
Line ==
  Count > 0 =>
    /\ Gone >= 0
    /\ \A i \in 1 .. Len(wire) : wire[i] = Framed(Now, Count)[Gone + i]

\* The packets of which something is said.
Sound(i) == ShortBefore(i) /\ harm[i] = 0

Recorded ==
  /\ harm \in Seq(Nat) /\ Len(harm) = Count
  /\ taken \in Seq(Seq(Byte))
  /\ \A i \in 1 .. Count : Sound(i) /\ i <= Len(taken) => taken[i] = Arrives(sent[i])
  /\ \A i \in 1 .. Count - 1 : Sound(i) => i <= Len(taken)

\* The receiver has been given a packet it ends too early.
OutOfStep ==
  \E j \in 1 .. Count : Len(sent[j]) >= Width /\ (j < Count \/ j <= Len(taken))

\* The packet before still lacks what it lost, less what it got of this one.
MakingUp ==
  /\ state = "data" /\ Count > 1
  /\ harm[Count] = 0 /\ Len(taken) = Count - 2
  /\ plen = Len(sent[Count - 1])
  /\ Gone < harm[Count - 1] /\ Len(buf) + harm[Count - 1] = plen + Gone

Between ==
  /\ state = "idle"
  /\ harm[Count] = 0 /\ Len(taken) = Count - 1
  /\ Gone <= Len(Preamble)

InHeader ==
  /\ state = "header"
  /\ harm[Count] = 0 /\ Len(taken) = Count - 1
  /\ Gone < Len(Preamble) + HeaderLen
  /\ Len(buf) > 0 /\ Len(buf) = Gone - Len(Preamble)
  /\ \A i \in 1 .. Len(buf) : buf[i] = Now[i]

InData ==
  /\ state = "data"
  /\ Len(taken) = Count - 1
  /\ plen = Now[3] + Now[4]
  /\ Len(buf) >= HeaderLen /\ (Len(buf) = HeaderLen \/ Len(buf) < plen)
  /\ Len(buf) + harm[Count] = Gone - Len(Preamble)
  /\ harm[Count] = 0 => \A i \in 1 .. Len(buf) : buf[i] = Now[i]

Done == state = "idle" /\ wire = <<>> /\ harm[Count] = 0 /\ Len(taken) = Count

Nothing == state = "idle" /\ wire = <<>> /\ taken = <<>>

Progress == IF Count = 0 THEN Nothing
                         ELSE \/ MakingUp \/ Between \/ InHeader \/ InData \/ Done
                              \/ OutOfStep

Local == Line /\ Recorded /\ Progress

LocalInv == Bearable => Local

LEMMA Joined ==
  ASSUME NEW a \in Seq(Byte), NEW b \in Seq(Byte)
  PROVE  /\ a \o b \in Seq(Byte) /\ Len(a \o b) = Len(a) + Len(b)
         /\ \A i \in 1 .. Len(a) : (a \o b)[i] = a[i]
<1>1. a \o b \in Seq(Byte) /\ Len(a \o b) = Len(a) + Len(b)
  BY ConcatProperties
<1>2. \A i \in 1 .. Len(a) + Len(b) :
        (a \o b)[i] = IF i <= Len(a) THEN a[i] ELSE b[i - Len(a)]
  BY ConcatProperties
<1>3. Len(a) \in Nat /\ Len(b) \in Nat
  OBVIOUS
<1>4. QED
  BY <1>1, <1>2, <1>3

LEMMA JoinedTwice ==
  ASSUME NEW a \in Seq(Byte), NEW b \in Seq(Byte), NEW c \in Seq(Byte)
  PROVE  /\ a \o b \o c \in Seq(Byte) /\ Len(a \o b \o c) = Len(a) + Len(b) + Len(c)
         /\ \A i \in 1 .. Len(a) : (a \o b \o c)[i] = a[i]
<1>1. /\ a \o b \in Seq(Byte) /\ Len(a \o b) = Len(a) + Len(b)
      /\ \A i \in 1 .. Len(a) : (a \o b)[i] = a[i]
  BY Joined
<1>2. PICK ab \in Seq(Byte) : ab = a \o b
  BY <1>1
<1>3. /\ ab \o c \in Seq(Byte) /\ Len(ab \o c) = Len(ab) + Len(c)
      /\ \A i \in 1 .. Len(ab) : (ab \o c)[i] = ab[i]
  BY Joined
<1>4. Len(a) \in Nat /\ Len(b) \in Nat
  OBVIOUS
<1>5. QED
  BY <1>1, <1>2, <1>3, <1>4

LEMMA PacketParts ==
  ASSUME NEW p \in Packet
  PROVE  /\ p \in Seq(Byte) /\ Len(p) \in Nat /\ Len(p) > HeaderLen
         /\ p[1] = Start /\ p[3] \in Nat /\ p[4] \in Nat
         /\ p[3] + p[4] <= Len(p)
         /\ Len(p) < Width => p[3] + p[4] = Len(p)
<1>0. PICK n \in Length : p \in {PacketOf(n, d) : d \in [1 .. n - HeaderLen -> Filling]}
  BY DEF Packet
<1>1. PICK d \in [1 .. n - HeaderLen -> Filling] : p = PacketOf(n, d)
  BY <1>0
<1>2. n \in Nat /\ n > HeaderLen /\ n \div Width \in Byte /\ n % Width \in Byte
  BY FramingAssumption DEF Byte
<1> DEFINE front == <<Start, 0, n \div Width, n % Width>>
           zeros == [i \in 1 .. HeaderLen - 4 |-> 0]
<1>3. front \in Seq(Byte) /\ Len(front) = 4
  BY <1>2, Bytes
<1>4. zeros \in Seq(Byte) /\ Len(zeros) = HeaderLen - 4
  <2>1. HeaderLen - 4 \in Nat
    BY FramingAssumption
  <2>2. zeros \in Seq(Byte)
    BY <2>1, Bytes, IsASeq
  <2>3. QED
    BY <2>1, <2>2
<1>5. d \in Seq(Byte) /\ Len(d) = n - HeaderLen
  <2>1. n - HeaderLen \in Nat
    BY <1>2, FramingAssumption
  <2>2. \A i \in 1 .. n - HeaderLen : d[i] \in Byte
    BY Bytes
  <2>3. d = [i \in 1 .. n - HeaderLen |-> d[i]]
    OBVIOUS
  <2>4. d \in Seq(Byte)
    BY <2>1, <2>2, <2>3, IsASeq
  <2>5. QED
    BY <2>1, <2>4
<1>6. front[1] = Start /\ front[3] = n \div Width /\ front[4] = n % Width
  OBVIOUS
<1>7. p = (front \o zeros) \o d
  BY <1>1 DEF PacketOf
<1> HIDE DEF front, zeros
<1>8. HeaderLen \in Nat /\ HeaderLen >= 4
  BY Sizes
<1>9. /\ p \in Seq(Byte) /\ Len(p) = n
      /\ \A i \in 1 .. 4 : p[i] = front[i]
  <2>1. /\ p \in Seq(Byte) /\ Len(p) = Len(front) + Len(zeros) + Len(d)
        /\ \A i \in 1 .. Len(front) : p[i] = front[i]
    <3>1. /\ front \o zeros \o d \in Seq(Byte)
          /\ Len(front \o zeros \o d) = Len(front) + Len(zeros) + Len(d)
          /\ \A i \in 1 .. Len(front) : (front \o zeros \o d)[i] = front[i]
      BY <1>3, <1>4, <1>5, JoinedTwice, Zenon
    <3>2. QED
      BY <1>7, <3>1, Zenon
  <2>2. QED
    BY <1>2, <1>3, <1>4, <1>5, <1>8, <2>1
<1>10. n < Width => n \div Width = 0 /\ n % Width = n
  BY <1>2, Sizes
<1>11. n \div Width \in Nat /\ n % Width \in Nat /\ (n \div Width) + (n % Width) <= n
  <2> DEFINE high == n \div Width
             low  == n % Width
  <2>1. n = Width * high + low
    BY <1>2, Sizes
  <2>2. high \in Nat /\ low \in Nat
    BY <1>2 DEF Byte
  <2> HIDE DEF high, low
  <2>3. Width * high >= high
    BY <2>2, Sizes, SMT
  <2>4. Width * high \in Nat
    BY <2>2, Sizes, SMT
  <2> DEFINE product == Width * high
  <2> HIDE DEF product
  <2>5. product \in Nat /\ product >= high /\ n = product + low
    BY <2>1, <2>3, <2>4 DEF product
  <2>6. high + low <= n
    BY <2>2, <2>5
  <2>7. QED
    BY <2>2, <2>6 DEF high, low
<1>12. QED
  BY <1>2, <1>6, <1>9, <1>10, <1>11

LEMMA FramedParts ==
  ASSUME NEW p \in Packet, NEW id \in Nat
  PROVE  /\ Len(Framed(p, id)) = Len(Preamble) + Len(p)
         /\ \A i \in 1 .. Len(Preamble) + Len(p) :
              /\ Framed(p, id)[i].id = id
              /\ Framed(p, id)[i].data <=> i > Len(Preamble) + HeaderLen
              /\ i <= Len(Preamble) => Framed(p, id)[i].byte # Start
              /\ i > Len(Preamble) => Framed(p, id)[i].byte = p[i - Len(Preamble)]
<1>1. p \in Seq(Byte) /\ Preamble \in Seq(Byte)
      /\ \A i \in 1 .. Len(Preamble) : Preamble[i] # Start
  BY PacketParts, Bytes, FramingAssumption
<1> DEFINE bytes == Preamble \o p
<1>2. /\ bytes \in Seq(Byte) /\ Len(bytes) = Len(Preamble) + Len(p)
      /\ \A i \in 1 .. Len(bytes) :
           bytes[i] = IF i <= Len(Preamble) THEN Preamble[i] ELSE p[i - Len(Preamble)]
  BY <1>1, ConcatProperties
<1>3. Framed(p, id) = [i \in 1 .. Len(bytes) |->
        [byte |-> bytes[i], id |-> id, data |-> i > Len(Preamble) + HeaderLen]]
  BY DEF Framed
<1> HIDE DEF bytes
<1>4. Len(Preamble) \in Nat /\ Len(p) \in Nat
  BY <1>1
<1>5. Framed(p, id) \in Seq(Item)
  BY FramedTyped
<1>6. Len(Framed(p, id)) = Len(bytes)
  BY <1>2, <1>3, <1>4, <1>5
<1>7. ASSUME NEW i \in 1 .. Len(Preamble) + Len(p)
      PROVE  /\ Framed(p, id)[i].id = id
             /\ Framed(p, id)[i].data <=> i > Len(Preamble) + HeaderLen
             /\ i <= Len(Preamble) => Framed(p, id)[i].byte # Start
             /\ i > Len(Preamble) => Framed(p, id)[i].byte = p[i - Len(Preamble)]
  <2>1. Framed(p, id)[i] =
          [byte |-> bytes[i], id |-> id, data |-> i > Len(Preamble) + HeaderLen]
    BY <1>2, <1>3, <1>4
  <2>2. Framed(p, id)[i].id = id /\ Framed(p, id)[i].byte = bytes[i]
    BY <2>1
  <2>3. Framed(p, id)[i].data <=> i > Len(Preamble) + HeaderLen
    <3> DEFINE far == i > Len(Preamble) + HeaderLen
    <3>1. Framed(p, id)[i] = [byte |-> bytes[i], id |-> id, data |-> far]
      BY <2>1
    <3> HIDE DEF far
    <3>2. Framed(p, id)[i].data = far
      BY <3>1
    <3>3. QED
      BY <3>2 DEF far
  <2>4. bytes[i] = IF i <= Len(Preamble) THEN Preamble[i] ELSE p[i - Len(Preamble)]
    BY <1>2, <1>4
  <2>5. QED
    BY <1>1, <1>4, <2>2, <2>3, <2>4
<1>8. QED
  BY <1>2, <1>6, <1>7

LEMMA LineParts ==
  ASSUME IInv, Count > 0
  PROVE  /\ Count \in Nat /\ Now \in Packet /\ Now \in Seq(Byte)
         /\ Len(Preamble) \in Nat /\ Len(Now) \in Nat /\ Len(wire) \in Nat
         /\ Gone \in Int /\ Len(Now) > HeaderLen
<1>1. Count \in Nat /\ Now \in Packet /\ Len(wire) \in Nat
  BY DEF IInv, FramingTypeOK, Count, Now
<1>2. Now \in Seq(Byte) /\ Len(Now) \in Nat /\ Len(Now) > HeaderLen
  BY <1>1, PacketParts
<1>3. Len(Preamble) \in Nat
  BY Bytes
<1>4. QED
  BY <1>1, <1>2, <1>3 DEF Gone

\* The next byte of the line, and what follows it.
LEMMA NextByte ==
  ASSUME IInv, Count > 0, Line, wire # <<>>
  PROVE  /\ Gone + 1 \in 1 .. Len(Preamble) + Len(Now)
         /\ Head(wire).id = Count
         /\ Head(wire).data <=> Gone >= Len(Preamble) + HeaderLen
         /\ Gone < Len(Preamble) => Head(wire).byte # Start
         /\ Gone >= Len(Preamble) => Head(wire).byte = Now[Gone + 1 - Len(Preamble)]
         /\ Gone = Len(Preamble) => Head(wire).byte = Start
<1>1. /\ Count \in Nat /\ Now \in Packet
      /\ Len(Preamble) \in Nat /\ Len(Now) \in Nat /\ Len(wire) \in Nat /\ Gone \in Nat
  BY LineParts DEF Line
<1>2. Len(wire) >= 1 /\ Head(wire) = wire[1]
  BY <1>1 DEF IInv, FramingTypeOK
<1>3. Gone + 1 \in 1 .. Len(Preamble) + Len(Now)
  BY <1>1, <1>2 DEF Gone
<1>4. Head(wire) = Framed(Now, Count)[Gone + 1]
  BY <1>1, <1>2 DEF Line
<1>5. Now[1] = Start
  BY <1>1, PacketParts
<1> HIDE DEF Gone
<1>6. /\ Framed(Now, Count)[Gone + 1].id = Count
      /\ Framed(Now, Count)[Gone + 1].data <=> Gone + 1 > Len(Preamble) + HeaderLen
      /\ Gone + 1 <= Len(Preamble) => Framed(Now, Count)[Gone + 1].byte # Start
      /\ Gone + 1 > Len(Preamble) =>
           Framed(Now, Count)[Gone + 1].byte = Now[Gone + 1 - Len(Preamble)]
  BY <1>1, <1>3, FramedParts
<1>7. QED
  BY <1>1, <1>3, <1>4, <1>5, <1>6, Sizes

LEMMA LineMoves ==
  ASSUME IInv, Line, wire # <<>>, wire' = Tail(wire), sent' = sent
  PROVE  /\ Line' /\ Count' = Count /\ Now' = Now
         /\ Count > 0 => Gone' = Gone + 1
<1>1. Count' = Count /\ Now' = Now
  BY DEF Count, Now
<1>2. /\ Len(wire) \in Nat /\ Len(wire') = Len(wire) - 1
      /\ \A i \in 1 .. Len(wire') : wire'[i] = wire[i + 1]
  BY DEF IInv, FramingTypeOK
<1>3. ASSUME Count > 0
      PROVE  /\ Gone' = Gone + 1 /\ Gone' >= 0
             /\ \A i \in 1 .. Len(wire') : wire'[i] = Framed(Now', Count')[Gone' + i]
  <2>1. /\ Len(Preamble) \in Nat /\ Len(Now) \in Nat /\ Gone \in Int /\ Gone >= 0
        /\ \A i \in 1 .. Len(wire) : wire[i] = Framed(Now, Count)[Gone + i]
    BY <1>3, LineParts DEF Line
  <2>2. Gone' = Gone + 1
    BY <1>1, <1>2, <2>1 DEF Gone
  <2>3. ASSUME NEW i \in 1 .. Len(wire')
        PROVE  wire'[i] = Framed(Now, Count)[Gone' + i]
    <3>1. i + 1 \in 1 .. Len(wire) /\ Gone + (i + 1) = Gone' + i
      BY <1>2, <2>1, <2>2
    <3>2. QED
      BY <1>2, <2>1, <3>1
  <2>4. QED
    BY <1>1, <2>1, <2>2, <2>3
<1>4. QED
  BY <1>1, <1>3 DEF Line

\* What is bearable was bearable before.
LEMMA WasBearable ==
  ASSUME IInv, Bearable', [Next]_vars, harm \in Seq(Nat), Len(harm) = Len(sent)
  PROVE  Bearable
<1>1. /\ marred' = FALSE /\ Len(Preamble) \in Nat
      /\ \A i \in 1 .. Len(sent') : harm'[i] <= Len(Preamble)
  BY Bytes DEF Bearable
<1>2. CASE UNCHANGED <<marred, harm, sent>>
  BY <1>1, <1>2 DEF Bearable
<1>3. ASSUME NEW p \in Packet, Send(p) PROVE Bearable
  <2>1. marred' = marred /\ sent' = Append(sent, p) /\ harm' = Append(harm, 0)
    BY <1>3 DEF Send
  <2>2. sent \in Seq(Packet)
    BY DEF IInv, FramingTypeOK
  <2>3. Len(sent) \in Nat /\ Len(sent') = Len(sent) + 1
        /\ \A i \in 1 .. Len(sent) : sent'[i] = sent[i] /\ harm'[i] = harm[i]
    BY <2>1, <2>2
  <2>4. QED
    BY <1>1, <2>1, <2>3 DEF Bearable
<1>4. CASE Lose
  <2>1. sent' = sent /\ Len(sent) \in Nat
    BY <1>4 DEF Lose, IInv, FramingTypeOK
  <2>2. CASE marred' = TRUE
    BY <1>1, <2>2
  <2>3. CASE marred' = marred /\ harm' = [harm EXCEPT ![Head(wire).id] = @ + 1]
    <3>1. \A i \in 1 .. Len(sent) : harm[i] \in Nat /\ harm'[i] >= harm[i]
      BY <2>3
    <3>2. QED
      BY <1>1, <2>1, <2>3, <3>1 DEF Bearable
  <2>4. QED
    BY <1>4, <2>2, <2>3 DEF Lose
<1>5. CASE PollByte
  BY <1>2, <1>5 DEF PollByte
<1>6. CASE UNCHANGED vars
  BY <1>2, <1>6 DEF vars
<1>7. QED
  BY <1>3, <1>4, <1>5, <1>6 DEF Next

\* What Recorded says, for lemmas about a step.
LEMMA RecordedParts ==
  ASSUME IInv, Local
  PROVE  /\ Count \in Nat /\ Len(taken) \in Nat
         /\ harm \in Seq(Nat) /\ Len(harm) = Count
         /\ \A i \in 1 .. Count : harm[i] \in Nat
         /\ taken \in Seq(Seq(Byte))
         /\ \A i \in 1 .. Count : Sound(i) /\ i <= Len(taken) => taken[i] = Arrives(sent[i])
         /\ \A i \in 1 .. Count - 1 : Sound(i) => i <= Len(taken)
BY DEF IInv, FramingTypeOK, Local, Recorded, Count

LEMMA RecordedSame ==
  ASSUME Local, UNCHANGED <<sent, harm, taken>> PROVE Recorded'
BY DEF Local, Recorded, Sound, ShortBefore, Count

\* Another packet comes in.
LEMMA RecordedMore ==
  ASSUME IInv, Local, UNCHANGED <<sent, harm>>,
         NEW new \in Seq(Byte), taken' = Append(taken, new),
         NEW k, k = Len(taken) + 1,
         k <= Count /\ Sound(k) => new = Arrives(sent[k])
  PROVE  /\ Recorded' /\ Len(taken') = k
         /\ taken'[k] = new /\ \A i \in 1 .. Len(taken) : taken'[i] = taken[i]
<1>1. /\ Len(taken') = k /\ taken' \in Seq(Seq(Byte)) /\ taken'[k] = new
      /\ \A i \in 1 .. Len(taken) : taken'[i] = taken[i]
      /\ Len(taken) \in Nat
  BY RecordedParts
<1>2. Count' = Count /\ \A i : Sound(i)' <=> Sound(i)
  BY DEF Count, Sound, ShortBefore
<1>3. ASSUME NEW i \in 1 .. Count, Sound(i), i <= Len(taken')
      PROVE  taken'[i] = Arrives(sent[i])
  <2>1. CASE i = k
    BY <1>1, <1>3, <2>1
  <2>2. CASE i # k
    <3>1. i <= Len(taken) /\ i \in 1 .. Len(taken)
      BY <1>1, <1>3, <2>2, RecordedParts
    <3>2. taken[i] = Arrives(sent[i])
      BY <1>3, <3>1, RecordedParts
    <3>3. QED
      BY <1>1, <3>1, <3>2
  <2>3. QED
    BY <2>1, <2>2
<1>4. ASSUME NEW i \in 1 .. Count - 1, Sound(i) PROVE i <= Len(taken')
  <2>1. i <= Len(taken)
    BY <1>4, RecordedParts
  <2>2. QED
    BY <1>1, <2>1, RecordedParts
<1>5. harm' \in Seq(Nat) /\ Len(harm') = Count'
  BY <1>2, RecordedParts
<1>6. \A i \in 1 .. Count' : Sound(i)' /\ i <= Len(taken') => taken'[i] = Arrives(sent'[i])
  <2>1. ASSUME NEW i \in 1 .. Count', Sound(i)', i <= Len(taken')
        PROVE  taken'[i] = Arrives(sent'[i])
    BY <1>2, <1>3, <2>1
  <2>2. QED
    BY <2>1
<1>7. \A i \in 1 .. Count' - 1 : Sound(i)' => i <= Len(taken')
  BY <1>2, <1>4
<1>8. QED
  BY <1>1, <1>5, <1>6, <1>7 DEF Recorded

\* Out of step, everything said is of packets that are in.
LEMMA OutIsIn ==
  ASSUME IInv, Local, OutOfStep, NEW i \in 1 .. Count, Sound(i)
  PROVE  i <= Len(taken)
<1>1. PICK j \in 1 .. Count : Len(sent[j]) >= Width /\ (j < Count \/ j <= Len(taken))
  BY DEF OutOfStep
<1>2. Count \in Nat /\ Len(taken) \in Nat /\ Width \in Nat
  BY RecordedParts, Sizes
<1>3. Len(sent[j]) \in Nat
  BY <1>1 DEF IInv, FramingTypeOK, Count, Packet
<1>4. ~(j \in 1 .. i - 1)
  BY <1>1, <1>2, <1>3 DEF Sound, ShortBefore
<1>5. j >= i
  BY <1>2, <1>4
<1>6. CASE i < Count
  BY <1>2, <1>6, RecordedParts
<1>7. CASE i = Count
  BY <1>1, <1>2, <1>5, <1>7
<1>8. QED
  BY <1>2, <1>6, <1>7

\* With nothing left on the line the packet is complete, or lacks some data, or
\* there was one the receiver ended too early.
LEMMA LineEmpty ==
  ASSUME IInv, Local, Bearable, wire = <<>>, Count > 0
  PROVE  /\ Gone = Len(Preamble) + Len(Now)
         /\ \/ InData /\ harm[Count] # 0
            \/ Done
            \/ OutOfStep
<1>1. /\ Count \in Nat /\ Len(Preamble) \in Nat /\ Len(Now) \in Nat
      /\ Len(Now) > HeaderLen /\ HeaderLen \in Nat /\ HeaderLen >= 4
  BY LineParts, Sizes
<1>2. Gone = Len(Preamble) + Len(Now)
  <2>1. Len(wire) = 0
    OBVIOUS
  <2>2. QED
    BY <1>1, <2>1 DEF Gone
<1>3. ASSUME MakingUp PROVE FALSE
  <2>1. harm \in Seq(Nat) /\ Len(harm) = Count
    BY DEF Local, Recorded
  <2>2. Count - 1 \in 1 .. Len(sent) /\ Count - 1 \in 1 .. Len(harm)
    BY <1>1, <1>3, <2>1 DEF MakingUp, Count
  <2>3. harm[Count - 1] <= Len(Preamble) /\ harm[Count - 1] \in Nat
    BY <2>1, <2>2 DEF Bearable
  <2>4. QED
    BY <1>1, <1>2, <1>3, <2>3 DEF MakingUp
<1>4. ASSUME Between \/ InHeader PROVE FALSE
  BY <1>1, <1>2, <1>4 DEF Between, InHeader
<1>5. ASSUME InData PROVE harm[Count] # 0
  <2>1. /\ Len(buf) \in Nat /\ plen <= Len(Now) /\ plen \in Nat
        /\ Len(buf) = HeaderLen \/ Len(buf) < plen
        /\ Len(buf) + harm[Count] = Gone - Len(Preamble)
    BY <1>5, LineParts, PacketParts DEF InData, IInv, FramingTypeOK
  <2>2. Len(buf) < Len(Now)
    BY <1>1, <2>1
  <2>3. QED
    BY <1>1, <1>2, <2>1, <2>2
<1>6. QED
  BY <1>2, <1>3, <1>4, <1>5 DEF Local, Progress

\* A new packet: the last one is in if anything is said of it.
LEMMA SendRecorded ==
  ASSUME IInv, Local, NEW p \in Packet, Send(p),
         Len(taken) <= Count \/ \E j \in 1 .. Count : Len(sent[j]) >= Width,
         Count > 0 /\ Sound(Count) => Count <= Len(taken)
  PROVE  Recorded'
<1>1. /\ sent' = Append(sent, p) /\ harm' = Append(harm, 0) /\ taken' = taken
      /\ sent \in Seq(Packet)
  BY DEF Send, IInv, FramingTypeOK
<1>2. /\ Count \in Nat /\ Count' = Count + 1
      /\ \A i \in 1 .. Count : sent'[i] = sent[i]
  BY <1>1 DEF Count
<1>3. /\ harm' \in Seq(Nat) /\ Len(harm') = Count + 1
      /\ \A i \in 1 .. Count : harm'[i] = harm[i]
  BY <1>1, <1>2, RecordedParts
<1>4. ASSUME NEW i \in 1 .. Count, Sound(i)' PROVE Sound(i)
  <2>1. \A j \in 1 .. i - 1 : j \in 1 .. Count /\ sent'[j] = sent[j]
    BY <1>2
  <2>2. \A j \in 1 .. i - 1 : Len(sent'[j]) < Width
    BY <1>4 DEF Sound, ShortBefore
  <2>3. ShortBefore(i)
    BY <2>1, <2>2 DEF ShortBefore
  <2>4. harm[i] = 0
    BY <1>3, <1>4 DEF Sound
  <2>5. QED
    BY <2>3, <2>4 DEF Sound
<1>5. ASSUME NEW i \in 1 .. Count', Sound(i)', i <= Len(taken')
      PROVE  taken'[i] = Arrives(sent'[i])
  <2>1. CASE i \in 1 .. Count
    <3>1. Sound(i) /\ i <= Len(taken)
      BY <1>1, <1>4, <1>5, <2>1
    <3>2. taken[i] = Arrives(sent[i])
      BY <2>1, <3>1, RecordedParts
    <3>3. QED
      BY <1>1, <1>2, <2>1, <3>2
  <2>2. CASE i = Count + 1
    <3>1. Len(taken) \in Nat /\ ~(Len(taken) <= Count)
      BY <1>1, <1>2, <1>5, <2>2, RecordedParts
    <3>2. PICK j \in 1 .. Count : Len(sent[j]) >= Width
      BY <3>1
    <3>3. Len(sent[j]) \in Nat /\ Width \in Nat
      BY <1>1, Sizes DEF Packet, Count
    <3>4. j \in 1 .. i - 1 /\ sent'[j] = sent[j]
      BY <1>2, <2>2
    <3>5. Len(sent'[j]) < Width
      BY <1>5, <3>4 DEF Sound, ShortBefore
    <3>6. QED
      BY <3>2, <3>3, <3>4, <3>5
  <2>3. QED
    BY <1>2, <2>1, <2>2
<1>6. ASSUME NEW i \in 1 .. Count' - 1, Sound(i)' PROVE i <= Len(taken')
  <2>1. i \in 1 .. Count /\ Sound(i)
    BY <1>2, <1>4, <1>6
  <2>2. CASE i = Count
    BY <1>1, <1>2, <2>1, <2>2
  <2>3. CASE i # Count
    BY <1>1, <1>2, <2>1, <2>3, RecordedParts
  <2>4. QED
    BY <2>2, <2>3
<1>7. taken' \in Seq(Seq(Byte)) /\ Len(harm') = Count'
  BY <1>1, <1>2, <1>3, RecordedParts
<1>8. QED
  BY <1>3, <1>5, <1>6, <1>7 DEF Recorded

LEMMA HarmAppended ==
  ASSUME NEW h \in Seq(Nat), NEW n, n = Len(h)
  PROVE  /\ Append(h, 0)[n + 1] = 0
         /\ \A i \in 1 .. n : Append(h, 0)[i] = h[i] /\ h[i] \in Nat
OBVIOUS

\* The next packet goes on the line when the last is off it; what that lacks
\* will be made up from the preamble.
LEMMA SendLocal ==
  ASSUME IInv, Local, Bearable, NEW p \in Packet, Send(p) PROVE Local'
<1>1. /\ wire = <<>> /\ sent' = Append(sent, p) /\ harm' = Append(harm, 0)
      /\ wire' = Framed(p, Len(sent')) /\ UNCHANGED <<state, buf, plen, taken>>
      /\ sent \in Seq(Packet) /\ buf \in Seq(Byte)
  BY DEF Send, IInv, FramingTypeOK
<1>2. /\ Count \in Nat /\ Count' = Count + 1 /\ Now' = p
      /\ \A i \in 1 .. Count : sent'[i] = sent[i]
  BY <1>1 DEF Count, Now
<1>3. /\ harm \in Seq(Nat) /\ Len(harm) = Count
      /\ Len(taken) \in Nat
      /\ harm'[Count + 1] = 0
      /\ \A i \in 1 .. Count : harm'[i] = harm[i] /\ harm[i] \in Nat
  <2>1. harm \in Seq(Nat) /\ Len(harm) = Count /\ Len(taken) \in Nat
    BY RecordedParts
  <2>2. QED
    BY <1>1, <2>1, HarmAppended
<1>4. /\ Len(wire') = Len(Preamble) + Len(p) /\ Len(Preamble) \in Nat /\ Len(p) \in Nat
  <2>1. Len(sent') \in Nat
    BY <1>2 DEF Count
  <2>2. Len(wire') = Len(Preamble) + Len(p)
    BY <1>1, <2>1, FramedParts
  <2>3. QED
    BY <2>2, PacketParts, Bytes
<1>5. Gone' = 0
  BY <1>2, <1>4 DEF Gone
<1>6. Line'
  BY <1>1, <1>2, <1>4, <1>5 DEF Line, Count
<1>7. CASE state = "idle" /\ Len(taken) = Count
  <2>1. Between'
    <3>1. state' = "idle" /\ Len(taken') = Count' - 1
      BY <1>1, <1>2, <1>7
    <3>2. harm'[Count'] = 0
      BY <1>2, <1>3
    <3>3. Gone' <= Len(Preamble)
      BY <1>4, <1>5
    <3>4. QED
      BY <3>1, <3>2, <3>3 DEF Between
  <2>2. Recorded'
    BY <1>2, <1>7, SendRecorded
  <2>3. QED
    BY <1>2, <1>6, <2>1, <2>2 DEF Local, Progress
<1>8. CASE Count > 0 /\ OutOfStep
  <2>1. PICK j \in 1 .. Count : Len(sent[j]) >= Width
    BY <1>8 DEF OutOfStep
  <2>2. j \in 1 .. Count' /\ j < Count' /\ Len(sent'[j]) >= Width
    BY <1>2, <2>1
  <2>3. OutOfStep'
    BY <2>2 DEF OutOfStep
  <2>4. Count > 0 /\ Sound(Count) => Count <= Len(taken)
    BY <1>2, <1>8, OutIsIn
  <2>5. Recorded'
    BY <2>1, <2>4, SendRecorded
  <2>6. QED
    BY <1>2, <1>6, <2>3, <2>5 DEF Local, Progress
<1>9. CASE Count > 0 /\ InData /\ harm[Count] # 0
  <2>1. /\ state = "data" /\ Len(taken) = Count - 1 /\ plen = Now[3] + Now[4]
        /\ Len(buf) + harm[Count] = Gone - Len(Preamble) /\ Len(buf) \in Nat
    BY <1>1, <1>9 DEF InData
  <2>2. Gone = Len(Preamble) + Len(Now) /\ Len(Now) \in Nat /\ Now \in Packet
    BY <1>1, <1>9, LineEmpty, LineParts
  <2>3. 0 < harm[Count] /\ Now = sent'[Count] /\ harm[Count] \in Nat
    BY <1>2, <1>3, <1>9 DEF Now
  <2>4. Recorded'
    <3>1. Len(taken) <= Count
      BY <1>2, <2>1
    <3>2. ~Sound(Count)
      BY <1>9 DEF Sound
    <3>3. QED
      BY <3>1, <3>2, SendRecorded
  <2>5. CASE Len(Now) >= Width
    <3>1. Count \in 1 .. Count' /\ Count < Count' /\ Len(sent'[Count]) >= Width
      BY <1>2, <1>9, <2>3, <2>5
    <3>2. OutOfStep'
      BY <3>1 DEF OutOfStep
    <3>3. QED
      BY <1>2, <1>6, <2>4, <3>2 DEF Local, Progress
  <2>6. CASE ~(Len(Now) >= Width)
    <3>1. plen = Len(Now)
      BY <2>1, <2>2, <2>6, PacketParts, Sizes
    <3>2. /\ Count' > 1 /\ Count' - 1 = Count /\ harm'[Count' - 1] = harm[Count]
          /\ harm'[Count'] = 0
      BY <1>2, <1>3, <1>9
    <3>3. /\ state' = "data" /\ Len(taken') = Count' - 2
          /\ plen' = Len(sent'[Count' - 1])
      <4>1. state' = "data" /\ taken' = taken /\ plen' = plen
        BY <1>1, <2>1
      <4>2. Len(taken') = Count' - 2
        BY <1>2, <2>1, <4>1
      <4>3. sent'[Count' - 1] = Now
        BY <2>3, <3>2
      <4>4. QED
        BY <3>1, <4>1, <4>2, <4>3
    <3>4. Gone' < harm'[Count' - 1] /\ Len(buf') + harm'[Count' - 1] = plen' + Gone'
      <4>1. Len(buf) + harm[Count] = Len(Now)
        BY <1>4, <2>1, <2>2, <2>3
      <4>2. harm'[Count' - 1] = harm[Count] /\ buf' = buf /\ plen' = plen
        BY <1>1, <3>2
      <4>3. Gone' < harm[Count]
        BY <1>5, <2>3
      <4>4. Len(buf) + harm[Count] = plen + Gone'
        BY <1>5, <2>2, <3>1, <4>1
      <4>5. QED
        BY <4>2, <4>3, <4>4
    <3>5. MakingUp'
      BY <3>2, <3>3, <3>4 DEF MakingUp
    <3>6. QED
      BY <1>2, <1>6, <2>4, <3>5 DEF Local, Progress
  <2>7. QED
    BY <2>5, <2>6
<1>10. CASE Count = 0
  BY <1>1, <1>7, <1>10 DEF Local, Progress, Nothing
<1>11. CASE Count > 0
  BY <1>1, <1>7, <1>8, <1>9, <1>11, LineEmpty DEF Done
<1>12. QED
  BY <1>2, <1>10, <1>11

LEMMA OnLine == ASSUME Local, wire # <<>> PROVE Count # 0 /\ ~Done
BY DEF Local, Progress, Nothing, Done

\* Only from the data may a byte be lost; the packet then lacks one more.
LEMMA LoseLocal ==
  ASSUME IInv, Local, Bearable', Lose PROVE Local'
<1>1. /\ wire # <<>> /\ wire' = Tail(wire) /\ UNCHANGED <<sent, state, buf, plen, taken>>
      /\ IF Head(wire).data
         THEN harm' = [harm EXCEPT ![Head(wire).id] = @ + 1] /\ UNCHANGED marred
         ELSE marred' = TRUE /\ UNCHANGED harm
      /\ marred' = FALSE
  BY DEF Lose, Bearable
<1>2. Count \in Nat /\ Count > 0 /\ Count = Len(sent)
  BY <1>1, OnLine DEF Count, IInv, FramingTypeOK
<1>3. Line' /\ Count' = Count /\ Now' = Now /\ Gone' = Gone + 1
  BY <1>1, <1>2, LineMoves DEF Local
<1>4. /\ Gone \in Nat /\ Len(Preamble) \in Nat /\ HeaderLen >= 4 /\ HeaderLen \in Nat
      /\ Len(Now) \in Nat /\ Len(Now) > HeaderLen
  BY <1>2, LineParts, Sizes DEF Local, Line
<1>5. Head(wire).data /\ Head(wire).id = Count
      /\ Gone >= Len(Preamble) + HeaderLen
  BY <1>1, <1>2, NextByte DEF Local
<1>6. /\ harm \in Seq(Nat) /\ Len(harm) = Count /\ Len(taken) \in Nat
  BY RecordedParts
<1>7. /\ harm' = [harm EXCEPT ![Count] = @ + 1]
      /\ harm' \in Seq(Nat) /\ Len(harm') = Count
      /\ harm'[Count] = harm[Count] + 1 /\ harm[Count] \in Nat
      /\ \A i \in 1 .. Count : i # Count => harm'[i] = harm[i]
  <2>1. harm' = [harm EXCEPT ![Count] = @ + 1]
    BY <1>1, <1>5, Zenon
  <2>2. Count \in 1 .. Len(harm)
    BY <1>2, <1>6
  <2>3. QED
    BY <1>2, <1>6, <2>1, <2>2
<1>8. Recorded'
  <2>1. ASSUME NEW i \in 1 .. Count, Sound(i)' PROVE Sound(i)
    <3>1. ShortBefore(i) /\ harm'[i] = 0
      BY <1>1, <2>1 DEF Sound, ShortBefore
    <3>2. i # Count
      BY <1>7, <3>1
    <3>3. QED
      BY <1>7, <3>1, <3>2 DEF Sound
  <2>2. taken' = taken /\ sent' = sent /\ Count' = Count
    BY <1>1, <1>3
  <2>3. \A i \in 1 .. Count' : Sound(i)' /\ i <= Len(taken') => taken'[i] = Arrives(sent'[i])
    <3>1. ASSUME NEW i \in 1 .. Count, Sound(i)', i <= Len(taken)
          PROVE  taken[i] = Arrives(sent[i])
      BY <2>1, <3>1, RecordedParts
    <3>2. QED
      BY <2>2, <3>1
  <2>4. \A i \in 1 .. Count' - 1 : Sound(i)' => i <= Len(taken')
    <3>1. ASSUME NEW i \in 1 .. Count - 1, Sound(i)' PROVE i <= Len(taken)
      <4>1. i \in 1 .. Count
        BY <1>2
      <4>2. QED
        BY <2>1, <3>1, <4>1, RecordedParts
    <3>2. QED
      BY <2>2, <3>1
  <2>5. QED
    BY <1>7, <2>2, <2>3, <2>4, RecordedParts DEF Recorded
<1>9. CASE OutOfStep
  <2>1. OutOfStep'
    BY <1>1, <1>3, <1>9 DEF OutOfStep
  <2>2. QED
    BY <1>2, <1>3, <1>8, <2>1 DEF Local, Progress
<1>10. CASE ~OutOfStep
  <2>1. ASSUME MakingUp PROVE FALSE
    <3>1. Count - 1 \in 1 .. Len(sent') /\ Count - 1 # Count
      BY <1>1, <1>2, <2>1 DEF MakingUp
    <3>2. harm'[Count - 1] <= Len(Preamble)
      BY <3>1 DEF Bearable
    <3>3. harm'[Count - 1] = harm[Count - 1] /\ harm[Count - 1] \in Nat
      <4>1. Count - 1 \in 1 .. Count
        BY <1>2, <1>3, <3>1
      <4>2. harm[Count - 1] \in Nat
        BY <4>1, RecordedParts
      <4>3. QED
        BY <1>7, <3>1, <4>1, <4>2
    <3>4. QED
      BY <1>4, <1>5, <2>1, <3>2, <3>3 DEF MakingUp
  <2>2. ASSUME Between \/ InHeader PROVE FALSE
    BY <1>4, <1>5, <2>2 DEF Between, InHeader
  <2>3. InData
    BY <1>1, <1>2, <1>10, <2>1, <2>2, OnLine DEF Local, Progress
  <2>4. /\ state' = "data" /\ Len(taken') = Count - 1
        /\ plen' = Now[3] + Now[4] /\ buf' = buf /\ Len(buf) \in Nat
        /\ Len(buf') >= HeaderLen /\ (Len(buf') = HeaderLen \/ Len(buf') < plen')
    BY <1>1, <2>3 DEF InData, IInv, FramingTypeOK
  <2>5. Len(buf) + harm[Count] = Gone - Len(Preamble)
    BY <2>3 DEF InData
  <2>6. harm'[Count] # 0 /\ Len(buf') + harm'[Count] = Gone' - Len(Preamble)
    <3>1. harm'[Count] = harm[Count] + 1 /\ harm[Count] \in Nat
      BY <1>7
    <3>2. Gone' = Gone + 1 /\ Gone \in Nat /\ Len(Preamble) \in Nat
      BY <1>3, <1>4
    <3>3. Len(buf') = Len(buf) /\ Len(buf) \in Nat
      BY <2>4
    <3>4. QED
      BY <2>5, <3>1, <3>2, <3>3
  <2>7. InData'
    BY <1>3, <2>4, <2>6 DEF InData
  <2>8. QED
    BY <1>2, <1>3, <1>8, <2>7 DEF Local, Progress
<1>11. QED
  BY <1>9, <1>10

\* The test for a full buffer never comes true.
LEMMA NeverFull == ASSUME IInv, state \in {"header", "data"} PROVE ~Overflow
<1>1. Len(buf) \in Nat /\ plen \in Nat /\ plen <= 2 * (Width - 1)
  BY Sizes DEF IInv, FramingTypeOK
<1>2. QED
  BY <1>1, Sizes DEF IInv, Growth, Overflow

\* A byte of the line goes to the receiver: what all the cases share.
LEMMA PollParts ==
  ASSUME IInv, Local, PollByte
  PROVE  /\ Count \in Nat /\ Count > 0 /\ Line' /\ UNCHANGED <<harm, sent>>
         /\ Count' = Count /\ Now' = Now /\ Gone' = Gone + 1 /\ wire' = Tail(wire)
         /\ Gone \in Nat /\ Gone + 1 <= Len(Preamble) + Len(Now)
         /\ Len(Preamble) \in Nat /\ HeaderLen >= 4 /\ HeaderLen \in Nat
         /\ Len(Now) \in Nat /\ Len(Now) > HeaderLen
         /\ \E c \in Byte :
              /\ Skipped(c) \/ HeaderByte(c) \/ DataByte(c)
              /\ Gone < Len(Preamble) => c # Start
              /\ Gone = Len(Preamble) => c = Start
              /\ Gone >= Len(Preamble) => c = Now[Gone + 1 - Len(Preamble)]
<1>1. /\ wire # <<>> /\ wire' = Tail(wire) /\ UNCHANGED <<sent, harm>>
      /\ Skipped(Head(wire).byte) \/ HeaderByte(Head(wire).byte) \/ DataByte(Head(wire).byte)
  BY DEF PollByte
<1>2. Count \in Nat /\ Count > 0
  BY <1>1, OnLine DEF Count, IInv, FramingTypeOK
<1>3. Line' /\ Count' = Count /\ Now' = Now /\ Gone' = Gone + 1
  BY <1>1, <1>2, LineMoves DEF Local
<1>4. /\ Gone \in Nat /\ Len(Preamble) \in Nat /\ HeaderLen >= 4 /\ HeaderLen \in Nat
      /\ Len(Now) \in Nat /\ Len(Now) > HeaderLen
  BY <1>2, LineParts, Sizes DEF Local, Line
<1>5. Head(wire) \in Item
  BY <1>1 DEF IInv, FramingTypeOK
<1>6. Head(wire).byte \in Byte
  BY <1>5 DEF Item
<1>7. /\ Gone + 1 \in 1 .. Len(Preamble) + Len(Now)
      /\ Gone < Len(Preamble) => Head(wire).byte # Start
      /\ Gone >= Len(Preamble) => Head(wire).byte = Now[Gone + 1 - Len(Preamble)]
      /\ Gone = Len(Preamble) => Head(wire).byte = Start
  BY <1>1, <1>2, NextByte DEF Local
<1>8. \E c \in Byte :
        /\ Skipped(c) \/ HeaderByte(c) \/ DataByte(c)
        /\ Gone < Len(Preamble) => c # Start
        /\ Gone = Len(Preamble) => c = Start
        /\ Gone >= Len(Preamble) => c = Now[Gone + 1 - Len(Preamble)]
  BY <1>1, <1>6, <1>7
<1>9. Gone + 1 <= Len(Preamble) + Len(Now)
  BY <1>4, <1>7
<1>10. QED
  BY <1>1, <1>2, <1>3, <1>4, <1>8, <1>9

LEMMA MakingUpStep ==
  ASSUME IInv, Local, Bearable, PollByte, MakingUp PROVE Local'
<1>1. /\ Count \in Nat /\ Count > 0 /\ Line' /\ UNCHANGED <<harm, sent>>
      /\ Count' = Count /\ Now' = Now /\ Gone' = Gone + 1
      /\ Gone \in Nat /\ Len(Preamble) \in Nat
  BY PollParts
<1>2. /\ state = "data" /\ Count > 1
      /\ harm[Count] = 0 /\ Len(taken) = Count - 2
      /\ plen = Len(sent[Count - 1])
      /\ Gone < harm[Count - 1] /\ Len(buf) + harm[Count - 1] = plen + Gone
  BY DEF MakingUp
<1>3. ~Overflow
  BY <1>2, NeverFull
<1>4. PICK c \in Byte : DataByte(c)
  BY <1>2, PollParts DEF Skipped, HeaderByte
<1>5. harm \in Seq(Nat) /\ Len(harm) = Count /\ Len(taken) \in Nat
  BY RecordedParts
<1>6. buf \in Seq(Byte) /\ Len(buf) \in Nat /\ plen \in Nat
  BY Sizes DEF IInv, FramingTypeOK
<1>7. harm[Count - 1] \in Nat /\ harm[Count - 1] <= Len(Preamble)
  <2>1. Count - 1 \in 1 .. Len(sent) /\ Count - 1 \in 1 .. Len(harm)
    BY <1>1, <1>2, <1>5 DEF Count
  <2>2. QED
    BY <1>5, <2>1 DEF Bearable
<1>8. CASE Len(buf) + 1 >= plen
  <2>1. /\ taken' = Append(taken, Append(buf, c)) /\ state' = "idle"
    BY <1>3, <1>4, <1>8 DEF DataByte, NextState
  <2>2. Append(buf, c) \in Seq(Byte) /\ Count - 1 = Len(taken) + 1
    BY <1>1, <1>2, <1>4, <1>5, <1>6
  <2>3. ~Sound(Count - 1)
    BY <1>1, <1>2, <1>7 DEF Sound
  <2>4. Recorded' /\ Len(taken') = Count - 1
    BY <1>1, <2>1, <2>2, <2>3, RecordedMore
  <2>5. Between'
    <3>1. Gone + 1 <= harm[Count - 1]
      BY <1>1, <1>2, <1>7
    <3>2. Gone' <= Len(Preamble)
      BY <1>1, <1>7, <3>1
    <3>3. harm'[Count'] = 0 /\ Len(taken') = Count' - 1
      BY <1>1, <1>2, <2>4
    <3>4. QED
      BY <2>1, <3>2, <3>3 DEF Between
  <2>6. QED
    BY <1>1, <2>4, <2>5 DEF Local, Progress
<1>9. CASE ~(Len(buf) + 1 >= plen)
  <2>1. /\ buf' = Append(buf, c) /\ UNCHANGED <<state, plen, taken>>
    BY <1>3, <1>4, <1>9 DEF DataByte
  <2>2. Len(buf') = Len(buf) + 1
    BY <1>4, <1>6, <2>1
  <2>3. Gone + 1 < harm[Count - 1]
    BY <1>1, <1>2, <1>6, <1>7, <1>9
  <2>4. /\ plen' = Len(sent'[Count' - 1]) /\ harm'[Count' - 1] = harm[Count - 1]
        /\ Len(taken') = Count' - 2 /\ harm'[Count'] = 0
    BY <1>1, <1>2, <2>1
  <2>5. Len(buf') + harm[Count - 1] = plen + (Gone + 1)
    <3>1. /\ Len(buf) \in Nat /\ plen \in Nat /\ Gone \in Nat /\ harm[Count - 1] \in Nat
          /\ Len(buf) + harm[Count - 1] = plen + Gone
      BY <1>1, <1>2, <1>6, <1>7
    <3> DEFINE h == harm[Count - 1]
               l == Len(buf)
               g == Gone
    <3>2. l \in Nat /\ plen \in Nat /\ g \in Nat /\ h \in Nat /\ l + h = plen + g
      BY <3>1
    <3> HIDE DEF h, l, g
    <3>3. (l + 1) + h = plen + (g + 1)
      BY <3>2
    <3>4. QED
      BY <2>2, <3>3 DEF h, l, g
  <2>6. MakingUp'
    BY <1>1, <1>2, <2>1, <2>3, <2>4, <2>5 DEF MakingUp
  <2>7. QED
    BY <1>1, <2>1, <2>6, RecordedSame DEF Local, Progress
<1>10. QED
  BY <1>8, <1>9

LEMMA BetweenStep ==
  ASSUME IInv, Local, PollByte, Between PROVE Local'
<1>1. /\ Count \in Nat /\ Count > 0 /\ Line' /\ UNCHANGED <<harm, sent>>
      /\ Count' = Count /\ Now' = Now /\ Gone' = Gone + 1
      /\ Gone \in Nat /\ Len(Preamble) \in Nat /\ HeaderLen >= 4 /\ HeaderLen \in Nat
  BY PollParts
<1>2. /\ state = "idle" /\ harm[Count] = 0 /\ Len(taken) = Count - 1
      /\ Gone <= Len(Preamble)
  BY DEF Between
<1>3. PICK c \in Byte : /\ Skipped(c)
                        /\ Gone < Len(Preamble) => c # Start
                        /\ Gone = Len(Preamble) => c = Start /\ c = Now[1]
  <2>1. PICK c \in Byte :
          /\ Skipped(c) \/ HeaderByte(c) \/ DataByte(c)
          /\ Gone < Len(Preamble) => c # Start
          /\ Gone = Len(Preamble) => c = Start
          /\ Gone >= Len(Preamble) => c = Now[Gone + 1 - Len(Preamble)]
    BY PollParts
  <2>2. Skipped(c)
    BY <1>2, <2>1 DEF HeaderByte, DataByte
  <2>3. Gone = Len(Preamble) => Gone + 1 - Len(Preamble) = 1
    BY <1>1
  <2>4. QED
    BY <1>1, <2>1, <2>2, <2>3
<1>4. buf = <<>>
  BY <1>2 DEF IInv, FramingTypeOK, Growth
<1>5. UNCHANGED <<plen, taken>> /\ Recorded'
  BY <1>1, <1>3, RecordedSame DEF Skipped
<1>6. CASE Gone < Len(Preamble)
  <2>1. UNCHANGED <<state, buf>>
    BY <1>3, <1>6 DEF Skipped, StartsPacket
  <2>2. Between'
    BY <1>1, <1>2, <1>5, <1>6, <2>1 DEF Between
  <2>3. QED
    BY <1>1, <1>5, <2>2 DEF Local, Progress
<1>7. CASE Gone = Len(Preamble)
  <2>1. state' = "header" /\ buf' = <<c>>
    BY <1>3, <1>4, <1>7 DEF Skipped, StartsPacket
  <2>2. Len(buf') = 1 /\ buf'[1] = Now[1]
    BY <1>3, <1>7, <2>1
  <2>3. \A i \in 1 .. Len(buf') : buf'[i] = Now[i]
    BY <2>2
  <2>4. InHeader'
    BY <1>1, <1>2, <1>5, <1>7, <2>1, <2>2, <2>3 DEF InHeader
  <2>5. QED
    BY <1>1, <1>5, <2>4 DEF Local, Progress
<1>8. QED
  BY <1>1, <1>2, <1>6, <1>7

\* The header comes in as it went out, and its length with it.
LEMMA InHeaderStep ==
  ASSUME IInv, Local, PollByte, InHeader PROVE Local'
<1>1. /\ Count \in Nat /\ Count > 0 /\ Line' /\ UNCHANGED <<harm, sent>>
      /\ Count' = Count /\ Now' = Now /\ Gone' = Gone + 1
      /\ Gone \in Nat /\ Len(Preamble) \in Nat /\ HeaderLen >= 4 /\ HeaderLen \in Nat
      /\ Len(Now) \in Nat /\ Len(Now) > HeaderLen
  BY PollParts
<1>2. /\ state = "header" /\ harm[Count] = 0 /\ Len(taken) = Count - 1
      /\ Gone < Len(Preamble) + HeaderLen
      /\ Len(buf) > 0 /\ Len(buf) = Gone - Len(Preamble)
      /\ \A i \in 1 .. Len(buf) : buf[i] = Now[i]
  BY DEF InHeader
<1>3. ~Overflow
  BY <1>2, NeverFull
<1>4. buf \in Seq(Byte) /\ Len(buf) \in Nat
  BY DEF IInv, FramingTypeOK
<1>5. PICK c \in Byte : HeaderByte(c) /\ c = Now[Len(buf) + 1]
  <2>1. PICK c \in Byte :
          /\ Skipped(c) \/ HeaderByte(c) \/ DataByte(c)
          /\ Gone >= Len(Preamble) => c = Now[Gone + 1 - Len(Preamble)]
    BY PollParts
  <2>2. HeaderByte(c)
    BY <1>2, <2>1 DEF Skipped, DataByte
  <2>3. Gone >= Len(Preamble) /\ Gone + 1 - Len(Preamble) = Len(buf) + 1
    BY <1>1, <1>2, <1>4
  <2>4. QED
    BY <2>1, <2>2, <2>3
<1>6. buf' = Append(buf, c) /\ UNCHANGED taken
  BY <1>3, <1>5 DEF HeaderByte
<1>7. /\ Len(buf') = Len(buf) + 1 /\ buf' \in Seq(Byte)
      /\ \A i \in 1 .. Len(buf') : buf'[i] = Now[i]
  BY <1>2, <1>4, <1>5, <1>6
<1>8. Recorded'
  BY <1>1, <1>6, RecordedSame
<1>9. CASE Len(buf') = HeaderLen
  <2>1. state' = "data" /\ plen' = PacketLength(buf')
    BY <1>3, <1>5, <1>9 DEF HeaderByte
  <2>2. plen' = Now[3] + Now[4]
    BY <1>1, <1>7, <1>9, <2>1 DEF PacketLength
  <2>3. Len(buf') + harm'[Count'] = Gone' - Len(Preamble)
    BY <1>1, <1>2, <1>4, <1>7
  <2>4. Len(buf') >= HeaderLen
    BY <1>1, <1>9
  <2>5. InData'
    <3>1. Len(taken') = Count' - 1 /\ plen' = Now'[3] + Now'[4]
      BY <1>1, <1>2, <1>6, <2>2
    <3>2. \A i \in 1 .. Len(buf') : buf'[i] = Now'[i]
      BY <1>1, <1>7
    <3>3. QED
      BY <1>9, <2>1, <2>3, <2>4, <3>1, <3>2 DEF InData
  <2>6. QED
    BY <1>1, <1>8, <2>5 DEF Local, Progress
<1>10. CASE Len(buf') # HeaderLen
  <2>1. state' = "header"
    BY <1>2, <1>3, <1>5, <1>10 DEF HeaderByte
  <2>2. Len(buf') < HeaderLen
    <3>1. Len(buf) < HeaderLen
      BY <1>1, <1>2
    <3>2. Len(buf') = Len(buf) + 1
      BY <1>7
    <3>3. QED
      BY <1>1, <1>4, <1>10, <3>1, <3>2
  <2>3. InHeader'
    BY <1>1, <1>2, <1>4, <1>6, <1>7, <2>1, <2>2 DEF InHeader
  <2>4. QED
    BY <1>1, <1>8, <2>3 DEF Local, Progress
<1>11. QED
  BY <1>9, <1>10

\* What is copied of a packet that lost nothing.
LEMMA Copied ==
  ASSUME NEW b \in Seq(Byte), NEW p \in Packet,
         Len(b) > HeaderLen, Len(b) <= Len(p),
         \A i \in 1 .. Len(b) : b[i] = p[i],
         Len(b) = Cut(p)
  PROVE  b = Arrives(p)
<1>1. /\ p \in Seq(Byte) /\ Len(p) \in Nat /\ Len(b) \in Nat /\ HeaderLen \in Nat
      /\ Width \in Nat /\ Len(p) > HeaderLen
  BY PacketParts, Sizes
<1>2. CASE Len(p) < Width
  <2>1. Len(b) = Len(p)
    BY <1>1, <1>2, PacketParts DEF Cut
  <2>2. b = p
    BY <1>1, <2>1, SeqEqual
  <2>3. QED
    BY <1>2, <2>2 DEF Arrives
<1>3. CASE ~(Len(p) < Width)
  <2>1. Arrives(p) = SubSeq(p, 1, Len(b))
    BY <1>3 DEF Arrives
  <2>2. /\ SubSeq(p, 1, Len(b)) \in Seq(Byte) /\ Len(SubSeq(p, 1, Len(b))) = Len(b)
        /\ \A i \in 1 .. Len(b) : SubSeq(p, 1, Len(b))[i] = p[i]
    BY <1>1
  <2>3. b = SubSeq(p, 1, Len(b))
    BY <1>1, <2>2, SeqEqual
  <2>4. QED
    BY <2>1, <2>3
<1>4. QED
  BY <1>2, <1>3

\* The byte that is the last one by the length ends the packet; of a long one
\* the rest is still to come.
LEMMA InDataStep ==
  ASSUME IInv, Local, PollByte, InData PROVE Local'
<1>1. /\ Count \in Nat /\ Count > 0 /\ Line' /\ UNCHANGED <<harm, sent>>
      /\ Count' = Count /\ Now' = Now /\ Gone' = Gone + 1 /\ wire' = Tail(wire)
      /\ Gone \in Nat /\ Len(Preamble) \in Nat /\ HeaderLen >= 4 /\ HeaderLen \in Nat
      /\ Len(Now) \in Nat /\ Len(Now) > HeaderLen
      /\ Gone + 1 <= Len(Preamble) + Len(Now)
  BY PollParts
<1>2. /\ state = "data" /\ Len(taken) = Count - 1
      /\ plen = Now[3] + Now[4]
      /\ Len(buf) >= HeaderLen /\ (Len(buf) = HeaderLen \/ Len(buf) < plen)
      /\ Len(buf) + harm[Count] = Gone - Len(Preamble)
      /\ harm[Count] = 0 => \A i \in 1 .. Len(buf) : buf[i] = Now[i]
  BY DEF InData
<1>3. ~Overflow
  BY <1>2, NeverFull
<1>4. buf \in Seq(Byte) /\ Len(buf) \in Nat
  BY DEF IInv, FramingTypeOK
<1>5. /\ harm[Count] \in Nat /\ Len(taken) \in Nat
      /\ Now \in Packet /\ plen \in Nat /\ plen <= Len(Now)
      /\ Len(Now) < Width => plen = Len(Now)
  <2>1. harm[Count] \in Nat /\ Len(taken) \in Nat
    BY <1>1, RecordedParts
  <2>2. Now \in Packet
    BY <1>1, LineParts
  <2>3. /\ Now[3] \in Nat /\ Now[4] \in Nat /\ Now[3] + Now[4] <= Len(Now)
        /\ Len(Now) < Width => Now[3] + Now[4] = Len(Now)
    BY <2>2, PacketParts
  <2>4. plen \in Nat /\ plen <= Len(Now)
    BY <1>2, <2>3
  <2>5. Len(Now) < Width => plen = Len(Now)
    BY <1>2, <2>3
  <2>6. QED
    BY <2>1, <2>2, <2>4, <2>5
\* The numbers alone.
<1>5a. /\ Len(buf) \in Nat /\ harm[Count] \in Nat /\ plen \in Nat /\ plen <= Len(Now)
       /\ Gone \in Nat /\ Len(Preamble) \in Nat /\ HeaderLen \in Nat
       /\ Len(Now) \in Nat /\ Len(Now) > HeaderLen
       /\ Gone + 1 <= Len(Preamble) + Len(Now)
       /\ Len(buf) >= HeaderLen /\ (Len(buf) = HeaderLen \/ Len(buf) < plen)
       /\ Len(buf) + harm[Count] = Gone - Len(Preamble)
  BY <1>1, <1>2, <1>4, <1>5
<1>6. PICK c \in Byte : /\ DataByte(c)
                        /\ harm[Count] = 0 => c = Now[Len(buf) + 1]
  <2>1. PICK c \in Byte :
          /\ Skipped(c) \/ HeaderByte(c) \/ DataByte(c)
          /\ Gone >= Len(Preamble) => c = Now[Gone + 1 - Len(Preamble)]
    BY PollParts
  <2>2. DataByte(c)
    BY <1>2, <2>1 DEF Skipped, HeaderByte
  <2>3. Gone >= Len(Preamble)
    BY <1>1, <1>2, <1>4, <1>5
  <2>4. harm[Count] = 0 => Gone + 1 - Len(Preamble) = Len(buf) + 1
    BY <1>1, <1>2, <1>4, <1>5
  <2>5. QED
    BY <2>1, <2>2, <2>3, <2>4
<1>7. CASE Len(buf) + 1 >= plen
  <2>1. taken' = Append(taken, Append(buf, c)) /\ state' = "idle"
    BY <1>3, <1>6, <1>7 DEF DataByte, NextState
  <2>2. /\ Append(buf, c) \in Seq(Byte) /\ Len(Append(buf, c)) = Len(buf) + 1
        /\ harm[Count] = 0 => \A i \in 1 .. Len(buf) + 1 : Append(buf, c)[i] = Now[i]
    BY <1>2, <1>4, <1>6
  <2>3. Len(buf) + 1 > HeaderLen /\ Len(buf) + 1 <= Len(Now)
    BY <1>1, <1>2, <1>4, <1>5
  <2>4. Len(buf) + 1 = Cut(Now)
    <3>1. Cut(Now) = IF plen > HeaderLen THEN plen ELSE HeaderLen + 1
      BY <1>2 DEF Cut
    <3>2. QED
      BY <1>5a, <1>7, <3>1
  <2>5. Sound(Count) => Append(buf, c) = Arrives(sent[Count])
    <3>1. ASSUME Sound(Count) PROVE Append(buf, c) = Arrives(Now)
      <4>1. harm[Count] = 0
        BY <3>1 DEF Sound
      <4>2. QED
        BY <1>5, <2>2, <2>3, <2>4, <4>1, Copied
    <3>2. QED
      BY <3>1 DEF Now
  <2>6. Recorded' /\ Len(taken') = Count
    <3>1. Count = Len(taken) + 1
      BY <1>1, <1>2, <1>5
    <3>2. QED
      BY <1>1, <2>1, <2>2, <2>5, <3>1, RecordedMore
  <2>7. CASE Len(Now) >= Width
    <3>1. /\ Count' \in 1 .. Count' /\ Count' <= Len(taken') /\ Len(sent'[Count']) >= Width
      BY <1>1, <2>6, <2>7 DEF Now
    <3>2. OutOfStep'
      BY <3>1 DEF OutOfStep
    <3>3. QED
      BY <1>1, <2>6, <3>2 DEF Local, Progress
  <2>8. CASE ~(Len(Now) >= Width)
    <3>1. plen = Len(Now)
      BY <1>5, <2>8, Sizes
    <3>2. harm[Count] = 0 /\ Gone + 1 = Len(Preamble) + Len(Now)
      <4>1. Len(buf) + 1 >= Len(Now)
        BY <1>7, <3>1
      <4>2. QED
        BY <1>5a, <4>1
    <3>3. wire' = <<>>
      <4>1. wire \in Seq(Item) /\ wire # <<>>
        BY DEF IInv, FramingTypeOK, PollByte
      <4>2. wire' \in Seq(Item) /\ Len(wire') \in Nat
        BY <1>1, <4>1
      <4>3. Gone' = Len(Preamble) + Len(Now) - Len(wire')
        BY <1>1 DEF Gone
      <4>4. Len(wire') = 0
        <5>1. Gone' = Gone + 1
          BY <1>1
        <5>2. QED
          BY <1>5a, <3>2, <4>2, <4>3, <5>1
      <4>5. QED
        BY <4>2, <4>4
    <3>4. Done'
      BY <1>1, <2>1, <2>6, <3>2, <3>3 DEF Done
    <3>5. QED
      BY <1>1, <2>6, <3>4 DEF Local, Progress
  <2>9. QED
    BY <2>7, <2>8
<1>8. CASE ~(Len(buf) + 1 >= plen)
  <2>1. /\ buf' = Append(buf, c) /\ UNCHANGED <<state, plen, taken>>
    BY <1>3, <1>6, <1>8 DEF DataByte
  <2>2. Len(buf') = Len(buf) + 1 /\ Len(buf') < plen' /\ Len(buf') >= HeaderLen
    BY <1>1, <1>2, <1>4, <1>5, <1>6, <1>8, <2>1
  <2>3. harm[Count] = 0 => \A i \in 1 .. Len(buf') : buf'[i] = Now[i]
    BY <1>2, <1>4, <1>6, <2>1
  <2>4. Len(buf') + harm[Count] = Gone' - Len(Preamble)
    <3>1. Gone' = Gone + 1 /\ Len(buf') = Len(buf) + 1
      BY <1>1, <2>2
    <3>2. QED
      BY <1>5a, <3>1
  <2>5. InData'
    BY <1>1, <1>2, <2>1, <2>2, <2>3, <2>4 DEF InData
  <2>6. QED
    BY <1>1, <2>1, <2>5, RecordedSame DEF Local, Progress
<1>9. QED
  BY <1>7, <1>8

\* Whatever is taken for a packet then, nothing that was said changes.
LEMMA OutStep ==
  ASSUME IInv, Local, PollByte, OutOfStep PROVE Local'
<1>1. /\ Count \in Nat /\ Count > 0 /\ Line' /\ UNCHANGED <<harm, sent>>
      /\ Count' = Count
      /\ \E c \in Byte : Skipped(c) \/ HeaderByte(c) \/ DataByte(c)
  BY PollParts
<1>2. PICK c \in Byte : Skipped(c) \/ HeaderByte(c) \/ DataByte(c)
  BY <1>1
<1>3. buf \in Seq(Byte) /\ Len(taken) \in Nat
  BY RecordedParts DEF IInv, FramingTypeOK
<1>4. taken' = taken \/ taken' = Append(taken, Append(buf, c))
  BY <1>2 DEF Skipped, HeaderByte, DataByte, LostPacket
<1>5. Recorded' /\ Len(taken') >= Len(taken) /\ Len(taken') \in Nat
  <2>1. CASE taken' = taken
    BY <1>1, <1>3, <2>1, RecordedSame
  <2>2. CASE taken' = Append(taken, Append(buf, c))
    <3>1. PICK k : k = Len(taken) + 1
      OBVIOUS
    <3>2. Append(buf, c) \in Seq(Byte)
      BY <1>3
    <3>3. ASSUME k <= Count, Sound(k) PROVE FALSE
      <4>1. k \in 1 .. Count
        BY <1>1, <1>3, <3>1, <3>3
      <4>2. k <= Len(taken)
        BY <3>3, <4>1, OutIsIn
      <4>3. QED
        BY <1>3, <3>1, <4>2
    <3>4. Recorded' /\ Len(taken') = k
      BY <1>1, <2>2, <3>1, <3>2, <3>3, RecordedMore
    <3>5. QED
      BY <1>3, <3>1, <3>4
  <2>3. QED
    BY <1>4, <2>1, <2>2
<1>6. OutOfStep'
  <2>1. PICK j \in 1 .. Count : Len(sent[j]) >= Width /\ (j < Count \/ j <= Len(taken))
    BY DEF OutOfStep
  <2>2. j <= Len(taken) => j <= Len(taken')
    BY <1>1, <1>3, <1>5
  <2>3. QED
    BY <1>1, <2>1, <2>2 DEF OutOfStep
<1>7. QED
  BY <1>1, <1>5, <1>6 DEF Local, Progress

LEMMA PollLocal == ASSUME IInv, Local, Bearable, PollByte PROVE Local'
<1>1. wire # <<>>
  BY DEF PollByte
<1>2. QED
  BY <1>1, OnLine, MakingUpStep, BetweenStep, InHeaderStep, InDataStep, OutStep DEF Local, Progress

LEMMA LocalInit == Init => Local
<1> SUFFICES ASSUME Init PROVE Local
  OBVIOUS
<1>1. Count = 0 /\ harm \in Seq(Nat) /\ Len(harm) = 0 /\ taken = <<>> /\ Len(taken) = 0
      /\ taken \in Seq(Seq(Byte)) /\ state = "idle" /\ wire = <<>>
  BY DEF Init, Count
<1>2. Line /\ Recorded /\ Progress
  BY <1>1 DEF Line, Recorded, Progress, Nothing
<1>3. QED
  BY <1>2 DEF Local

\* One count of lost bytes for each packet.
Counted == harm \in Seq(Nat) /\ Len(harm) = Len(sent)

LEMMA CountedNext == IInv /\ Counted /\ [Next]_vars => Counted'
<1> SUFFICES ASSUME IInv, Counted, [Next]_vars PROVE Counted'
  OBVIOUS
<1>1. CASE UNCHANGED <<harm, sent>>
  BY <1>1 DEF Counted
<1>2. ASSUME NEW p \in Packet, Send(p) PROVE Counted'
  <2>1. sent' = Append(sent, p) /\ harm' = Append(harm, 0) /\ sent \in Seq(Packet)
    BY <1>2 DEF Send, IInv, FramingTypeOK
  <2>2. QED
    BY <2>1 DEF Counted
<1>3. CASE Lose
  <2>1. sent' = sent
    BY <1>3 DEF Lose
  <2>2. CASE harm' = harm
    BY <2>1, <2>2 DEF Counted
  <2>3. CASE harm' = [harm EXCEPT ![Head(wire).id] = @ + 1]
    <3>1. harm \in [1 .. Len(harm) -> Nat] /\ Len(harm) \in Nat
      BY DEF Counted
    <3>2. harm' \in [1 .. Len(harm) -> Nat]
      <4>1. PICK k : k = Head(wire).id
        OBVIOUS
      <4>2. harm' = [harm EXCEPT ![k] = harm[k] + 1]
        BY <2>3, <4>1
      <4>3. CASE k \in 1 .. Len(harm)
        BY <3>1, <4>2, <4>3
      <4>4. CASE k \notin 1 .. Len(harm)
        BY <3>1, <4>2, <4>4
      <4>5. QED
        BY <4>3, <4>4
    <3>3. harm' \in Seq(Nat) /\ Len(harm') = Len(harm)
      BY <3>1, <3>2
    <3>4. QED
      BY <2>1, <3>3 DEF Counted
  <2>4. QED
    BY <1>3, <2>2, <2>3 DEF Lose
<1>4. CASE PollByte \/ UNCHANGED vars
  BY <1>1, <1>4 DEF PollByte, vars
<1>5. QED
  BY <1>2, <1>3, <1>4 DEF Next

LEMMA LocalNext == IInv /\ Counted /\ LocalInv /\ [Next]_vars => LocalInv'
<1> SUFFICES ASSUME IInv, Counted, LocalInv, [Next]_vars, Bearable' PROVE Local'
  BY DEF LocalInv
<1>1. Bearable /\ Local
  BY WasBearable DEF Counted, LocalInv
<1>2. CASE UNCHANGED vars
  BY <1>1, <1>2 DEF vars, Local, Line, Recorded, Progress, Nothing, MakingUp, Between,
     InHeader, InData, Done, OutOfStep, Sound, ShortBefore, Gone, Now, Count
<1>3. QED
  BY <1>1, <1>2, SendLocal, LoseLocal, PollLocal DEF Next

LEMMA LocalLoss == IInv /\ LocalInv => LossStaysLocal
<1> SUFFICES ASSUME IInv, Local, Bearable
             PROVE  /\ \A i \in 1 .. Len(sent) :
                         ShortBefore(i) /\ harm[i] = 0 =>
                           /\ i <= Len(taken) => taken[i] = Arrives(sent[i])
                           /\ wire = <<>> => i <= Len(taken)
                    /\ ShortBefore(Len(sent) + 1) => Len(taken) <= Len(sent)
  BY DEF LocalInv, LossStaysLocal
<1>1. Len(taken) \in Nat /\ Count \in Nat /\ Count = Len(sent)
  BY RecordedParts DEF Count
<1>2. ASSUME NEW i \in 1 .. Count, Sound(i), wire = <<>> PROVE i <= Len(taken)
  <2>1. Count > 0
    BY <1>1
  <2>2. CASE Done
    BY <1>1, <2>2 DEF Done
  <2>3. CASE InData /\ harm[Count] # 0
    <3>1. Len(taken) = Count - 1 /\ i # Count
      BY <1>2, <2>3 DEF InData, Sound
    <3>2. QED
      BY <1>1, <3>1
  <2>4. CASE OutOfStep
    BY <1>2, <2>4, OutIsIn
  <2>5. QED
    BY <1>2, <2>1, <2>2, <2>3, <2>4, LineEmpty
<1>3. ASSUME ShortBefore(Count + 1) PROVE Len(taken) <= Count
  <2>1. ASSUME OutOfStep PROVE FALSE
    <3>1. PICK j \in 1 .. Count : Len(sent[j]) >= Width
      BY <2>1 DEF OutOfStep
    <3>2. Len(sent[j]) \in Nat /\ Width \in Nat
      BY Sizes DEF IInv, FramingTypeOK, Count, Packet
    <3>3. Len(sent[j]) < Width
      BY <1>1, <1>3 DEF ShortBefore
    <3>4. QED
      BY <3>1, <3>2, <3>3
  <2>2. CASE Count = 0
    BY <1>1, <2>2 DEF Local, Progress, Nothing
  <2>3. CASE MakingUp \/ Between \/ InHeader \/ InData \/ Done
    BY <1>1, <2>3 DEF MakingUp, Between, InHeader, InData, Done
  <2>4. QED
    BY <2>1, <2>2, <2>3 DEF Local, Progress
<1>4. \A i \in 1 .. Count : Sound(i) /\ i <= Len(taken) => taken[i] = Arrives(sent[i])
  BY RecordedParts
<1>5. QED
  BY <1>1, <1>2, <1>3, <1>4 DEF Sound

THEOREM LocalInvariance == Spec => [](IInv /\ Counted /\ LocalInv)
<1>1. Init => Counted /\ LocalInv
  BY LocalInit DEF Init, Counted, LocalInv
<1>2. QED
  BY InitInv, NextInv, CountedNext, LocalNext, <1>1, PTL DEF Spec

\* A packet none of whose bytes was lost comes in, whatever it contains and
\* whatever the packets before it lost, as long as no header or preamble is hit
\* and no packet lacks more than a preamble: as it went out if it is shorter
\* than Width, cut off where the sum of its length bytes says if it is the
\* first longer one (socat.c:90-153).
THEOREM LossLocal == Spec => []LossStaysLocal
BY LocalInvariance, LocalLoss, PTL
=============================================================================
