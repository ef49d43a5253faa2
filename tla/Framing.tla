------------------------------- MODULE Framing -------------------------------
(***************************************************************************)
(* IP packets on the serial line between the board and socat               *)
(* (Libraries/Ethernet_Socat/socat.c): a packet goes out behind four bytes *)
(* of packet information and comes back in as bytes, of which the receiver *)
(* finds the start by the first byte of an IPv4 header and the end by the  *)
(* length in it.  The receive buffer of the port drops bytes when it is    *)
(* full (UsartBuffer), so any byte may be missing.                         *)
(*                                                                         *)
(* Bytes are numbers below Width (256 in the code); the header is          *)
(* HeaderLen bytes, its third and fourth the length of the packet, as in   *)
(* IPv4.                                                                   *)
(***************************************************************************)
EXTENDS Integers, Sequences

CONSTANTS
  Width,      \* values of a byte
  Start,      \* 0x45: version and header length of IPv4
  Preamble,   \* 00 00 08 00: the packet information before each packet
  HeaderLen,  \* UIP_IPH_LEN
  BufSize,    \* UIP_BUFSIZE
  Length,     \* lengths of the packets on the line
  Filling,    \* bytes a packet may be filled with
  MaxPackets, \* bound: packets sent
  MaxLost     \* bound: bytes lost

ASSUME FramingAssumption ==
  /\ Width \in Nat \ {0} /\ Start \in 0 .. Width - 1
  /\ Preamble \in Seq((0 .. Width - 1) \ {Start})
  /\ HeaderLen \in Nat /\ HeaderLen >= 4
  /\ BufSize \in Nat /\ BufSize > 2 * (Width - 1) /\ BufSize > HeaderLen
  /\ Length \subseteq {n \in Nat : n > HeaderLen}
  /\ \A n \in Length : {n \div Width, n % Width} \subseteq 0 .. Width - 1
  /\ Filling \subseteq 0 .. Width - 1
  /\ MaxPackets \in Nat /\ MaxLost \in Nat

VARIABLES
  wire,   \* what is on its way to the receiver: bytes, each with the number
          \* of its packet and whether it belongs to the data of it
  sent,   \* history: the packets sent
  harm,   \* history: how many bytes of the data of each were lost
  marred, \* history: whether a byte of a header or a preamble was lost
  lost,   \* bytes lost so far
  state,  \* receive_state
  buf,    \* socat_buf up to len
  plen,   \* packet_length
  taken   \* history: the packets copied into uip_buf, in order

vars == <<wire, sent, harm, marred, lost, state, buf, plen, taken>>

Byte == 0 .. Width - 1
Item == [byte : Byte, id : Nat, data : BOOLEAN]

\* A packet of n bytes, with the data given.
PacketOf(n, data) ==
  <<Start, 0, n \div Width, n % Width>>
    \o [i \in 1 .. HeaderLen - 4 |-> 0] \o data

Packet == UNION {{PacketOf(n, d) : d \in [1 .. n - HeaderLen -> Filling]} : n \in Length}

Reported(packet) == packet[3] * Width + packet[4]

-----------------------------------------------------------------------------
\* soc_eth_packet_send, here of the other end of the line: the packet
\* information, then the bytes.
Framed(packet, id) ==
  LET bytes == Preamble \o packet
  IN [i \in 1 .. Len(bytes) |->
        [byte |-> bytes[i], id |-> id, data |-> i > Len(Preamble) + HeaderLen]]

Send(packet) ==
  /\ Len(sent) < MaxPackets /\ wire = <<>>
  /\ sent' = Append(sent, packet)
  /\ harm' = Append(harm, 0)
  /\ wire' = Framed(packet, Len(sent'))
  /\ UNCHANGED <<marred, lost, state, buf, plen, taken>>

\* A byte is dropped.
Lose ==
  /\ wire # <<>> /\ lost < MaxLost
  /\ lost' = lost + 1
  /\ IF Head(wire).data
     THEN harm' = [harm EXCEPT ![Head(wire).id] = @ + 1] /\ UNCHANGED marred
     ELSE marred' = TRUE /\ UNCHANGED harm
  /\ wire' = Tail(wire)
  /\ UNCHANGED <<sent, state, buf, plen, taken>>

-----------------------------------------------------------------------------
(***************************************************************************)
(* soc_eth_packet_poll: one turn of its loop.                              *)
(***************************************************************************)
WithShift(packet) == Reported(packet)   \* mutant: the high byte is shifted

\* "msb<<8;" has no effect: the two bytes of the length are added.
PacketLength(packet) == packet[3] + packet[4]

AnyByte(c) == TRUE                      \* mutant: a packet starts anywhere

StartsPacket(c) == c = Start

\* Between packets everything but the start of a header is skipped.
Skipped(c) ==
  /\ state = "idle"
  /\ IF StartsPacket(c) THEN state' = "header" /\ buf' = Append(buf, c)
                        ELSE UNCHANGED <<state, buf>>
  /\ UNCHANGED <<plen, taken>>

\* The buffer is full only when a byte has been stored past its end.
Overflow == Len(buf) + 1 > BufSize

LostPacket == buf' = <<>> /\ state' = "idle" /\ UNCHANGED <<plen, taken>>

HeaderByte(c) ==
  /\ state = "header"
  /\ IF Overflow
     THEN LostPacket
     ELSE /\ buf' = Append(buf, c)
          /\ IF Len(buf') = HeaderLen
             THEN state' = "data" /\ plen' = PacketLength(buf')
             ELSE UNCHANGED <<state, plen>>
          /\ UNCHANGED taken

NextState == "idle"

\* The last byte: the packet is copied and its length returned.
DataByte(c) ==
  /\ state = "data"
  /\ IF Overflow
     THEN LostPacket
     ELSE IF Len(buf) + 1 >= plen
          THEN /\ taken' = Append(taken, Append(buf, c))
               /\ buf' = <<>> /\ state' = NextState
               /\ UNCHANGED plen
          ELSE buf' = Append(buf, c) /\ UNCHANGED <<state, plen, taken>>

PollByte ==
  /\ wire # <<>>
  /\ LET c == Head(wire).byte IN Skipped(c) \/ HeaderByte(c) \/ DataByte(c)
  /\ wire' = Tail(wire)
  /\ UNCHANGED <<sent, harm, marred, lost>>

-----------------------------------------------------------------------------
Init ==
  /\ wire = <<>> /\ sent = <<>> /\ harm = <<>> /\ marred = FALSE /\ lost = 0
  /\ state = "idle" /\ buf = <<>> /\ plen = 0 /\ taken = <<>>

Next == (\E packet \in Packet : Send(packet)) \/ Lose \/ PollByte

Spec == Init /\ [][Next]_vars

-----------------------------------------------------------------------------
(***************************************************************************)
(* Properties.                                                             *)
(***************************************************************************)

\* Every variable has its type; the length is the sum of two bytes.
FramingTypeOK ==
  /\ wire \in Seq(Item) /\ sent \in Seq(Packet) /\ buf \in Seq(Byte)
  /\ state \in {"idle", "header", "data"}
  /\ plen \in 0 .. 2 * (Width - 1)

\* No byte is stored past the end of the buffer, whatever the line loses and
\* whatever is taken for a header: the test for it (socat.c:107 and 131) comes
\* after the byte is stored and would be too late.  What keeps the packets
\* short is the length, the sum of two bytes (socat.c:118-121).
WithinBuffer == Len(buf) < BufSize

\* No byte of a header or a preamble was lost, and of no packet's data more than
\* a preamble has.
Bearable == ~marred /\ \A i \in 1 .. Len(sent) : harm[i] <= Len(Preamble)

\* Every packet before the i-th is shorter than its low length byte can say.
ShortBefore(i) == \A j \in 1 .. i - 1 : Len(sent[j]) < Width

\* Where the receiver ends a packet: where the sum of its two length bytes says,
\* behind a byte of data at least.
Cut(packet) ==
  IF packet[3] + packet[4] > HeaderLen THEN packet[3] + packet[4] ELSE HeaderLen + 1

\* What comes in of a packet that is sent: a short one whole, a longer one cut
\* off.  The comment of soc_eth_packet_poll (socat.c:70-76) has every packet
\* read in full.
Arrives(packet) ==
  IF Len(packet) < Width THEN packet ELSE SubSeq(packet, 1, Cut(packet))

\* Bytes lost from the data of a packet cost that packet alone: what is missing
\* is made up from the packet information of the next one, whose header is
\* found all the same.  So every packet that lost nothing comes in, in its
\* place and as it went out, whatever it contains, up to and with the first of
\* Width bytes or more.  That one comes in cut off, because its high length
\* byte counts as if it were a low one (socat.c:118-121), and its rest is line
\* noise in which the start of a packet may be found: nothing is said of what
\* follows it.  While all packets are short no packet is made up
\* (socat.c:90-153).
LossStaysLocal ==
  Bearable =>
    /\ \A i \in 1 .. Len(sent) :
         ShortBefore(i) /\ harm[i] = 0 =>
           /\ i <= Len(taken) => taken[i] = Arrives(sent[i])
           /\ wire = <<>> => i <= Len(taken)
    /\ ShortBefore(Len(sent) + 1) => Len(taken) <= Len(sent)
=============================================================================
