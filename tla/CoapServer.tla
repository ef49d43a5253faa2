----------------------------- MODULE CoapServer -----------------------------
(***************************************************************************)
(* The CoAP server: transactions and their retransmission                  *)
(* (Coap/er-coap-13-transactions.c), observers (er-coap-13-observing.c),   *)
(* the receiver (er-coap-13-engine.c) and the observable power resource    *)
(* with its periodic handler (er-example-server.c, erbium.c).              *)
(*                                                                         *)
(* Everything runs in the main loop, one event or one datagram at a time,  *)
(* so a handler is one step.  What makes it hard is what lies between:     *)
(* datagrams arrive late, twice or never; an event timer that has expired  *)
(* is an event in the queue, and anything may be handled before it; blocks *)
(* of memory are used again while pointers to them are kept.               *)
(*                                                                         *)
(* Time is counted in periods of the resource (one second).  A message id  *)
(* is a number no live message has: the counter of 16 bits does not come   *)
(* round while a copy of a message is still on its way.  Only confirmable  *)
(* notifications have one in the model; of the others it matters whether a *)
(* reset answers the latest (ResetLatest) or an older one (no effect).     *)
(***************************************************************************)
EXTENDS Integers, Sequences, FiniteSets

CONSTANTS
  Client,
  NoClient,
  Block,         \* the blocks of transactions_memb
  NoBlock,
  Slot,          \* the blocks of observers_memb
  Mid,           \* message ids
  NoMid,         \* no id, or that of a non-confirmable notification
  MaxRetransmit, \* COAP_MAX_RETRANSMIT
  Timeout,       \* first intervals: COAP_RESPONSE_TIMEOUT and its random part
  Refresh,       \* COAP_OBSERVING_REFRESH_INTERVAL
  QueueMax,      \* free places in the queue of events
  MaxJumps,      \* bound: how often the clock is set
  Jump           \* by how much it is set forward

Off == -1   \* the value of a timer that is not running

\* By how much the interval has grown after k retransmissions.
Growth == {w \in [0 .. MaxRetransmit -> 1 .. Refresh] :
             w[0] = 1 /\ \A k \in 1 .. MaxRetransmit : w[k] = 2 * w[k - 1]}

\* The longest a confirmable notification waits: t, doubled every time.
LongestWait(t, w) == t * (w[MaxRetransmit] - 1)

ASSUME CoapAssumption ==
  /\ NoClient \notin Client /\ NoBlock \notin Block /\ NoMid \notin Mid
  /\ MaxRetransmit \in Nat \ {0} /\ Refresh \in Nat /\ QueueMax \in Nat \ {0}
  /\ Timeout \subseteq Nat \ {0} /\ Timeout # {}
  /\ IsFiniteSet(Block) /\ IsFiniteSet(Slot) /\ Slot \subseteq Nat
  /\ IsFiniteSet(Mid) /\ Mid \subseteq Nat
  /\ Cardinality(Slot) < Cardinality(Block)
  /\ \E w \in Growth : \A t \in Timeout :
       LongestWait(t, w) < Refresh       \* 45 s and 60 s in the program
  /\ MaxJumps \in Nat /\ Jump \subseteq Nat

VARIABLES
  used,      \* blocks memb_alloc has given away
  open,      \* transactions_list
  owner, mid, retries, interval,   \* t->addr, mid, retrans_counter, interval
  intact,    \* t->packet is what was sent
  timer,     \* what is left of t->retrans_timer; Off: etimer_expired
  restTimer, \* the same for the periodic timer of the resource
  queue,     \* events posted and not handled
  subscriber, lastMid, refresh,    \* o->addr, last_mid, refresh_timer
  buffer,    \* data_buffer: the block of the last power request
  transaction, \* the static variable of coap_receive
  jumps      \* how often the clock has been set

txVars == <<used, open, owner, mid, retries, interval, intact, timer>>
obsVars == <<subscriber, lastMid, refresh>>
vars == <<txVars, obsVars, restTimer, queue, buffer, transaction, jumps>>

Rest == "rest"
Coap == "coap"

-----------------------------------------------------------------------------
(***************************************************************************)
(* memb.c, and the packet a block holds: a header of at most               *)
(* COAP_MAX_HEADER_SIZE bytes, then the buffer handed to a resource.  A    *)
(* notification is 4 bytes, a token of 8, the options (7), the marker and  *)
(* block_cnt, the number of samples and the samples.                       *)
(***************************************************************************)
NotificationLen(samples) == 4 + 8 + 7 + 1 + 2 * (3 + samples)

PowerSamples == 5
HeaderMax    == 67

AtPacket == 0                 \* mutant: the buffer is the packet itself

\* where a resource's buffer begins: transaction->packet + COAP_MAX_HEADER_SIZE
BufferOffset == HeaderMax

\* Writing to the buffer of a block spoils the notification in it.
BufferOverlaps == BufferOffset < NotificationLen(PowerSamples)

Free == Block \ used

Rank(x, S) == Cardinality({y \in S : y < x})

LiveMids  == {mid[b] : b \in open} \union {lastMid[s] : s \in Slot}
FreshMids == Mid \ LiveMids

Injections(S, T) == {f \in [S -> T] : \A x, y \in S : f[x] = f[y] => x = y}

\* coap_get_mid, for each slot of S: the least fresh numbers in their order
NextIds(S) ==
  [s \in S |-> CHOOSE m \in FreshMids : Rank(m, FreshMids) = Rank(s, S)]

-----------------------------------------------------------------------------
(***************************************************************************)
(* Closing and sending transactions.                                       *)
(***************************************************************************)

\* f with the value v for every block of B
Set(f, B, v) == [b \in Block |-> IF b \in B THEN v ELSE f[b]]

\* What a free block still holds is never read: the model erases it.
Erase(B) ==
  /\ owner' = Set(owner, B, NoClient)
  /\ mid' = Set(mid, B, NoMid)
  /\ retries' = Set(retries, B, 0)
  /\ interval' = Set(interval, B, 0)
  /\ intact' = Set(intact, B, TRUE)

\* mutant: the transaction is taken off the list and keeps its block
Unlisted(B) == open' = open \ B /\ UNCHANGED used

\* list_remove and memb_free
GiveBack(B) == open' = open \ B /\ used' = used \ B

\* coap_clear_transaction, for every block of B; a block that is not in use
\* stays as it is (list_remove finds nothing, memb_free does not count down).
Clear(B) ==
  /\ GiveBack(B)
  /\ timer' = Set(timer, B, Off)
  /\ Erase(B)

-----------------------------------------------------------------------------
(***************************************************************************)
(* Observers.  The loops that remove "all" that match stop after the       *)
(* first: list_remove has cut the link they follow.                        *)
(***************************************************************************)
SlotsOf(c) == {s \in Slot : subscriber[s] = c}

Removed(sub, S) ==
  IF S = {} THEN {sub} ELSE {[sub EXCEPT ![s] = NoClient] : s \in S}

\* What a free slot holds is erased.
KeepSlots == /\ lastMid' = [s \in Slot |-> IF subscriber'[s] = NoClient
                                            THEN NoMid ELSE lastMid[s]]
             /\ refresh' = [s \in Slot |-> IF subscriber'[s] = NoClient
                                            THEN 0 ELSE refresh[s]]

\* coap_add_observer: the client is removed first, then takes a free block
KeepsOld(c) == {subscriber}   \* mutant: without removing it first

Resubscribed(c) == Removed(subscriber, SlotsOf(c))

AddObserver(c) ==
  \E sub \in Resubscribed(c) :
    LET room == {s \in Slot : sub[s] = NoClient} IN
    IF room = {}
      THEN subscriber' = sub /\ KeepSlots
      ELSE \E s \in room :
             /\ subscriber' = [sub EXCEPT ![s] = c]
             /\ lastMid' = [t \in Slot |-> IF t \in room THEN NoMid
                                                         ELSE lastMid[t]]
             /\ refresh' = [t \in Slot |-> CASE t = s       -> Refresh
                                             [] t \in room \ {s} -> 0
                                             [] OTHER       -> refresh[t]]

\* coap_remove_observer_by_url, and by_client: there is one observable resource
RemoveObserver(c) ==
  /\ subscriber' \in Removed(subscriber, SlotsOf(c))
  /\ KeepSlots

-----------------------------------------------------------------------------
Init ==
  /\ used = {} /\ open = {}
  /\ owner = [b \in Block |-> NoClient]
  /\ mid = [b \in Block |-> NoMid]
  /\ retries = [b \in Block |-> 0]
  /\ interval = [b \in Block |-> 0]
  /\ intact = [b \in Block |-> TRUE]
  /\ timer = [b \in Block |-> Off]
  /\ restTimer = 1
  /\ queue = <<>>
  /\ subscriber = [s \in Slot |-> NoClient]
  /\ lastMid = [s \in Slot |-> NoMid]
  /\ refresh = [s \in Slot |-> 0]
  /\ buffer = NoBlock /\ transaction = NoBlock
  /\ jumps = 0

(***************************************************************************)
(* coap_receive: a request.  Its transaction holds a block only while it   *)
(* is handled: an acknowledgement or a non-confirmable answer is cleared   *)
(* as soon as it is sent, and so is one that ends in an error.             *)
(***************************************************************************)
Respond(b) ==
  /\ transaction' = b
  /\ UNCHANGED <<txVars, restTimer, queue, jumps>>

\* GET of the power resource, answered without an error: coap_observe_handler
\* comes next.
PowerRequest(c, observe) ==
  \E b \in Free :
    /\ Respond(b)
    /\ buffer' = b
    /\ IF observe THEN AddObserver(c) ELSE RemoveObserver(c)

\* the card does not hold the packet asked for
PowerNotFound ==
  \E b \in Free : Respond(b) /\ buffer' = b /\ UNCHANGED obsVars

OtherRequest ==
  \E b \in Free : Respond(b) /\ UNCHANGED <<obsVars, buffer>>

\* "NoFreeTraBuffer"
RequestRefused ==
  /\ Free = {}
  /\ transaction' = NoBlock
  /\ UNCHANGED <<txVars, obsVars, restTimer, queue, buffer, jumps>>

(***************************************************************************)
(* coap_receive: an answer, found by its message id alone.                 *)
(***************************************************************************)
Lookup(m) == {b \in open : mid[b] = m}

CloseByMid(m) ==
  /\ Clear(Lookup(m))
  /\ transaction' = NoBlock
  /\ UNCHANGED <<restTimer, queue, buffer, jumps>>

\* c has been sent a confirmable notification with the id m.  Its copies, and
\* the answers of c, may be lost, late or repeated: an answer may come at any
\* time while the server still holds the id, any number of times, or never.
Received(c, m) ==
  \/ \E b \in open : owner[b] = c /\ mid[b] = m
  \/ \E s \in SlotsOf(c) : lastMid[s] = m

Acknowledge(c, m) ==
  /\ Received(c, m)
  /\ CloseByMid(m)
  /\ UNCHANGED obsVars

\* coap_remove_observer_by_mid, then the lookup
Reset(c, m) ==
  /\ Received(c, m)
  /\ CloseByMid(m)
  /\ subscriber' \in Removed(subscriber, {s \in SlotsOf(c) : lastMid[s] = m})
  /\ KeepSlots

\* The client resets the latest non-confirmable notification: no transaction
\* has its id.
ResetLatest(c) ==
  /\ transaction' = NoBlock
  /\ subscriber' \in Removed(subscriber, {s \in SlotsOf(c) : lastMid[s] = NoMid})
  /\ KeepSlots
  /\ UNCHANGED <<txVars, restTimer, queue, buffer, jumps>>

\* A ping or an answer of another exchange: its message id is of the client's
\* own counting and may happen to be that of an open transaction.
Unrelated(m) ==
  /\ CloseByMid(m)
  /\ UNCHANGED obsVars

\* A datagram that cannot be parsed: the error path clears whatever the
\* static variable points to.
Malformed ==
  /\ Clear({transaction} \intersect Block)
  /\ UNCHANGED <<obsVars, restTimer, queue, buffer, transaction, jumps>>

-----------------------------------------------------------------------------
(***************************************************************************)
(* coap_check_transactions: every transaction whose timer has expired is   *)
(* sent once more, up to the first that is then given up: clearing it cuts *)
(* the link the loop follows.  The order of the list is left open.         *)
(***************************************************************************)
Expired == {b \in open : timer[b] = Off}

GivenUp == {b \in Expired : retries[b] + 1 >= MaxRetransmit}

\* mutant: the timer is not set again
NotRestarted(b) == Off

Rearmed(b) == 2 * interval[b]

\* B is sent again and kept, G is sent once more and given up.
SendAgain(B, G) ==
  /\ GiveBack(G)
  /\ timer' = [b \in Block |-> CASE b \in B -> Rearmed(b)
                                 [] b \in G -> Off
                                 [] OTHER   -> timer[b]]
  /\ retries' = [b \in Block |-> CASE b \in B -> retries[b] + 1
                                   [] b \in G -> 0
                                   [] OTHER   -> retries[b]]
  /\ interval' = [b \in Block |-> CASE b \in B -> 2 * interval[b]
                                    [] b \in G -> 0
                                    [] OTHER   -> interval[b]]
  /\ owner' = Set(owner, G, NoClient)
  /\ mid' = Set(mid, G, NoMid)
  /\ intact' = Set(intact, G, TRUE)

CheckTransactions ==
  \/ /\ GivenUp = {}
     /\ SendAgain(Expired, {})
     /\ UNCHANGED obsVars
  \/ \E g \in GivenUp : \E B \in SUBSET (Expired \ GivenUp) :
       /\ SendAgain(B, {g})
       /\ RemoveObserver(owner[g])

HandleCoapEvent ==
  /\ queue # <<>> /\ Head(queue) = Coap
  /\ queue' = Tail(queue)
  /\ CheckTransactions
  /\ UNCHANGED <<restTimer, buffer, transaction, jumps>>

-----------------------------------------------------------------------------
(***************************************************************************)
(* The periodic handler and coap_notify_observers.  A non-confirmable      *)
(* notification needs a block while it is sent, a confirmable one keeps    *)
(* it.  Which observers come first is left open.                           *)
(***************************************************************************)
Subscribed == {s \in Slot : subscriber[s] # NoClient}

\* mutant: stimer_restart is forgotten
NeverRestarted(s) == 0

RestartedRefresh(s) == Refresh

\* con: the slots served with a confirmable notification, block: the block
\* each of them has got.
Taken(con, block)   == {block[s] : s \in con}
SlotOf(con, block, b) == CHOOSE s \in con : block[s] = b

Sent(con, non, block, first) ==
  LET id == NextIds(con) IN
    /\ used' = used \union Taken(con, block)
    /\ open' = open \union Taken(con, block)
    /\ owner' = [b \in Block |-> IF b \in Taken(con, block)
                                 THEN subscriber[SlotOf(con, block, b)] ELSE owner[b]]
    /\ mid' = [b \in Block |-> IF b \in Taken(con, block)
                               THEN id[SlotOf(con, block, b)] ELSE mid[b]]
    /\ retries' = Set(retries, Taken(con, block), 0)
    /\ interval' = Set(interval, Taken(con, block), first)
    /\ timer' = Set(timer, Taken(con, block), first)
    /\ intact' = [b \in Block |-> \/ b \in Taken(con, block)
                                  \/ intact[b] /\ ~(b = buffer /\ BufferOverlaps)]
    /\ lastMid' = [s \in Slot |-> CASE s \in con -> id[s]
                                    [] s \in non -> NoMid
                                    [] OTHER    -> lastMid[s]]
    /\ refresh' = [s \in Slot |-> IF s \in con THEN RestartedRefresh(s)
                                               ELSE refresh[s]]
    /\ UNCHANGED subscriber

Notify(con, non) ==
  \E block \in Injections(con, Free), first \in Timeout : Sent(con, non, block, first)

NotifyObservers ==
  LET due == {s \in Subscribed : refresh[s] = 0} IN
  IF Cardinality(due) < Cardinality(Free)
    THEN Notify(due, Subscribed \ due)
    ELSE \E con \in SUBSET due : \E non \in SUBSET (Subscribed \ due) :
           /\ Cardinality(con) = Cardinality(Free)
           /\ Free = {} => non = {}
           /\ Notify(con, non)

\* rest_manager_process: the handler only works when somebody observes, then
\* etimer_reset
HandleRestEvent ==
  /\ queue # <<>> /\ Head(queue) = Rest
  /\ queue' = Tail(queue)
  /\ restTimer' = 1
  /\ IF Subscribed = {} THEN UNCHANGED <<txVars, obsVars>>
                        ELSE NotifyObservers
  /\ UNCHANGED <<buffer, transaction, jumps>>

-----------------------------------------------------------------------------
(***************************************************************************)
(* Time.  etimer_process posts the timers that are due; when the queue is  *)
(* full a timer stays on the list and is tried again.  The main loop       *)
(* handles what is due within the second, so the clock waits for it.       *)
(***************************************************************************)
Post(owned) == Len(queue) < QueueMax /\ queue' = Append(queue, owned)

ExpireTransaction(b) ==
  /\ timer[b] = 0
  /\ Post(Coap)
  /\ timer' = [timer EXCEPT ![b] = Off]
  /\ UNCHANGED <<used, open, owner, mid, retries, interval, intact, obsVars,
                 restTimer, buffer, transaction, jumps>>

ExpireRest ==
  /\ restTimer = 0
  /\ Post(Rest)
  /\ restTimer' = Off
  /\ UNCHANGED <<txVars, obsVars, buffer, transaction, jumps>>

Less(t) == IF t = Off THEN Off ELSE t - 1

Tick ==
  /\ queue = <<>> /\ restTimer # 0 /\ \A b \in Block : timer[b] # 0
  /\ restTimer' = Less(restTimer)
  /\ timer' = [b \in Block |-> Less(timer[b])]
  /\ refresh' = [s \in Slot |-> IF refresh[s] = 0 THEN 0 ELSE refresh[s] - 1]
  /\ UNCHANGED <<used, open, owner, mid, retries, interval, intact, subscriber,
                 lastMid, queue, buffer, transaction, jumps>>

\* The clock is set forward (GPS, or a POST): stimer counts its seconds, the
\* event timers do not.
SetClock(d) ==
  /\ jumps < MaxJumps /\ jumps' = jumps + 1
  /\ refresh' = [s \in Slot |-> IF refresh[s] > d THEN refresh[s] - d ELSE 0]
  /\ UNCHANGED <<txVars, subscriber, lastMid, restTimer, queue, buffer,
                 transaction>>

-----------------------------------------------------------------------------
Next ==
  \/ \E c \in Client, observe \in BOOLEAN : PowerRequest(c, observe)
  \/ PowerNotFound
  \/ OtherRequest
  \/ RequestRefused
  \/ \E c \in Client : ResetLatest(c)
  \/ \E c \in Client, m \in Mid : Acknowledge(c, m) \/ Reset(c, m)
  \/ \E m \in {mid[b] : b \in open} \union {NoMid} : Unrelated(m)
  \/ Malformed
  \/ HandleCoapEvent
  \/ HandleRestEvent
  \/ \E b \in Block : ExpireTransaction(b)
  \/ ExpireRest
  \/ Tick
  \/ \E d \in Jump : SetClock(d)

Spec == Init /\ [][Next]_vars

-----------------------------------------------------------------------------
TxTypes ==
  /\ used \subseteq Block /\ open \subseteq Block
  /\ owner \in [Block -> Client \union {NoClient}]
  /\ retries \in [Block -> Nat] /\ interval \in [Block -> Nat]
  /\ intact \in [Block -> BOOLEAN]
  /\ timer \in [Block -> Nat \union {Off}]

\* What is kept of transactions and observers has its type.
CoapTypeOK == TxTypes /\ subscriber \in [Slot -> Client \union {NoClient}]

\* A block is in use exactly while its transaction is listed, and outside a
\* handler only notifications that wait for an answer are: no sequence of
\* requests, errors and late answers leaks one of the few blocks or leaves a
\* timer running on a free one.
NoBlockLeaked ==
  /\ used = open
  /\ \A b \in Block : b \in open => owner[b] # NoClient /\ retries[b] < MaxRetransmit
  /\ \A b \in Block \ open : timer[b] = Off

CoapEvents == {i \in 1 .. Len(queue) : queue[i] = Coap}

\* Every open transaction will be looked at again: its timer runs, or there
\* are at least as many timer events in the queue as transactions whose timer
\* has expired.  One event per transaction is what makes up for the loop that
\* stops early.
RetryPending == Cardinality(Expired) <= Cardinality(CoapEvents)

\* While nobody sets the clock there is always a block for the next request:
\* a notification is given up before its observer is asked again.
RoomForRequests == jumps = 0 => Free # {}

\* The periodic handler reads the card to where the last power request had
\* its buffer; that is inside a block which may hold an open notification by
\* then, and must not change what is sent again ("so no need for extra
\* buffer", er-example-server.c:795).  The length of a notification is that of
\* the POWER_SAMPLES 5 the program is built with; of the 30 its comment allows
\* (main.c:1282), 21 and more would reach into the buffer.
OpenPacketIntact == \A b \in open : intact[b]

\* A client that lets a confirmable notification time out is no longer
\* notified, although only one of its entries is removed.
SilentClientForgotten ==
  [][\A b \in open \ open' :
       HandleCoapEvent => \A s \in Slot : subscriber'[s] # owner[b]]_vars
=============================================================================
