-------------------------- MODULE CoapServerProofs --------------------------
(***************************************************************************)
(* For any number of clients, blocks, observers, retransmissions and       *)
(* settings of the clock: no block of a transaction is leaked, an open     *)
(* notification stays what was sent and is looked at again when its timer  *)
(* expires, a client that lets one time out is not notified any more, and, *)
(* unless the clock is set, there is a block for the next request.         *)
(***************************************************************************)
EXTENDS CoapServer, FiniteSetTheorems, TLAPS

Transactions == TxTypes /\ NoBlockLeaked /\ OpenPacketIntact

\* A client has one entry in the list of observers.
OneEntry == \A s, t \in Slot :
              subscriber[s] = subscriber[t] => s = t \/ subscriber[s] = NoClient

Observers == subscriber \in [Slot -> Client \union {NoClient}] /\ OneEntry

IInv == Transactions /\ Observers

-----------------------------------------------------------------------------
LEMMA TransactionsSame == Transactions /\ UNCHANGED txVars => Transactions'
BY DEF Transactions, TxTypes, NoBlockLeaked, OpenPacketIntact, txVars

LEMMA ObserversSame == Observers /\ UNCHANGED subscriber => Observers'
BY DEF Observers, OneEntry

LEMMA ClearTransactions ==
  ASSUME Transactions, NEW B, Clear(B)
  PROVE  Transactions'
<1>1. /\ used' = used \ B /\ open' = open \ B
      /\ owner' = Set(owner, B, NoClient) /\ retries' = Set(retries, B, 0)
      /\ interval' = Set(interval, B, 0) /\ intact' = Set(intact, B, TRUE)
      /\ timer' = Set(timer, B, Off)
  BY DEF Clear, GiveBack, Erase
<1>2. /\ owner' \in [Block -> Client \union {NoClient}]
      /\ \A b \in Block \ B : owner'[b] = owner[b]
  BY <1>1 DEF Set, Transactions, TxTypes
<1>3. /\ retries' \in [Block -> Nat]
      /\ \A b \in Block \ B : retries'[b] = retries[b]
  BY <1>1 DEF Set, Transactions, TxTypes
<1>4. interval' \in [Block -> Nat]
  BY <1>1 DEF Set, Transactions, TxTypes
<1>5. /\ intact' \in [Block -> BOOLEAN]
      /\ \A b \in Block \ B : intact'[b] = intact[b]
  BY <1>1 DEF Set, Transactions, TxTypes
<1>6. /\ timer' \in [Block -> Nat \union {Off}]
      /\ \A b \in Block : timer'[b] = IF b \in B THEN Off ELSE timer[b]
  BY <1>1 DEF Set, Transactions, TxTypes
<1>7. TxTypes'
  BY <1>1, <1>2, <1>3, <1>4, <1>5, <1>6 DEF Transactions, TxTypes
<1>8. NoBlockLeaked'
  BY <1>1, <1>2, <1>3, <1>6 DEF Transactions, TxTypes, NoBlockLeaked
<1>9. OpenPacketIntact'
  BY <1>1, <1>5 DEF Transactions, TxTypes, OpenPacketIntact
<1>10. QED
  BY <1>7, <1>8, <1>9 DEF Transactions

LEMMA SendAgainTransactions ==
  ASSUME Transactions, NEW B, NEW G, B \subseteq Expired \ GivenUp,
         G \subseteq GivenUp, SendAgain(B, G)
  PROVE  Transactions'
<1>1. /\ used' = used \ G /\ open' = open \ G
      /\ owner' = Set(owner, G, NoClient) /\ intact' = Set(intact, G, TRUE)
  BY DEF SendAgain, GiveBack
<1>2. B \subseteq open /\ \A b \in B : retries[b] + 1 < MaxRetransmit
  BY CoapAssumption DEF Expired, GivenUp, Transactions, TxTypes
<1>3. /\ owner' \in [Block -> Client \union {NoClient}]
      /\ \A b \in Block \ G : owner'[b] = owner[b]
  BY <1>1 DEF Set, Transactions, TxTypes
<1>4. /\ intact' \in [Block -> BOOLEAN]
      /\ \A b \in Block \ G : intact'[b] = intact[b]
  BY <1>1 DEF Set, Transactions, TxTypes
<1>5. /\ retries' \in [Block -> Nat]
      /\ \A b \in Block : /\ b \in B => retries'[b] = retries[b] + 1
                          /\ b \notin B \union G => retries'[b] = retries[b]
  BY DEF SendAgain, Transactions, TxTypes
<1>6. interval' \in [Block -> Nat]
  BY DEF SendAgain, Transactions, TxTypes
<1>7. /\ timer' \in [Block -> Nat \union {Off}]
      /\ \A b \in Block : /\ b \notin B /\ b \in G => timer'[b] = Off
                          /\ b \notin B \union G => timer'[b] = timer[b]
  BY DEF SendAgain, Transactions, TxTypes, Rearmed, Off
<1>8. TxTypes'
  BY <1>1, <1>3, <1>4, <1>5, <1>6, <1>7 DEF Transactions, TxTypes
<1>9. NoBlockLeaked'
  <2>1. used' = open'
    BY <1>1 DEF Transactions, NoBlockLeaked
  <2>2. ASSUME NEW b \in open' PROVE owner'[b] # NoClient /\ retries'[b] < MaxRetransmit
    BY <1>1, <1>2, <1>3, <1>5 DEF Transactions, TxTypes, NoBlockLeaked
  <2>3. ASSUME NEW b \in Block \ open' PROVE timer'[b] = Off
    <3>1. B \cap G = {}
      OBVIOUS
    <3>2. QED
      BY <3>1, <1>1, <1>2, <1>7 DEF Transactions, TxTypes, NoBlockLeaked
  <2>4. QED
    BY <2>1, <2>2, <2>3 DEF NoBlockLeaked
<1>10. OpenPacketIntact'
  BY <1>1, <1>4 DEF Transactions, TxTypes, OpenPacketIntact
<1>11. QED
  BY <1>8, <1>9, <1>10 DEF Transactions

\* The buffer of a resource lies behind the longest notification of a block.
LEMMA NoOverlap == ~BufferOverlaps
BY DEF BufferOverlaps, BufferOffset, HeaderMax, NotificationLen, PowerSamples

LEMMA NotifyTransactions ==
  ASSUME IInv, NEW con \in SUBSET Subscribed, NEW non, Notify(con, non)
  PROVE  Transactions' /\ subscriber' = subscriber
<1>1. PICK block \in Injections(con, Free), first \in Timeout : Sent(con, non, block, first)
  BY DEF Notify
<1> DEFINE taken == Taken(con, block)
           slot(b) == SlotOf(con, block, b)
<1>2. first \in Nat
  BY CoapAssumption
<1>3. taken \subseteq Block \ used
  BY DEF Injections, Free, Taken
<1>4. \A b \in taken : slot(b) \in con
  BY DEF Taken, SlotOf
<1>5. \A s \in con : subscriber[s] \in Client \union {NoClient} /\ subscriber[s] # NoClient
  BY DEF Subscribed, IInv, Observers
<1>6. /\ used' = used \union taken /\ open' = open \union taken
      /\ owner' = [b \in Block |-> IF b \in taken THEN subscriber[slot(b)] ELSE owner[b]]
      /\ retries' = Set(retries, taken, 0)
      /\ interval' = Set(interval, taken, first)
      /\ timer' = Set(timer, taken, first)
      /\ intact' = [b \in Block |-> \/ b \in taken
                                    \/ intact[b] /\ ~(b = buffer /\ BufferOverlaps)]
      /\ subscriber' = subscriber
  BY <1>1 DEF Sent
<1> HIDE DEF taken, slot
<1>7. /\ owner' \in [Block -> Client \union {NoClient}]
      /\ \A b \in taken : owner'[b] # NoClient
      /\ \A b \in Block \ taken : owner'[b] = owner[b]
  BY <1>3, <1>4, <1>5, <1>6 DEF IInv, Transactions, TxTypes
<1>8. /\ retries' \in [Block -> Nat]
      /\ \A b \in taken : retries'[b] = 0
      /\ \A b \in Block \ taken : retries'[b] = retries[b]
  BY <1>3, <1>6 DEF Set, IInv, Transactions, TxTypes
<1>9. /\ interval' \in [Block -> Nat] /\ timer' \in [Block -> Nat \union {Off}]
      /\ \A b \in Block \ taken : timer'[b] = timer[b]
  BY <1>2, <1>6 DEF Set, IInv, Transactions, TxTypes
<1>10. /\ intact' \in [Block -> BOOLEAN]
       /\ \A b \in taken : intact'[b]
       /\ \A b \in Block \ taken : intact[b] => intact'[b]
  BY <1>3, <1>6, NoOverlap
<1>11. TxTypes'
  BY <1>3, <1>6, <1>7, <1>8, <1>9, <1>10 DEF IInv, Transactions, TxTypes
<1>12. NoBlockLeaked'
  <2>1. used' = open'
    BY <1>6 DEF IInv, Transactions, NoBlockLeaked
  <2>2. ASSUME NEW b \in open' PROVE owner'[b] # NoClient /\ retries'[b] < MaxRetransmit
    <3>1. CASE b \in taken
      BY <3>1, <1>7, <1>8, CoapAssumption
    <3>2. CASE b \notin taken
      BY <3>2, <1>6, <1>7, <1>8 DEF IInv, Transactions, TxTypes, NoBlockLeaked
    <3>3. QED
      BY <3>1, <3>2
  <2>3. ASSUME NEW b \in Block \ open' PROVE timer'[b] = Off
    BY <1>6, <1>9 DEF IInv, Transactions, NoBlockLeaked
  <2>4. QED
    BY <2>1, <2>2, <2>3 DEF NoBlockLeaked
<1>13. OpenPacketIntact'
  BY <1>3, <1>6, <1>10 DEF IInv, Transactions, TxTypes, OpenPacketIntact
<1>14. QED
  BY <1>6, <1>11, <1>12, <1>13 DEF Transactions

LEMMA ExpireTransactions ==
  ASSUME Transactions, NEW b \in Block, ExpireTransaction(b) PROVE Transactions'
<1>1. /\ UNCHANGED <<used, open, owner, retries, interval, intact>>
      /\ timer' \in [Block -> Nat \union {Off}]
      /\ timer'[b] = Off /\ \A c \in Block \ {b} : timer'[c] = timer[c]
  BY DEF ExpireTransaction, Transactions, TxTypes, Off
<1>2. QED
  BY <1>1 DEF Transactions, TxTypes, NoBlockLeaked, OpenPacketIntact

LEMMA TickTransactions ==
  ASSUME Transactions, Tick PROVE Transactions'
<1>1. /\ UNCHANGED <<used, open, owner, retries, interval, intact>>
      /\ timer' \in [Block -> Nat \union {Off}]
      /\ \A c \in Block : timer[c] = Off => timer'[c] = Off
  BY DEF Tick, Transactions, TxTypes, Off, Less
<1>2. QED
  BY <1>1 DEF Transactions, TxTypes, NoBlockLeaked, OpenPacketIntact

-----------------------------------------------------------------------------
(***************************************************************************)
(* Observers.                                                              *)
(***************************************************************************)
LEMMA RemovedOne ==
  ASSUME Observers, NEW S \in SUBSET Slot, NEW f \in Removed(subscriber, S)
  PROVE  /\ f \in [Slot -> Client \union {NoClient}]
         /\ \A s \in Slot : f[s] \in {subscriber[s], NoClient}
         /\ S # {} => \E s \in S : f[s] = NoClient
<1>1. CASE S = {}
  BY <1>1 DEF Removed, Observers
<1>2. CASE S # {}
  <2>1. PICK r \in S : f = [subscriber EXCEPT ![r] = NoClient]
    BY <1>2 DEF Removed
  <2>2. QED
    BY <1>2, <2>1 DEF Observers
<1>3. QED
  BY <1>1, <1>2

LEMMA RemovedObservers ==
  ASSUME Observers, NEW S \in SUBSET Slot, subscriber' \in Removed(subscriber, S)
  PROVE  Observers'
BY RemovedOne DEF Observers, OneEntry

\* As a client has one entry, removing one removes the client.
LEMMA RemovedClient ==
  ASSUME Observers, NEW c \in Client, NEW f \in Removed(subscriber, SlotsOf(c))
  PROVE  \A s \in Slot : f[s] # c
<1>1. c # NoClient
  BY CoapAssumption
<1>2. SlotsOf(c) \in SUBSET Slot
  BY DEF SlotsOf
<1>3. /\ \A s \in Slot : f[s] \in {subscriber[s], NoClient}
      /\ SlotsOf(c) # {} => \E s \in SlotsOf(c) : f[s] = NoClient
  BY <1>2, RemovedOne
<1>4. QED
  BY <1>1, <1>3 DEF Observers, OneEntry, SlotsOf

LEMMA RemoveObservers ==
  ASSUME Observers, NEW c \in Client, RemoveObserver(c)
  PROVE  Observers' /\ \A s \in Slot : subscriber'[s] # c
<1>1. SlotsOf(c) \in SUBSET Slot /\ subscriber' \in Removed(subscriber, SlotsOf(c))
  BY DEF SlotsOf, RemoveObserver
<1>2. QED
  BY <1>1, RemovedObservers, RemovedClient

LEMMA AddObservers ==
  ASSUME Observers, NEW c \in Client, AddObserver(c) PROVE Observers'
<1>1. PICK sub \in Removed(subscriber, SlotsOf(c)) :
        \/ subscriber' = sub
        \/ \E s \in Slot : subscriber' = [sub EXCEPT ![s] = c]
  BY DEF AddObserver, Resubscribed
<1>2. SlotsOf(c) \in SUBSET Slot
  BY DEF SlotsOf
<1>3. /\ sub \in [Slot -> Client \union {NoClient}]
      /\ \A s \in Slot : sub[s] \in {subscriber[s], NoClient}
  BY <1>2, RemovedOne
<1>4. \A s \in Slot : sub[s] # c
  BY RemovedClient
<1>5. \A s, t \in Slot : sub[s] = sub[t] => s = t \/ sub[s] = NoClient
  BY <1>3 DEF Observers, OneEntry
<1>6. CASE subscriber' = sub
  BY <1>3, <1>5, <1>6 DEF Observers, OneEntry
<1>7. ASSUME NEW s \in Slot, subscriber' = [sub EXCEPT ![s] = c] PROVE Observers'
  <2>1. subscriber' \in [Slot -> Client \union {NoClient}]
    BY <1>3, <1>7
  <2>2. OneEntry'
    BY <1>3, <1>4, <1>5, <1>7 DEF OneEntry
  <2>3. QED
    BY <2>1, <2>2 DEF Observers
<1>8. QED
  BY <1>1, <1>6, <1>7

-----------------------------------------------------------------------------
(***************************************************************************)
(* The steps of the server.                                                *)
(***************************************************************************)
LEMMA InitInv == Init => IInv
<1> SUFFICES ASSUME Init PROVE IInv
  OBVIOUS
<1>1. TxTypes
  BY DEF Init, TxTypes, Off
<1>2. NoBlockLeaked /\ OpenPacketIntact
  BY DEF Init, NoBlockLeaked, OpenPacketIntact
<1>3. Observers
  BY DEF Init, Observers, OneEntry
<1>4. QED
  BY <1>1, <1>2, <1>3 DEF IInv, Transactions

LEMMA CheckInv == ASSUME IInv, CheckTransactions PROVE IInv'
<1>1. CASE GivenUp = {} /\ SendAgain(Expired, {}) /\ UNCHANGED obsVars
  <2>1. Expired \subseteq Expired \ GivenUp /\ {} \subseteq GivenUp
    BY <1>1
  <2>2. Transactions'
    BY <1>1, <2>1, SendAgainTransactions DEF IInv
  <2>3. Observers'
    BY <1>1, ObserversSame DEF IInv, obsVars
  <2>4. QED
    BY <2>2, <2>3 DEF IInv
<1>2. ASSUME NEW g \in GivenUp, NEW B \in SUBSET (Expired \ GivenUp),
             SendAgain(B, {g}), RemoveObserver(owner[g])
      PROVE  IInv'
  <2>1. g \in open
    BY DEF GivenUp, Expired
  <2>2. owner[g] \in Client
    BY <2>1 DEF IInv, Transactions, TxTypes, NoBlockLeaked
  <2>3. Transactions'
    BY <1>2, SendAgainTransactions DEF IInv
  <2>4. Observers'
    BY <1>2, <2>2, RemoveObservers DEF IInv
  <2>5. QED
    BY <2>3, <2>4 DEF IInv
<1>3. QED
  BY <1>1, <1>2 DEF CheckTransactions

LEMMA NotifyInv == ASSUME IInv, NotifyObservers PROVE IInv'
<1>1. PICK con \in SUBSET Subscribed, non \in SUBSET Subscribed : Notify(con, non)
  BY DEF NotifyObservers
<1>2. Transactions' /\ subscriber' = subscriber
  BY <1>1, NotifyTransactions
<1>3. QED
  BY <1>2, ObserversSame DEF IInv

LEMMA RequestInv ==
  ASSUME IInv, NEW c \in Client, NEW observe \in BOOLEAN, PowerRequest(c, observe)
  PROVE  IInv'
<1>1. UNCHANGED txVars /\ (AddObserver(c) \/ RemoveObserver(c))
  BY DEF PowerRequest, Respond
<1>2. Transactions'
  BY <1>1, TransactionsSame DEF IInv
<1>3. Observers'
  BY <1>1, AddObservers, RemoveObservers DEF IInv
<1>4. QED
  BY <1>2, <1>3 DEF IInv

LEMMA AnswerInv ==
  ASSUME IInv, NEW c \in Client, NEW m \in Mid, Acknowledge(c, m) \/ Reset(c, m)
  PROVE  IInv'
<1>1. Clear(Lookup(m))
  BY DEF Acknowledge, Reset, CloseByMid
<1>2. Transactions'
  BY <1>1, ClearTransactions DEF IInv
<1>3. CASE Acknowledge(c, m)
  BY <1>2, <1>3, ObserversSame DEF IInv, Acknowledge, obsVars
<1>4. CASE Reset(c, m)
  <2>1. {s \in SlotsOf(c) : lastMid[s] = m} \in SUBSET Slot
    BY DEF SlotsOf
  <2>2. subscriber' \in Removed(subscriber, {s \in SlotsOf(c) : lastMid[s] = m})
    BY <1>4 DEF Reset
  <2>3. Observers'
    BY <2>1, <2>2, RemovedObservers DEF IInv
  <2>4. QED
    BY <1>2, <2>3 DEF IInv
<1>5. QED
  BY <1>3, <1>4

LEMMA ResetLatestInv == ASSUME IInv, NEW c \in Client, ResetLatest(c) PROVE IInv'
<1>1. {s \in SlotsOf(c) : lastMid[s] = NoMid} \in SUBSET Slot
  BY DEF SlotsOf
<1>2. subscriber' \in Removed(subscriber, {s \in SlotsOf(c) : lastMid[s] = NoMid})
      /\ UNCHANGED txVars
  BY DEF ResetLatest
<1>3. QED
  BY <1>1, <1>2, RemovedObservers, TransactionsSame DEF IInv

\* What leaves the observers alone.
LEMMA TransactionsInv ==
  ASSUME IInv,
         \/ \E m \in {mid[b] : b \in open} \union {NoMid} : Unrelated(m)
         \/ Malformed
         \/ \E b \in Block : ExpireTransaction(b)
         \/ Tick
  PROVE  IInv'
<1>1. Observers'
  BY ObserversSame DEF IInv, Unrelated, Malformed, ExpireTransaction, Tick, obsVars
<1>2. Transactions'
  BY ClearTransactions, ExpireTransactions, TickTransactions
     DEF IInv, Unrelated, CloseByMid, Malformed
<1>3. QED
  BY <1>1, <1>2 DEF IInv

\* What leaves the transactions and the list of observers alone.
LEMMA OtherInv ==
  ASSUME IInv, UNCHANGED <<txVars, subscriber>> PROVE IInv'
BY TransactionsSame, ObserversSame DEF IInv

LEMMA NextInv == IInv /\ [Next]_vars => IInv'
<1> SUFFICES ASSUME IInv, [Next]_vars PROVE IInv'
  OBVIOUS
<1>1. CASE PowerNotFound \/ OtherRequest \/ RequestRefused \/ ExpireRest
             \/ (\E d \in Jump : SetClock(d)) \/ UNCHANGED vars
  <2>1. UNCHANGED <<txVars, subscriber>>
    BY <1>1 DEF PowerNotFound, OtherRequest, RequestRefused, ExpireRest, SetClock,
       Respond, vars, obsVars
  <2>2. QED
    BY <2>1, OtherInv
<1>2. CASE HandleCoapEvent
  BY <1>2, CheckInv DEF HandleCoapEvent
<1>3. CASE HandleRestEvent
  BY <1>3, NotifyInv, OtherInv DEF HandleRestEvent, obsVars
<1>4. QED
  BY <1>1, <1>2, <1>3, RequestInv, AnswerInv, ResetLatestInv, TransactionsInv DEF Next

-----------------------------------------------------------------------------
\* The invariant behind the theorems: what is listed is in use, and a client
\* has one entry in the list of observers.
THEOREM Invariance == Spec => []IInv
BY InitInv, NextInv, PTL DEF Spec

\* Transactions and observers keep their types.
THEOREM Types == Spec => []CoapTypeOK
<1>1. IInv => CoapTypeOK
  BY DEF IInv, Transactions, Observers, CoapTypeOK
<1>2. QED
  BY <1>1, Invariance, PTL

\* No block of transactions_memb is leaked by any order of requests, answers,
\* time-outs and malformed datagrams (er-coap-13-transactions.c:53-160).
THEOREM NoLeak == Spec => []NoBlockLeaked
<1>1. IInv => NoBlockLeaked
  BY DEF IInv, Transactions
<1>2. QED
  BY <1>1, Invariance, PTL

\* What the periodic handler writes through data_buffer does not reach a
\* notification that may be sent again (er-example-server.c:796).
THEOREM PacketsIntact == Spec => []OpenPacketIntact
<1>1. IInv => OpenPacketIntact
  BY DEF IInv, Transactions
<1>2. QED
  BY <1>1, Invariance, PTL

\* A client that lets a confirmable notification time out is not notified any
\* more: though the loop of coap_remove_observer_by_client stops after one
\* entry, there is no other (er-coap-13-observing.c:106-121).
THEOREM SilentForgotten == Spec => SilentClientForgotten
<1>1. IInv /\ [Next]_vars => \A b \in open \ open' :
        HandleCoapEvent => \A s \in Slot : subscriber'[s] # owner[b]
  <2> SUFFICES ASSUME IInv, NEW b \in open \ open', HandleCoapEvent
               PROVE  \A s \in Slot : subscriber'[s] # owner[b]
    OBVIOUS
  <2>1. PICK g \in GivenUp : /\ open' = open \ {g} /\ RemoveObserver(owner[g])
    BY DEF HandleCoapEvent, CheckTransactions, SendAgain, GiveBack
  <2>2. b = g
    BY <2>1
  <2>3. owner[g] \in Client
    BY <2>2 DEF IInv, Transactions, TxTypes, NoBlockLeaked
  <2>4. QED
    BY <2>1, <2>2, <2>3, RemoveObservers DEF IInv
<1>2. QED
  BY <1>1, Invariance, PTL DEF Spec, SilentClientForgotten
-----------------------------------------------------------------------------
(***************************************************************************)
(* Every transaction whose timer has expired has an event in the queue.    *)
(***************************************************************************)
Event == {Rest, Coap}

Pending == queue \in Seq(Event) /\ RetryPending

LEMMA ExpiredFinite ==
  ASSUME TxTypes PROVE IsFiniteSet(Expired) /\ Cardinality(Expired) \in Nat
<1>1. Expired \subseteq Block
  BY DEF Expired, TxTypes
<1>2. QED
  BY <1>1, CoapAssumption, FS_Subset, FS_CardinalityType

LEMMA EventsFinite ==
  ASSUME queue \in Seq(Event)
  PROVE  IsFiniteSet(CoapEvents) /\ Cardinality(CoapEvents) \in Nat
<1>1. CoapEvents \subseteq 1 .. Len(queue) /\ Len(queue) \in Nat
  BY DEF CoapEvents
<1>2. IsFiniteSet(1 .. Len(queue))
  BY <1>1, FS_Interval
<1>3. QED
  BY <1>1, <1>2, FS_Subset, FS_CardinalityType

LEMMA EventPosted ==
  ASSUME queue \in Seq(Event), NEW e \in Event, Post(e)
  PROVE  /\ queue' \in Seq(Event)
         /\ Cardinality(CoapEvents') = Cardinality(CoapEvents)
                                       + (IF e = Coap THEN 1 ELSE 0)
<1>1. queue' = Append(queue, e) /\ Len(queue) \in Nat
  BY DEF Post
<1>2. /\ queue' \in Seq(Event) /\ Len(queue') = Len(queue) + 1
      /\ queue'[Len(queue) + 1] = e
      /\ \A i \in 1 .. Len(queue) : queue'[i] = queue[i]
  BY <1>1
<1>3. CASE e = Coap
  <2>1. CoapEvents' = CoapEvents \union {Len(queue) + 1}
    BY <1>1, <1>2, <1>3 DEF CoapEvents
  <2>2. Len(queue) + 1 \notin CoapEvents
    BY <1>1 DEF CoapEvents
  <2>3. QED
    BY <1>2, <1>3, <2>1, <2>2, EventsFinite, FS_AddElement
<1>4. CASE e # Coap
  <2>1. CoapEvents' = CoapEvents
    BY <1>1, <1>2, <1>4 DEF CoapEvents
  <2>2. QED
    BY <1>2, <1>4, <2>1, EventsFinite
<1>5. QED
  BY <1>3, <1>4

LEMMA EventHandled ==
  ASSUME queue \in Seq(Event), queue # <<>>, queue' = Tail(queue)
  PROVE  /\ queue' \in Seq(Event)
         /\ Cardinality(CoapEvents') \in Nat
         /\ Head(queue) = Rest => Cardinality(CoapEvents) <= Cardinality(CoapEvents')
         /\ Head(queue) = Coap => Cardinality(CoapEvents) - 1 <= Cardinality(CoapEvents')
<1>1. /\ queue' \in Seq(Event) /\ Len(queue) \in Nat \ {0}
      /\ Len(queue') = Len(queue) - 1
      /\ \A i \in 2 .. Len(queue) : queue'[i - 1] = queue[i]
      /\ Head(queue) = queue[1]
  OBVIOUS
<1>2. IsFiniteSet(CoapEvents') /\ Cardinality(CoapEvents') \in Nat
  <2>1. CoapEvents' \subseteq 1 .. Len(queue') /\ Len(queue') \in Nat
    BY <1>1 DEF CoapEvents
  <2>2. IsFiniteSet(1 .. Len(queue'))
    BY <2>1, FS_Interval
  <2>3. QED
    BY <2>1, <2>2, FS_Subset, FS_CardinalityType
<1> DEFINE later == CoapEvents \ {1}
           f == [i \in later |-> i - 1]
<1>3. f \in Injection(later, CoapEvents')
  <2>1. ASSUME NEW i \in later PROVE i - 1 \in CoapEvents'
    BY <1>1 DEF CoapEvents
  <2>2. \A i, j \in later : i - 1 = j - 1 => i = j
    BY <1>1 DEF CoapEvents
  <2>3. QED
    BY <2>1, <2>2 DEF Injection, IsInjective
<1>4. Cardinality(later) <= Cardinality(CoapEvents')
  BY <1>2, <1>3, FS_Injection
<1>5. CASE Head(queue) = Rest
  <2>1. later = CoapEvents
    BY <1>1, <1>5 DEF CoapEvents, Rest, Coap
  <2>2. QED
    BY <1>1, <1>2, <1>4, <1>5, <2>1 DEF Rest, Coap
<1>6. CASE Head(queue) = Coap
  <2>1. 1 \in CoapEvents
    BY <1>1, <1>6 DEF CoapEvents
  <2>2. Cardinality(later) = Cardinality(CoapEvents) - 1
    BY <2>1, EventsFinite, FS_RemoveElement
  <2>3. QED
    BY <1>1, <1>2, <1>4, <1>6, <2>2 DEF Rest, Coap
<1>7. QED
  BY <1>1, <1>2, <1>5, <1>6, EventsFinite DEF Event

\* What neither posts nor handles an event, and starts or stops no expired timer
\* but those of transactions it closes.
LEMMA PendingSame ==
  ASSUME IInv, Pending, UNCHANGED queue, Expired' \subseteq Expired
  PROVE  Pending'
<1>1. IsFiniteSet(Expired) /\ Cardinality(Expired) \in Nat
  BY ExpiredFinite DEF IInv, Transactions
<1>2. Cardinality(Expired') <= Cardinality(Expired)
  BY <1>1, FS_Subset
<1>3. CoapEvents' = CoapEvents
  BY DEF Pending, CoapEvents
<1>4. Cardinality(Expired') \in Nat
  BY <1>1, FS_Subset, FS_CardinalityType
<1>5. QED
  BY <1>1, <1>2, <1>3, <1>4, EventsFinite DEF Pending, RetryPending

LEMMA ClearExpires ==
  ASSUME IInv, NEW B, Clear(B) PROVE Expired' \subseteq Expired
<1>1. open' = open \ B /\ timer' = Set(timer, B, Off)
  BY DEF Clear, GiveBack
<1>2. QED
  BY <1>1 DEF IInv, Transactions, TxTypes, Set, Expired

LEMMA ExpirePending ==
  ASSUME IInv, Pending, NEW b \in Block, ExpireTransaction(b) PROVE Pending'
<1>1. b \in open
  BY DEF ExpireTransaction, Off, IInv, Transactions, NoBlockLeaked
<1>2. Expired' = Expired \union {b}
  BY <1>1 DEF ExpireTransaction, Expired, IInv, Transactions, TxTypes
<1>3. b \notin Expired
  BY DEF ExpireTransaction, Off, Expired
<1>4. Cardinality(Expired') = Cardinality(Expired) + 1
  BY <1>2, <1>3, ExpiredFinite, FS_AddElement DEF IInv, Transactions
<1>5. /\ queue' \in Seq(Event)
      /\ Cardinality(CoapEvents') = Cardinality(CoapEvents) + 1
  BY EventPosted DEF ExpireTransaction, Pending, Event
<1>6. QED
  BY <1>4, <1>5, ExpiredFinite, EventsFinite DEF IInv, Transactions, Pending, RetryPending

LEMMA ExpireRestPending == ASSUME IInv, Pending, ExpireRest PROVE Pending'
<1>1. /\ queue' \in Seq(Event)
      /\ Cardinality(CoapEvents') = Cardinality(CoapEvents)
  <2>1. Rest \in Event /\ Rest # Coap /\ Post(Rest) /\ queue \in Seq(Event)
    BY DEF ExpireRest, Pending, Event, Rest, Coap
  <2>2. QED
    BY <2>1, EventPosted, EventsFinite
<1>2. Expired' = Expired
  BY DEF ExpireRest, txVars, Expired
<1>3. QED
  BY <1>1, <1>2 DEF Pending, RetryPending

\* Of the expired ones the loop leaves at least one fewer, if there was one.
LEMMA CheckPending == ASSUME IInv, Pending, HandleCoapEvent PROVE Pending'
<1>1. queue \in Seq(Event) /\ queue # <<>> /\ queue' = Tail(queue) /\ Head(queue) = Coap
  BY DEF HandleCoapEvent, Pending
<1>2. /\ queue' \in Seq(Event)
      /\ Cardinality(CoapEvents') \in Nat
      /\ Cardinality(CoapEvents) - 1 <= Cardinality(CoapEvents')
  BY <1>1, EventHandled
<1>3. IsFiniteSet(Expired) /\ Cardinality(Expired) \in Nat
  BY ExpiredFinite DEF IInv, Transactions
<1>4. \A b \in open : Rearmed(b) # Off
  BY DEF Rearmed, Off, IInv, Transactions, TxTypes
<1>5. CASE GivenUp = {} /\ SendAgain(Expired, {})
  <2>1. open' = open
    BY <1>5 DEF SendAgain, GiveBack
  <2>2. Expired' = {}
    BY <1>4, <1>5, <2>1 DEF SendAgain, Expired, IInv, Transactions, TxTypes
  <2>3. QED
    BY <1>2, <2>2, FS_EmptySet DEF Pending, RetryPending
<1>6. ASSUME NEW g \in GivenUp, NEW B \in SUBSET (Expired \ GivenUp), SendAgain(B, {g})
      PROVE  Pending'
  <2>1. open' = open \ {g} /\ g \in Expired
    BY <1>6 DEF SendAgain, GiveBack, GivenUp
  <2>2. Expired' \subseteq Expired \ {g}
    BY <1>4, <1>6, <2>1 DEF SendAgain, Expired, IInv, Transactions, TxTypes
  <2>3. /\ IsFiniteSet(Expired \ {g})
        /\ Cardinality(Expired \ {g}) = Cardinality(Expired) - 1
    BY <1>3, <2>1, FS_RemoveElement
  <2>4. /\ Cardinality(Expired') <= Cardinality(Expired) - 1
        /\ Cardinality(Expired') \in Nat
    BY <2>2, <2>3, FS_Subset, FS_CardinalityType
  <2>5. QED
    BY <1>2, <1>3, <2>4, EventsFinite DEF Pending, RetryPending
<1>7. QED
  BY <1>5, <1>6 DEF HandleCoapEvent, CheckTransactions

LEMMA NotifyExpires ==
  ASSUME IInv, NEW con \in SUBSET Subscribed, NEW non, Notify(con, non)
  PROVE  Expired' = Expired
<1>1. PICK block \in Injections(con, Free), first \in Timeout : Sent(con, non, block, first)
  BY DEF Notify
<1>2. first # Off
  BY CoapAssumption DEF Off
<1>3. Taken(con, block) \subseteq Block \ open
  BY DEF Injections, Free, Taken, IInv, Transactions, NoBlockLeaked
<1>4. /\ open' = open \union Taken(con, block)
      /\ timer' = Set(timer, Taken(con, block), first)
  BY <1>1 DEF Sent
<1>5. QED
  BY <1>2, <1>3, <1>4 DEF Set, Expired, IInv, Transactions, TxTypes

LEMMA RestPending == ASSUME IInv, Pending, HandleRestEvent PROVE Pending'
<1>1. queue \in Seq(Event) /\ queue # <<>> /\ queue' = Tail(queue) /\ Head(queue) = Rest
  BY DEF HandleRestEvent, Pending
<1>2. /\ queue' \in Seq(Event)
      /\ Cardinality(CoapEvents') \in Nat
      /\ Cardinality(CoapEvents) <= Cardinality(CoapEvents')
  BY <1>1, EventHandled
<1>3. Expired' = Expired
  <2>1. CASE UNCHANGED txVars
    BY <2>1 DEF txVars, Expired
  <2>2. CASE NotifyObservers
    <3>1. PICK con \in SUBSET Subscribed, non \in SUBSET Subscribed : Notify(con, non)
      BY <2>2 DEF NotifyObservers
    <3>2. QED
      BY <3>1, NotifyExpires
  <2>3. QED
    BY <2>1, <2>2 DEF HandleRestEvent
<1>4. QED
  BY <1>2, <1>3, EventsFinite, ExpiredFinite
     DEF IInv, Transactions, Pending, RetryPending

LEMMA TickExpires == ASSUME IInv, Tick PROVE Expired' = Expired
BY DEF Tick, Less, Off, Expired, IInv, Transactions, TxTypes

LEMMA PendingNext == IInv /\ Pending /\ [Next]_vars => Pending'
<1> SUFFICES ASSUME IInv, Pending, [Next]_vars PROVE Pending'
  OBVIOUS
<1>1. CASE UNCHANGED <<txVars, queue>>
  <2>1. UNCHANGED queue /\ Expired' = Expired
    BY <1>1 DEF txVars, Expired
  <2>2. QED
    BY <2>1, PendingSame
<1>2. ASSUME NEW B, Clear(B), UNCHANGED queue PROVE Pending'
  BY <1>2, ClearExpires, PendingSame
<1>3. CASE Tick
  <2>1. UNCHANGED queue
    BY <1>3 DEF Tick
  <2>2. QED
    BY <1>3, <2>1, TickExpires, PendingSame
<1>4. CASE PowerNotFound \/ OtherRequest \/ RequestRefused
             \/ (\E c \in Client, observe \in BOOLEAN : PowerRequest(c, observe))
             \/ (\E c \in Client : ResetLatest(c))
             \/ (\E d \in Jump : SetClock(d)) \/ UNCHANGED vars
  BY <1>1, <1>4 DEF PowerNotFound, OtherRequest, RequestRefused, PowerRequest,
     ResetLatest, SetClock, Respond, vars
<1>5. CASE (\E c \in Client, m \in Mid : Acknowledge(c, m) \/ Reset(c, m))
             \/ (\E m \in {mid[b] : b \in open} \union {NoMid} : Unrelated(m))
             \/ Malformed
  BY <1>2, <1>5 DEF Acknowledge, Reset, Unrelated, CloseByMid, Malformed
<1>6. QED
  BY <1>3, <1>4, <1>5, CheckPending, RestPending, ExpirePending, ExpireRestPending
     DEF Next

LEMMA PendingInit == Init => Pending
<1> SUFFICES ASSUME Init PROVE Pending
  OBVIOUS
<1>1. queue \in Seq(Event) /\ CoapEvents = {} /\ Expired = {}
  BY DEF Init, CoapEvents, Expired
<1>2. QED
  BY <1>1, FS_EmptySet DEF Pending, RetryPending

THEOREM PendingInvariance == Spec => [](IInv /\ Pending)
<1>1. Init => Pending
  BY PendingInit
<1>2. IInv /\ Pending /\ [Next]_vars => Pending'
  BY PendingNext
<1>3. QED
  BY <1>1, <1>2, Invariance, PTL DEF Spec

\* No open transaction is forgotten: although coap_check_transactions stops at
\* the first one it gives up, there is an event for every expired timer
\* (er-coap-13-transactions.c:186-204).
THEOREM RetriesPending == Spec => []RetryPending
<1>1. Pending => RetryPending
  BY DEF Pending
<1>2. QED
  BY <1>1, PendingInvariance, PTL

-----------------------------------------------------------------------------
(***************************************************************************)
(* A block for the next request.  While nobody sets the clock, an open     *)
(* transaction will be given up before the slot it was sent for is asked   *)
(* again: what is left of its wait is less than what is left of the        *)
(* refresh interval of that slot, unless nobody observes from there.       *)
(***************************************************************************)
Waits(w) == w \in Growth /\ \A t \in Timeout : LongestWait(t, w) < Refresh

Left(b) == IF timer[b] = Off THEN 0 ELSE timer[b]

\* How long b stays open at most, if its event is handled at once.
Life(w, b) == Left(b) + interval[b] * (w[MaxRetransmit - retries[b]] - 2)

Reserved(w, f) ==
  /\ \A b, c \in open : f[b] = f[c] => b = c
  /\ \A b \in open : subscriber[f[b]] = NoClient \/ Life(w, b) < refresh[f[b]]

RoomInv(w) ==
  /\ refresh \in [Slot -> Nat] /\ jumps \in Nat
  /\ \A b \in open : Life(w, b) < Refresh
  /\ jumps = 0 => \E f \in [open -> Slot] : Reserved(w, f)

LEMMA Grows ==
  ASSUME NEW w, Waits(w)
  PROVE  /\ \A r \in 0 .. MaxRetransmit : w[r] \in Nat /\ w[r] >= 1
         /\ \A r \in 0 .. MaxRetransmit - 1 :
              w[MaxRetransmit - r] = 2 * w[MaxRetransmit - (r + 1)]
         /\ \A t \in Timeout : t * (w[MaxRetransmit] - 1) < Refresh
<1>1. MaxRetransmit \in Nat \ {0} /\ Refresh \in Nat
  BY CoapAssumption
<1>2. /\ w \in [0 .. MaxRetransmit -> 1 .. Refresh]
      /\ \A k \in 1 .. MaxRetransmit : w[k] = 2 * w[k - 1]
  BY DEF Waits, Growth
<1>3. ASSUME NEW r \in 0 .. MaxRetransmit - 1
      PROVE  w[MaxRetransmit - r] = 2 * w[MaxRetransmit - (r + 1)]
  <2>1. MaxRetransmit - r \in 1 .. MaxRetransmit
        /\ (MaxRetransmit - r) - 1 = MaxRetransmit - (r + 1)
    BY <1>1
  <2>2. QED
    BY <1>2, <2>1
<1>4. QED
  BY <1>1, <1>2, <1>3 DEF Waits, LongestWait

LEMMA StillToGo ==
  ASSUME NEW w, Waits(w), NEW i \in Nat, NEW r \in 0 .. MaxRetransmit - 1
  PROVE  i * (w[MaxRetransmit - r] - 2) \in Nat
<1> DEFINE p == w[MaxRetransmit - (r + 1)]
<1>1. MaxRetransmit - (r + 1) \in 0 .. MaxRetransmit
  BY CoapAssumption
<1>2. p \in Nat /\ p >= 1 /\ w[MaxRetransmit - r] = 2 * p
  BY <1>1, Grows
<1> HIDE DEF p
<1>3. 2 * p - 2 \in Nat
  BY <1>2
<1>4. \A k, q \in Nat : k * q \in Nat
  OBVIOUS
<1>5. QED
  BY <1>2, <1>3, <1>4

LEMMA LifeType ==
  ASSUME NEW w, Waits(w), IInv, NEW b \in open
  PROVE  Left(b) \in Nat /\ Life(w, b) \in Nat /\ Left(b) <= Life(w, b)
<1>1. /\ timer[b] \in Nat \union {Off} /\ interval[b] \in Nat
      /\ retries[b] \in 0 .. MaxRetransmit - 1
  BY CoapAssumption DEF IInv, Transactions, TxTypes, NoBlockLeaked
<1>2. Left(b) \in Nat
  BY <1>1 DEF Left
<1>3. interval[b] * (w[MaxRetransmit - retries[b]] - 2) \in Nat
  BY <1>1, StillToGo
<1>4. QED
  BY <1>2, <1>3 DEF Life

\* No slot is asked again sooner than it would have been.
NotSooner ==
  /\ refresh' \in [Slot -> Nat]
  /\ \A s \in Slot : \/ subscriber'[s] = NoClient \/ refresh'[s] = Refresh
                     \/ subscriber[s] # NoClient /\ refresh'[s] >= refresh[s]

\* What takes no block, lengthens no wait and shortens no refresh interval.
LEMMA RoomKept ==
  ASSUME NEW w, Waits(w), IInv, IInv', RoomInv(w), open' \subseteq open, jumps' = jumps,
         \A b \in open' : Life(w, b)' <= Life(w, b), NotSooner
  PROVE  RoomInv(w)'
<1>1. \A b \in open : Life(w, b) \in Nat /\ Life(w, b) < Refresh
  BY LifeType DEF RoomInv
<1>2. \A b \in open' : Life(w, b)' \in Nat
  <2>1. ASSUME NEW b \in open'
        PROVE  /\ timer'[b] \in Nat \union {Off} /\ interval'[b] \in Nat
               /\ retries'[b] \in 0 .. MaxRetransmit - 1
    BY CoapAssumption DEF IInv, Transactions, TxTypes, NoBlockLeaked
  <2>2. QED
    BY <2>1, StillToGo DEF Life, Left
<1>3. \A b \in open' : Life(w, b)' < Refresh
  BY <1>1, <1>2, CoapAssumption
<1>4. (jumps = 0 => \E f \in [open -> Slot] : Reserved(w, f))'
  <2> SUFFICES ASSUME jumps' = 0 PROVE (\E f \in [open -> Slot] : Reserved(w, f))'
    OBVIOUS
  <2>1. PICK f \in [open -> Slot] : Reserved(w, f)
    BY DEF RoomInv
  <2> DEFINE g == [b \in open' |-> f[b]]
  <2>2. g \in [open' -> Slot]
    OBVIOUS
  <2>3. \A b, c \in open' : g[b] = g[c] => b = c
    BY <2>1 DEF Reserved
  <2>4. ASSUME NEW b \in open'
        PROVE  subscriber'[g[b]] = NoClient \/ Life(w, b)' < refresh'[g[b]]
    <3>1. g[b] \in Slot /\ g[b] = f[b] /\ b \in open
      OBVIOUS
    <3>2. subscriber[f[b]] = NoClient \/ Life(w, b) < refresh[f[b]]
      BY <2>1, <3>1 DEF Reserved
    <3>3. refresh[f[b]] \in Nat /\ refresh'[f[b]] \in Nat
      BY <3>1 DEF RoomInv, NotSooner
    <3>4. /\ Life(w, b) \in Nat /\ Life(w, b)' \in Nat /\ Life(w, b)' < Refresh
          /\ Life(w, b)' <= Life(w, b) /\ Refresh \in Nat
      BY <1>1, <1>2, <1>3, <3>1, CoapAssumption
    <3>5. \/ subscriber'[f[b]] = NoClient \/ refresh'[f[b]] = Refresh
          \/ subscriber[f[b]] # NoClient /\ refresh'[f[b]] >= refresh[f[b]]
      BY <3>1 DEF NotSooner
    <3> DEFINE l == Life(w, b)
               m == Life(w, b)'
    <3>6. subscriber'[f[b]] = NoClient \/ m < refresh'[f[b]]
      <4> HIDE DEF l, m
      <4>1. QED
        BY <3>2, <3>3, <3>4, <3>5 DEF l, m
    <3>7. QED
      BY <3>1, <3>6
  <2>5. \E h \in [open' -> Slot] :
          /\ \A b, c \in open' : h[b] = h[c] => b = c
          /\ \A b \in open' : subscriber'[h[b]] = NoClient \/ Life(w, b)' < refresh'[h[b]]
    BY <2>2, <2>3, <2>4
  <2>6. QED
    BY <2>5 DEF Reserved
<1>5. jumps' \in Nat
  BY DEF RoomInv
<1>6. QED
  BY <1>3, <1>4, <1>5 DEF RoomInv, NotSooner

LEMMA SlotsSame ==
  ASSUME NEW w, RoomInv(w), Observers, UNCHANGED <<subscriber, refresh>> PROVE NotSooner
<1>1. /\ refresh' \in [Slot -> Nat]
      /\ \A s \in Slot : refresh'[s] = refresh[s] /\ refresh[s] \in Nat
  BY DEF RoomInv
<1>2. QED
  BY <1>1 DEF NotSooner

LEMMA SlotsRemoved ==
  ASSUME NEW w, RoomInv(w), Observers, NEW S \in SUBSET Slot,
         subscriber' \in Removed(subscriber, S), KeepSlots
  PROVE  NotSooner
<1>1. \A s \in Slot : subscriber'[s] \in {subscriber[s], NoClient}
  BY RemovedOne
<1>2. refresh \in [Slot -> Nat]
  BY DEF RoomInv
<1>3. refresh' = [s \in Slot |-> IF subscriber'[s] = NoClient THEN 0 ELSE refresh[s]]
  BY DEF KeepSlots
<1>4. QED
  BY <1>1, <1>2, <1>3 DEF NotSooner

LEMMA SlotTaken ==
  ASSUME NEW w, RoomInv(w), Observers, NEW c \in Client, AddObserver(c)
  PROVE  NotSooner
<1>1. PICK sub \in Removed(subscriber, SlotsOf(c)) :
        \/ subscriber' = sub /\ KeepSlots
        \/ \E s \in Slot :
             /\ sub[s] = NoClient /\ subscriber' = [sub EXCEPT ![s] = c]
             /\ refresh' = [t \in Slot |->
                  CASE t = s -> Refresh
                    [] t \in {r \in Slot : sub[r] = NoClient} \ {s} -> 0
                    [] OTHER -> refresh[t]]
  BY DEF AddObserver, Resubscribed
<1>2. SlotsOf(c) \in SUBSET Slot
  BY DEF SlotsOf
<1>3. /\ sub \in [Slot -> Client \union {NoClient}]
      /\ \A s \in Slot : sub[s] \in {subscriber[s], NoClient}
  BY <1>2, RemovedOne
<1>4. refresh \in [Slot -> Nat] /\ Refresh \in Nat
  BY CoapAssumption DEF RoomInv
<1>5. CASE subscriber' = sub /\ KeepSlots
  BY <1>2, <1>5, SlotsRemoved
<1>6. ASSUME NEW s \in Slot, sub[s] = NoClient, subscriber' = [sub EXCEPT ![s] = c],
             refresh' = [t \in Slot |->
                  CASE t = s -> Refresh
                    [] t \in {r \in Slot : sub[r] = NoClient} \ {s} -> 0
                    [] OTHER -> refresh[t]]
      PROVE  NotSooner
  <2>1. refresh' \in [Slot -> Nat]
    BY <1>4, <1>6
  <2>2. refresh'[s] = Refresh
    BY <1>6
  <2>3. ASSUME NEW t \in Slot, t # s
        PROVE  \/ subscriber'[t] = NoClient
               \/ subscriber[t] # NoClient /\ refresh'[t] >= refresh[t]
    <3>1. subscriber'[t] = sub[t]
      BY <1>3, <1>6, <2>3
    <3>2. CASE sub[t] = NoClient
      BY <3>1, <3>2
    <3>3. CASE sub[t] # NoClient
      <4>1. refresh'[t] = refresh[t]
        BY <1>6, <2>3, <3>3
      <4>2. QED
        BY <1>3, <1>4, <3>3, <4>1
    <3>4. QED
      BY <3>2, <3>3
  <2>4. QED
    BY <2>1, <2>2, <2>3 DEF NotSooner
<1>7. QED
  BY <1>1, <1>5, <1>6

LEMMA LifeSame ==
  ASSUME NEW w, Waits(w), IInv, UNCHANGED txVars
  PROVE  open' \subseteq open /\ \A b \in open' : Life(w, b)' <= Life(w, b)
<1>1. open' = open
  BY DEF txVars
<1>2. ASSUME NEW b \in open PROVE Life(w, b)' = Life(w, b)
  BY DEF txVars, Life, Left
<1>3. QED
  BY <1>1, <1>2, LifeType

LEMMA LifeCleared ==
  ASSUME NEW w, Waits(w), IInv, NEW B, Clear(B)
  PROVE  open' \subseteq open /\ \A b \in open' : Life(w, b)' <= Life(w, b)
<1>1. open' = open \ B /\ open \subseteq Block
  BY DEF Clear, GiveBack, IInv, Transactions, TxTypes
<1>2. ASSUME NEW b \in open \ B
      PROVE  timer'[b] = timer[b] /\ interval'[b] = interval[b] /\ retries'[b] = retries[b]
  BY <1>1 DEF Clear, Erase, Set
<1>3. ASSUME NEW b \in open \ B PROVE Life(w, b)' = Life(w, b)
  BY <1>2 DEF Life, Left
<1>4. QED
  BY <1>1, <1>3, LifeType

LEMMA LifeExpired ==
  ASSUME NEW w, Waits(w), IInv, NEW e \in Block, ExpireTransaction(e)
  PROVE  open' \subseteq open /\ \A b \in open' : Life(w, b)' <= Life(w, b)
<1>1. /\ UNCHANGED <<open, interval, retries>>
      /\ timer[e] = 0 /\ timer' = [timer EXCEPT ![e] = Off]
      /\ timer \in [Block -> Nat \union {Off}] /\ open \subseteq Block
  BY DEF ExpireTransaction, IInv, Transactions, TxTypes
<1>2. ASSUME NEW b \in open PROVE Left(b)' = Left(b)
  BY <1>1 DEF Left, Off
<1>3. ASSUME NEW b \in open PROVE Life(w, b)' = Life(w, b)
  BY <1>1, <1>2 DEF Life
<1>4. QED
  BY <1>1, <1>3, LifeType

\* A wait that is over is followed by one of twice its length, which was
\* counted already.
LEMMA LifeAgain ==
  ASSUME NEW w, Waits(w), IInv, NEW B, NEW G, B \subseteq Expired \ GivenUp,
         G \subseteq GivenUp, SendAgain(B, G)
  PROVE  open' \subseteq open /\ \A b \in open' : Life(w, b)' <= Life(w, b)
<1>1. /\ open' = open \ G /\ open \subseteq Block
      /\ B \subseteq open /\ B \cap G = {}
  BY DEF SendAgain, GiveBack, Expired, IInv, Transactions, TxTypes
<1>2. ASSUME NEW b \in open \ G, b \notin B PROVE Life(w, b)' = Life(w, b)
  <2>1. timer'[b] = timer[b] /\ interval'[b] = interval[b] /\ retries'[b] = retries[b]
    BY <1>1, <1>2 DEF SendAgain
  <2>2. QED
    BY <2>1 DEF Life, Left
<1>3. ASSUME NEW b \in B PROVE Life(w, b)' = Life(w, b)
  <2>1. /\ timer'[b] = 2 * interval[b] /\ interval'[b] = 2 * interval[b]
        /\ retries'[b] = retries[b] + 1
    BY <1>1, <1>3 DEF SendAgain, Rearmed
  <2>2. /\ interval[b] \in Nat /\ retries[b] \in 0 .. MaxRetransmit - 1
        /\ timer[b] = Off
    BY <1>1, CoapAssumption
       DEF IInv, Transactions, TxTypes, NoBlockLeaked, Expired
  <2> DEFINE p == w[MaxRetransmit - (retries[b] + 1)]
             i == interval[b]
  <2>3. w[MaxRetransmit - retries[b]] = 2 * p
    BY <2>2, Grows
  <2>4. p \in Nat
    <3>1. MaxRetransmit - (retries[b] + 1) \in 0 .. MaxRetransmit
      BY <2>2, CoapAssumption
    <3>2. QED
      BY <3>1, Grows
  <2>5. Life(w, b) = i * (2 * p - 2)
    <3>1. i * (2 * p - 2) \in Int
      <4> HIDE DEF p
      <4>1. 2 * p - 2 \in Int /\ i \in Int
        BY <2>2, <2>4
      <4>2. QED
        BY <4>1
    <3>2. Left(b) = 0
      BY <2>2 DEF Left
    <3>3. Life(w, b) = 0 + i * (2 * p - 2)
      BY <2>3, <3>2 DEF Life
    <3> HIDE DEF p, i
    <3>4. QED
      BY <3>1, <3>3
  <2>6. Life(w, b)' = 2 * i + (2 * i) * (p - 2)
    BY <2>1, <2>2 DEF Life, Left, Off
  <2>7. i * (2 * p - 2) = 2 * i + (2 * i) * (p - 2)
    <3> HIDE DEF p, i
    <3>1. i \in Int /\ p \in Int
      BY <2>2, <2>4 DEF i
    <3>2. QED
      BY <3>1
  <2>8. QED
    BY <2>5, <2>6, <2>7
<1>4. \A b \in open' : Life(w, b)' = Life(w, b)
  BY <1>1, <1>2, <1>3
<1>5. QED
  BY <1>1, <1>4, LifeType

\* A slot is only asked again when what was sent for it has been given up.
LEMMA NotifyRoom ==
  ASSUME NEW w, Waits(w), IInv, IInv', RoomInv(w), NEW con \in SUBSET Subscribed, NEW non,
         \A s \in con : refresh[s] = 0, Notify(con, non), UNCHANGED jumps
  PROVE  RoomInv(w)'
<1>1. PICK block \in Injections(con, Free), first \in Timeout : Sent(con, non, block, first)
  BY DEF Notify
<1> DEFINE taken == Taken(con, block)
           slot(b) == SlotOf(con, block, b)
<1>2. first \in Nat /\ Refresh \in Nat /\ MaxRetransmit \in Nat
  BY CoapAssumption
<1>3. taken \subseteq Block \ open /\ con \subseteq Slot /\ open \subseteq Block
  BY DEF Injections, Free, Taken, Subscribed, IInv, Transactions, TxTypes, NoBlockLeaked
<1>4. \A b \in taken : slot(b) \in con /\ block[slot(b)] = b
  BY DEF Taken, SlotOf
<1>5. /\ open' = open \union taken
      /\ retries' = Set(retries, taken, 0)
      /\ interval' = Set(interval, taken, first)
      /\ timer' = Set(timer, taken, first)
      /\ refresh' = [s \in Slot |-> IF s \in con THEN Refresh ELSE refresh[s]]
      /\ subscriber' = subscriber
  BY <1>1 DEF Sent, RestartedRefresh
<1>6. refresh \in [Slot -> Nat] /\ jumps \in Nat
  BY DEF RoomInv
<1> HIDE DEF taken, slot
<1>7. ASSUME NEW b \in open PROVE Life(w, b)' = Life(w, b)
  <2>1. timer'[b] = timer[b] /\ interval'[b] = interval[b] /\ retries'[b] = retries[b]
    BY <1>3, <1>5 DEF Set
  <2>2. QED
    BY <2>1 DEF Life, Left
<1>8. ASSUME NEW b \in taken PROVE Life(w, b)' < Refresh
  <2>1. timer'[b] = first /\ interval'[b] = first /\ retries'[b] = 0 /\ first # Off
    BY <1>2, <1>3, <1>5 DEF Set, Off
  <2>2. Life(w, b)' = first + first * (w[MaxRetransmit - 0] - 2)
    BY <2>1 DEF Life, Left
  <2>3. w[MaxRetransmit - 0] = w[MaxRetransmit] /\ w[MaxRetransmit] \in Nat
    BY <1>2, Grows
  <2> DEFINE p == w[MaxRetransmit]
  <2>4. first + first * (p - 2) = first * (p - 1)
    <3>1. p \in Int
      BY <2>3
    <3> HIDE DEF p
    <3>2. QED
      BY <1>2, <3>1
  <2>5. first * (p - 1) < Refresh
    BY Grows
  <2>6. QED
    BY <2>2, <2>3, <2>4, <2>5
<1>9. (\A b \in open : Life(w, b) < Refresh)'
  BY <1>5, <1>7, <1>8 DEF RoomInv
<1>10. (jumps = 0 => \E f \in [open -> Slot] : Reserved(w, f))'
  <2> SUFFICES ASSUME jumps' = 0 PROVE (\E f \in [open -> Slot] : Reserved(w, f))'
    OBVIOUS
  <2>1. PICK f \in [open -> Slot] : Reserved(w, f)
    BY DEF RoomInv
  <2> DEFINE g == [b \in open' |-> IF b \in taken THEN slot(b) ELSE f[b]]
  <2>2. g \in [open' -> Slot]
    BY <1>3, <1>4, <1>5
  <2>3. ASSUME NEW b \in open PROVE f[b] \notin con
    <3>1. Life(w, b) \in Nat
      BY LifeType
    <3>2. subscriber[f[b]] = NoClient \/ Life(w, b) < refresh[f[b]]
      BY <2>1 DEF Reserved
    <3>3. QED
      BY <3>1, <3>2 DEF Subscribed
  <2>4. ASSUME NEW b \in open', NEW c \in open', g[b] = g[c] PROVE b = c
    <3>1. CASE b \in taken /\ c \in taken
      BY <1>4, <2>4, <3>1
    <3>2. CASE b \notin taken /\ c \notin taken
      BY <1>5, <2>1, <2>4, <3>2 DEF Reserved
    <3>3. CASE b \in taken /\ c \notin taken
      BY <1>4, <1>5, <2>3, <2>4, <3>3
    <3>4. CASE b \notin taken /\ c \in taken
      BY <1>4, <1>5, <2>3, <2>4, <3>4
    <3>5. QED
      BY <3>1, <3>2, <3>3, <3>4
  <2>5. ASSUME NEW b \in open'
        PROVE  subscriber'[g[b]] = NoClient \/ Life(w, b)' < refresh'[g[b]]
    <3>1. CASE b \in taken
      <4>1. refresh'[slot(b)] = Refresh /\ g[b] = slot(b)
        BY <1>3, <1>4, <1>5, <3>1
      <4>2. QED
        BY <1>8, <3>1, <4>1
    <3>2. CASE b \notin taken
      <4>1. b \in open /\ g[b] = f[b] /\ f[b] \in Slot
        BY <1>5, <3>2
      <4>2. f[b] \notin con
        BY <2>3, <4>1
      <4>3. refresh'[f[b]] = refresh[f[b]]
        BY <1>5, <4>1, <4>2
      <4>4. subscriber[f[b]] = NoClient \/ Life(w, b) < refresh[f[b]]
        BY <2>1, <4>1 DEF Reserved
      <4>5. Life(w, b)' = Life(w, b)
        BY <1>7, <4>1
      <4> HIDE DEF g
      <4>6. QED
        BY <1>5, <4>1, <4>3, <4>4, <4>5
    <3>3. QED
      BY <3>1, <3>2
  <2>6. \E h \in [open' -> Slot] :
          /\ \A b, c \in open' : h[b] = h[c] => b = c
          /\ \A b \in open' : subscriber'[h[b]] = NoClient \/ Life(w, b)' < refresh'[h[b]]
    BY <2>2, <2>4, <2>5
  <2>7. QED
    BY <2>6 DEF Reserved
<1>11. refresh' \in [Slot -> Nat] /\ jumps' \in Nat
  BY <1>2, <1>5, <1>6
<1>12. QED
  BY <1>9, <1>10, <1>11 DEF RoomInv

\* A second passes only when no expired timer waits for its event, so it
\* passes for every wait as it does for the refresh intervals.
LEMMA TickRoom ==
  ASSUME NEW w, Waits(w), IInv, Pending, RoomInv(w), Tick PROVE RoomInv(w)'
<1>1. /\ UNCHANGED <<open, interval, retries, subscriber, jumps>>
      /\ \A b \in Block : timer[b] # 0
      /\ timer' = [b \in Block |-> Less(timer[b])]
      /\ refresh' = [s \in Slot |-> IF refresh[s] = 0 THEN 0 ELSE refresh[s] - 1]
      /\ refresh \in [Slot -> Nat] /\ jumps \in Nat
      /\ timer \in [Block -> Nat \union {Off}] /\ open \subseteq Block
  BY DEF Tick, RoomInv, IInv, Transactions, TxTypes
<1>2. Expired = {}
  <2>1. CoapEvents = {}
    BY DEF CoapEvents, Tick
  <2>2. IsFiniteSet(Expired) /\ Cardinality(Expired) \in Nat
    BY ExpiredFinite DEF IInv, Transactions
  <2>3. Cardinality(Expired) = 0
    BY <2>1, <2>2, FS_EmptySet DEF Pending, RetryPending
  <2>4. QED
    BY <2>2, <2>3, FS_EmptySet
<1>3. ASSUME NEW b \in open PROVE Left(b)' = Left(b) - 1
  <2>1. timer[b] # Off /\ timer[b] # 0 /\ timer[b] \in Nat /\ b \in Block
    BY <1>1, <1>2 DEF Expired
  <2>2. timer'[b] = timer[b] - 1 /\ timer'[b] # Off
    BY <1>1, <2>1 DEF Less, Off
  <2>3. QED
    BY <2>1, <2>2 DEF Left
<1>4. ASSUME NEW b \in open
      PROVE  /\ Life(w, b)' = Life(w, b) - 1
             /\ Life(w, b) \in Nat
  <2> DEFINE rest == interval[b] * (w[MaxRetransmit - retries[b]] - 2)
  <2>1. interval[b] \in Nat /\ retries[b] \in 0 .. MaxRetransmit - 1
    BY CoapAssumption DEF IInv, Transactions, TxTypes, NoBlockLeaked
  <2>2. rest \in Nat
    BY <2>1, StillToGo
  <2>3. Left(b) \in Nat /\ Life(w, b) \in Nat
    BY LifeType
  <2>4. Life(w, b) = Left(b) + rest
    BY DEF Life
  <2>5. Life(w, b)' = Left(b)' + rest
    BY <1>1 DEF Life
  <2> HIDE DEF rest
  <2>6. QED
    BY <1>3, <2>2, <2>3, <2>4, <2>5
<1>5. (\A b \in open : Life(w, b) < Refresh)'
  BY <1>1, <1>4, CoapAssumption DEF RoomInv
<1>6. (jumps = 0 => \E f \in [open -> Slot] : Reserved(w, f))'
  <2> SUFFICES ASSUME jumps = 0 PROVE (\E f \in [open -> Slot] : Reserved(w, f))'
    BY <1>1
  <2>1. PICK f \in [open -> Slot] : Reserved(w, f)
    BY DEF RoomInv
  <2>2. ASSUME NEW b \in open
        PROVE  subscriber[f[b]] = NoClient \/ Life(w, b)' < refresh'[f[b]]
    <3>1. subscriber[f[b]] = NoClient \/ Life(w, b) < refresh[f[b]]
      BY <2>1 DEF Reserved
    <3>2. f[b] \in Slot /\ refresh[f[b]] \in Nat
      BY <1>1
    <3>3. refresh'[f[b]] = IF refresh[f[b]] = 0 THEN 0 ELSE refresh[f[b]] - 1
      BY <1>1, <3>2
    <3>4. QED
      BY <1>4, <3>1, <3>2, <3>3
  <2>3. \A b, c \in open : f[b] = f[c] => b = c
    BY <2>1 DEF Reserved
  <2>4. Reserved(w, f)'
    BY <1>1, <2>2, <2>3 DEF Reserved
  <2>5. QED
    BY <1>1, <2>4
<1>7. refresh' \in [Slot -> Nat] /\ jumps' \in Nat
  BY <1>1
<1>8. QED
  BY <1>5, <1>6, <1>7 DEF RoomInv

LEMMA RoomNext ==
  ASSUME NEW w, Waits(w)
  PROVE  IInv /\ IInv' /\ Pending /\ RoomInv(w) /\ [Next]_vars => RoomInv(w)'
<1> SUFFICES ASSUME IInv, IInv', Pending, RoomInv(w), [Next]_vars PROVE RoomInv(w)'
  OBVIOUS
<1> USE DEF IInv
<1>1. ASSUME UNCHANGED <<txVars, jumps>>, NotSooner PROVE RoomInv(w)'
  BY <1>1, LifeSame, RoomKept
<1>2. CASE PowerNotFound \/ OtherRequest \/ RequestRefused \/ ExpireRest \/ UNCHANGED vars
  <2>1. UNCHANGED <<txVars, jumps, subscriber, refresh>>
    BY <1>2 DEF PowerNotFound, OtherRequest, RequestRefused, ExpireRest, Respond,
       vars, obsVars
  <2>2. QED
    BY <1>1, <2>1, SlotsSame
<1>3. ASSUME NEW c \in Client, NEW observe \in BOOLEAN, PowerRequest(c, observe)
      PROVE  RoomInv(w)'
  <2>1. UNCHANGED <<txVars, jumps>> /\ (AddObserver(c) \/ RemoveObserver(c))
    BY <1>3 DEF PowerRequest, Respond
  <2>2. CASE RemoveObserver(c)
    <3>1. SlotsOf(c) \in SUBSET Slot
      BY DEF SlotsOf
    <3>2. NotSooner
      BY <2>2, <3>1, SlotsRemoved DEF RemoveObserver
    <3>3. QED
      BY <1>1, <2>1, <3>2
  <2>3. QED
    BY <1>1, <2>1, <2>2, SlotTaken
<1>4. ASSUME NEW c \in Client, ResetLatest(c) PROVE RoomInv(w)'
  <2>1. {s \in SlotsOf(c) : lastMid[s] = NoMid} \in SUBSET Slot
    BY DEF SlotsOf
  <2>2. UNCHANGED <<txVars, jumps>> /\ NotSooner
    BY <1>4, <2>1, SlotsRemoved DEF ResetLatest
  <2>3. QED
    BY <1>1, <2>2
<1>5. ASSUME NEW B, Clear(B), UNCHANGED jumps, NotSooner PROVE RoomInv(w)'
  BY <1>5, LifeCleared, RoomKept
<1>6. ASSUME NEW c \in Client, NEW m \in Mid, Acknowledge(c, m) \/ Reset(c, m)
      PROVE  RoomInv(w)'
  <2>1. Clear(Lookup(m)) /\ UNCHANGED jumps
    BY <1>6 DEF Acknowledge, Reset, CloseByMid
  <2>2. CASE Acknowledge(c, m)
    BY <1>5, <2>1, <2>2, SlotsSame DEF Acknowledge, obsVars
  <2>3. CASE Reset(c, m)
    <3>1. {s \in SlotsOf(c) : lastMid[s] = m} \in SUBSET Slot
      BY DEF SlotsOf
    <3>2. NotSooner
      BY <2>3, <3>1, SlotsRemoved DEF Reset
    <3>3. QED
      BY <1>5, <2>1, <3>2
  <2>4. QED
    BY <1>6, <2>2, <2>3
<1>7. CASE (\E m \in {mid[b] : b \in open} \union {NoMid} : Unrelated(m)) \/ Malformed
  <2>1. UNCHANGED <<subscriber, refresh, jumps>> /\ \E B : Clear(B)
    BY <1>7 DEF Unrelated, CloseByMid, Malformed, obsVars
  <2>2. QED
    BY <1>5, <2>1, SlotsSame
<1>8. ASSUME NEW b \in Block, ExpireTransaction(b) PROVE RoomInv(w)'
  <2>1. UNCHANGED <<subscriber, refresh, jumps>>
    BY <1>8 DEF ExpireTransaction, obsVars
  <2>2. QED
    BY <1>8, <2>1, SlotsSame, LifeExpired, RoomKept
<1>9. CASE HandleCoapEvent
  <2>1. UNCHANGED jumps
    BY <1>9 DEF HandleCoapEvent
  <2>2. CASE GivenUp = {} /\ SendAgain(Expired, {}) /\ UNCHANGED obsVars
    <3>1. Expired \subseteq Expired \ GivenUp /\ {} \subseteq GivenUp
      BY <2>2
    <3>2. NotSooner
      BY <2>2, SlotsSame DEF obsVars
    <3>3. QED
      BY <2>1, <2>2, <3>1, <3>2, LifeAgain, RoomKept
  <2>3. ASSUME NEW g \in GivenUp, NEW B \in SUBSET (Expired \ GivenUp),
               SendAgain(B, {g}), RemoveObserver(owner[g])
        PROVE  RoomInv(w)'
    <3>1. SlotsOf(owner[g]) \in SUBSET Slot
      BY DEF SlotsOf
    <3>2. NotSooner
      BY <2>3, <3>1, SlotsRemoved DEF RemoveObserver
    <3>3. QED
      BY <2>1, <2>3, <3>2, LifeAgain, RoomKept
  <2>4. QED
    BY <1>9, <2>2, <2>3 DEF HandleCoapEvent, CheckTransactions
<1>10. CASE HandleRestEvent
  <2>1. UNCHANGED jumps
    BY <1>10 DEF HandleRestEvent
  <2>2. CASE UNCHANGED <<txVars, obsVars>>
    BY <1>1, <2>1, <2>2, SlotsSame DEF obsVars
  <2>3. CASE NotifyObservers
    <3>1. PICK con \in SUBSET Subscribed, non \in SUBSET Subscribed :
            Notify(con, non) /\ \A s \in con : refresh[s] = 0
      BY <2>3 DEF NotifyObservers
    <3>2. QED
      BY <2>1, <3>1, NotifyRoom
  <2>4. QED
    BY <1>10, <2>2, <2>3 DEF HandleRestEvent
<1>11. ASSUME NEW d \in Jump, SetClock(d) PROVE RoomInv(w)'
  <2>1. /\ jumps' = jumps + 1 /\ jumps \in Nat /\ d \in Nat
        /\ UNCHANGED txVars /\ refresh \in [Slot -> Nat]
        /\ refresh' = [s \in Slot |-> IF refresh[s] > d THEN refresh[s] - d ELSE 0]
    BY <1>11, CoapAssumption DEF SetClock, RoomInv
  <2>2. \A b \in open : Life(w, b)' = Life(w, b) /\ open' = open
    BY <2>1 DEF txVars, Life, Left
  <2>3. open' = open
    BY <2>1 DEF txVars
  <2>4. refresh' \in [Slot -> Nat] /\ jumps' \in Nat /\ jumps' # 0
    BY <2>1
  <2>5. (\A b \in open : Life(w, b) < Refresh)'
    BY <2>2, <2>3 DEF RoomInv
  <2>6. QED
    BY <2>4, <2>5 DEF RoomInv
<1>12. QED
  BY <1>2, <1>3, <1>4, <1>6, <1>7, <1>8, <1>9, <1>10, <1>11, TickRoom DEF Next

LEMMA RoomInit == ASSUME NEW w, Init PROVE RoomInv(w)
<1>1. open = {} /\ jumps = 0 /\ refresh \in [Slot -> Nat]
  BY DEF Init
<1> DEFINE f == [b \in {} |-> 0]
<1>2. f \in [open -> Slot] /\ Reserved(w, f)
  BY <1>1 DEF Reserved
<1>3. QED
  BY <1>1, <1>2 DEF RoomInv

\* Fewer slots than blocks, and every open transaction has a slot of its own.
LEMMA RoomLeft ==
  ASSUME NEW w, IInv, RoomInv(w) PROVE RoomForRequests
<1> SUFFICES ASSUME jumps = 0, Free = {} PROVE FALSE
  BY DEF RoomForRequests
<1>1. open = Block
  BY DEF Free, IInv, Transactions, TxTypes, NoBlockLeaked
<1>2. PICK f \in [open -> Slot] : \A b, c \in open : f[b] = f[c] => b = c
  BY DEF RoomInv, Reserved
<1>3. QED
  BY <1>1, <1>2, FS_PigeonHole, CoapAssumption

\* While nobody sets the clock, a request always finds a block: fewer slots
\* than blocks, and a notification is given up within 45 seconds, before its
\* observer is sent the next confirmable one (er-coap-13-transactions.c:98-155,
\* er-coap-13-observing.c:174-224).
THEOREM AlwaysRoom == Spec => []RoomForRequests
<1>1. PICK w \in Growth : \A t \in Timeout : LongestWait(t, w) < Refresh
  BY CoapAssumption
<1>2. Waits(w)
  BY <1>1 DEF Waits
<1>3. Init => RoomInv(w)
  BY RoomInit
<1>4. IInv /\ IInv' /\ Pending /\ RoomInv(w) /\ [Next]_vars => RoomInv(w)'
  BY <1>2, RoomNext
<1>5. IInv /\ RoomInv(w) => RoomForRequests
  BY RoomLeft
<1>6. QED
  BY <1>3, <1>4, <1>5, PendingInvariance, PTL DEF Spec
=============================================================================
