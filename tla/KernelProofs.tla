----------------------------- MODULE KernelProofs -----------------------------
(***************************************************************************)
(* For every set of processes and timers and every length of the queue: no *)
(* timer is forgotten, every timer belongs to the process it is for, and   *)
(* no event is dropped by do_event.                                        *)
(***************************************************************************)
EXTENDS Kernel, SequenceTheorems, TLAPS

Event == [owner : Proc, timer : Timer]
Frame == [proc : Proc, calls : 0 .. MaxCalls]

\* What is not about the handlers on the stack.
Typed ==
  /\ queue \in Seq(Event) /\ Len(queue) <= NumEvents
  /\ needspoll \subseteq Proc \cup {ET} /\ walk \subseteq Proc \cup {ET}
  /\ pollRequested \in BOOLEAN /\ scanning \in BOOLEAN
  /\ pc \in {"run", "poll", "event", "again", "packet"}
  /\ unseen \subseteq Timer /\ listed \subseteq Timer
  /\ step \in {"none", "update", "assign"}
  /\ nearest \in Timer \cup {None}
  /\ owner \in [Timer -> Proc \cup {None}]
  /\ left \in [Timer -> Int] /\ next \in Int
  /\ busy \in 0 .. MaxBusy

Seen(t) == PollComing \/ ToBeSeen(t)

\* A timer whose time is past has a poll or a scan coming to it.
PastSeen == \A t \in listed : left[t] < 0 => Seen(t)

\* Outside update_time the next expiration is no later than that of any timer
\* still to come; inside it, the timers that are new to the list have asked for
\* a poll, and the timer found is the first of those to come.
Timely ==
  /\ step = "none" => \A t \in listed : left[t] >= 0 => next <= left[t]
  /\ step # "none" => \A t \in listed : left[t] >= 0 => Seen(t) \/ next <= left[t]
  /\ step = "assign" => /\ nearest \in listed
                        /\ \A t \in listed : left[t] >= 0 => left[nearest] <= left[t]

\* The scan and the handlers exclude each other, the scan looks at the list.
ScanAlone == scanning => stack = <<>> /\ unseen \subseteq listed

\* The handler that runs is process_current.
CurrentIsTop == stack # <<>> => current = Head(stack).proc

\* A process is marked as called exactly while it is on the stack, once.
CalledOnStack ==
  /\ \A p \in Proc : state[p] = "called" => \E i \in 1 .. Len(stack) : stack[i].proc = p
  /\ \A i \in 1 .. Len(stack) : state[stack[i].proc] = "called"
  /\ \A i, j \in 1 .. Len(stack) : stack[i].proc = stack[j].proc => i = j

Handlers == /\ state \in [Proc -> {"running", "called"}]
            /\ stack \in Seq(Frame) /\ current \in Proc \cup {ET, None}
            /\ CurrentIsTop /\ CalledOnStack

IInv == Typed /\ Handlers /\ PastSeen /\ Timely /\ ScanAlone /\ OwnedByHome

-----------------------------------------------------------------------------
(***************************************************************************)
(* The stack of handlers as a sequence.                                    *)
(***************************************************************************)
LEMMA HeadTail ==
  ASSUME NEW S, NEW s \in Seq(S), s # <<>>
  PROVE  /\ Len(s) \in Nat /\ Len(s) >= 1
         /\ Head(s) = s[1] /\ Head(s) \in S
         /\ Tail(s) \in Seq(S) /\ Len(Tail(s)) = Len(s) - 1
         /\ \A i \in 1 .. Len(s) - 1 : Tail(s)[i] = s[i + 1]
<1>1. Len(s) \in Nat /\ Len(s) >= 1
  BY EmptySeq, LenProperties
<1>2. Head(s) = s[1] /\ Head(s) \in S /\ Tail(s) \in Seq(S)
  BY HeadTailProperties, <1>1, ElementOfSeq
<1>3. Len(Tail(s)) = Len(s) - 1 /\ \A i \in 1 .. Len(s) - 1 : Tail(s)[i] = s[i + 1]
  BY HeadTailProperties, <1>1
<1>4. QED
  BY <1>1, <1>2, <1>3

LEMMA Pushed ==
  ASSUME NEW S, NEW s \in Seq(S), NEW f \in S
  PROVE  /\ <<f>> \o s \in Seq(S) /\ <<f>> \o s # <<>>
         /\ Len(s) \in Nat /\ Len(<<f>> \o s) = Len(s) + 1
         /\ (<<f>> \o s)[1] = f /\ Head(<<f>> \o s) = f
         /\ \A i \in 2 .. Len(s) + 1 : (<<f>> \o s)[i] = s[i - 1]
<1>1. <<f>> \in Seq(S) /\ Len(<<f>>) = 1 /\ <<f>>[1] = f
  OBVIOUS
<1>2. /\ <<f>> \o s \in Seq(S) /\ Len(s) \in Nat
      /\ Len(<<f>> \o s) = Len(s) + 1
  BY <1>1, ConcatProperties, LenProperties
<1>3. /\ (<<f>> \o s)[1] = f
      /\ \A i \in 2 .. Len(s) + 1 : (<<f>> \o s)[i] = s[i - 1]
  BY <1>1, <1>2, ConcatProperties
<1>4. <<f>> \o s # <<>>
  BY <1>2
<1>5. Head(<<f>> \o s) = f
  BY <1>2, <1>3, <1>4, HeadTailProperties
<1>6. QED
  BY <1>2, <1>3, <1>4, <1>5

-----------------------------------------------------------------------------
(***************************************************************************)
(* What the handlers on the stack have to do with the marks of processes.  *)
(***************************************************************************)
LEMMA HandlersSame == Handlers /\ UNCHANGED <<stack, state, current>> => Handlers'
BY DEF Handlers, CurrentIsTop, CalledOnStack

LEMMA TopTyped ==
  ASSUME Handlers, stack # <<>>
  PROVE  /\ Head(stack) \in Frame /\ Top \in Proc /\ current = Top
         /\ Head(stack) = stack[1] /\ state[Top] = "called"
         /\ Tail(stack) \in Seq(Frame)
<1>1. Head(stack) \in Frame /\ Head(stack) = stack[1] /\ Len(stack) \in Nat
      /\ Len(stack) >= 1 /\ Tail(stack) \in Seq(Frame)
  BY HeadTail DEF Handlers
<1>2. Top \in Proc /\ current = Top
  BY <1>1 DEF Top, Frame, Handlers, CurrentIsTop
<1>3. state[Top] = "called"
  BY <1>1 DEF Top, Handlers, CalledOnStack
<1>4. QED
  BY <1>1, <1>2, <1>3

\* A frame more for a process that was not called, over a stack that may have
\* counted one more call.
LEMMA HandlersPush ==
  ASSUME Handlers, NEW p \in Proc, state[p] = "running", NEW s \in Seq(Frame),
         Len(s) = Len(stack), \A i \in 1 .. Len(s) : s[i].proc = stack[i].proc,
         stack' = <<[proc |-> p, calls |-> 0]>> \o s,
         state' = [state EXCEPT ![p] = "called"], current' = p
  PROVE  Handlers'
<1> DEFINE f == [proc |-> p, calls |-> 0]
<1>1. f \in Frame /\ f.proc = p
  BY KernelAssumption DEF Frame
<1> HIDE DEF f
<1>2. stack' = <<f>> \o s
  BY DEF f
<1>3. /\ stack' \in Seq(Frame) /\ stack' # <<>> /\ Head(stack') = f
      /\ Len(s) \in Nat /\ Len(stack') = Len(s) + 1 /\ stack'[1] = f
      /\ \A i \in 2 .. Len(s) + 1 : stack'[i] = s[i - 1]
  BY <1>1, <1>2, Pushed
<1>4. /\ state' \in [Proc -> {"running", "called"}] /\ state'[p] = "called"
      /\ \A q \in Proc \ {p} : state'[q] = state[q]
  BY DEF Handlers
<1>5. stack'[1].proc = p /\ \A i \in 2 .. Len(stack') :
        stack'[i].proc = stack[i - 1].proc /\ i - 1 \in 1 .. Len(stack)
  BY <1>1, <1>3
<1>6. \A i \in 1 .. Len(stack) : stack[i].proc \in Proc \ {p}
  <2>1. \A i \in 1 .. Len(stack) : stack[i] \in Frame
    BY ElementOfSeq DEF Handlers
  <2>2. QED
    BY <2>1 DEF Handlers, CalledOnStack, Frame
<1>60. \A i \in 2 .. Len(stack') : /\ stack'[i].proc \in Proc \ {p}
                                   /\ state[stack'[i].proc] = "called"
  <2>1. \A i \in 1 .. Len(stack) : state[stack[i].proc] = "called"
    BY DEF Handlers, CalledOnStack
  <2>2. QED
    BY <1>5, <1>6, <2>1
<1>7. CalledOnStack'
  <2>1. \A q \in Proc : state'[q] = "called" =>
          \E i \in 1 .. Len(stack') : stack'[i].proc = q
    <3>1. SUFFICES ASSUME NEW q \in Proc, state'[q] = "called"
                   PROVE  \E i \in 1 .. Len(stack') : stack'[i].proc = q
      OBVIOUS
    <3>2. CASE q = p
      BY <3>2, <1>3, <1>5
    <3>3. CASE q # p
      <4>1. PICK i \in 1 .. Len(stack) : stack[i].proc = q
        BY <3>1, <3>3, <1>4 DEF Handlers, CalledOnStack
      <4>2. i + 1 \in 2 .. Len(stack') /\ (i + 1) - 1 = i
        BY <1>3
      <4>3. stack'[i + 1].proc = q
        BY <4>1, <4>2, <1>5
      <4>4. QED
        BY <4>2, <4>3
    <3>4. QED
      BY <3>2, <3>3
  <2>2. \A i \in 1 .. Len(stack') : state'[stack'[i].proc] = "called"
    <3>1. \A i \in 2 .. Len(stack') : state'[stack'[i].proc] = "called"
      BY <1>4, <1>60
    <3>2. QED
      BY <3>1, <1>3, <1>4, <1>5
  <2>3. \A i, j \in 1 .. Len(stack') : stack'[i].proc = stack'[j].proc => i = j
    <3>1. SUFFICES ASSUME NEW i \in 1 .. Len(stack'), NEW j \in 1 .. Len(stack'),
                          stack'[i].proc = stack'[j].proc
                   PROVE  i = j
      OBVIOUS
    <3>2. CASE i = 1 \/ j = 1
      <4>1. \A k \in 1 .. Len(stack') : k # 1 => stack'[k].proc # stack'[1].proc
        BY <1>3, <1>5, <1>60
      <4>2. QED
        BY <3>1, <3>2, <4>1
    <3>3. CASE i # 1 /\ j # 1
      <4>1. i \in 2 .. Len(stack') /\ j \in 2 .. Len(stack')
        BY <3>3, <1>3
      <4>2. stack[i - 1].proc = stack[j - 1].proc
            /\ i - 1 \in 1 .. Len(stack) /\ j - 1 \in 1 .. Len(stack)
        BY <3>1, <4>1, <1>5
      <4>3. i - 1 = j - 1
        BY <4>2 DEF Handlers, CalledOnStack
      <4>4. QED
        BY <4>3
    <3>4. QED
      BY <3>2, <3>3
  <2>4. QED
    BY <2>1, <2>2, <2>3 DEF CalledOnStack
<1>8. CurrentIsTop' /\ current' \in Proc \cup {ET, None}
  BY <1>1, <1>3 DEF CurrentIsTop
<1>9. QED
  BY <1>3, <1>4, <1>7, <1>8 DEF Handlers

LEMMA HandlersCalled ==
  ASSUME Handlers, NEW p \in Proc, state[p] = "running", Called(p)
  PROVE  Handlers'
BY HandlersPush DEF Called, Handlers

\* The innermost handler counts one more call.
Counted == [Head(stack) EXCEPT !.calls = @ + 1]

LEMMA CountedTop ==
  ASSUME Handlers, stack # <<>>, Head(stack).calls < MaxCalls
  PROVE  LET s == <<Counted>> \o Tail(stack) IN
           /\ Counted \in Frame /\ Tail(stack) \in Seq(Frame)
           /\ s \in Seq(Frame) /\ s # <<>> /\ Head(s).proc = Top
           /\ Len(s) = Len(stack)
           /\ \A i \in 1 .. Len(s) : s[i].proc = stack[i].proc
<1> DEFINE s == <<Counted>> \o Tail(stack)
<1>1. Counted \in Frame /\ Counted.proc = Top
  BY TopTyped, KernelAssumption DEF Counted, Frame, Top
<1>2. /\ Len(stack) \in Nat /\ Len(stack) >= 1 /\ Head(stack) = stack[1]
      /\ Tail(stack) \in Seq(Frame) /\ Len(Tail(stack)) = Len(stack) - 1
      /\ \A i \in 1 .. Len(stack) - 1 : Tail(stack)[i] = stack[i + 1]
  BY HeadTail DEF Handlers
<1>3. /\ s \in Seq(Frame) /\ s # <<>> /\ Head(s) = Counted
      /\ Len(s) = Len(Tail(stack)) + 1 /\ s[1] = Counted
      /\ \A i \in 2 .. Len(Tail(stack)) + 1 : s[i] = Tail(stack)[i - 1]
  BY <1>1, <1>2, Pushed
<1>4. \A i \in 2 .. Len(stack) : s[i] = stack[i]
  BY <1>2, <1>3
<1>5. QED
  BY <1>1, <1>2, <1>3, <1>4 DEF Top

LEMMA HandlersCalls ==
  ASSUME Handlers, Calls, UNCHANGED <<state, current>>
  PROVE  Handlers' /\ stack # <<>>
<1>1. stack # <<>> /\ Head(stack).calls < MaxCalls
      /\ stack' = <<Counted>> \o Tail(stack)
  BY DEF Calls, Active, Counted
<1>2. /\ stack' \in Seq(Frame) /\ stack' # <<>> /\ Head(stack').proc = Top
      /\ Len(stack') = Len(stack)
      /\ \A i \in 1 .. Len(stack') : stack'[i].proc = stack[i].proc
  BY <1>1, CountedTop
<1>3. CurrentIsTop'
  BY <1>1, <1>2, TopTyped DEF CurrentIsTop
<1>4. CalledOnStack'
  BY <1>2 DEF Handlers, CalledOnStack
<1>5. QED
  BY <1>1, <1>2, <1>3, <1>4 DEF Handlers

LEMMA HandlersPostSynch ==
  ASSUME Handlers, NEW p \in Proc, PostSynch(p) PROVE Handlers'
<1>1. CASE state[p] = "running"
  <2> DEFINE s == <<Counted>> \o Tail(stack)
  <2>1. /\ s \in Seq(Frame) /\ Len(s) = Len(stack)
        /\ \A i \in 1 .. Len(s) : s[i].proc = stack[i].proc
    BY CountedTop DEF PostSynch, Active
  <2>2. Counted \in Frame /\ Tail(stack) \in Seq(Frame)
    BY CountedTop DEF PostSynch, Active
  <2>3. <<[proc |-> p, calls |-> 0], Counted>> \o Tail(stack)
          = <<[proc |-> p, calls |-> 0]>> \o s
    BY <2>2
  <2>4. /\ stack' = <<[proc |-> p, calls |-> 0]>> \o s
        /\ state' = [state EXCEPT ![p] = "called"] /\ current' = p
    BY <1>1, <2>3 DEF PostSynch, Counted
  <2> HIDE DEF s
  <2>5. QED
    BY <1>1, <2>1, <2>4, HandlersPush
<1>2. CASE state[p] # "running"
  BY <1>2, HandlersSame DEF PostSynch
<1>3. QED
  BY <1>1, <1>2

LEMMA HandlersReturn == ASSUME Handlers, Return PROVE Handlers'
<1>1. stack # <<>> /\ stack' = Tail(stack)
  BY DEF Return, Active
<1>2. /\ Len(stack) \in Nat /\ Len(stack) >= 1 /\ stack' \in Seq(Frame)
      /\ Len(stack') = Len(stack) - 1
      /\ \A i \in 1 .. Len(stack) - 1 : stack'[i] = stack[i + 1]
  BY <1>1, HeadTail DEF Handlers
<1>3. Top \in Proc /\ Head(stack) = stack[1] /\ state[Top] = "called" /\ current = Top
  BY <1>1, TopTyped
<1>4. /\ state' \in [Proc -> {"running", "called"}] /\ state'[Top] = "running"
      /\ \A q \in Proc \ {Top} : state'[q] = state[q]
  BY <1>3 DEF Return, BackRunning, Handlers
<1>5. \A i \in 1 .. Len(stack') : /\ i + 1 \in 1 .. Len(stack) /\ i + 1 # 1
                                  /\ stack'[i].proc = stack[i + 1].proc
  BY <1>2
<1>6. \A i \in 1 .. Len(stack) : stack[i].proc \in Proc
  <2>1. \A i \in 1 .. Len(stack) : stack[i] \in Frame
    BY ElementOfSeq DEF Handlers
  <2>2. QED
    BY <2>1 DEF Frame
<1>7. \A i \in 1 .. Len(stack) : i # 1 => stack[i].proc # Top
  BY <1>2, <1>3 DEF Handlers, CalledOnStack, Top
<1>8. CalledOnStack'
  <2>1. ASSUME NEW q \in Proc, state'[q] = "called"
        PROVE  \E i \in 1 .. Len(stack') : stack'[i].proc = q
    <3>1. q # Top /\ state[q] = "called"
      BY <2>1, <1>4
    <3>2. PICK i \in 1 .. Len(stack) : stack[i].proc = q
      BY <3>1 DEF Handlers, CalledOnStack
    <3>3. i # 1
      BY <3>1, <3>2, <1>3 DEF Top
    <3>4. i - 1 \in 1 .. Len(stack') /\ stack'[i - 1] = stack[i]
      BY <3>3, <1>2
    <3>5. QED
      BY <3>2, <3>4
  <2>2. ASSUME NEW i \in 1 .. Len(stack') PROVE state'[stack'[i].proc] = "called"
    <3>1. i + 1 \in 1 .. Len(stack) /\ stack'[i].proc = stack[i + 1].proc
          /\ i + 1 # 1
      BY <1>5
    <3>2. stack[i + 1].proc \in Proc \ {Top} /\ state[stack[i + 1].proc] = "called"
      BY <3>1, <1>6, <1>7 DEF Handlers, CalledOnStack
    <3>3. QED
      BY <3>1, <3>2, <1>4
  <2>3. ASSUME NEW i \in 1 .. Len(stack'), NEW j \in 1 .. Len(stack'),
               stack'[i].proc = stack'[j].proc
        PROVE  i = j
    <3>1. i + 1 = j + 1
      BY <2>3, <1>5 DEF Handlers, CalledOnStack
    <3>2. QED
      BY <3>1
  <2>4. QED
    BY <2>1, <2>2, <2>3 DEF CalledOnStack
<1>9. CurrentIsTop' /\ current' \in Proc \cup {ET, None}
  <2>1. CASE Tail(stack) = <<>>
    BY <2>1, <1>1 DEF Return, CurrentIsTop, Handlers
  <2>2. CASE Tail(stack) # <<>>
    <3>1. current' = Head(stack').proc
      BY <2>2, <1>1 DEF Return, Restored
    <3>2. Head(stack') \in Frame
      BY <2>2, <1>1, <1>2, HeadTail
    <3>3. QED
      BY <3>1, <3>2 DEF CurrentIsTop, Frame
  <2>3. QED
    BY <2>1, <2>2
<1>10. QED
  BY <1>2, <1>4, <1>8, <1>9 DEF Handlers

LEMMA HandlersNext == Handlers /\ Typed /\ ScanAlone /\ [Next]_vars => Handlers'
<1> SUFFICES ASSUME Handlers, Typed, ScanAlone, [Next]_vars PROVE Handlers'
  OBVIOUS
<1>1. CASE Tick \/ RunPolls \/ RunAgain \/ NoPacket \/ ScanEnds \/ UpdateTime
             \/ AssignNext \/ UNCHANGED vars
  BY <1>1, HandlersSame DEF Tick, RunPolls, RunAgain, NoPacket, ScanEnds,
     UpdateTime, AssignNext, vars, control
<1>2. CASE VisitPoll
  BY <1>2 DEF VisitPoll, MainLoop, Handlers, CurrentIsTop, CalledOnStack
<1>3. CASE DoEvent
  <2>1. CASE queue = <<>>
    BY <1>3, <2>1, HandlersSame DEF DoEvent
  <2>2. CASE queue # <<>>
    <3>1. Head(queue).owner \in Proc
      <4>1. Head(queue) \in Event
        BY <2>2, HeadTail DEF Typed
      <4>2. QED
        BY <4>1 DEF Event
    <3>2. QED
      BY <1>3, <2>2, <3>1, HandlersCalled, HandlersSame DEF DoEvent
  <2>3. QED
    BY <2>1, <2>2
<1>4. CASE \E p \in Proc : Packet(p)
  BY <1>4, HandlersCalled, HandlersSame DEF Packet
<1>5. CASE \E t \in Timer : LookAt(t)
  BY <1>5, HandlersSame DEF LookAt
<1>6. CASE \E t \in Timer, i \in Interval : SetTimer(t, i) \/ ResetTimer(t, i)
  BY <1>6, HandlersCalls DEF SetTimer, ResetTimer
<1>7. CASE \E t \in Timer : StopTimer(t)
  BY <1>7, HandlersCalls DEF StopTimer
<1>8. CASE \E p \in Proc : PostSynch(p)
  BY <1>8, HandlersPostSynch
<1>9. CASE Return
  BY <1>9, HandlersReturn
<1>10. QED
  BY <1>1, <1>2, <1>3, <1>4, <1>5, <1>6, <1>7, <1>8, <1>9 DEF Next, Kernel, Handler

-----------------------------------------------------------------------------
(***************************************************************************)
(* Types, and who owns a timer.                                            *)
(***************************************************************************)
LEMMA OwnedNext == IInv /\ [Next]_vars => OwnedByHome'
<1> SUFFICES ASSUME IInv, [Next]_vars PROVE OwnedByHome'
  OBVIOUS
<1>1. owner \in [Timer -> Proc \cup {None}] /\ OwnedByHome /\ ScanAlone /\ Handlers
  BY DEF IInv, Typed
<1>2. CASE UNCHANGED <<listed, owner>>
  BY <1>1, <1>2 DEF OwnedByHome
<1>3. ASSUME NEW t \in Timer, LookAt(t) PROVE OwnedByHome'
  BY <1>1, <1>3 DEF LookAt, OwnedByHome
<1>4. ASSUME NEW t \in Timer, Added(t), Active, Uses(t) PROVE OwnedByHome'
  <2>1. current = Top
    BY <1>1, <1>4, TopTyped DEF Active
  <2>2. owner' = [owner EXCEPT ![t] = Home[t]] /\ listed' = listed \cup {t}
    BY <1>4, <2>1 DEF Added, Uses
  <2>3. QED
    BY <1>1, <2>2 DEF OwnedByHome
<1>5. ASSUME NEW t \in Timer, NEW i \in Interval, SetTimer(t, i) \/ ResetTimer(t, i)
      PROVE  OwnedByHome'
  BY <1>4, <1>5 DEF SetTimer, ResetTimer, Calls
<1>6. ASSUME NEW t \in Timer, StopTimer(t) PROVE OwnedByHome'
  BY <1>1, <1>6 DEF StopTimer, OwnedByHome
<1>7. QED
  BY <1>2, <1>3, <1>5, <1>6 DEF Next, Kernel, Handler, Tick, RunPolls, VisitPoll,
     DoEvent, RunAgain, NoPacket, Packet, ScanEnds, UpdateTime, AssignNext,
     PostSynch, Return, vars, timers

LEMMA EarlierInt == \A n \in Int : Earlier(n) \in Int
BY KernelAssumption DEF Earlier

LEMMA TypedNext == IInv /\ [Next]_vars => Typed'
<1> SUFFICES ASSUME IInv, [Next]_vars PROVE Typed'
  OBVIOUS
<1>1. Typed
  BY DEF IInv
<1>2. CASE UNCHANGED vars
  BY <1>1, <1>2 DEF Typed, vars
<1>3. CASE Tick
  <2>1. busy' \in 0 .. MaxBusy
    BY <1>1, <1>3, KernelAssumption DEF Tick, Typed
  <2>2. left' \in [Timer -> Int] /\ next' \in Int
    BY <1>1, <1>3, EarlierInt DEF Tick, Typed
  <2>3. QED
    BY <1>1, <1>3, <2>1, <2>2 DEF Tick, Typed, polls, control
<1>4. CASE RunPolls \/ VisitPoll \/ NoPacket \/ ScanEnds
  BY <1>1, <1>4 DEF RunPolls, VisitPoll, NoPacket, ScanEnds, ToLookAt,
     Typed, timers, polls
<1>5. CASE RunAgain
  <2>1. 0 \in 0 .. MaxBusy
    BY KernelAssumption
  <2>2. QED
    BY <1>1, <1>5, <2>1 DEF RunAgain, Typed, timers, polls
<1>6. CASE DoEvent
  <2>1. queue' \in Seq(Event) /\ Len(queue') <= NumEvents
    <3>1. CASE queue = <<>>
      BY <1>1, <1>6, <3>1 DEF DoEvent, Typed
    <3>2. CASE queue # <<>>
      <4>1. queue' = Tail(queue)
        BY <1>6, <3>2 DEF DoEvent
      <4>2. Tail(queue) \in Seq(Event) /\ Len(Tail(queue)) = Len(queue) - 1
            /\ Len(queue) \in Nat
        BY <1>1, <3>2, HeadTail DEF Typed
      <4>3. QED
        BY <1>1, <4>1, <4>2, KernelAssumption DEF Typed
    <3>3. QED
      BY <3>1, <3>2
  <2>2. QED
    BY <1>1, <1>6, <2>1 DEF DoEvent, Typed, timers, polls
<1>7. CASE \E p \in Proc : Packet(p) \/ PostSynch(p)
  BY <1>1, <1>7 DEF Packet, PostSynch, Typed, timers, polls
<1>8. CASE UpdateTime \/ AssignNext
  <2>1. step = "assign" => nearest \in Timer
    BY <1>1 DEF IInv, Timely, Typed
  <2>2. QED
    BY <1>1, <1>8, <2>1 DEF UpdateTime, AssignNext, Typed, timers, polls, control
<1>9. ASSUME NEW t \in Timer, LookAt(t) PROVE Typed'
  <2>1. t \in listed
    BY <1>9 DEF IInv, ScanAlone, LookAt
  <2>2. queue' \in Seq(Event) /\ Len(queue') <= NumEvents
    <3>1. CASE Expired(t) /\ ~QueueFull
      <4>1. owner[t] = Home[t] /\ Home[t] \in Proc
        BY <2>1, KernelAssumption DEF IInv, OwnedByHome
      <4>2. [owner |-> owner[t], timer |-> t] \in Event
        BY <4>1 DEF Event
      <4>3. queue' = Append(queue, [owner |-> owner[t], timer |-> t])
        BY <1>9, <3>1 DEF LookAt
      <4>4. queue' \in Seq(Event) /\ Len(queue') = Len(queue) + 1 /\ Len(queue) \in Nat
        BY <1>1, <4>2, <4>3, AppendProperties, LenProperties DEF Typed
      <4>5. QED
        BY <1>1, <3>1, <4>4, KernelAssumption DEF Typed, QueueFull
    <3>2. CASE ~Expired(t) \/ QueueFull
      BY <1>1, <1>9, <3>2 DEF LookAt, Typed
    <3>3. QED
      BY <3>1, <3>2
  <2>3. owner' \in [Timer -> Proc \cup {None}]
    BY <1>1, <1>9 DEF LookAt, Typed
  <2>4. unseen' \subseteq Timer /\ listed' \subseteq Timer
        /\ step' \in {"none", "update", "assign"}
        /\ needspoll' \subseteq Proc \cup {ET} /\ pollRequested' \in BOOLEAN
    BY <1>1, <1>9 DEF LookAt, Typed, EtimerRequestPoll, polls
  <2>5. QED
    BY <1>1, <1>9, <2>2, <2>3, <2>4 DEF LookAt, Typed
<1>10. ASSUME NEW t \in Timer, NEW i \in Interval, SetTimer(t, i) \/ ResetTimer(t, i)
       PROVE  Typed'
  <2>1. left' \in [Timer -> Int]
    BY <1>1, <1>10, KernelAssumption DEF SetTimer, ResetTimer, Typed
  <2>2. Added(t) /\ owner[t] \in Proc \cup {None}
    BY <1>1, <1>10 DEF SetTimer, ResetTimer, Typed
  <2>3. Calls /\ stack # <<>>
    BY <1>10 DEF SetTimer, ResetTimer, Calls, Active
  <2>4. current \in Proc /\ Home[t] \in Proc
    BY <2>3, TopTyped, KernelAssumption DEF IInv
  <2>5. owner' \in [Timer -> Proc \cup {None}] /\ listed' \subseteq Timer
        /\ step' \in {"none", "update", "assign"}
        /\ needspoll' \subseteq Proc \cup {ET} /\ pollRequested' \in BOOLEAN
    BY <1>1, <2>2, <2>4 DEF Added, PollAsked, EtimerRequestPoll, Typed
  <2>6. QED
    BY <1>1, <1>10, <2>1, <2>5 DEF SetTimer, ResetTimer, Typed
<1>11. ASSUME NEW t \in Timer, StopTimer(t) PROVE Typed'
  BY <1>1, <1>11 DEF StopTimer, Typed, polls
<1>12. CASE Return
  BY <1>1, <1>12 DEF Return, Typed, timers, polls
<1>13. QED
  BY <1>2, <1>3, <1>4, <1>5, <1>6, <1>7, <1>8, <1>9, <1>10, <1>11, <1>12
     DEF Next, Kernel, Handler

LEMMA ScanNext == IInv /\ [Next]_vars => ScanAlone'
BY DEF IInv, ScanAlone, Next, Kernel, Handler, Tick, RunPolls, VisitPoll,
   DoEvent, RunAgain, NoPacket, Packet, LookAt, ScanEnds, UpdateTime, AssignNext,
   SetTimer, ResetTimer, StopTimer, PostSynch, Return, Calls, Active, Added,
   MainLoop, ToLookAt, Typed, vars, timers, control

-----------------------------------------------------------------------------
(***************************************************************************)
(* Time.                                                                   *)
(***************************************************************************)
Timing == PastSeen /\ Timely

LEMMA EarlierOrder ==
  \A m, n \in Int :
    /\ m <= n => Earlier(m) <= Earlier(n)
    /\ Earlier(n) >= 0 => n >= 1
    /\ Earlier(n) < 0 => n <= 0
    /\ n >= 0 => Earlier(n) = n - 1
BY KernelAssumption DEF Earlier

\* Nothing that has to do with time and polls changes.
LEMMA TimingSame ==
  ASSUME Timing, UNCHANGED <<polls, walk, pc, scanning, unseen, step, nearest, timers, next>>
  PROVE  Timing'
BY DEF Timing, PastSeen, Timely, Seen, PollComing, ToBeSeen, polls, timers

LEMMA TickTiming == IInv /\ Tick => Timing'
<1> SUFFICES ASSUME IInv, Tick PROVE Timing'
  OBVIOUS
<1>1. /\ left \in [Timer -> Int] /\ next \in Int /\ listed \subseteq Timer
      /\ nearest \in Timer \cup {None} /\ PastSeen /\ Timely
  BY DEF IInv, Typed
<1>2. /\ listed' = listed /\ step' = step /\ nearest' = nearest
      /\ \A t \in listed : left'[t] = Earlier(left[t]) /\ left[t] \in Int
      /\ next' = Earlier(next) /\ next' \in Int
  BY <1>1, EarlierInt DEF Tick
<1>3. \A t \in listed : Seen(t) => Seen(t)'
  BY DEF Tick, Seen, PollComing, ToBeSeen, polls, control
<1>4. \A t \in listed : Due(next') => Seen(t)'
  BY DEF Tick, Seen, PollComing
<1>5. PastSeen'
  <2> SUFFICES ASSUME NEW t \in listed, left'[t] < 0 PROVE Seen(t)'
    BY <1>2 DEF PastSeen
  <2>1. CASE Seen(t)
    BY <2>1, <1>3
  <2>2. CASE ~Seen(t)
    <3>1. left[t] \in Int /\ left[t] >= 0
      BY <2>2, <1>1, <1>2 DEF PastSeen
    <3>2. Earlier(left[t]) < 0
      BY <1>2
    <3>3. left[t] = 0
      BY <3>1, <3>2, EarlierOrder
    <3>4. next <= 0
      BY <2>2, <3>3, <1>1, <1>2 DEF Timely
    <3>5. next' <= Earlier(0) /\ Earlier(0) = 0 - 1
      BY <3>4, <1>1, <1>2, EarlierOrder
    <3>6. Due(next')
      BY <3>5, <1>2 DEF Due
    <3>7. QED
      BY <3>6, <1>4
  <2>3. QED
    BY <2>1, <2>2
<1>6. \A t \in listed : left'[t] >= 0 => left[t] >= 0
  BY <1>2, EarlierOrder
<1>7. \A t \in listed : next <= left[t] => next' <= left'[t]
  BY <1>1, <1>2, EarlierOrder
<1>8. \A s, t \in listed : left[s] <= left[t] => left'[s] <= left'[t]
  BY <1>2, EarlierOrder
<1>9. Timely'
  BY <1>1, <1>2, <1>3, <1>6, <1>7, <1>8 DEF Timely
<1>10. QED
  BY <1>5, <1>9 DEF Timing

LEMMA LoopTiming == IInv /\ (RunPolls \/ VisitPoll \/ ScanEnds) => Timing'
<1> SUFFICES ASSUME IInv, RunPolls \/ VisitPoll \/ ScanEnds PROVE Timing'
  OBVIOUS
<1>1. \A t \in listed : Seen(t) => Seen(t)'
  BY DEF IInv, Typed, RunPolls, VisitPoll, ScanEnds, MainLoop, Seen, PollComing,
     ToBeSeen, ToLookAt, polls
<1>2. UNCHANGED <<listed, left, step, nearest, next>>
  BY DEF RunPolls, VisitPoll, ScanEnds, timers
<1>3. QED
  BY <1>1, <1>2 DEF IInv, Timing, PastSeen, Timely

LEMMA LookAtTiming == ASSUME IInv, NEW t \in Timer, LookAt(t) PROVE Timing'
<1>1. left \in [Timer -> Int] /\ PastSeen /\ Timely /\ step = "none" /\ left' = left
  BY DEF IInv, Typed, LookAt
<1>2. CASE Expired(t) /\ ~QueueFull
  <2>1. /\ listed' = listed \ {t} /\ unseen' = listed' /\ step' = "update"
        /\ scanning' = TRUE
    BY <1>2 DEF LookAt, IInv, Typed
  <2>2. \A s \in listed' : Seen(s)'
    BY <2>1 DEF Seen, ToBeSeen
  <2>3. QED
    BY <2>1, <2>2 DEF Timing, PastSeen, Timely
<1>3. CASE Expired(t) /\ QueueFull
  <2>1. PollComing' /\ listed' = listed /\ step' = "none" /\ next' = next
    BY <1>1, <1>3 DEF LookAt, EtimerRequestPoll, PollComing
  <2>2. QED
    BY <1>1, <2>1 DEF Timing, PastSeen, Timely, Seen
<1>4. CASE ~Expired(t)
  <2>1. /\ unseen' = unseen \ {t} /\ listed' = listed /\ step' = "none"
        /\ next' = next /\ scanning' = scanning /\ PollComing' = PollComing
    BY <1>1, <1>4 DEF LookAt, PollComing, polls
  <2>2. ~(left[t] < 0)
    BY <1>1, <1>4 DEF Expired
  <2>3. QED
    BY <1>1, <2>1, <2>2 DEF Timing, PastSeen, Timely, Seen, ToBeSeen
<1>5. QED
  BY <1>2, <1>3, <1>4

LEMMA UpdateTiming == IInv /\ (UpdateTime \/ AssignNext) => Timing'
<1> SUFFICES ASSUME IInv, UpdateTime \/ AssignNext PROVE Timing'
  OBVIOUS
<1>1. left \in [Timer -> Int] /\ listed \subseteq Timer /\ PastSeen /\ Timely
  BY DEF IInv, Typed
<1>2. UNCHANGED <<listed, left>> /\ \A t \in listed : Seen(t)' = Seen(t)
  BY DEF UpdateTime, AssignNext, timers, polls, control, Seen, PollComing, ToBeSeen
<1>3. CASE UpdateTime
  <2>1. next' = next
    BY <1>3 DEF UpdateTime
  <2>2. step' = "assign" =>
          /\ nearest' \in listed
          /\ \A t \in listed : left[t] >= 0 => left[nearest'] <= left[t]
    <3>1. listed # {} =>
            /\ nearest' \in listed
            /\ \A t \in listed : Sooner(nearest', t)
      BY <1>3 DEF UpdateTime
    <3>2. listed # {} => \A t \in listed : left[t] >= 0 => left[nearest'] <= left[t]
      BY <1>1, <3>1 DEF Sooner
    <3>3. QED
      BY <1>3, <3>1, <3>2 DEF UpdateTime
  <2>3. step = "update" /\ step' \in {"none", "assign"} /\ (step' = "none" => listed = {})
    BY <1>3 DEF UpdateTime
  <2>4. Timely'
    BY <1>1, <1>2, <2>1, <2>2, <2>3 DEF Timely
  <2>5. QED
    BY <1>1, <1>2, <2>4 DEF Timing, PastSeen
<1>4. CASE AssignNext
  BY <1>1, <1>2, <1>4 DEF AssignNext, Timing, PastSeen, Timely
<1>5. QED
  BY <1>3, <1>4

LEMMA AddedTiming == ASSUME NEW t \in Timer, Added(t) PROVE Timing'
<1>1. PollComing' /\ step' = "update"
  BY DEF Added, PollAsked, EtimerRequestPoll, PollComing
<1>2. QED
  BY <1>1 DEF Timing, PastSeen, Timely, Seen

LEMMA StopTiming == ASSUME IInv, NEW t \in Timer, StopTimer(t) PROVE Timing'
<1>1. \A s \in listed : Seen(s)' = Seen(s)
  BY DEF StopTimer, polls, Seen, PollComing, ToBeSeen
<1>2. /\ listed' \subseteq listed /\ left' = left /\ next' = next
      /\ step = "none" /\ step' \in {"none", "update"}
  BY DEF StopTimer, Calls, Active
<1>3. QED
  BY <1>1, <1>2 DEF IInv, Timing, PastSeen, Timely

LEMMA TimingNext == IInv /\ [Next]_vars => Timing'
<1> SUFFICES ASSUME IInv, [Next]_vars PROVE Timing'
  OBVIOUS
<1>1. Timing
  BY DEF IInv, Timing
<1>2. CASE RunAgain \/ NoPacket \/ DoEvent \/ \E p \in Proc : Packet(p)
  <2>1. \A t \in listed : Seen(t)' = Seen(t)
    BY <1>2 DEF RunAgain, NoPacket, DoEvent, Packet, Seen, PollComing, ToBeSeen, polls
  <2>2. UNCHANGED <<listed, left, step, nearest, next>>
    BY <1>2 DEF RunAgain, NoPacket, DoEvent, Packet, timers
  <2>3. QED
    BY <1>1, <2>1, <2>2 DEF Timing, PastSeen, Timely
<1>3. CASE Return \/ (\E p \in Proc : PostSynch(p)) \/ UNCHANGED vars
  BY <1>1, <1>3, TimingSame DEF Return, PostSynch, vars, polls, timers
<1>4. CASE \E t \in Timer, i \in Interval : SetTimer(t, i) \/ ResetTimer(t, i)
  BY <1>4, AddedTiming DEF SetTimer, ResetTimer
<1>5. QED
  BY <1>2, <1>3, <1>4, TickTiming, LoopTiming, LookAtTiming, UpdateTiming, StopTiming
     DEF Next, Kernel, Handler

-----------------------------------------------------------------------------
LEMMA InitInv == Init => IInv
<1> SUFFICES ASSUME Init PROVE IInv
  OBVIOUS
<1>1. PICK i \in Interval : left = [t \in Timer |-> i] /\ next = i
  BY DEF Init
<1>2. i \in Nat
  BY KernelAssumption
<1>3. queue \in Seq(Event) /\ Len(queue) = 0 /\ stack \in Seq(Frame) /\ Len(stack) = 0
  BY DEF Init
<1>4. owner \in [Timer -> Proc \cup {None}] /\ OwnedByHome
  BY KernelAssumption DEF Init, OwnedByHome
<1>5. Typed
  <2>1. left \in [Timer -> Int] /\ next \in Int
    BY <1>1, <1>2
  <2>2. busy \in 0 .. MaxBusy /\ Len(queue) <= NumEvents
    BY <1>3, KernelAssumption DEF Init
  <2>3. QED
    BY <1>3, <1>4, <2>1, <2>2 DEF Init, Typed
<1>6. Handlers
  BY <1>3 DEF Init, Handlers, CurrentIsTop, CalledOnStack
<1>7. PastSeen /\ Timely /\ ScanAlone
  BY <1>1, <1>2 DEF Init, PastSeen, Timely, ScanAlone
<1>8. QED
  BY <1>4, <1>5, <1>6, <1>7 DEF IInv

\* The invariant the theorems rest on: types, the marks and the stack of
\* handlers, and that each timer past its time has been asked for.
THEOREM Invariance == Spec => []IInv
<1>1. IInv /\ [Next]_vars => IInv'
  BY TypedNext, HandlersNext, TimingNext, ScanNext, OwnedNext DEF IInv, Timing
<1>2. QED
  BY InitInv, <1>1, PTL DEF Spec

\* Type correctness; update_time has found a timer when it comes to assign the
\* next expiration (etimer.c:58-83), and a queue that is full takes no event.
THEOREM Types == Spec => []KernelTypeOK
<1>1. IInv => KernelTypeOK
  <2> SUFFICES ASSUME IInv PROVE KernelTypeOK
    OBVIOUS
  <2>1. \A i \in 1 .. Len(queue) : queue[i] \in Event
    BY ElementOfSeq DEF IInv, Typed
  <2>2. \A i \in 1 .. Len(stack) : stack[i] \in Frame
    BY ElementOfSeq DEF IInv, Handlers
  <2>3. \A i \in 1 .. Len(queue) : queue[i].owner \in Proc /\ queue[i].timer \in Timer
    BY <2>1 DEF Event
  <2>4. \A i \in 1 .. Len(stack) : stack[i].proc \in Proc /\ stack[i].calls \in 0 .. MaxCalls
    BY <2>2 DEF Frame
  <2>5. step = "assign" => nearest \in Timer
    BY DEF IInv, Timely, Typed
  <2>6. QED
    BY <2>3, <2>4, <2>5 DEF IInv, Typed, Handlers, KernelTypeOK
<1>2. QED
  BY <1>1, Invariance, PTL

\* No timer is forgotten: one that has expired has a poll or a scan coming to
\* it, or is found due at the next tick (etimer.c:58-147, timeout.c:180).
THEOREM Timers == Spec => []NoTimerForgotten
<1>1. IInv => NoTimerForgotten
  <2> SUFFICES ASSUME IInv, NEW t \in listed, Expired(t), ~Seen(t) PROVE Due(next)
    BY DEF NoTimerForgotten, Seen
  <2>1. left[t] \in Int /\ next \in Int
    BY DEF IInv, Typed
  <2>2. left[t] = 0
    BY <2>1 DEF IInv, PastSeen, Expired
  <2>3. next <= 0
    BY <2>2 DEF IInv, Timely
  <2>4. QED
    BY <2>3 DEF Due
<1>2. QED
  BY <1>1, Invariance, PTL

\* A listed timer belongs to the process it is for, whatever nested calls and
\* borrowed contexts it was set through (etimer.c:176, process.c:363-370).
THEOREM Owners == Spec => []OwnedByHome
<1>1. IInv => OwnedByHome
  BY DEF IInv
<1>2. QED
  BY <1>1, Invariance, PTL

\* An event that leaves the queue is taken: do_event never meets a process in
\* the middle of another call (process.c:183, 247-301).
THEOREM EventsTaken == Spec => NoEventDropped
<1>1. IInv /\ [Next]_vars => (Len(queue') < Len(queue) => stack' # <<>>)
  <2> SUFFICES ASSUME IInv, [Next]_vars, Len(queue') < Len(queue) PROVE stack' # <<>>
    OBVIOUS
  <2>1. queue \in Seq(Event) /\ Len(queue) \in Nat
    BY LenProperties DEF IInv, Typed
  <2>2. queue' # queue
    BY <2>1
  <2>3. ASSUME NEW t \in Timer, LookAt(t) PROVE FALSE
    <3>1. PICK e : queue' = Append(queue, e) /\ e = [owner |-> owner[t], timer |-> t]
      BY <2>2, <2>3 DEF LookAt
    <3>2. t \in listed
      BY <2>3 DEF IInv, ScanAlone, LookAt
    <3>3. owner[t] = Home[t] /\ Home[t] \in Proc
      BY <3>2, KernelAssumption DEF IInv, OwnedByHome
    <3>4. e \in Event
      BY <3>1, <3>3 DEF Event
    <3>5. Len(queue') = Len(queue) + 1
      BY <2>1, <3>1, <3>4, AppendProperties
    <3>6. QED
      BY <2>1, <3>5
  <2>4. DoEvent
    BY <2>2, <2>3 DEF Next, Kernel, Handler, Tick, RunPolls, VisitPoll, RunAgain,
       NoPacket, Packet, ScanEnds, UpdateTime, AssignNext, SetTimer, ResetTimer,
       StopTimer, PostSynch, Return, vars
  <2>5. queue # <<>> /\ stack = <<>>
    BY <2>2, <2>4 DEF DoEvent, MainLoop
  <2>6. Head(queue) \in Event
    BY <2>1, <2>5, HeadTail
  <2>7. Head(queue).owner \in Proc /\ Len(stack) = 0
    BY <2>5, <2>6 DEF Event
  <2>8. state[Head(queue).owner] = "running"
    BY <2>7 DEF IInv, Handlers, CalledOnStack
  <2>9. Called(Head(queue).owner)
    BY <2>4, <2>5, <2>8 DEF DoEvent
  <2>10. [proc |-> Head(queue).owner, calls |-> 0] \in Frame
    BY <2>7, KernelAssumption DEF Frame
  <2>11. stack \in Seq(Frame)
    BY DEF IInv, Handlers
  <2>12. QED
    BY <2>9, <2>10, <2>11, Pushed DEF Called
<1>2. QED
  BY <1>1, Invariance, PTL DEF Spec, NoEventDropped
=============================================================================
