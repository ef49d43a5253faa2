------------------------------- MODULE Kernel -------------------------------
(***************************************************************************)
(* The processes and event timers of the node (Process/process.c,          *)
(* Libs/etimer.c, Libs/timer.c) as its main loop runs them (main.c,        *)
(* test_eth_socat): polls, then one event, then a packet, while the tick   *)
(* interrupt counts time and asks for polls between any two steps.         *)
(*                                                                         *)
(* Time is relative: a timer has the ticks it has left, and so has the     *)
(* next expiration the interrupt looks at.  Lists of timers and processes  *)
(* are sets, walked in any order.                                          *)
(***************************************************************************)
EXTENDS Integers, Sequences, FiniteSets

CONSTANTS
  Proc,       \* processes besides the event timer process
  Callee,     \* Callee[p]: processes p posts synchronous events to
  Timer,      \* event timers
  Home,       \* Home[t]: the process timer t is for
  Borrowed,   \* timers set by any process, in the context of their home
  Interval,   \* intervals a timer is set to, in ticks
  NumEvents,  \* PROCESS_CONF_NUMEVENTS
  MaxCalls,   \* bound: what a handler does before it returns
  MaxLate,    \* bound: lateness that is told apart
  MaxBusy,    \* bound: ticks until the main loop has no event left; a loop
              \* that never has is ended by the watchdog
  None

ASSUME KernelAssumption ==
  /\ Callee \in [Proc -> SUBSET Proc]
  /\ Home \in [Timer -> Proc] /\ Borrowed \subseteq Timer
  /\ Interval \subseteq Nat
  /\ NumEvents \in Nat \ {0} /\ MaxCalls \in Nat /\ MaxLate \in Nat \ {0}
  /\ MaxBusy \in Nat
  /\ None \notin Proc

ET == "etimer_process"
ASSUME EtimerAssumption == ET \notin Proc

VARIABLES
  queue,      \* events: the timers whose owner is to be told, with the owner
  state,      \* state[p]: "running" or "called"
  current,    \* process_current
  needspoll,  \* processes with a poll pending
  pollRequested, \* poll_requested
  walk,       \* processes do_poll has yet to visit
  pc,         \* what process_run does next: "run", "poll", "event",
              \* "again", "packet"
  stack,      \* the handlers that run, innermost first, with what they did
  scanning,   \* the event timer process looks for expired timers
  unseen,     \* listed timers it has not looked at
  step,       \* update_time: "none", "update" before and "assign" after now is read
  nearest,    \* the timer update_time found
  listed,     \* timerlist
  owner,      \* owner[t]: the process of a listed timer, else None
  left,       \* left[t]: start + interval - now
  next,       \* next_expiration - now
  busy        \* ticks since the main loop last had no event

vars == <<queue, state, current, needspoll, pollRequested, walk, pc, stack,
          scanning, unseen, step, nearest, listed, owner, left, next,
          busy>>
control == <<walk, pc, stack, scanning, unseen>>
polls   == <<needspoll, pollRequested>>
timers  == <<listed, owner, left>>

\* Nothing runs but the main loop itself.
MainLoop == stack = <<>> /\ ~scanning /\ step = "none"

Expired(t) == left[t] <= 0

\* The processes are started; those with timers of their own have set them and
\* so asked for a poll.
Init ==
  /\ queue = <<>> /\ state = [p \in Proc |-> "running"] /\ current = None
  /\ needspoll = {ET} /\ pollRequested = TRUE /\ walk = {}
  /\ pc = "run" /\ stack = <<>> /\ scanning = FALSE /\ unseen = {}
  /\ step = "none" /\ nearest = None
  /\ listed = Timer \ Borrowed
  /\ owner = [t \in Timer |-> IF t \in Borrowed THEN None ELSE Home[t]]
  /\ \E i \in Interval : left = [t \in Timer |-> i] /\ next = i
  /\ busy = 0

-----------------------------------------------------------------------------
(***************************************************************************)
(* The tick interrupt.                                                     *)
(***************************************************************************)
Earlier(n) == IF n > - MaxLate THEN n - 1 ELSE n

\* (next_expiration - ticks - 1) > MAX_TICKS
Due(n) == n <= 0

\* Time goes on; etimer_request_poll when a listed timer is due.
Tick ==
  /\ busy < MaxBusy /\ busy' = busy + 1
  /\ left' = [t \in Timer |-> Earlier(left[t])]
  /\ next' = Earlier(next)
  /\ IF listed # {} /\ Due(next')
     THEN needspoll' = needspoll \cup {ET} /\ pollRequested' = TRUE
     ELSE UNCHANGED polls
  /\ UNCHANGED <<queue, state, current, control, step, nearest, listed, owner>>

-----------------------------------------------------------------------------
(***************************************************************************)
(* process_run and the main loop around it.                                *)
(***************************************************************************)
\* The flag is taken down before the walk, so that a poll asked for during
\* the walk makes another one.
RunPolls ==
  /\ MainLoop /\ pc = "run"
  /\ pollRequested' = FALSE
  /\ IF pollRequested
     THEN walk' = Proc \cup {ET} /\ pc' = "poll"
     ELSE pc' = "event" /\ UNCHANGED walk
  /\ UNCHANGED <<queue, state, current, needspoll, stack, scanning, unseen,
                 step, nearest, timers, next, busy>>

AllSeen == {}     \* mutant: the scan ends at once

\* All listed timers are to be looked at (again).
ToLookAt == listed

\* do_poll comes to a process; only the event timer process is ever polled.
VisitPoll ==
  /\ MainLoop /\ pc = "poll"
  /\ \/ /\ walk = {}
        /\ pc' = "event"
        /\ UNCHANGED <<walk, needspoll, scanning, unseen, current>>
     \/ \E p \in walk :
          /\ walk' = walk \ {p}
          /\ needspoll' = needspoll \ {p}
          /\ IF p = ET /\ ET \in needspoll
             THEN scanning' = TRUE /\ unseen' = ToLookAt /\ current' = ET
             ELSE UNCHANGED <<scanning, unseen, current>>
          /\ UNCHANGED pc
  /\ UNCHANGED <<queue, state, pollRequested, stack, step, nearest, timers, next, busy>>

\* call_process: a process whose handler runs already is not called.
Called(p) ==
  /\ stack' = <<[proc |-> p, calls |-> 0]>> \o stack
  /\ state' = [state EXCEPT ![p] = "called"]
  /\ current' = p

\* do_event: the first event leaves the queue, whether or not it is taken.
DoEvent ==
  /\ MainLoop /\ pc = "event"
  /\ \/ queue = <<>> /\ UNCHANGED <<queue, stack, state, current>>
     \/ /\ queue # <<>>
        /\ queue' = Tail(queue)
        /\ IF state[Head(queue).owner] = "running"
           THEN Called(Head(queue).owner)
           ELSE UNCHANGED <<stack, state, current>>
  /\ pc' = "again"
  /\ UNCHANGED <<polls, walk, scanning, unseen, step, nearest, timers, next, busy>>

\* do { process_run } while (nevents + poll_requested), then a packet is
\* looked for.
RunAgain ==
  /\ MainLoop /\ pc = "again"
  /\ pc' = IF queue = <<>> /\ ~pollRequested THEN "packet" ELSE "run"
  /\ busy' = IF queue = <<>> /\ ~pollRequested THEN 0 ELSE busy
  /\ UNCHANGED <<queue, state, current, polls, walk, stack, scanning, unseen,
                 step, nearest, timers, next>>

NoPacket ==
  /\ MainLoop /\ pc = "packet"
  /\ pc' = "run"
  /\ UNCHANGED <<queue, state, current, polls, walk, stack, scanning, unseen,
                 step, nearest, timers, next, busy>>

\* The processes of the connections.
Receivers == UNION {Callee[q] : q \in Proc}

\* main calls uip_input itself, and that tcpip_uipcall, which posts the packet
\* synchronously to the process of its connection; tcpip_process is not in it.
\* The caller is whatever process_current was left at, and is put back at the
\* end: nothing reads it before the next handler sets it, and Return leaves it.
Packet(p) ==
  /\ MainLoop /\ pc = "packet" /\ p \in Receivers
  /\ pc' = "run"
  /\ IF state[p] = "running" THEN Called(p) ELSE UNCHANGED <<stack, state, current>>
  /\ UNCHANGED <<queue, polls, walk, scanning, unseen, step, nearest, timers, next, busy>>

-----------------------------------------------------------------------------
(***************************************************************************)
(* The event timer process.                                                *)
(***************************************************************************)
EtimerRequestPoll == needspoll' = needspoll \cup {ET} /\ pollRequested' = TRUE

QueueFull == Len(queue) = NumEvents

\* The next timer of the list is looked at; one that expired is taken off
\* once its event is posted, and the scan starts over after update_time.
LookAt(t) ==
  /\ scanning /\ step = "none" /\ t \in unseen
  /\ \/ /\ Expired(t) /\ ~QueueFull
        /\ queue' = Append(queue, [owner |-> owner[t], timer |-> t])
        /\ owner' = [owner EXCEPT ![t] = None]
        /\ listed' = listed \ {t}
        /\ unseen' = listed \ {t}
        /\ step' = "update"
        /\ UNCHANGED polls
     \/ /\ Expired(t) /\ QueueFull
        /\ EtimerRequestPoll
        /\ unseen' = unseen \ {t}
        /\ UNCHANGED <<queue, owner, listed, step>>
     \/ /\ ~Expired(t)
        /\ unseen' = unseen \ {t}
        /\ UNCHANGED <<queue, owner, listed, step, polls>>
  /\ UNCHANGED <<state, current, walk, pc, stack, scanning, nearest, left, next, busy>>

ScanEnds ==
  /\ scanning /\ step = "none" /\ unseen = {}
  /\ scanning' = FALSE
  /\ UNCHANGED <<queue, state, current, polls, walk, pc, stack, unseen, step,
                 nearest, timers, next, busy>>

\* update_time reads the time and takes the least of the unsigned distances:
\* what is past is further than anything to come.
Sooner(s, t) ==
  \/ left[s] >= 0 /\ left[t] < 0
  \/ (left[s] >= 0 <=> left[t] >= 0) /\ left[s] <= left[t]

UpdateTime ==
  /\ step = "update"
  /\ IF listed = {}
     THEN step' = "none" /\ UNCHANGED nearest
     ELSE /\ nearest' \in {s \in listed : \A t \in listed : Sooner(s, t)}
          /\ step' = "assign"
  /\ UNCHANGED <<queue, state, current, polls, control, timers, next, busy>>

AssignNext ==
  /\ step = "assign"
  /\ next' = left[nearest]
  /\ step' = "none"
  /\ UNCHANGED <<queue, state, current, polls, control, nearest, timers, busy>>

-----------------------------------------------------------------------------
(***************************************************************************)
(* What a handler does: it sets, resets and stops timers, calls another    *)
(* process, and returns.                                                   *)
(***************************************************************************)
Active == stack # <<>> /\ step = "none"
Top    == Head(stack).proc

Calls ==
  /\ Active /\ Head(stack).calls < MaxCalls
  /\ stack' = <<[Head(stack) EXCEPT !.calls = @ + 1]>> \o Tail(stack)

\* The handler has to do with t, or sets it on behalf of its home.
Uses(t) == Home[t] = Top \/ t \in Borrowed

NoPollAsked == UNCHANGED polls     \* mutant

PollAsked == EtimerRequestPoll

\* add_timer
Added(t) ==
  /\ PollAsked
  /\ listed' = listed \cup {t}
  /\ owner' = [owner EXCEPT ![t] = IF t \in Borrowed THEN Home[t] ELSE current]
  /\ step' = "update"

\* etimer_set, etimer_restart
SetTimer(t, interval) ==
  /\ Calls /\ Uses(t)
  /\ left' = [left EXCEPT ![t] = interval]
  /\ Added(t)
  /\ UNCHANGED <<queue, state, current, walk, pc, scanning, unseen, nearest, next, busy>>

\* etimer_reset of a timer that expired: from then on, not from now.
ResetTimer(t, interval) ==
  /\ Calls /\ Uses(t)
  /\ owner[t] = None /\ Expired(t)
  /\ left' = [left EXCEPT ![t] = @ + interval]
  /\ Added(t)
  /\ UNCHANGED <<queue, state, current, walk, pc, scanning, unseen, nearest, next, busy>>

\* etimer_stop
StopTimer(t) ==
  /\ Calls /\ Uses(t)
  /\ listed' = listed \ {t}
  /\ owner' = [owner EXCEPT ![t] = None]
  /\ step' = IF t \in listed THEN "update" ELSE "none"
  /\ UNCHANGED <<queue, state, current, polls, walk, pc, scanning, unseen,
                 nearest, left, next, busy>>

\* process_post_synch, as the stack calls the process of a connection.
PostSynch(p) ==
  /\ Active /\ p \in Callee[Top]
  /\ Head(stack).calls < MaxCalls
  /\ IF state[p] = "running"
     THEN /\ stack' = <<[proc |-> p, calls |-> 0],
                        [Head(stack) EXCEPT !.calls = @ + 1]>> \o Tail(stack)
          /\ state' = [state EXCEPT ![p] = "called"]
          /\ current' = p
     ELSE UNCHANGED <<stack, state, current>>
  /\ UNCHANGED <<queue, polls, walk, pc, scanning, unseen, step, nearest, timers, next, busy>>

NotRestored(caller) == current     \* mutant: process_current stays

\* process_post_synch restores process_current for its caller.
Restored(caller) == caller

StaysCalled(p) == [state EXCEPT ![p] = "called"]     \* mutant

BackRunning(p) == [state EXCEPT ![p] = "running"]

Return ==
  /\ Active
  /\ stack' = Tail(stack)
  /\ state' = BackRunning(Top)
  /\ current' = IF Tail(stack) = <<>> THEN current
                ELSE Restored(Head(Tail(stack)).proc)
  /\ UNCHANGED <<queue, polls, walk, pc, scanning, unseen, step, nearest, timers, next, busy>>

-----------------------------------------------------------------------------
Handler ==
  \/ \E t \in Timer, i \in Interval : SetTimer(t, i) \/ ResetTimer(t, i)
  \/ \E t \in Timer : StopTimer(t)
  \/ \E p \in Proc : PostSynch(p)
  \/ Return

Kernel ==
  \/ RunPolls \/ VisitPoll \/ DoEvent \/ RunAgain \/ NoPacket
  \/ \E p \in Proc : Packet(p)
  \/ \E t \in Timer : LookAt(t)
  \/ ScanEnds \/ UpdateTime \/ AssignNext

Next == Tick \/ Kernel \/ Handler

Spec == Init /\ [][Next]_vars

\* The main loop goes on, and so does time.
FairSpec == Spec /\ WF_vars(Kernel \/ Handler) /\ WF_vars(Tick)

-----------------------------------------------------------------------------
(***************************************************************************)
(* Properties.                                                             *)
(***************************************************************************)
\* Type invariant.
KernelTypeOK ==
  /\ \A i \in 1 .. Len(queue) : queue[i].owner \in Proc /\ queue[i].timer \in Timer
  /\ Len(queue) <= NumEvents
  /\ state \in [Proc -> {"running", "called"}]
  /\ current \in Proc \cup {ET, None}
  /\ needspoll \subseteq Proc \cup {ET} /\ walk \subseteq Proc \cup {ET}
  /\ pollRequested \in BOOLEAN /\ scanning \in BOOLEAN
  /\ pc \in {"run", "poll", "event", "again", "packet"}
  /\ \A i \in 1 .. Len(stack) : /\ stack[i].proc \in Proc
                                /\ stack[i].calls \in 0 .. MaxCalls
  /\ unseen \subseteq Timer /\ listed \subseteq Timer
  /\ step \in {"none", "update", "assign"}
  /\ nearest \in Timer \cup {None} /\ (step = "assign" => nearest \in Timer)
  /\ owner \in [Timer -> Proc \cup {None}]
  /\ left \in [Timer -> Int] /\ next \in Int
  /\ busy \in 0 .. MaxBusy

\* The event timer process will be polled.
PollComing == ET \in needspoll /\ (pollRequested \/ (pc = "poll" /\ ET \in walk))

\* The running scan comes to t.
ToBeSeen(t) == scanning /\ t \in unseen

\* No timer is forgotten (etimer.c, timeout.c:180): whenever a listed timer has
\* expired, a poll of the event timer process is under way, or its scan comes
\* to the timer, or the interrupt finds the next expiration due at its next
\* tick; also while update_time reads the time, and while the queue is full.
NoTimerForgotten ==
  \A t \in listed : Expired(t) => PollComing \/ ToBeSeen(t) \/ Due(next)

\* A timer on the list belongs to the process it is for, so that its event
\* goes there, and one off the list to none: etimer_expired is true of exactly
\* those (process_current through nested synchronous events).
OwnedByHome ==
  \A t \in Timer : owner[t] = IF t \in listed THEN Home[t] ELSE None

\* An event taken off the queue is handled: its process is never found in the
\* middle of another call, in which do_event would drop it silently.
NoEventDropped == [][ Len(queue') < Len(queue) => stack' # <<>> ]_vars

\* A listed timer that has expired leaves the list or is set again.
TimersFire == \A t \in Timer : (t \in listed /\ Expired(t)) ~> ~(t \in listed /\ Expired(t))

=============================================================================
