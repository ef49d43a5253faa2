-------------------------- MODULE AcquisitionProofs --------------------------
(***************************************************************************)
(* For every number of ticks, slots and channels: the acquisition runs on  *)
(* the time base as it is, so what is proved of the time base holds of it; *)
(* the SD card never carries two transfers, although its flag is tested    *)
(* and set in two steps at any level; the samples stay in their buffer,    *)
(* and a packet is stored as it was completed, with the label of its       *)
(* second.                                                                 *)
(***************************************************************************)
EXTENDS Acquisition, TimebaseProofs

\* The only channel is started once, when nothing is running yet.
Boots == reader.pc = "boot" => active = {}

\* A level is in the routine while the tick handler is in its callback.
InCallback ==
  /\ ads \in [Level -> AdsPc]
  /\ \A l \in Level : ads[l] # "enter" => frame[l].pc = "callback"

\* A level that found the card free and has not given it back yet.
Holding(l) == ads[l] \in {"retake", "take", "rewrite", "write"}

\* Who found the card free did so while nobody below was writing; the flag is
\* set exactly during a transfer.
CardInv ==
  /\ \A l, h \in Level : l < h /\ Writing(l) => ~Holding(h)
  /\ \A l \in Level : Holding(l) => reader.pc # "transfer"
  /\ sdUsed <=> (\E l \in Level : Writing(l)) \/ reader.pc = "transfer"

\* Types, loose where the length of the packet is concerned.
Sampled == [label : 0 .. SecWidth - 1, samples : SUBSET Nat]
Typed ==
  /\ packet \in Sampled /\ ptr \in Nat /\ cnt \in Nat /\ sdUsed \in BOOLEAN
  /\ card \in [0 .. Slots - 1 -> Sampled \cup {Blank}]
  /\ reader \in [pc : ReaderPc, asked : 0 .. SecWidth - 1,
                 data : Sampled \cup {Blank}, now : 0 .. SecWidth - 1]

AcqInv == Typed /\ Boots /\ InCallback /\ CardInv

-----------------------------------------------------------------------------
(***************************************************************************)
(* The acquisition takes no step the time base does not have.              *)
(***************************************************************************)
LEMMA StepOfTimebase == Boots /\ [AcqNext]_allVars => [Next]_vars
<1> SUFFICES ASSUME Boots, [AcqNext]_allVars PROVE Next \/ UNCHANGED vars
  OBVIOUS
<1>1. CASE Time
  BY <1>1 DEF Time, TimeStep, Clocks, Next, Step, Tick, MainLoop
<1>2. ASSUME NEW l \in Level, Ads(l) PROVE Next \/ UNCHANGED vars
  <2>1. CallbackReturns(l) \/ UNCHANGED vars
    BY <1>2 DEF Ads, AdsEnter, AdsRetry, AdsRewrite, AdsHeader, AdsSample, AdsTest,
       AdsStore, AdsTake, AdsWrite
  <2>2. QED
    BY <2>1 DEF Next, Step, Tick
<1>3. CASE StartAds
  <2>1. 0 \in Channel /\ 1 \in Period
    BY AcquisitionAssumption
  <2>2. StartChannel(0, 1, 1) /\ 0 \notin active
    BY <1>3 DEF StartAds, Handler, Boots
  <2>3. StartTimer(0)
    BY <2>1, <2>2 DEF StartTimer
  <2>4. QED
    BY <2>1, <2>3 DEF Next, MainLoop
<1>4. CASE (\E second \in Wanted : Ask(second)) \/ BeginRead \/ TakeForRead
             \/ EndRead \/ Compare \/ CompareTime
  BY <1>4 DEF Ask, BeginRead, TakeForRead, EndRead, Compare, CompareTime
<1>5. QED
  BY <1>1, <1>2, <1>3, <1>4 DEF AcqNext, Requests, allVars

-----------------------------------------------------------------------------
LEMMA TypedNext == TypeOK /\ Typed /\ [AcqNext]_allVars => Typed'
<1> SUFFICES ASSUME TypeOK, Typed, [AcqNext]_allVars PROVE Typed'
  OBVIOUS
<1> USE DEF Typed
<1>1. secs \in 0 .. SecWidth - 1 /\ Slots \in Nat \ {0}
  BY AcquisitionAssumption DEF TypeOK
<1>2. \A label \in 0 .. SecWidth - 1 : SlotOf(label) \in 0 .. Slots - 1
  <2>1. \A a \in Nat, w \in Nat \ {0} : a % w \in 0 .. w - 1
    BY ModRange
  <2>2. QED
    BY <1>1, <2>1 DEF SlotOf
<1>3. CASE UNCHANGED <<packet, ptr, cnt, sdUsed, card, reader>>
  BY <1>3
<1>4. ASSUME NEW l \in Level, AdsEnter(l) \/ AdsTest(l) PROVE Typed'
  BY <1>4 DEF AdsEnter, AdsTest, acqVars, sdVars
<1>5. ASSUME NEW l \in Level, AdsRewrite(l) \/ AdsWrite(l) PROVE Typed'
  <2>1. packet.label \in 0 .. SecWidth - 1
    BY DEF Sampled
  <2>2. card' = card \/ card' = [card EXCEPT ![SlotOf(packet.label)] = packet]
    BY <1>5 DEF AdsRewrite, AdsWrite, EndWrite
  <2>3. card' \in [0 .. Slots - 1 -> Sampled \cup {Blank}]
    BY <1>2, <2>1, <2>2
  <2>4. cnt' \in {cnt, 0} /\ sdUsed' = FALSE /\ UNCHANGED <<packet, ptr, reader>>
    <3>1. CASE AdsRewrite(l)
      BY <3>1 DEF AdsRewrite, EndWrite
    <3>2. CASE AdsWrite(l)
      <4>1. PICK ok \in BOOLEAN : EndWrite(l, "write", "enter", ok)
                                   /\ cnt' = IF ok THEN 0 ELSE cnt
        BY <3>2 DEF AdsWrite
      <4>2. QED
        BY <3>2, <4>1 DEF AdsWrite, EndWrite
    <3>3. QED
      BY <1>5, <3>1, <3>2
  <2>5. cnt' \in Nat
    BY <2>4
  <2>6. sdUsed' \in BOOLEAN
    BY <2>4
  <2>7. QED
    BY <2>3, <2>4, <2>5, <2>6
<1>6. ASSUME NEW l \in Level, AdsHeader(l) PROVE Typed'
  <2>1. packet' = packet \/ packet' = [packet EXCEPT !.label = secs]
    BY <1>6 DEF AdsHeader
  <2>2. packet' \in Sampled
    BY <1>1, <2>1 DEF Sampled
  <2>3. QED
    BY <1>6, <2>2 DEF AdsHeader, sdVars
<1>7. ASSUME NEW l \in Level, AdsSample(l) PROVE Typed'
  <2> DEFINE at == IF cnt = N THEN 0 ELSE ptr
  <2>1. /\ at \in Nat /\ packet' = [packet EXCEPT !.samples = @ \cup {at}]
        /\ ptr' = at + 1 /\ cnt' = cnt + 1 /\ UNCHANGED <<sdUsed, card, reader>>
    BY <1>7 DEF AdsSample, sdVars
  <2> HIDE DEF at
  <2>2. packet' \in Sampled
    BY <2>1 DEF Sampled
  <2>3. QED
    BY <2>1, <2>2
<1>8. ASSUME NEW l \in Level, AdsTake(l) PROVE Typed'
  BY <1>8 DEF AdsTake, TakeCard, acqVars
<1>9. CASE Requests
  <2>1. UNCHANGED <<packet, ptr, cnt, card>> /\ sdUsed' \in {sdUsed, TRUE, FALSE}
    BY <1>9 DEF Requests, StartAds, Ask, BeginRead, TakeForRead, EndRead, Compare,
       CompareTime, acqVars, sdVars
  <2>2. card[SlotOf(reader.asked)] \in Sampled \cup {Blank}
    BY <1>2
  <2>3. ASSUME NEW second \in Wanted, Ask(second) PROVE Typed'
    <3>1. second \in 0 .. SecWidth - 1 /\ 0 \in 0 .. SecWidth - 1
      BY AcquisitionAssumption, Widths
    <3>2. QED
      BY <2>1, <2>3, <3>1 DEF Ask, ReaderPc
  <2>4. CASE EndRead
    BY <2>1, <2>2, <2>4 DEF EndRead, ReaderPc
  <2>5. CASE CompareTime
    BY <1>1, <2>1, <2>5 DEF CompareTime, ReaderPc
  <2>6. CASE StartAds \/ BeginRead \/ TakeForRead \/ Compare
    <3>1. PICK from, to \in ReaderPc : Handler(from, to)
      BY <2>6 DEF StartAds, BeginRead, TakeForRead, Compare, ReaderPc
    <3>2. reader' = [reader EXCEPT !.pc = to]
      BY <3>1 DEF Handler
    <3>3. QED
      BY <2>1, <3>2
  <2>7. QED
    BY <1>9, <2>3, <2>4, <2>5, <2>6 DEF Requests
<1>10. QED
  BY <1>3, <1>4, <1>5, <1>6, <1>7, <1>8, <1>9 DEF AcqNext, Time, Ads, AdsRetry, AdsStore,
     allVars, acqVars, sdVars

LEMMA BootsNext == Typed /\ Boots /\ [AcqNext]_allVars => Boots'
<1> SUFFICES ASSUME Typed, Boots, [AcqNext]_allVars, reader'.pc = "boot" PROVE active' = {}
  BY DEF Boots
<1>1. ~Requests
  <2>1. ASSUME NEW from, NEW to, to # "boot", Handler(from, to) PROVE FALSE
    BY <2>1 DEF Handler, Typed
  <2>2. ~StartAds /\ ~BeginRead /\ ~TakeForRead /\ ~Compare
    BY <2>1 DEF StartAds, BeginRead, TakeForRead, Compare
  <2>3. ~(\E second \in Wanted : Ask(second))
    BY DEF Ask
  <2>4. ~EndRead
    BY DEF EndRead, Typed
  <2>5. ~CompareTime
    <3>1. CompareTime => reader'.pc \in {"empty", "missing"}
      BY DEF CompareTime, Typed
    <3>2. QED
      BY <3>1
  <2>6. QED
    BY <2>2, <2>3, <2>4, <2>5 DEF Requests
<1>2. UNCHANGED <<reader, active>>
  BY <1>1 DEF AcqNext, Time, TimeStep, Clocks, TickRefused, TickCounted, ScanChannel,
     StoreCount, Reload, ScanDone, ResetLoop, ResetDone, TimerInterrupt, PulseInterrupt,
     TimerOverflows, RtcPulses, MainRound, CallbackReturns, Ads, AdsEnter, AdsRetry,
     AdsRewrite, AdsHeader, AdsSample, AdsTest, AdsStore, AdsTake, AdsWrite, allVars, vars,
     channels
<1>3. QED
  BY <1>2 DEF Boots

-----------------------------------------------------------------------------
(***************************************************************************)
(* Which level is where.                                                   *)
(***************************************************************************)

\* The steps of the time base leave a callback that is running alone.
LEMMA TimeKeepsCallbacks ==
  ASSUME IInv, Time, NEW l \in Level, frame[l].pc = "callback"
  PROVE  frame'[l] = frame[l]
<1>1. TypeOK /\ Nested
  BY DEF IInv
<1>2. ASSUME NEW k \in Level, TimeStep(k) PROVE Others(k) /\ frame[k].pc # "callback"
  <2>1. CASE TickCounted(k) \/ ScanChannel(k) \/ StoreCount(k) \/ Reload(k)
    BY <1>1, <2>1, InnerStep DEF Follows, TickCounted, ScanChannel, StoreCount, Reload, At
  <2>2. CASE TickRefused(k) \/ ScanDone(k)
    BY <1>1, <2>2, ReturnStep DEF Returns
  <2>3. CASE ResetLoop(k) \/ ResetDone(k)
    BY <1>1, <2>3, LoopStep, DoneStep
  <2>4. QED
    BY <1>2, <2>1, <2>2, <2>3 DEF TimeStep
<1>3. CASE TimerInterrupt
  BY <1>1, <1>3, TimerStep, Levels DEF TimerInterrupt, Accepts, InIdle, Others
<1>4. CASE PulseInterrupt
  <2>1. EnterReset(High, TRUE) /\ InIdle(High) /\ High \in Level
    <3>1. High \in Level /\ High >= High
      BY Levels
    <3>2. QED
      BY <1>4, <3>1 DEF PulseInterrupt, Accepts
  <2>2. Others(High)
    BY <1>1, <2>1, EnterStep
  <2>3. QED
    BY <2>1, <2>2 DEF InIdle, Others
<1>5. CASE TimerOverflows \/ RtcPulses \/ MainRound
  BY <1>5 DEF TimerOverflows, RtcPulses, MainRound
<1>6. QED
  BY <1>2, <1>3, <1>4, <1>5 DEF Time, Clocks, Others

\* A step of the routine: when it returns, its level is back in tick_handler.
Advances(l) ==
  /\ Running(l) /\ frame[l].pc = "callback"
  /\ \E at \in AdsPc : ads' = [ads EXCEPT ![l] = at]
  /\ \/ frame' = frame
     \/ frame' = [frame EXCEPT ![l].pc = "reload"] /\ ads'[l] = "enter"

LEMMA AdsAdvances ==
  ASSUME InCallback, NEW l \in Level, Ads(l)
  PROVE  Advances(l)
<1>1. ASSUME NEW at \in AdsPc, AdsGoto(l, at)
      PROVE  ads' = [ads EXCEPT ![l] = at] /\ ads'[l] = at
  BY <1>1 DEF AdsGoto, InCallback
<1>2. ASSUME NEW at, AdsAt(l, at) PROVE Running(l) /\ frame[l].pc = "callback"
  BY <1>2 DEF AdsAt, At
<1> USE DEF AdsPc
<1>3. CASE AdsEnter(l) \/ AdsHeader(l) \/ AdsSample(l)
  BY <1>1, <1>2, <1>3 DEF AdsEnter, AdsHeader, AdsSample, vars, Advances
<1>4. CASE AdsRetry(l) \/ AdsTake(l)
  BY <1>1, <1>2, <1>4 DEF AdsRetry, AdsTake, BeginWrite, TakeCard, vars, Advances
<1>5. CASE AdsRewrite(l)
  BY <1>1, <1>2, <1>5 DEF AdsRewrite, EndWrite, vars, Advances
<1>6. CASE AdsTest(l)
  BY <1>1, <1>2, <1>6 DEF AdsTest, CallbackReturns, Goto, vars, Advances
<1>7. CASE AdsStore(l)
  BY <1>1, <1>2, <1>7 DEF AdsStore, BeginWrite, CallbackReturns, Goto, vars, Advances
<1>8. CASE AdsWrite(l)
  BY <1>1, <1>2, <1>8 DEF AdsWrite, EndWrite, CallbackReturns, Goto, Advances
<1>9. QED
  BY <1>3, <1>4, <1>5, <1>6, <1>7, <1>8 DEF Ads

LEMMA InCallbackNext == IInv /\ InCallback /\ [AcqNext]_allVars => InCallback'
<1> SUFFICES ASSUME IInv, InCallback, [AcqNext]_allVars PROVE InCallback'
  OBVIOUS
<1>1. CASE Time
  BY <1>1, TimeKeepsCallbacks DEF Time, InCallback
<1>2. ASSUME NEW l \in Level, Ads(l) PROVE InCallback'
  <2>1. Advances(l) /\ frame \in [Level -> Frame]
    BY <1>2, AdsAdvances DEF IInv, TypeOK
  <2>2. QED
    BY <2>1 DEF Advances, InCallback
<1>3. CASE Requests
  BY <1>3 DEF Requests, StartAds, StartChannel, MainOnly, Ask, BeginRead, TakeForRead,
     EndRead, Compare, CompareTime, vars, InCallback
<1>4. CASE UNCHANGED allVars
  BY <1>4 DEF allVars, vars, InCallback
<1>5. QED
  BY <1>1, <1>2, <1>3, <1>4 DEF AcqNext

-----------------------------------------------------------------------------
(***************************************************************************)
(* The card.                                                               *)
(***************************************************************************)

\* What is above a running level, and every level while the main loop runs,
\* has no business with the card.
LEMMA AboveIsOut ==
  ASSUME InCallback
  PROVE  /\ \A l, h \in Level : Running(l) /\ l < h => ads[h] = "enter"
         /\ AllIdle => \A l \in Level : ads[l] = "enter"
BY DEF InCallback, Running, AllIdle, InIdle

LEMMA CardNext ==
  Typed /\ InCallback /\ CardInv /\ [AcqNext]_allVars => CardInv'
<1> SUFFICES ASSUME Typed, InCallback, CardInv, [AcqNext]_allVars PROVE CardInv'
  OBVIOUS
<1> USE DEF CardInv, Holding, Writing
<1>1. CASE UNCHANGED <<ads, sdUsed>> /\ (reader'.pc = "transfer" <=> reader.pc = "transfer")
  BY <1>1
\* A level that neither takes nor frees the card.
<1>2. ASSUME NEW l \in Level, NEW at \in AdsPc, ~Holding(l), UNCHANGED <<sdUsed, reader>>,
             ads' = [ads EXCEPT ![l] = at],
             at \notin {"retake", "take", "rewrite", "write"}
      PROVE  CardInv'
  BY <1>2 DEF InCallback
\* The card is found free: then no level writes and no read is under way.
<1>3. ASSUME NEW l \in Level, NEW at \in {"retake", "take"}, ~sdUsed,
             UNCHANGED <<sdUsed, reader>>, ads' = [ads EXCEPT ![l] = at]
      PROVE  CardInv'
  BY <1>3 DEF InCallback
<1>4. ASSUME NEW l \in Level, AdsRetry(l) \/ AdsStore(l) PROVE CardInv'
  <2>1. UNCHANGED <<sdUsed, reader>> /\ ~Holding(l)
    BY <1>4 DEF AdsRetry, AdsStore, BeginWrite, AdsAt, sdVars
  <2>2. CASE Busy
    <3>1. ads' = [ads EXCEPT ![l] = "header"] \/ ads' = [ads EXCEPT ![l] = "enter"]
      BY <1>4, <2>2 DEF AdsRetry, AdsStore, BeginWrite, AdsGoto
    <3>2. QED
      BY <1>2, <2>1, <3>1 DEF AdsPc
  <2>3. CASE ~Busy
    <3>1. ads' = [ads EXCEPT ![l] = "retake"] \/ ads' = [ads EXCEPT ![l] = "take"]
      BY <1>4, <2>3 DEF AdsRetry, AdsStore, BeginWrite, AdsGoto
    <3>2. QED
      BY <1>3, <2>1, <2>3, <3>1 DEF Busy
  <2>4. QED
    BY <2>2, <2>3
<1>5. ASSUME NEW l \in Level, AdsTake(l) PROVE CardInv'
  <2>1. PICK at \in {"rewrite", "write"} : ads' = [ads EXCEPT ![l] = at]
    BY <1>5 DEF AdsTake, TakeCard, AdsGoto
  <2>2. /\ ads[l] \in {"retake", "take"} /\ Running(l)
        /\ sdUsed' = TRUE /\ UNCHANGED reader
    BY <1>5 DEF AdsTake, TakeCard, AdsAt, At
  <2>3. \A h \in Level : l < h => ads[h] = "enter"
    BY <2>2, AboveIsOut
  <2>4. QED
    BY <2>1, <2>2, <2>3, Levels DEF InCallback
<1>6. ASSUME NEW l \in Level, AdsRewrite(l) \/ AdsWrite(l) PROVE CardInv'
  <2>1. PICK at \in {"header", "enter"} : ads' = [ads EXCEPT ![l] = at]
    BY <1>6 DEF AdsRewrite, AdsWrite, EndWrite, AdsGoto
  <2>2. /\ Writing(l) /\ Running(l) /\ sdUsed' = FALSE /\ UNCHANGED reader
    BY <1>6 DEF AdsRewrite, AdsWrite, EndWrite, AdsAt, At
  <2>3. \A h \in Level : l < h => ads[h] = "enter"
    BY <2>2, AboveIsOut
  <2>4. \A k \in Level : k < l => ~Writing(k)
    BY <2>2
  <2>5. \A k \in Level : k # l => ~Writing(k)
    BY <2>3, <2>4, Levels
  <2>6. QED
    BY <2>1, <2>2, <2>5 DEF InCallback
<1>7. ASSUME NEW l \in Level, AdsEnter(l) \/ AdsHeader(l) \/ AdsSample(l) \/ AdsTest(l)
      PROVE  CardInv'
  <2>1. PICK at \in {"header", "retry", "sample", "test", "store", "enter"} :
             ads' = [ads EXCEPT ![l] = at]
    BY <1>7 DEF AdsEnter, AdsHeader, AdsSample, AdsTest, AdsGoto
  <2>2. UNCHANGED <<sdUsed, reader>> /\ ads[l] \in {"enter", "header", "sample", "test"}
    BY <1>7 DEF AdsEnter, AdsHeader, AdsSample, AdsTest, AdsAt, sdVars
  <2>3. at \in AdsPc
    BY <2>1 DEF AdsPc
  <2>4. QED
    BY <1>2, <2>1, <2>2, <2>3
\* The main loop runs while every level is out of the routine.
<1>8. CASE TakeForRead \/ EndRead
  <2>1. \A l \in Level : ads[l] = "enter"
    BY <1>8, AboveIsOut DEF TakeForRead, EndRead, Handler
  <2>2. CASE TakeForRead
    <3>1. reader'.pc = "transfer" /\ sdUsed' = TRUE /\ ads' = ads
      BY <2>2 DEF TakeForRead, Handler, Typed
    <3>2. QED
      BY <2>1, <3>1
  <2>3. CASE EndRead
    <3>1. reader'.pc # "transfer" /\ sdUsed' = FALSE /\ ads' = ads
      BY <2>3 DEF EndRead, Typed
    <3>2. QED
      BY <2>1, <3>1
  <2>4. QED
    BY <1>8, <2>2, <2>3
<1>9. CASE StartAds \/ BeginRead \/ Compare
  <2>1. PICK from, to \in ReaderPc \ {"transfer"} : Handler(from, to)
    BY <1>9 DEF StartAds, BeginRead, Compare, ReaderPc
  <2>2. reader.pc # "transfer" /\ reader'.pc # "transfer"
    BY <2>1 DEF Handler, Typed
  <2>3. QED
    BY <1>1, <1>9, <2>2 DEF StartAds, BeginRead, Compare, sdVars
<1>10. CASE (\E second \in Wanted : Ask(second)) \/ CompareTime
  <2>1. reader.pc # "transfer" /\ reader'.pc # "transfer"
    <3>1. CASE \E second \in Wanted : Ask(second)
      BY <3>1 DEF Ask, Answered
    <3>2. CASE CompareTime
      <4>1. reader.pc = "time" /\ reader'.pc \in {"empty", "missing"}
        BY <3>2 DEF CompareTime, Typed
      <4>2. QED
        BY <4>1
    <3>3. QED
      BY <1>10, <3>1, <3>2
  <2>2. QED
    BY <1>1, <1>10, <2>1 DEF Ask, CompareTime, sdVars
<1>11. QED
  BY <1>1, <1>4, <1>5, <1>6, <1>7, <1>8, <1>9, <1>10
     DEF AcqNext, Time, Ads, Requests, allVars, sdVars

-----------------------------------------------------------------------------
LEMMA InitAcq == AcqInit => Init /\ AcqInv
<1> SUFFICES ASSUME AcqInit PROVE AcqInv
  BY DEF AcqInit
<1>1. Boots /\ InCallback
  BY DEF AcqInit, Init, Boots, InCallback, AdsPc
<1>2. Typed
  <2>1. 0 \in 0 .. SecWidth - 1
    BY Widths
  <2>2. QED
    BY <2>1 DEF AcqInit, Typed, Sampled, ReaderPc
<1>3. CardInv
  BY DEF AcqInit, CardInv, Holding, Writing
<1>4. QED
  BY <1>1, <1>2, <1>3 DEF AcqInv

\* Both invariants together are inductive: the routine keeps the frames of the
\* tick handler, and the time base keeps the places of the routine.
LEMMA BothNext ==
  IInv /\ AcqInv /\ [AcqNext]_allVars => IInv' /\ AcqInv' /\ [Next]_vars
<1> SUFFICES ASSUME IInv, AcqInv, [AcqNext]_allVars
             PROVE  IInv' /\ AcqInv' /\ [Next]_vars
  OBVIOUS
<1>1. [Next]_vars
  BY StepOfTimebase DEF AcqInv
<1>2. IInv'
  BY <1>1, TypeNext, NestedNext, LastCallNext, CountedNext, TurnOnNext, RestoreNext DEF IInv
<1>3. AcqInv'
  BY TypedNext, BootsNext, InCallbackNext, CardNext DEF AcqInv, IInv
<1>4. QED
  BY <1>1, <1>2, <1>3

\* The invariant behind the exclusion: who is in the routine is in its callback,
\* and who found the card free did so while nobody below was writing.
THEOREM AcqInvariance == AcqSpec => []AcqInv
<1>1. AcqInit => IInv /\ AcqInv
  BY InitAcq, InitInv
<1>2. QED
  BY <1>1, BothNext, PTL DEF AcqSpec

\* The acquisition is a use of the time base: every behaviour of it is one of
\* Timebase, whose theorems hold of it (main.c:1210-1277 starts the channel,
\* the callback is main.c:1112-1208).
THEOREM OnTimebase == AcqSpec => Spec
<1>1. AcqInit => Init /\ IInv /\ AcqInv
  BY InitAcq, InitInv
<1>2. QED
  BY <1>1, BothNext, PTL DEF AcqSpec, Spec

\* The card carries one transfer at a time and is marked in use while it does,
\* although the flag is tested and set in two steps (hal_sd_mmc.c:134 and
\* sd_mmc.c:1967, hal_sd_mmc.c:158 and sd_mmc.c:1867).
THEOREM OneTransfer == AcqSpec => []SdExclusive
<1>1. CardInv => SdExclusive
  BY Levels DEF CardInv, SdExclusive, Holding, Writing
<1>2. QED
  BY <1>1, AcqInvariance, PTL DEF AcqInv

-----------------------------------------------------------------------------
(***************************************************************************)
(* The packet.  The routine runs at one level at a time, because no        *)
(* callback is entered again; so its places follow each other as in one    *)
(* thread, and the counts agree at each of them.                           *)
(***************************************************************************)

\* The channel of the acquisition is the only one that runs, with every tick.
OneChannel ==
  /\ sets = 0
  /\ active = IF reader.pc = "boot" THEN {} ELSE {0}
  /\ 0 \in active => period[0] = 1
  /\ \A l \in Level : frame[l].pc \in ServePc \cup {"store"} =>
       frame[l].ch = 0 /\ 0 \in active

\* The packet at each place of the routine: while it is to be filled the next
\* place is the number of samples, and it is not full before a sample is read.
PacketAt(at) ==
  CASE at = "enter" -> IF written THEN ptr = cnt /\ cnt < N ELSE ptr <= N /\ cnt <= N
    [] at \in {"retry", "retake", "rewrite"} -> ~written /\ ptr = 0 /\ cnt = 0
    [] at \in {"header", "sample"} -> written /\ ptr = cnt /\ cnt < N
    [] at = "test" -> written /\ ptr = cnt /\ cnt \in 1 .. N
    [] OTHER -> written /\ ptr = 0 /\ cnt \in 1 .. N

OutElsewhere(l) == \A k \in Level : k # l => ads[k] = "enter"

Phase == \A l \in Level : OutElsewhere(l) => PacketAt(ads[l])

\* Every sample has a place in its packet, on the card and in what is read.
Fits ==
  /\ packet \in Packet
  /\ card \in [0 .. Slots - 1 -> Packet \cup {Blank}]
  /\ reader.data \in Packet \cup {Blank}

PacketInv == OneChannel /\ Phase /\ Fits /\ written \in BOOLEAN

LEMMA RequestsBoot ==
  ASSUME Typed, Requests
  PROVE  reader'.pc # "boot" /\ (reader.pc = "boot" => StartAds)
<1>1. CASE StartAds \/ BeginRead \/ TakeForRead \/ Compare
  BY <1>1 DEF StartAds, BeginRead, TakeForRead, Compare, Handler, Typed
<1>2. CASE \E second \in Wanted : Ask(second)
  BY <1>2 DEF Ask, Answered
<1>3. CASE EndRead
  BY <1>3 DEF EndRead, Typed
<1>4. CASE CompareTime
  <2>1. reader.pc = "time" /\ reader'.pc \in {"empty", "missing"}
    BY <1>4 DEF CompareTime, Typed
  <2>2. QED
    BY <2>1
<1>5. QED
  BY <1>1, <1>2, <1>3, <1>4 DEF Requests

\* A step of a level, that starts no channel.
LEMMA OneChannelKept ==
  ASSUME OneChannel, NEW l \in Level, Others(l), UNCHANGED <<active, period, sets, reader>>,
         frame'[l].pc \in ServePc \cup {"store"} => frame'[l].ch = 0 /\ 0 \in active
  PROVE  OneChannel'
<1>1. ASSUME NEW k \in Level, frame'[k].pc \in ServePc \cup {"store"}
      PROVE  frame'[k].ch = 0 /\ 0 \in active
  BY <1>1 DEF OneChannel, Others
<1>2. QED
  BY <1>1 DEF OneChannel

LEMMA AloneNext ==
  ASSUME IInv, AcqInv, OneChannel, [AcqNext]_allVars
  PROVE  OneChannel'
<1>0. TypeOK /\ Nested /\ \A l \in Level : frame[l] \in Frame
  BY DEF IInv, TypeOK
<1>1. ASSUME NEW l \in Level, TimeStep(l), UNCHANGED reader PROVE OneChannel'
  <2>1. UNCHANGED <<active, period, sets>>
    BY <1>1 DEF TimeStep, TickRefused, TickCounted, ScanChannel, StoreCount, Reload,
       ScanDone, ResetLoop, ResetDone, channels, hardware
  <2>2. CASE TickRefused(l) \/ ScanDone(l)
    <3>1. Returns(l)
      BY <1>0, <2>2, ReturnStep
    <3>2. Idle.pc = "idle"
      BY DEF Idle
    <3>3. QED
      BY <1>1, <2>1, <3>1, <3>2, OneChannelKept DEF Returns, ServePc
  <2>3. CASE TickCounted(l) \/ ScanChannel(l)
    <3>1. Others(l)
      BY <1>0, <2>3, InnerStep DEF Follows
    <3>2. frame'[l].pc = "scan" \/ (frame'[l].ch \in active /\ 0 \in active)
      <4>1. CASE TickCounted(l)
        BY <1>0, <4>1 DEF Frame, TickCounted, TypeOK
      <4>2. CASE ScanChannel(l)
        <5>1. CASE frame[l].ch \in active
          BY <1>0, <4>2, <5>1 DEF Frame, ScanChannel, TypeOK, OneChannel
        <5>2. CASE frame[l].ch \notin active
          BY <1>0, <4>2, <5>2 DEF Frame, ScanChannel, At, TypeOK
        <5>3. QED
          BY <5>1, <5>2
      <4>3. QED
        BY <2>3, <4>1, <4>2
    <3>3. QED
      BY <1>1, <2>1, <3>1, <3>2, OneChannelKept DEF OneChannel, ServePc
  <2>4. CASE StoreCount(l) \/ Reload(l)
    <3>1. Others(l) /\ ServeStep(l)
      BY <1>0, <2>4, InnerStep, ServeStepHolds DEF Follows
    <3>2. frame[l].pc \in {"store", "reload"} /\ frame'[l].pc # "store"
      <4>1. CASE StoreCount(l)
        BY <1>0, <4>1 DEF Frame, StoreCount, At, TypeOK
      <4>2. CASE Reload(l)
        BY <1>0, <4>2 DEF Frame, Reload, At, TypeOK
      <4>3. QED
        BY <2>4, <4>1, <4>2
    <3>3. frame[l].ch = 0 /\ 0 \in active
      BY <3>2 DEF OneChannel, ServePc
    <3>4. frame'[l].pc \in ServePc => frame'[l].ch \in Channel
      BY <1>0, <2>4, InnerStep DEF Follows, ServePc
    <3>5. frame'[l].pc \in ServePc => frame'[l].ch = 0
      BY <3>1, <3>3, <3>4 DEF ServeStep, Serves
    <3>6. QED
      BY <1>1, <2>1, <3>1, <3>2, <3>3, <3>5, OneChannelKept
  <2>5. CASE ResetLoop(l)
    BY <1>0, <1>1, <2>1, <2>5, LoopStep, OneChannelKept DEF ServePc
  <2>6. CASE ResetDone(l)
    <3>1. Idle.pc = "idle"
      BY DEF Idle
    <3>2. QED
      BY <1>0, <1>1, <2>1, <2>6, <3>1, DoneStep, OneChannelKept DEF ServePc
  <2>7. QED
    BY <1>1, <2>2, <2>3, <2>4, <2>5, <2>6 DEF TimeStep
<1>2. CASE TimerInterrupt /\ UNCHANGED reader
  <2>1. UNCHANGED <<active, period, sets>> /\ Low \in Level
    BY <1>2, Levels DEF TimerInterrupt, channels
  <2>2. QED
    BY <1>0, <1>2, <2>1, TimerStep, OneChannelKept DEF ServePc
<1>3. CASE PulseInterrupt /\ UNCHANGED reader
  <2>1. UNCHANGED <<active, period, sets>> /\ High \in Level /\ EnterReset(High, TRUE)
    BY <1>3, Levels DEF PulseInterrupt, channels
  <2>2. Others(High) /\ frame'[High].pc = "loop"
    BY <1>0, <2>1, EnterStep
  <2>3. QED
    BY <1>3, <2>1, <2>2, OneChannelKept DEF ServePc
<1>4. CASE UNCHANGED <<active, period, sets, frame, reader>>
  BY <1>4 DEF OneChannel
<1>5. ASSUME NEW l \in Level, Ads(l) PROVE OneChannel'
  <2>1. UNCHANGED <<active, period, sets, reader>>
    BY <1>5 DEF Ads, AdsEnter, AdsRetry, AdsRewrite, AdsHeader, AdsSample, AdsTest,
       AdsStore, AdsTake, AdsWrite, CallbackReturns, channels, hardware, vars
  <2>2. Advances(l) /\ frame[l].pc \in ServePc
    BY <1>5, AdsAdvances DEF AcqInv, Advances, ServePc
  <2>3. Others(l) /\ frame'[l].ch = frame[l].ch
    BY <1>0, <2>2 DEF Advances, Others, TypeOK, Frame, Pc
  <2>4. QED
    BY <2>1, <2>2, <2>3, OneChannelKept DEF OneChannel
<1>6. CASE Requests
  <2>1. reader'.pc # "boot" /\ (reader.pc = "boot" => StartAds)
    BY <1>6, RequestsBoot DEF AcqInv
  <2>2. CASE StartAds
    <3>1. /\ active = {} /\ 0 \in Channel /\ active' = active \cup {0}
          /\ period' = [period EXCEPT ![0] = 1] /\ UNCHANGED <<frame, sets>>
      BY <2>2, AcquisitionAssumption DEF StartAds, Handler, StartChannel, MainOnly, hardware,
         AcqInv, Boots
    <3>2. period'[0] = 1
      BY <1>0, <3>1 DEF TypeOK
    <3>3. QED
      BY <2>1, <3>1, <3>2 DEF OneChannel
  <2>3. CASE ~StartAds
    <3>1. UNCHANGED <<active, period, sets, frame>>
      BY <1>6, <2>3 DEF Requests, Ask, BeginRead, TakeForRead, EndRead, Compare, CompareTime,
         vars
    <3>2. QED
      BY <2>1, <2>3, <3>1 DEF OneChannel
  <2>4. QED
    BY <2>2, <2>3
<1>7. QED
  BY <1>1, <1>2, <1>3, <1>4, <1>5, <1>6 DEF AcqNext, Time, Clocks, TimerOverflows, RtcPulses,
     MainRound, channels, hardware, allVars, vars

\* One level at a time is in the routine.
LEMMA OneInRoutine ==
  ASSUME IInv, CallInv, InCallback, OneChannel, NEW l \in Level, frame[l].pc = "callback"
  PROVE  OutElsewhere(l)
<1>1. SUFFICES ASSUME NEW k \in Level, k # l, frame[k].pc = "callback" PROVE FALSE
  BY DEF InCallback, OutElsewhere
<1>2. Serves(l, 0) /\ Serves(k, 0) /\ 0 \in Channel
  BY <1>1, AcquisitionAssumption DEF OneChannel, Serves, ServePc
<1>3. l > k \/ k > l
  BY <1>1, Levels
<1>4. QED
  BY <1>1, <1>2, <1>3 DEF CallInv, ServedSafely

\* A step of the routine takes the packet from one place to the next.
LEMMA PacketStep ==
  ASSUME Typed, InCallback, NEW l \in Level, Ads(l), PacketAt(ads[l])
  PROVE  PacketAt(ads[l])'
<1> USE DEF PacketAt
<1>0. /\ \A at : AdsGoto(l, at) => ads'[l] = at
      /\ ptr \in Nat /\ cnt \in Nat /\ N \in Nat /\ N >= 2
  BY Widths DEF AdsGoto, InCallback, Typed
<1>1. CASE AdsEnter(l)
  BY <1>0, <1>1 DEF AdsEnter, AdsAt, acqVars
<1>2. CASE AdsRetry(l)
  <2>1. CASE Busy
    <3>1. ads[l] = "retry" /\ ads'[l] = "header" /\ UNCHANGED <<ptr, cnt>>
      BY <1>0, <1>2, <2>1 DEF AdsRetry, BeginWrite, AdsAt
    <3>2. written'
      BY <1>2, <2>1 DEF AdsRetry
    <3>3. QED
      BY <1>0, <3>1, <3>2
  <2>2. CASE ~Busy
    BY <1>0, <1>2, <2>2 DEF AdsRetry, BeginWrite, AdsAt
  <2>3. QED
    BY <2>1, <2>2
<1>3. CASE AdsTake(l)
  BY <1>0, <1>3 DEF AdsTake, TakeCard, AdsAt, acqVars
<1>4. CASE AdsRewrite(l)
  BY <1>0, <1>4 DEF AdsRewrite, EndWrite, AdsAt
<1>5. CASE AdsHeader(l)
  BY <1>0, <1>5 DEF AdsHeader, AdsAt
<1>6. CASE AdsSample(l)
  BY <1>0, <1>6 DEF AdsSample, AdsAt
<1>7. CASE AdsTest(l)
  <2>1. ads[l] = "test" /\ UNCHANGED <<cnt, written>>
    BY <1>7 DEF AdsTest, AdsAt
  <2>2. CASE PacketDue
    BY <1>0, <1>7, <2>1, <2>2 DEF AdsTest
  <2>3. CASE ~PacketDue
    BY <1>0, <1>7, <2>1, <2>3 DEF AdsTest, PacketDue
  <2>4. QED
    BY <2>2, <2>3
<1>8. CASE AdsStore(l)
  <2>1. CASE Busy
    BY <1>0, <1>8, <2>1 DEF AdsStore, BeginWrite, AdsAt
  <2>2. CASE ~Busy
    BY <1>0, <1>8, <2>2 DEF AdsStore, BeginWrite, AdsAt
  <2>3. QED
    BY <2>1, <2>2
<1>9. CASE AdsWrite(l)
  BY <1>0, <1>9 DEF AdsWrite, EndWrite, AdsAt
<1>10. QED
  BY <1>1, <1>2, <1>3, <1>4, <1>5, <1>6, <1>7, <1>8, <1>9 DEF Ads

LEMMA PhaseNext ==
  ASSUME IInv, CallInv, AcqInv, OneChannel, Phase, [AcqNext]_allVars
  PROVE  Phase'
<1>1. CASE UNCHANGED <<ads, ptr, cnt, written>>
  BY <1>1 DEF Phase, OutElsewhere, PacketAt
<1>2. ASSUME NEW l \in Level, Ads(l) PROVE Phase'
  <2>1. Advances(l) /\ Typed /\ InCallback
    BY <1>2, AdsAdvances DEF AcqInv
  <2>2. OutElsewhere(l)
    BY <2>1, OneInRoutine DEF Advances
  <2>3. PacketAt(ads[l])'
    BY <1>2, <2>1, <2>2, PacketStep DEF Phase
  <2>4. \A k \in Level : k # l => ads'[k] = "enter"
    BY <2>1, <2>2 DEF Advances, OutElsewhere, InCallback
  <2>5. ASSUME NEW k \in Level, OutElsewhere(k)' PROVE PacketAt(ads[k])'
    <3>1. ads'[k] = ads'[l]
      BY <2>4, <2>5 DEF OutElsewhere
    <3>2. QED
      BY <2>3, <3>1 DEF PacketAt
  <2>6. QED
    BY <2>5 DEF Phase
<1>3. QED
  BY <1>1, <1>2 DEF AcqNext, Time, Requests, StartAds, Ask, BeginRead, TakeForRead, EndRead,
     Compare, CompareTime, allVars, acqVars

LEMMA FitsNext ==
  ASSUME IInv, CallInv, AcqInv, OneChannel, Phase, Fits, [AcqNext]_allVars
  PROVE  Fits'
<1> USE DEF Fits
<1>0. /\ secs \in 0 .. SecWidth - 1
      /\ \A label \in 0 .. SecWidth - 1 : SlotOf(label) \in 0 .. Slots - 1
  <2>1. Slots \in Nat \ {0} /\ \A a \in Nat, w \in Nat \ {0} : a % w \in 0 .. w - 1
    BY AcquisitionAssumption, ModRange
  <2>2. QED
    BY <2>1 DEF SlotOf, IInv, TypeOK
<1>1. CASE UNCHANGED <<packet, card>> /\ reader'.data \in Packet \cup {Blank}
  BY <1>1
<1>2. ASSUME NEW l \in Level, Ads(l) PROVE Fits'
  <2>1. Typed /\ InCallback /\ OutElsewhere(l) /\ UNCHANGED reader
    BY <1>2, AdsAdvances, OneInRoutine DEF AcqInv, Advances, Ads, AdsEnter, AdsRetry,
       AdsRewrite, AdsHeader, AdsSample, AdsTest, AdsStore, AdsTake, AdsWrite
  <2>2. CASE AdsHeader(l)
    <3>1. packet' = packet \/ packet' = [packet EXCEPT !.label = secs]
      BY <2>2 DEF AdsHeader
    <3>2. packet' \in Packet
      BY <1>0, <3>1 DEF Packet
    <3>3. QED
      BY <2>1, <2>2, <3>2 DEF AdsHeader, sdVars
  <2>3. CASE AdsSample(l)
    <3>1. ads[l] = "sample" /\ packet' = [packet EXCEPT !.samples =
                                            @ \cup {IF cnt = N THEN 0 ELSE ptr}]
      BY <2>3 DEF AdsSample, AdsAt
    <3>2. ptr = cnt /\ cnt < N
      BY <2>1, <3>1 DEF Phase, PacketAt
    <3>3. ptr \in Sample /\ cnt # N
      BY <2>1, <3>2, Widths DEF Typed, Sample
    <3>4. packet' \in Packet
      BY <3>1, <3>3 DEF Packet
    <3>5. QED
      BY <2>1, <2>3, <3>4 DEF AdsSample, sdVars
  <2>4. CASE AdsRewrite(l) \/ AdsWrite(l)
    <3>1. packet.label \in 0 .. SecWidth - 1
      BY DEF Packet
    <3>2. card' = card \/ card' = [card EXCEPT ![SlotOf(packet.label)] = packet]
      BY <2>4 DEF AdsRewrite, AdsWrite, EndWrite
    <3>3. card' \in [0 .. Slots - 1 -> Packet \cup {Blank}]
      BY <1>0, <3>1, <3>2
    <3>4. QED
      BY <2>1, <2>4, <3>3 DEF AdsRewrite, AdsWrite
  <2>5. QED
    BY <1>1, <1>2, <2>1, <2>2, <2>3, <2>4 DEF Ads, AdsEnter, AdsRetry, AdsTest, AdsStore,
       AdsTake, acqVars, sdVars
<1>3. CASE Requests
  <2>1. UNCHANGED <<packet, card>>
    BY <1>3 DEF Requests, StartAds, Ask, BeginRead, TakeForRead, EndRead, Compare,
       CompareTime, acqVars, sdVars
  <2>2. reader'.data \in {reader.data, Blank, card[SlotOf(reader.asked)]}
    <3>1. Typed
      BY DEF AcqInv
    <3>2. CASE StartAds \/ BeginRead \/ TakeForRead \/ Compare
      BY <3>1, <3>2 DEF StartAds, BeginRead, TakeForRead, Compare, Handler, Typed
    <3>3. CASE EndRead
      BY <3>1, <3>3 DEF EndRead, Typed
    <3>4. CASE CompareTime
      BY <3>1, <3>4 DEF CompareTime, Typed
    <3>5. CASE \E second \in Wanted : Ask(second)
      BY <3>5 DEF Ask
    <3>6. QED
      BY <1>3, <3>2, <3>3, <3>4, <3>5 DEF Requests
  <2>3. card[SlotOf(reader.asked)] \in Packet \cup {Blank}
    BY <1>0 DEF AcqInv, Typed
  <2>4. QED
    BY <1>1, <2>1, <2>2, <2>3
<1>4. QED
  BY <1>1, <1>2, <1>3 DEF AcqNext, Time, allVars, acqVars, sdVars

LEMMA WrittenNext == written \in BOOLEAN /\ [AcqNext]_allVars => written' \in BOOLEAN
<1> SUFFICES ASSUME written \in BOOLEAN, [AcqNext]_allVars PROVE written' \in BOOLEAN
  OBVIOUS
<1>1. CASE UNCHANGED written
  BY <1>1
<1>2. ASSUME NEW l \in Level, Ads(l) PROVE written' \in BOOLEAN
  BY <1>2 DEF Ads, AdsEnter, AdsRetry, AdsRewrite, AdsHeader, AdsSample, AdsTest, AdsStore,
     AdsTake, AdsWrite, acqVars
<1>3. QED
  BY <1>1, <1>2 DEF AcqNext, Time, Requests, StartAds, Ask, BeginRead, TakeForRead, EndRead,
     Compare, CompareTime, allVars, acqVars

LEMMA InitPacket == AcqInit => PacketInv
<1> SUFFICES ASSUME AcqInit PROVE PacketInv
  OBVIOUS
<1>1. \A l \in Level : frame[l].pc = "idle" /\ ads[l] = "enter"
  BY DEF AcqInit, Init, Idle
<1>2. OneChannel
  BY <1>1 DEF AcqInit, Init, OneChannel, ServePc
<1>3. Phase
  BY <1>1, Widths DEF AcqInit, Phase, PacketAt
<1>4. Fits
  BY Widths DEF AcqInit, Fits, Packet
<1>5. QED
  BY <1>2, <1>3, <1>4 DEF PacketInv, AcqInit

\* The invariant of the packet: the routine runs as one thread, and the counts
\* agree at each of its places.
THEOREM PacketInvariance == AcqSpec => []PacketInv
<1>1. IInv /\ CallInv /\ AcqInv /\ PacketInv /\ [AcqNext]_allVars => PacketInv'
  BY AloneNext, PhaseNext, FitsNext, WrittenNext DEF PacketInv
<1>2. QED
  BY InitPacket, <1>1, OnTimebase, Invariance, CallsInvariance, AcqInvariance, PTL DEF AcqSpec

\* Every variable of the acquisition has its type; the place of the next sample
\* and the number of samples stay within a packet.
THEOREM AcqTypes == AcqSpec => []AcqTypeOK
<1>1. IInv /\ CallInv /\ AcqInv /\ PacketInv => AcqTypeOK
  <2> SUFFICES ASSUME IInv, CallInv, AcqInv, PacketInv PROVE AcqTypeOK
    OBVIOUS
  <2>1. TypeOK /\ Typed /\ InCallback /\ OneChannel /\ Phase /\ Fits /\ written \in BOOLEAN
    BY DEF IInv, AcqInv, PacketInv
  <2>2. PICK l \in Level : OutElsewhere(l)
    <3>1. CASE \A k \in Level : ads[k] = "enter"
      BY <3>1, Levels DEF OutElsewhere
    <3>2. CASE \E k \in Level : ads[k] # "enter"
      BY <2>1, <3>2, OneInRoutine DEF InCallback
    <3>3. QED
      BY <3>1, <3>2
  <2>3. PacketAt(ads[l])
    BY <2>1, <2>2 DEF Phase
  <2>4. ptr \in 0 .. N /\ cnt \in 0 .. N
    BY <2>1, <2>3, Widths DEF PacketAt, Typed
  <2>5. reader \in Reader
    BY <2>1 DEF Typed, Fits, Reader
  <2>6. QED
    BY <2>1, <2>4, <2>5 DEF AcqTypeOK, Typed, InCallback, Fits
<1>2. QED
  BY <1>1, OnTimebase, Invariance, CallsInvariance, AcqInvariance, PacketInvariance, PTL

\* A sample is never read past the end of the packet, whatever failed stores and
\* overruns came before it (main.c:1163-1168).
THEOREM SampleFits == AcqSpec => []PtrInBuffer
<1>1. IInv /\ CallInv /\ AcqInv /\ PacketInv => PtrInBuffer
  <2> SUFFICES ASSUME IInv, CallInv, AcqInv, PacketInv, NEW l \in Level, AdsAt(l, "sample")
               PROVE  ptr \in Sample
    BY DEF PtrInBuffer
  <2>1. frame[l].pc = "callback" /\ ads[l] = "sample"
    BY DEF AdsAt, At
  <2>2. OutElsewhere(l)
    BY <2>1, OneInRoutine DEF AcqInv, PacketInv
  <2>3. ptr = cnt /\ cnt < N
    BY <2>1, <2>2 DEF PacketInv, Phase, PacketAt
  <2>4. QED
    BY <2>3, Widths DEF Sample, AcqInv, Typed
<1>2. QED
  BY <1>1, OnTimebase, Invariance, CallsInvariance, AcqInvariance, PacketInvariance, PTL

\* Nothing touches a packet while it is written to the card, nor from a failed
\* store until its retry is over (main.c:1121-1142).
THEOREM Held == AcqSpec => PacketHeld
<1>1. IInv /\ CallInv /\ AcqInv /\ PacketInv /\ [AcqNext]_allVars =>
        (~written \/ (\E l \in Level : Writing(l)) => UNCHANGED packet /\ cnt' # cnt + 1)
  <2> SUFFICES ASSUME IInv, CallInv, AcqInv, PacketInv, [AcqNext]_allVars,
                      ~written \/ \E l \in Level : Writing(l)
               PROVE  UNCHANGED packet /\ cnt' # cnt + 1
    OBVIOUS
  <2>1. cnt \in Nat
    BY DEF AcqInv, Typed
  <2>2. ASSUME NEW l \in Level, AdsHeader(l) \/ AdsSample(l) PROVE FALSE
    <3>1. frame[l].pc = "callback" /\ ads[l] \in {"header", "sample"}
      BY <2>2 DEF AdsHeader, AdsSample, AdsAt, At
    <3>2. OutElsewhere(l)
      BY <3>1, OneInRoutine DEF AcqInv, PacketInv
    <3>3. written
      BY <3>1, <3>2 DEF PacketInv, Phase, PacketAt
    <3>4. \A k \in Level : ~Writing(k)
      BY <3>1, <3>2 DEF Writing, OutElsewhere
    <3>5. QED
      BY <3>3, <3>4
  <2>3. UNCHANGED packet /\ cnt' \in {cnt, 0}
    <3>1. CASE UNCHANGED acqVars
      BY <3>1 DEF acqVars
    <3>2. ASSUME NEW l \in Level, AdsWrite(l) PROVE UNCHANGED packet /\ cnt' \in {cnt, 0}
      <4>1. PICK ok \in BOOLEAN : cnt' = IF ok THEN 0 ELSE cnt
        BY <3>2 DEF AdsWrite
      <4>2. QED
        BY <3>2, <4>1 DEF AdsWrite
    <3>3. ASSUME NEW l \in Level, Ads(l) PROVE UNCHANGED packet /\ cnt' \in {cnt, 0}
      BY <2>2, <3>2, <3>3 DEF Ads, AdsEnter, AdsRetry, AdsRewrite, AdsTest, AdsStore, AdsTake,
         acqVars
    <3>4. QED
      BY <3>1, <3>3 DEF AcqNext, Time, Requests, StartAds, Ask, BeginRead, TakeForRead,
         EndRead, Compare, CompareTime, allVars
  <2>4. QED
    BY <2>1, <2>3
<1>2. IInv /\ CallInv /\ AcqInv /\ PacketInv /\ [AcqNext]_allVars =>
        [ ~written \/ (\E l \in Level : Writing(l)) => UNCHANGED packet /\ cnt' # cnt + 1 ]_allVars
  BY <1>1
<1>3. QED
  BY <1>2, OnTimebase, Invariance, CallsInvariance, AcqInvariance, PacketInvariance, PTL
     DEF AcqSpec, PacketHeld

-----------------------------------------------------------------------------
(***************************************************************************)
(* The label.  Once a second, at a tick h before any pulse can come, the   *)
(* header is written from the local tick: nothing preempts this tick, and  *)
(* the channel is due in it.  From then to the end of the second the       *)
(* packet has the label of this second, and until h that of the last one.  *)
(***************************************************************************)

\* The tick h writes the header and is over before the earliest pulse.
HeadedInTime(h) == h \in HeaderAt /\ h < N - Late

\* The local tick has not come to the header, or not to the sample, yet.
Unheaded ==
  \/ frame[Low].pc \in {"scan", "store"} /\ frame[Low].ch = 0
  \/ frame[Low].pc = "callback" /\ ads[Low] \in {"enter", "retry", "retake", "rewrite", "header"}

Unsampled == Unheaded \/ (frame[Low].pc = "callback" /\ ads[Low] = "sample")

Headed(h) == msec > h \/ (msec = h /\ ~Unheaded)

\* The channel was started in a second that has all its ticks.
Waiting ==
  /\ msec = N /\ cnt = 0 /\ written
  /\ \A l \in Level : frame[l].pc \in {"idle", "enter", "loop", "zero"}

\* The first header is not written yet: too few samples for anything to be stored.
Filling(h) ==
  /\ ~Headed(h) /\ written /\ cnt <= msec /\ (Unsampled => cnt < msec)
  /\ ads[Low] \in {"enter", "header", "sample", "test"}

Current(h) ==
  packet.label = secs \/ (~Headed(h) /\ (secs - packet.label) % SecWidth \in {0, 1})

\* A pulse is only pending, and High only busy with one, late in the second.
PulsesLate ==
  /\ pulse \/ ~InIdle(High) => msec >= N - Late
  /\ ~InIdle(High) => ~pulse

NothingYet == reader.pc = "boot" => cnt = 0 /\ written

Labelled(h) == reader.pc # "boot" => Waiting \/ Filling(h) \/ Current(h)

LabelInv(h) == PulsesLate /\ NothingYet /\ Labelled(h)

Below == IInv /\ CallInv /\ DueInv /\ AcqInv /\ PacketInv

\* What the invariants below give.
LEMMA BelowFacts ==
  ASSUME Below
  PROVE  /\ TypeOK /\ Nested /\ CallInv /\ OnTime /\ Typed /\ InCallback /\ OneChannel /\ Phase
         /\ frame \in [Level -> Frame] /\ \A l \in Level : frame[l] \in Frame
         /\ msec \in 0 .. N /\ N \in Nat /\ N >= 2 /\ cnt \in Nat /\ Late \in 0 .. N
         /\ secs \in 0 .. SecWidth - 1 /\ packet.label \in 0 .. SecWidth - 1
         /\ Low \in Level /\ High \in Level /\ 0 \in Channel
         /\ \A l \in Level : ~InIdle(l) => l \in {Low, High}
         /\ runCallbacks
<1>1. /\ TypeOK /\ Nested /\ WillTurnOn /\ OnTime /\ Typed /\ InCallback /\ OneChannel /\ Phase
      /\ CallInv
  BY DEF Below, IInv, DueInv, AcqInv, PacketInv
<1>2. sets = 0 /\ SetLevels \subseteq {Main, Med} /\ \A l \in Level : NestedAt(l)
  BY <1>1, TimebaseAssumption DEF OneChannel, Nested
<1>3. \A l \in Level : ~InIdle(l) => l \in {Low, High}
  BY <1>2, Levels DEF NestedAt, InIdle
<1>4. \A l \in {Main, Med} : l \in Level /\ frame[l] = Idle
  BY <1>2, <1>3, Levels DEF InIdle, NestedAt
<1>5. ~Idle.quiet
  BY DEF Idle
<1>6. runCallbacks
  BY <1>1, <1>2, <1>4, <1>5 DEF WillTurnOn
<1>7. packet.label \in 0 .. SecWidth - 1
  BY <1>1 DEF Typed, Sampled
<1>8. 0 \in Channel /\ Late \in 0 .. N
  BY AcquisitionAssumption
<1>9. QED
  BY <1>1, <1>3, <1>6, <1>7, <1>8, Widths, Levels DEF TypeOK, Typed

LEMMA HeadedTick ==
  ASSUME NEW h, HeadedInTime(h)
  PROVE  h \in 1 .. N - 2 /\ h < N - Late /\ h \in HeaderAt /\ N \in Nat /\ Late \in 0 .. N
BY AcquisitionAssumption, Widths DEF HeadedInTime

\* At the turn of the second the label is that of the second that ended.
LEMMA NextLabel ==
  ASSUME NEW s \in 0 .. SecWidth - 1
  PROVE  (((s + 1) % SecWidth) - s) % SecWidth \in {0, 1}
<1>1. SecWidth \in Nat /\ SecWidth >= 1
  BY Widths
<1>2. CASE s + 1 < SecWidth
  <2>1. (s + 1) % SecWidth = s + 1 /\ 1 % SecWidth = 1
    BY <1>1, <1>2, ModSmall
  <2>2. QED
    BY <1>1, <2>1
<1>3. CASE s + 1 = SecWidth
  <2>1. (s + 1) % SecWidth = 0
    BY <1>1, <1>3, ModSmall
  <2>2. (0 - s) % SecWidth = (SecWidth - s) % SecWidth
    BY <1>1
  <2>3. SecWidth - s = 1 /\ 1 % SecWidth \in {0, 1}
    BY <1>1, <1>3
  <2>4. QED
    BY <1>1, <2>1, <2>2, <2>3
<1>4. QED
  BY <1>1, <1>2, <1>3

-----------------------------------------------------------------------------
\* The steps of the time base that count no tick and end no second.
Between(l) ==
  \/ TickRefused(l) \/ ScanChannel(l) \/ StoreCount(l) \/ Reload(l)
  \/ ScanDone(l) \/ ResetLoop(l)

\* They move the local tick over no place where the header is written or a
\* sample read: the channel is due in every tick that nothing preempted.
LEMMA BetweenStep ==
  ASSUME Below, reader.pc # "boot", NEW l \in Level, Between(l), ads' = ads
  PROVE  (Unheaded' <=> Unheaded) /\ (Unsampled' <=> Unsampled)
<1> USE DEF Unheaded, Unsampled
<1>0. /\ TypeOK /\ Nested /\ InCallback /\ OneChannel /\ OnTime /\ runCallbacks
      /\ frame \in [Level -> Frame] /\ \A k \in Level : frame[k] \in Frame
      /\ 0 \in Channel /\ Low \in Level /\ l \in {Low, High} /\ active = {0} /\ period[0] = 1
  <2>1. ~InIdle(l)
    BY DEF Between, TickRefused, ScanChannel, StoreCount, Reload, ScanDone, ResetLoop, At,
       Running
  <2>2. QED
    BY <2>1, BelowFacts DEF OneChannel
<1>1. CASE l # Low
  <2>1. Others(l)
    BY <1>0, InnerStep, ReturnStep, LoopStep DEF Between, Follows, Returns
  <2>2. frame'[Low] = frame[Low]
    BY <1>0, <1>1, <2>1 DEF Others
  <2>3. QED
    BY <2>2
<1>2. CASE l = Low /\ (TickRefused(l) \/ ScanDone(l))
  <2>1. Returns(l) /\ frame[l].pc \in {"enter", "scan"} /\ Idle.pc = "idle"
    BY <1>0, <1>2, ReturnStep DEF Idle
  <2>2. frame'[l].pc \in {"idle", "loop", "zero"}
    BY <2>1 DEF Returns
  <2>3. frame[l].pc = "scan" => frame[l].ch # 0
    BY <1>0, <1>2 DEF TickRefused, ScanDone, At
  <2>4. QED
    BY <1>2, <2>1, <2>2, <2>3
<1>3. CASE l = Low /\ ResetLoop(l)
  BY <1>0, <1>3, LoopStep
<1>4. CASE l = Low /\ ScanChannel(l)
  <2>1. frame[l].pc = "scan" /\ frame[l].ch \in Nat
    BY <1>0, <1>4, Indices DEF ScanChannel, At, Frame
  <2>2. CASE frame[l].ch = 0
    <3>1. frame' = [frame EXCEPT ![l].pc = "store", ![l].held = count[frame[l].ch]]
      BY <1>0, <1>4, <2>2 DEF ScanChannel
    <3>2. QED
      BY <1>0, <1>4, <2>1, <2>2, <3>1 DEF Frame
  <2>3. CASE frame[l].ch # 0
    <3>1. frame' = [frame EXCEPT ![l].ch = @ + 1]
      BY <1>0, <1>4, <2>3 DEF ScanChannel
    <3>2. QED
      BY <1>0, <1>4, <2>1, <2>3, <3>1 DEF Frame
  <2>4. QED
    BY <2>2, <2>3
<1>5. CASE l = Low /\ StoreCount(l)
  <2>1. frame[l].pc = "store" /\ frame[l].ch = 0
    BY <1>0, <1>5 DEF StoreCount, At, OneChannel
  <2>2. frame[l].held = 1
    <3>1. \A k \in Level : k < l => ~Serves(k, 0)
      <4>1. \A k \in Level : k < l => k = Main
        BY <1>5, Levels
      <4>2. ~(Main \in {Low, High})
        BY Levels
      <4>3. \A k \in Level : k < l => frame[k].pc = "idle"
        BY <4>1, <4>2, BelowFacts DEF InIdle
      <4>4. QED
        BY <4>3 DEF Serves, ServePc
    <3>2. frame[l].held \in 1 .. period[0]
      BY <1>0, <2>1, <3>1 DEF OnTime
    <3>3. QED
      BY <1>0, <3>2
  <2>3. Decremented(1) = 0
    <3>1. CountWidth \in Nat /\ CountWidth >= 1
      BY Widths
    <3>2. 1 + CountWidth - 1 = CountWidth
      BY <3>1
    <3>3. QED
      BY <3>1, <3>2, ModSmall DEF Decremented
  <2>4. 0 \in WithCallback
    BY AcquisitionAssumption
  <2>5. frame' = [frame EXCEPT ![l].held = 0, ![l].ch = @, ![l].pc = "callback"]
    BY <1>0, <1>5, <2>1, <2>2, <2>3, <2>4 DEF StoreCount
  <2>6. frame'[l].pc = "callback" /\ ads[l] = "enter"
    BY <1>0, <2>1, <2>5 DEF InCallback, Frame
  <2>7. QED
    BY <1>5, <2>1, <2>6
<1>6. CASE l = Low /\ Reload(l)
  <2>1. frame[l].pc = "reload" /\ frame[l].ch = 0
    BY <1>0, <1>6 DEF Reload, At, OneChannel, ServePc
  <2>2. frame' = [frame EXCEPT ![l].pc = "scan", ![l].ch = @ + 1]
    BY <1>0, <1>6, <2>1 DEF Reload
  <2>3. frame'[l].pc = "scan" /\ frame'[l].ch = 1
    BY <1>0, <2>1, <2>2 DEF Frame
  <2>4. QED
    BY <1>6, <2>1, <2>3
<1>7. QED
  BY <1>0, <1>1, <1>2, <1>3, <1>4, <1>5, <1>6 DEF Between

\* A step of the routine in the local tick: what is before the header stays so
\* until the header is written.
LEMMA RoutineStep ==
  ASSUME Below, Ads(Low)
  PROVE  /\ ~AdsHeader(Low) /\ Unheaded => Unheaded'
         /\ frame[Low].pc = "callback"
         /\ ads'[Low] # "enter" => frame'[Low].pc = "callback"
         /\ ads'[Low] = "enter" => frame'[Low].pc = "reload"
<1>0. /\ InCallback /\ frame \in [Level -> Frame] /\ \A k \in Level : frame[k] \in Frame
      /\ Low \in Level /\ Advances(Low)
      /\ \A at : AdsGoto(Low, at) => ads'[Low] = at
  <2>1. InCallback /\ frame \in [Level -> Frame] /\ Low \in Level
        /\ \A k \in Level : frame[k] \in Frame
    BY BelowFacts
  <2>2. QED
    BY <2>1, AdsAdvances DEF AdsGoto, InCallback
<1>1. frame[Low].pc = "callback"
  BY <1>0 DEF Advances
<1>2. /\ ads'[Low] # "enter" => frame'[Low].pc = "callback"
      /\ ads'[Low] = "enter" => frame'[Low].pc = "reload"
  <2>0. CallbackReturns(Low) => frame'[Low].pc = "reload"
    BY <1>0 DEF CallbackReturns, Goto, Frame
  <2>1. ads'[Low] = "enter" => frame'[Low].pc = "reload"
    <3>1. CASE AdsTest(Low)
      <4>1. CASE PacketDue
        BY <1>0, <3>1, <4>1 DEF AdsTest
      <4>2. CASE ~PacketDue
        BY <2>0, <3>1, <4>2 DEF AdsTest
      <4>3. QED
        BY <4>1, <4>2
    <3>2. CASE AdsStore(Low)
      <4>1. CASE Busy
        BY <2>0, <3>2, <4>1 DEF AdsStore
      <4>2. CASE ~Busy
        BY <1>0, <3>2, <4>2 DEF AdsStore, BeginWrite
      <4>3. QED
        BY <4>1, <4>2
    <3>3. CASE AdsWrite(Low)
      BY <2>0, <3>3 DEF AdsWrite
    <3>4. CASE AdsRetry(Low)
      <4>1. CASE Busy
        BY <1>0, <3>4, <4>1 DEF AdsRetry, BeginWrite
      <4>2. CASE ~Busy
        BY <1>0, <3>4, <4>2 DEF AdsRetry, BeginWrite
      <4>3. QED
        BY <4>1, <4>2
    <3>5. CASE AdsEnter(Low) \/ AdsRewrite(Low) \/ AdsHeader(Low) \/ AdsSample(Low)
      BY <1>0, <3>5 DEF AdsEnter, AdsRewrite, AdsHeader, AdsSample, EndWrite
    <3>6. CASE AdsTake(Low)
      BY <1>0, <3>6 DEF AdsTake, TakeCard
    <3>7. QED
      BY <3>1, <3>2, <3>3, <3>4, <3>5, <3>6 DEF Ads
  <2>2. QED
    BY <1>0, <1>1, <2>1 DEF Advances, Frame
<1>3. ASSUME ~AdsHeader(Low), Unheaded PROVE Unheaded'
  <2>1. ads[Low] \in {"enter", "retry", "retake", "rewrite", "header"}
    BY <1>1, <1>3 DEF Unheaded
  <2>2. ads'[Low] \in {"retry", "retake", "rewrite", "header"}
    <3>1. CASE AdsEnter(Low)
      BY <1>0, <3>1 DEF AdsEnter
    <3>2. CASE AdsRetry(Low)
      <4>1. CASE Busy
        BY <1>0, <3>2, <4>1 DEF AdsRetry, BeginWrite
      <4>2. CASE ~Busy
        BY <1>0, <3>2, <4>2 DEF AdsRetry, BeginWrite
      <4>3. QED
        BY <4>1, <4>2
    <3>3. CASE AdsTake(Low)
      BY <1>0, <2>1, <3>3 DEF AdsTake, TakeCard, AdsAt
    <3>4. CASE AdsRewrite(Low)
      BY <1>0, <3>4 DEF AdsRewrite, EndWrite
    <3>5. QED
      BY <1>3, <2>1, <3>1, <3>2, <3>3, <3>4 DEF Ads, AdsSample, AdsTest, AdsStore, AdsWrite,
         EndWrite, BeginWrite, AdsAt
  <2>3. QED
    BY <1>2, <2>2 DEF Unheaded
<1>4. QED
  BY <1>1, <1>2, <1>3

\* The routine at either level.
LEMMA RoutineLabels ==
  ASSUME NEW h, HeadedInTime(h), Below, LabelInv(h), NEW l \in Level, Ads(l)
  PROVE  Labelled(h)'
<1>0. /\ TypeOK /\ InCallback /\ OneChannel /\ Phase /\ Typed
      /\ frame \in [Level -> Frame] /\ \A k \in Level : frame[k] \in Frame
      /\ msec \in 0 .. N /\ N \in Nat /\ N >= 2 /\ cnt \in Nat /\ Late \in 0 .. N
      /\ Low \in Level /\ High \in Level /\ Advances(l) /\ frame[l].pc = "callback"
      /\ h \in 1 .. N - 2 /\ h < N - Late /\ h \in HeaderAt
  <2>1. InCallback
    BY BelowFacts
  <2>2. QED
    BY <2>1, BelowFacts, HeadedTick, AdsAdvances DEF Advances
<1>1. l \in {Low, High}
  BY <1>0, BelowFacts DEF InIdle
<1>2. UNCHANGED <<msec, secs, reader>> /\ reader.pc # "boot" /\ ~Waiting
  <2>1. UNCHANGED <<msec, secs, reader>>
    BY DEF Ads, AdsEnter, AdsRetry, AdsRewrite, AdsHeader, AdsSample, AdsTest, AdsStore,
       AdsTake, AdsWrite, CallbackReturns, clock, vars
  <2>2. reader.pc # "boot"
    BY <1>0 DEF OneChannel, ServePc
  <2>3. QED
    BY <1>0, <2>1, <2>2 DEF Waiting
<1>3. Filling(h) \/ Current(h)
  BY <1>2 DEF LabelInv, Labelled
<1>4. ~AdsHeader(l) => packet'.label = packet.label
  <2>1. packet \in Sampled
    BY <1>0 DEF Typed
  <2>2. AdsSample(l) => packet'.label = packet.label
    BY <2>1 DEF AdsSample, Sampled
  <2>3. QED
    BY <2>2 DEF Ads, AdsEnter, AdsRetry, AdsRewrite, AdsTest, AdsStore, AdsTake, AdsWrite,
       acqVars
<1>5. AdsHeader(l) => packet'.label = IF HeaderDue THEN secs ELSE packet.label
  BY <1>0 DEF AdsHeader, Typed, Sampled
\* High only runs late in the second.
<1>6. CASE l = High
  <2>1. msec >= N - Late
    BY <1>0, <1>6 DEF LabelInv, PulsesLate, InIdle
  <2>2. Headed(h) /\ packet.label = secs
    BY <1>0, <1>3, <2>1 DEF Headed, Filling, Current
  <2>3. packet'.label = secs'
    BY <1>2, <1>4, <1>5, <2>2
  <2>4. QED
    BY <2>3 DEF Labelled, Current
<1>7. CASE l = Low
  <2>0. /\ ~AdsHeader(Low) /\ Unheaded => Unheaded'
        /\ ads'[Low] # "enter" => frame'[Low].pc = "callback"
        /\ ads'[Low] = "enter" => frame'[Low].pc = "reload"
    BY <1>7, RoutineStep
  <2>1. CASE AdsHeader(Low) /\ HeaderDue
    BY <1>2, <1>5, <1>7, <2>1 DEF Labelled, Current
  <2>2. CASE AdsHeader(Low) /\ ~HeaderDue
    <3>1. msec # h
      <4>1. h % N = h
        BY <1>0, ModSmall
      <4>2. QED
        BY <1>0, <2>2, <4>1 DEF HeaderDue, Millis
    <3>2. Headed(h)' <=> Headed(h)
      BY <1>2, <3>1 DEF Headed
    <3>3. ads[Low] = "header" /\ ads'[Low] = "sample" /\ UNCHANGED <<cnt, written>>
      BY <1>0, <2>2 DEF AdsHeader, AdsAt, AdsGoto, InCallback
    <3>4. Filling(h) => Filling(h)'
      BY <1>0, <1>2, <1>7, <3>2, <3>3 DEF Filling, Unsampled, Unheaded
    <3>5. Current(h) => Current(h)'
      BY <1>2, <1>5, <1>7, <2>2, <3>2 DEF Current
    <3>6. QED
      BY <1>3, <3>4, <3>5 DEF Labelled
  <2>3. CASE ~AdsHeader(Low)
    <3>1. Headed(h)' => Headed(h)
      BY <1>2, <2>0, <2>3 DEF Headed
    <3>2. Current(h) => Current(h)'
      BY <1>2, <1>4, <1>7, <2>3, <3>1 DEF Current
    <3>3. ASSUME Filling(h) PROVE Filling(h)'
      <4>1. /\ ~Headed(h)' /\ written /\ cnt <= msec /\ (Unsampled => cnt < msec)
            /\ msec <= h /\ ads[Low] \in {"enter", "header", "sample", "test"}
        BY <1>0, <3>1, <3>3 DEF Filling, Headed
      <4>2. CASE AdsEnter(Low)
        BY <1>0, <1>2, <1>7, <4>1, <4>2 DEF AdsEnter, AdsAt, AdsGoto, InCallback, acqVars,
           Filling, Unsampled, Unheaded
      <4>3. CASE AdsSample(Low)
        <5>1. /\ ads[Low] = "sample" /\ ads'[Low] = "test"
              /\ cnt' = cnt + 1 /\ written' = written
          BY <1>0, <4>3 DEF AdsSample, AdsAt, AdsGoto, InCallback
        <5>2. ~Unsampled' /\ cnt < msec
          BY <1>0, <1>7, <2>0, <4>1, <5>1 DEF Unsampled, Unheaded
        <5>3. QED
          BY <1>0, <1>2, <4>1, <5>1, <5>2 DEF Filling
      <4>4. CASE AdsTest(Low)
        <5>1. ~PacketDue
          <6>1. msec % N = msec
            BY <1>0, <4>1, ModSmall
          <6>2. QED
            BY <1>0, <4>1, <6>1 DEF PacketDue, Millis
        <5>2. ads'[Low] = "enter" /\ UNCHANGED <<cnt, written>>
          BY <1>0, <4>4, <5>1 DEF AdsTest, AdsGoto, InCallback
        <5>3. ~Unsampled'
          BY <2>0, <5>2 DEF Unsampled, Unheaded
        <5>4. QED
          BY <1>2, <4>1, <5>2, <5>3 DEF Filling
      <4>5. QED
        BY <1>7, <2>3, <4>1, <4>2, <4>3, <4>4 DEF Ads, AdsRetry, AdsTake, AdsRewrite, AdsStore,
           AdsWrite, BeginWrite, TakeCard, EndWrite, AdsAt
    <3>4. QED
      BY <1>3, <3>2, <3>3 DEF Labelled
  <2>4. QED
    BY <2>1, <2>2, <2>3
<1>8. QED
  BY <1>1, <1>6, <1>7

\* The tick of the local clock that is not the first of its second comes when
\* the header of the tick before is written; the catch-up ticks come later.
LEMMA TimeLabels ==
  ASSUME NEW h, HeadedInTime(h), Below, LabelInv(h), NEW l \in Level, TimeStep(l),
         UNCHANGED <<acqVars, ads, reader>>
  PROVE  Labelled(h)'
<1> SUFFICES ASSUME reader.pc # "boot" PROVE Waiting' \/ Filling(h)' \/ Current(h)'
  BY DEF Labelled
<1>0. /\ TypeOK /\ Nested /\ InCallback /\ OneChannel
      /\ frame \in [Level -> Frame] /\ \A k \in Level : frame[k] \in Frame
      /\ msec \in 0 .. N /\ N \in Nat /\ N >= 2 /\ cnt \in Nat /\ Late \in 0 .. N
      /\ secs \in 0 .. SecWidth - 1 /\ Low \in Level /\ High \in Level
      /\ h \in 1 .. N - 2 /\ h < N - Late
  BY BelowFacts, HeadedTick
<1>1. ~InIdle(l) /\ l \in {Low, High}
  <2>1. ~InIdle(l)
    BY DEF TimeStep, TickRefused, TickCounted, ScanChannel, StoreCount, Reload, ScanDone,
       ResetLoop, ResetDone, At, Running
  <2>2. QED
    BY <2>1, BelowFacts
<1>2. Waiting \/ Filling(h) \/ Current(h)
  BY DEF LabelInv, Labelled
<1>3. UNCHANGED <<packet, cnt, written, ads>>
  BY DEF acqVars
<1>4. CASE TickCounted(l)
  <2>1. /\ frame[l].pc = "enter" /\ msec < N /\ msec' = msec + 1 /\ secs' = secs
        /\ frame' = [frame EXCEPT ![l].pc = "scan", ![l].ch = 0]
    BY <1>0, <1>4 DEF TickCounted, At, SecondOver, FirstChannel
  <2>2. CASE l = High
    <3>1. msec >= N - Late
      BY <1>1, <2>2 DEF LabelInv, PulsesLate
    <3>2. Headed(h) /\ ~Waiting
      BY <1>0, <2>1, <3>1 DEF Headed, Waiting
    <3>3. packet.label = secs
      BY <1>2, <3>2 DEF Filling, Current
    <3>4. QED
      BY <1>3, <2>1, <3>3 DEF Current
  <2>3. CASE l = Low
    <3>1. ~Unheaded /\ ~Waiting
      BY <1>0, <2>1, <2>3 DEF Unheaded, Waiting
    <3>2. Unheaded'
      BY <1>0, <2>1, <2>3 DEF Unheaded, Frame
    <3>3. ~Headed(h) => ~Headed(h)'
      BY <1>0, <2>1, <3>1, <3>2 DEF Headed
    <3>4. Filling(h) => Filling(h)'
      BY <1>0, <1>3, <2>1, <3>3 DEF Filling
    <3>5. Current(h) => Current(h)'
      BY <1>3, <2>1, <3>3 DEF Current
    <3>6. QED
      BY <1>2, <3>1, <3>4, <3>5
  <2>4. QED
    BY <1>1, <2>2, <2>3
<1>5. CASE ResetDone(l)
  <2>1. frame[l].pc = "zero" /\ msec' = 0 /\ secs' = NextSecond(l)
    BY <1>5 DEF ResetDone, At
  <2>2. l = High /\ msec = N
    BY <2>1, FullAtZero DEF Below, PacketInv, OneChannel
  <2>3. secs' = (secs + 1) % SecWidth
    BY <2>1, <2>2 DEF NextSecond
  <2>4. Headed(h) /\ ~Headed(h)'
    BY <1>0, <2>1, <2>2 DEF Headed
  <2>5. CASE Waiting
    <3>1. \A k \in Level : frame'[k].pc \in {"idle", "enter", "loop", "zero"}
      BY <1>0, <1>5, <2>5, DoneStep DEF Waiting, Others, Idle
    <3>2. ~Unsampled'
      BY <1>0, <3>1 DEF Unsampled, Unheaded
    <3>3. ads[Low] = "enter"
      BY <1>0, <2>5 DEF Waiting, InCallback
    <3>4. Filling(h)'
      BY <1>3, <2>1, <2>4, <2>5, <3>2, <3>3 DEF Filling, Waiting
    <3>5. QED
      BY <3>4
  <2>6. CASE ~Waiting
    <3>1. packet.label = secs
      BY <1>2, <2>4, <2>6 DEF Filling, Current
    <3>2. (secs' - packet'.label) % SecWidth \in {0, 1}
      BY <1>0, <1>3, <2>3, <3>1, NextLabel
    <3>3. QED
      BY <2>4, <3>2 DEF Current
  <2>7. QED
    BY <2>5, <2>6
<1>6. CASE Between(l)
  <2>1. (Unheaded' <=> Unheaded) /\ (Unsampled' <=> Unsampled)
    BY <1>3, <1>6, BetweenStep
  <2>2. UNCHANGED <<msec, secs>>
    BY <1>6 DEF Between, TickRefused, ScanChannel, StoreCount, Reload, ScanDone, ResetLoop,
       clock
  <2>3. Headed(h)' <=> Headed(h)
    BY <2>1, <2>2 DEF Headed
  <2>4. (Filling(h) => Filling(h)') /\ (Current(h) => Current(h)')
    BY <1>3, <2>1, <2>2, <2>3 DEF Filling, Current
  <2>5. ASSUME Waiting PROVE Waiting'
    <3>1. TickRefused(l) \/ ResetLoop(l)
      BY <1>6, <2>5 DEF Between, ScanChannel, StoreCount, Reload, ScanDone, At, Waiting
    <3>2. Others(l) /\ frame'[l].pc \in {"idle", "enter", "loop", "zero"}
      <4>1. CASE TickRefused(l)
        <5>1. Returns(l) /\ Idle.pc = "idle"
          BY <1>0, <4>1, ReturnStep DEF Idle
        <5>2. QED
          BY <5>1 DEF Returns
      <4>2. CASE ResetLoop(l)
        BY <1>0, <4>2, LoopStep
      <4>3. QED
        BY <3>1, <4>1, <4>2
    <3>3. QED
      BY <1>3, <2>2, <2>5, <3>2 DEF Waiting, Others
  <2>6. QED
    BY <1>2, <2>4, <2>5
<1>7. QED
  BY <1>4, <1>5, <1>6 DEF TimeStep, Between

\* An interrupt begins: neither the header nor a sample is near.
LEMMA InterruptLabels ==
  ASSUME NEW h, Below, LabelInv(h), NEW l \in {Low, High}, InIdle(l), Others(l),
         frame'[l].pc \in {"enter", "loop"}, UNCHANGED <<msec, secs, acqVars, ads, reader>>
  PROVE  Labelled(h)'
<1>1. (Unheaded' <=> Unheaded) /\ (Unsampled' <=> Unsampled)
  <2>1. CASE l = Low
    BY <2>1 DEF Unheaded, Unsampled, InIdle
  <2>2. CASE l # Low
    <3>1. frame'[Low] = frame[Low]
      BY <2>2, Levels DEF Others
    <3>2. QED
      BY <3>1 DEF Unheaded, Unsampled
  <2>3. QED
    BY <2>1, <2>2
<1>2. Waiting => Waiting'
  BY DEF Waiting, Others, acqVars
<1>3. Headed(h)' <=> Headed(h)
  BY <1>1 DEF Headed
<1>4. (Filling(h) => Filling(h)') /\ (Current(h) => Current(h)')
  BY <1>1, <1>3 DEF Filling, Current, acqVars
<1>5. QED
  BY <1>2, <1>4 DEF LabelInv, Labelled

\* The channel is started at the beginning of a second, or at its end.
LEMMA BootLabels ==
  ASSUME NEW h, HeadedInTime(h), Below, LabelInv(h), StartAds
  PROVE  Labelled(h)'
<1>0. /\ msec \in 0 .. N /\ N \in Nat /\ N >= 2 /\ InCallback /\ Low \in Level
      /\ h \in 1 .. N - 2
  BY BelowFacts, HeadedTick
<1>1. /\ AllIdle /\ cnt = 0 /\ written /\ msec % N = 0
      /\ UNCHANGED <<frame, msec, cnt, written, ads>>
  BY DEF StartAds, Handler, StartChannel, MainOnly, clock, acqVars, LabelInv, NothingYet, Millis
<1>2. msec = 0 \/ msec = N
  <2>1. msec < N => msec % N = msec
    BY <1>0, ModSmall
  <2>2. QED
    BY <1>0, <1>1, <2>1
<1>3. \A l \in Level : frame'[l].pc = "idle" /\ ads'[l] = "enter"
  BY <1>0, <1>1 DEF AllIdle, InIdle, InCallback
<1>4. CASE msec = N
  BY <1>1, <1>3, <1>4 DEF Labelled, Waiting
<1>5. CASE msec = 0
  <2>1. ~Unsampled'
    BY <1>0, <1>3 DEF Unsampled, Unheaded
  <2>2. ~Headed(h)'
    BY <1>0, <1>1, <1>5 DEF Headed
  <2>3. Filling(h)'
    BY <1>0, <1>1, <1>3, <1>5, <2>1, <2>2 DEF Filling
  <2>4. QED
    BY <2>3 DEF Labelled
<1>6. QED
  BY <1>2, <1>4, <1>5

LEMMA LabelledNext ==
  ASSUME NEW h, HeadedInTime(h), Below, LabelInv(h), [AcqNext]_allVars
  PROVE  Labelled(h)'
<1>0. TypeOK /\ Low \in Level /\ High \in Level /\ Typed
  BY BelowFacts
<1>1. CASE Time
  <2>1. UNCHANGED <<acqVars, ads, reader>>
    BY <1>1 DEF Time
  <2>2. CASE \E l \in Level : TimeStep(l)
    BY <2>1, <2>2, TimeLabels
  <2>3. CASE TimerInterrupt
    <3>1. InIdle(Low) /\ UNCHANGED <<msec, secs>>
      BY <1>0, <2>3, Levels DEF TimerInterrupt, Accepts, clock
    <3>2. Others(Low) /\ frame'[Low].pc = "enter"
      BY <1>0, <2>3, TimerStep
    <3>3. QED
      BY <2>1, <3>1, <3>2, InterruptLabels
  <2>4. CASE PulseInterrupt
    <3>1. EnterReset(High, TRUE) /\ InIdle(High) /\ UNCHANGED <<msec, secs>>
      <4>1. EnterReset(High, TRUE)
        BY <2>4 DEF PulseInterrupt
      <4>2. High >= High
        BY Levels
      <4>3. QED
        BY <1>0, <2>4, <4>1, <4>2 DEF PulseInterrupt, Accepts, clock
    <3>2. Others(High) /\ frame'[High].pc = "loop"
      BY <1>0, <3>1, EnterStep
    <3>3. QED
      BY <2>1, <3>1, <3>2, InterruptLabels
  <2>5. CASE TimerOverflows \/ RtcPulses \/ MainRound
    <3>1. UNCHANGED <<frame, msec, secs, packet, cnt, written, ads, reader>>
      BY <2>1, <2>5 DEF TimerOverflows, RtcPulses, MainRound, clock, acqVars
    <3>2. QED
      BY <3>1 DEF LabelInv, Labelled, Waiting, Filling, Current, Headed, Unheaded, Unsampled
  <2>6. QED
    BY <1>1, <2>2, <2>3, <2>4, <2>5 DEF Time, Clocks
<1>2. ASSUME NEW l \in Level, Ads(l) PROVE Labelled(h)'
  BY <1>2, RoutineLabels
<1>3. CASE StartAds
  BY <1>3, BootLabels
<1>4. CASE (Requests /\ ~StartAds) \/ UNCHANGED allVars
  <2>1. UNCHANGED <<frame, msec, secs, packet, cnt, written, ads>>
    BY <1>4 DEF Requests, Ask, BeginRead, TakeForRead, EndRead, Compare, CompareTime, vars,
       acqVars, allVars
  <2>2. reader'.pc # "boot" => reader.pc # "boot"
    BY <1>0, <1>4, RequestsBoot DEF allVars
  <2>3. QED
    BY <2>1, <2>2 DEF LabelInv, Labelled, Waiting, Filling, Current, Headed, Unheaded, Unsampled
<1>5. QED
  BY <1>1, <1>2, <1>3, <1>4 DEF AcqNext

LEMMA PulsesLateNext ==
  ASSUME Below, PulsesLate, [AcqNext]_allVars
  PROVE  PulsesLate'
<1> USE DEF PulsesLate
<1>0. /\ TypeOK /\ Nested /\ InCallback /\ frame \in [Level -> Frame]
      /\ \A k \in Level : frame[k] \in Frame
      /\ msec \in 0 .. N /\ N \in Nat /\ Late \in 0 .. N /\ High \in Level /\ Low \in Level
      /\ Low # High
  BY BelowFacts, Levels
<1>1. ASSUME NEW l \in Level, TimeStep(l) \/ Ads(l) PROVE PulsesLate'
  <2>1. ~InIdle(l) /\ Others(l) /\ pulse' = pulse
    <3>1. CASE TimeStep(l)
      BY <1>0, <3>1, InnerStep, ReturnStep, LoopStep, DoneStep DEF TimeStep, Follows, Returns,
         TickRefused, TickCounted, ScanChannel, StoreCount, Reload, ScanDone, ResetLoop,
         ResetDone, At, Running, hardware
    <3>2. CASE Ads(l)
      <4>1. Advances(l)
        BY <1>0, <3>2, AdsAdvances
      <4>2. Others(l)
        BY <1>0, <4>1 DEF Advances, Others, Frame, Pc
      <4>3. pulse' = pulse
        BY <3>2 DEF Ads, AdsEnter, AdsRetry, AdsRewrite, AdsHeader, AdsSample, AdsTest,
           AdsStore, AdsTake, AdsWrite, CallbackReturns, hardware, vars
      <4>4. QED
        BY <4>1, <4>2, <4>3 DEF Advances, Running
    <3>3. QED
      BY <1>1, <3>1, <3>2
  <2>2. ~InIdle(High)' => ~InIdle(High)
    BY <1>0, <2>1 DEF Others, InIdle
  <2>3. CASE ResetDone(l)
    <3>1. l = High
      <4>1. frame[l].pc = "zero"
        BY <2>3 DEF ResetDone, At
      <4>2. QED
        BY <4>1, FullAtZero DEF Below, PacketInv, OneChannel
    <3>2. InIdle(High)' /\ ~pulse'
      BY <1>0, <2>1, <2>3, <3>1, DoneStep DEF InIdle, Idle
    <3>3. QED
      BY <3>2
  <2>4. CASE ~ResetDone(l)
    <3>1. msec' \in {msec, msec + 1}
      BY <1>1, <2>4 DEF TimeStep, TickRefused, TickCounted, ScanChannel, StoreCount, Reload,
         ScanDone, ResetLoop, Ads, AdsEnter, AdsRetry, AdsRewrite, AdsHeader, AdsSample,
         AdsTest, AdsStore, AdsTake, AdsWrite, CallbackReturns, clock, vars
    <3>2. QED
      BY <1>0, <2>1, <2>2, <3>1
  <2>5. QED
    BY <2>3, <2>4
<1>2. CASE TimerInterrupt
  <2>1. UNCHANGED <<msec, pulse>> /\ frame'[High] = frame[High]
    BY <1>0, <1>2, TimerStep DEF TimerInterrupt, clock, Others
  <2>2. QED
    BY <2>1 DEF InIdle
<1>3. CASE PulseInterrupt
  BY <1>3 DEF PulseInterrupt, clock
<1>4. CASE RtcPulses /\ InIdle(High) /\ msec >= N - Late
  BY <1>4 DEF RtcPulses, clock, InIdle
<1>5. CASE UNCHANGED <<msec, pulse, frame>>
  BY <1>5 DEF InIdle
<1>6. QED
  BY <1>1, <1>2, <1>3, <1>4, <1>5 DEF AcqNext, Time, Clocks, TimerOverflows, MainRound,
     Requests, StartAds, StartChannel, MainOnly, Ask, BeginRead, TakeForRead, EndRead, Compare,
     CompareTime, clock, hardware, vars, allVars

LEMMA NothingYetNext ==
  ASSUME Below, NothingYet, [AcqNext]_allVars
  PROVE  NothingYet'
<1> SUFFICES ASSUME reader'.pc = "boot" PROVE cnt' = 0 /\ written'
  BY DEF NothingYet
<1>1. ~Requests
  BY RequestsBoot, BelowFacts
<1>2. UNCHANGED <<cnt, written>> /\ reader.pc = "boot"
  <2>1. CASE UNCHANGED <<acqVars, reader>>
    BY <2>1 DEF acqVars
  <2>2. ASSUME NEW l \in Level, Ads(l) PROVE FALSE
    <3>1. Advances(l) /\ reader' = reader
      BY <2>2, AdsAdvances, BelowFacts DEF Ads, AdsEnter, AdsRetry, AdsRewrite, AdsHeader,
         AdsSample, AdsTest, AdsStore, AdsTake, AdsWrite
    <3>2. 0 \in active /\ reader.pc = "boot"
      BY <3>1, BelowFacts DEF Advances, OneChannel, ServePc
    <3>3. QED
      BY <3>2, BelowFacts DEF OneChannel
  <2>3. QED
    BY <1>1, <2>1, <2>2 DEF AcqNext, Time, allVars
<1>3. QED
  BY <1>2 DEF NothingYet

LEMMA InitLabel ==
  ASSUME NEW h, AcqInit PROVE LabelInv(h)
<1>1. InIdle(High) /\ ~pulse
  BY Levels DEF AcqInit, Init, Idle, InIdle
<1>2. QED
  BY <1>1 DEF AcqInit, LabelInv, PulsesLate, NothingYet, Labelled

THEOREM LabelInvariance ==
  ASSUME NEW h, HeadedInTime(h)
  PROVE  AcqSpec => []LabelInv(h)
<1>1. AcqInit => LabelInv(h)
  BY InitLabel
<1>2. Below /\ LabelInv(h) /\ [AcqNext]_allVars => LabelInv(h)'
  BY LabelledNext, PulsesLateNext, NothingYetNext DEF LabelInv
<1>3. AcqSpec => []Below
  BY OnTimebase, Invariance, CallsInvariance, DueInvariance, AcqInvariance, PacketInvariance,
     PTL DEF Below
<1>4. QED
  BY <1>1, <1>2, <1>3, PTL DEF AcqSpec

\* A packet reaches the card with the label of the second that is running or of
\* the one that ended, if one of the two headers is written before any pulse can
\* come: in the code the local clock may lag by up to 900 ms (main.c:1144-1159).
THEOREM Labels ==
  ASSUME \E h : HeadedInTime(h)
  PROVE  AcqSpec => LabelCurrent
<1>1. PICK h : HeadedInTime(h)
  OBVIOUS
<1>2. Below /\ LabelInv(h) /\ [AcqNext]_allVars =>
        \A s \in DOMAIN card :
          card'[s] # card[s] => (secs - card'[s].label) % SecWidth \in {0, 1}
  <2> SUFFICES ASSUME Below, LabelInv(h), [AcqNext]_allVars,
                      NEW s \in DOMAIN card, card'[s] # card[s]
               PROVE  (secs - card'[s].label) % SecWidth \in {0, 1}
    OBVIOUS
  <2>0. /\ Typed /\ InCallback /\ msec \in 0 .. N /\ N \in Nat /\ Late \in 0 .. N
        /\ secs \in 0 .. SecWidth - 1 /\ OneChannel /\ h < N - Late /\ h \in 1 .. N - 2
    BY <1>1, BelowFacts, HeadedTick
  <2>1. PICK l \in Level : AdsRewrite(l) \/ AdsWrite(l)
    BY DEF AcqNext, Time, Requests, StartAds, Ask, BeginRead, TakeForRead, EndRead, Compare,
       CompareTime, allVars, acqVars, sdVars, Ads, AdsEnter, AdsRetry, AdsHeader, AdsSample,
       AdsTest, AdsStore, AdsTake
  <2>2. /\ card' = [card EXCEPT ![SlotOf(packet.label)] = packet]
        /\ frame[l].pc = "callback" /\ ads[l] \in {"rewrite", "write"} /\ ~InIdle(l)
    BY <2>1 DEF AdsRewrite, AdsWrite, EndWrite, AdsAt, At, Running
  <2>3. card'[s] = packet
    BY <2>0, <2>2 DEF Typed
  <2>4. Current(h)
    <3>1. reader.pc # "boot" /\ ~Waiting
      BY <2>0, <2>2 DEF OneChannel, ServePc, Waiting
    <3>2. ~Filling(h)
      <4>1. l \in {Low, High}
        BY <2>2, BelowFacts
      <4>2. CASE l = Low
        BY <2>2, <4>2 DEF Filling
      <4>3. CASE l = High
        BY <2>0, <2>2, <4>3 DEF LabelInv, PulsesLate, Filling, Headed
      <4>4. QED
        BY <4>1, <4>2, <4>3
    <3>3. QED
      BY <3>1, <3>2 DEF LabelInv, Labelled
  <2>5. packet.label = secs => (secs - packet.label) % SecWidth = 0
    BY <2>0, Widths, ModSmall
  <2>6. QED
    BY <2>3, <2>4, <2>5 DEF Current
<1>3. Below /\ LabelInv(h) /\ [AcqNext]_allVars =>
        [ \A s \in DOMAIN card :
            card'[s] # card[s] => (secs - card'[s].label) % SecWidth \in {0, 1} ]_allVars
  BY <1>2
<1>4. AcqSpec => []Below
  BY OnTimebase, Invariance, CallsInvariance, DueInvariance, AcqInvariance, PacketInvariance,
     PTL DEF Below
<1>5. AcqSpec => []LabelInv(h)
  BY <1>1, LabelInvariance
<1>6. QED
  BY <1>3, <1>4, <1>5, PTL DEF AcqSpec, LabelCurrent
=============================================================================
