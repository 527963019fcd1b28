--------------------------- MODULE EmergencyProofs ---------------------------
(***************************************************************************)
(* Proofs about module Emergency, for every count-down and every bound on  *)
(* the semaphores.                                                         *)
(***************************************************************************)
EXTENDS Emergency, TLAPS

(***************************************************************************)
(* The inductive invariant.  None of the properties is inductive alone:    *)
(* PhotoWhole needs to know who owns the card, TypeOK how far the backlog  *)
(* of notifications may grow, CancelBeforeTimeout where the main task can  *)
(* be while a callback is in progress, the refinement which of siren and   *)
(* emergencyState go with which place in the loop.                         *)
(***************************************************************************)
Holding == {"cfgHold", "numHold", "bmpHold", "cntHold", "jpgHold"}
Pending == {"cfgPend", "numPend", "bmpPend", "cntPend", "jpgPend"}

\* The user is kept from the stop PIN while the backlog is at its bound.
BacklogBound == mainPc # "stopTouch" => modemSem < SemLimit

\* SDMutex is owned exactly by the task inside a section, or by a main task
\* that died inside one.
CardOwned ==
  /\ mainPc \in Holding => sdOwner = "main"
  /\ sdOwner = "main" => mainPc \in Holding \cup {"halt"}
  /\ sdOwner = "modem" <=> modemPc = "photo"

\* image.jpg is partial only inside jpeg_test.
PartialInside == photo = "partial" => mainPc = "jpgHold"

\* The timer runs while cancelImpact waits.
TimerWhileCancelling == mainPc \in Cancelling => timer = "running"

\* A callback starts only while the main task sleeps.
CallbackWhileBlocked ==
  SchedLocked => mainPc \in Pending \cup MainDelays \cup {"pend"}

\* What has been set up, and who runs, at each place of the start-up.
SetUpInOrder ==
  /\ mainPc = "itInit" => ready = {}
  /\ mainPc = "exti" => ready = {"handlers"}
  /\ mainPc = "events" => ready = {"handlers", "button"}
  /\ mainPc \in {"tasks", "accel"} => ready = Parts \ {"impact"}
  /\ mainPc \notin Booting \ {"accelBus"} => ready = Parts
  /\ mainPc \in {"itInit", "exti", "events", "tasks"} => modemPc = "none"

\* What the outside sees at each place of the loop.
LoopTop == Booting \cup
           {"cfgPend", "cfgHold", "camera", "numPend", "numHold", "clearFlags",
            "clearSem", "pend", "sineOn"}
SirenOn == ((Deciding \ {"sineOn"}) \cup Cancelling) \cup {"raise"}
InAlarm == {"postModem", "stopTouch", "stopKey"}

Shown ==
  /\ mainPc \in LoopTop => ~siren /\ ~emergencyState
  /\ mainPc \in SirenOn => siren /\ ~emergencyState
  /\ mainPc \in InAlarm => siren /\ emergencyState
  /\ mainPc = "sineOff" => siren
  /\ mainPc = "stopUpdates" => ~siren

IInv ==
  /\ TypeOK
  /\ BacklogBound
  /\ CardOwned
  /\ PartialInside
  /\ TimerWhileCancelling
  /\ CallbackWhileBlocked
  /\ CancelBeforeTimeout
  /\ WakeExplained
  /\ SetUpInOrder
  /\ Shown

-----------------------------------------------------------------------------
\* The five sections of the main task under SDMutex, state by state.
LEMMA HoldFacts ==
  /\ DOMAIN Hold = Pending
  /\ Hold["cfgPend"] = "cfgHold"
  /\ Hold["numPend"] = "numHold"
  /\ Hold["bmpPend"] = "bmpHold"
  /\ Hold["cntPend"] = "cntHold"
  /\ Hold["jpgPend"] = "jpgHold"
  BY DEF Hold, Pending

\* No set of flags is NoLoad, so SchedLocked says whether a load is pending.
LEMMA NoLoadFacts ==
  /\ NoLoad \notin SUBSET Flags
  /\ "timeout" \in Flags /\ "button" \in Flags /\ "impact" \in Flags
  <1>1. "none" \in NoLoad /\ "none" \notin Flags
    BY DEF NoLoad, Flags
  <1> QED BY <1>1 DEF Flags

\* The device starts in the invariant.
LEMMA InitIInv == Init => IInv
  <1> SUFFICES ASSUME Init PROVE IInv
    OBVIOUS
  <1> USE CountDownAssumption, SemLimitAssumption
  <1>1. TypeOK
    <2>1. appFlags \in SUBSET Flags /\ cbFlags \in (SUBSET Flags) \cup {NoLoad}
      BY DEF Init
    <2>2. mainPc \in MainPcs /\ modemPc \in ModemPcs
      BY DEF Init, MainPcs, Booting, ModemPcs, ModemWaits
    <2>3. /\ emergencySem \in 0..SemLimit
          /\ modemSem \in 0..SemLimit
          /\ countDown \in 0..CountDownStart
      BY DEF Init
    <2> QED
      BY <2>1, <2>2, <2>3 DEF Init, TypeOK
  <1>2. ~SchedLocked
    BY DEF Init, SchedLocked
  <1> QED
    BY <1>1, <1>2 DEF Init, IInv, BacklogBound, CardOwned, PartialInside,
       TimerWhileCancelling, CallbackWhileBlocked, CancelBeforeTimeout,
       WakeExplained, Shown, Holding, Pending, Cancelling, Deciding, LoopTop,
       SirenOn, InAlarm, MainDelays, SetUpInOrder, Booting, Parts

-----------------------------------------------------------------------------
(***************************************************************************)
(* One lemma per actor: its steps preserve the invariant.                  *)
(***************************************************************************)
LEMMA InterruptStep ==
  ASSUME IInv, Button_Handler \/ LSM303_Acc_ISR
  PROVE  IInv'
  <1> USE SemLimitAssumption, CountDownAssumption, NoLoadFacts
  <1>1. PICK bit \in {"button", "impact"} :
          /\ bit \in ready
          /\ emergencySem < SemLimit
          /\ UNCHANGED <<alarm, clock, card, modemPc>>
          /\ appFlags' \in {appFlags, appFlags \cup {bit}}
          /\ emergencySem' \in {emergencySem, emergencySem + 1}
          /\ "handlers" \in ready => appFlags' = appFlags \cup {bit}
          /\ mainPc' \in {mainPc, "halt"}
          /\ bit = "button" /\ "handlers" \in ready => mainPc' = mainPc
          /\ {"handlers", "objects"} \subseteq ready => mainPc' = mainPc
    BY DEF Button_Handler, LSM303_Acc_ISR, Interrupt
  <1>2. "handlers" \in ready
    BY <1>1 DEF IInv, TypeOK, SetUpInOrder, Parts, Booting, MainPcs, Cancelling, Deciding
  <1>3. UNCHANGED mainPc
    BY <1>1, <1>2 DEF IInv, SetUpInOrder, Parts, Booting
  <1>4. TypeOK'
    BY <1>1, <1>2, <1>3 DEF IInv, TypeOK, alarm, clock, card, Flags
  <1> QED
    BY <1>1, <1>2, <1>3, <1>4 DEF IInv, alarm, clock, card, TypeOK, BacklogBound, CardOwned,
       PartialInside, TimerWhileCancelling, CallbackWhileBlocked, SchedLocked,
       CancelBeforeTimeout, WakeExplained, SetUpInOrder, Shown

\* The callback: CountDown and LoadFlags start only while main is blocked.
LEMMA TimerStep ==
  ASSUME IInv, Timer \/ StoreTimeout
  PROVE  IInv'
  <1> USE CountDownAssumption, NoLoadFacts
  <1> USE DEF events, alarm, clock, card
  <1> USE DEF IInv, TypeOK, BacklogBound, CardOwned, PartialInside,
       TimerWhileCancelling, CallbackWhileBlocked, SchedLocked, CancelBeforeTimeout,
       WakeExplained, SetUpInOrder, Shown
  <1>1. CASE CountDown
    BY <1>1 DEF CountDown, Counting
  <1>2. CASE LoadFlags
    <2>1. mainPc \in Pending \cup MainDelays \cup {"pend"}
      BY <1>2, HoldFacts DEF LoadFlags, TimerRuns, MainBlocked
    <2> QED
      BY <1>2, <2>1 DEF LoadFlags
  <1>3. CASE StoreTimeout
    <2>1. mainPc \notin {"cancelKey", "cancelled"}
      BY <1>3 DEF StoreTimeout, Pending, MainDelays
    <2>2. appFlags' \in SUBSET Flags
      BY <1>3 DEF StoreTimeout
    <2> QED
      BY <1>3, <2>1, <2>2 DEF StoreTimeout
  <1> QED
    BY <1>1, <1>2, <1>3 DEF Timer

\* The main task.
LEMMA MainStep ==
  ASSUME IInv, MainProceeds \/ MainWaits
  PROVE  IInv'
  <1> USE CountDownAssumption, SemLimitAssumption, HoldFacts
  <1> USE DEF IInv, TypeOK, BacklogBound, CardOwned, PartialInside,
       TimerWhileCancelling, CallbackWhileBlocked, SchedLocked, CancelBeforeTimeout,
       WakeExplained, SetUpInOrder, Shown
  <1> USE DEF Go, MainRuns, events, alarm, clock, card, MainPcs, Cancelling, Deciding,
       LoopTop, SirenOn, InAlarm, Holding, Pending, MainDelays, Booting, Parts
  <1>1. CASE checkAndSetSettings
    BY <1>1 DEF checkAndSetSettings, TakeCard, GiveCard
  <1>2. CASE Camera
    BY <1>2 DEF Camera
  <1>3. CASE init_picture_count
    BY <1>3 DEF init_picture_count, TakeCard, GiveCard
  <1>4. CASE ClearFlags
    BY <1>4 DEF ClearFlags
  <1>5. CASE ClearSem
    BY <1>5 DEF ClearSem
  <1>6. CASE Wake
    BY <1>6 DEF Wake
  <1>7. CASE SineOn
    BY <1>7 DEF SineOn
  <1>8. CASE CameraCapture
    BY <1>8 DEF CameraCapture, TakeCard, GiveCard
  <1>9. CASE jpeg_test
    BY <1>9 DEF jpeg_test, TakeCard, GiveCard
  <1>10. CASE Decide
    BY <1>10 DEF Decide
  <1>11. CASE StartTimer
    BY <1>11 DEF StartTimer
  <1>12. CASE TouchFlagged
    BY <1>12 DEF TouchFlagged, CancelMask
  <1>13. CASE Touched
    BY <1>13 DEF Touched, CancelMask
  <1>14. CASE Key
    BY <1>14 DEF Key
  <1>15. CASE NotCancelled
    BY <1>15 DEF NotCancelled, StopTimer
  <1>16. CASE Cancelled
    BY <1>16 DEF Cancelled, StopTimer
  <1>17. CASE SendUpdates
    BY <1>17 DEF SendUpdates
  <1>18. CASE PostModem
    BY <1>18 DEF PostModem
  <1>19. CASE SineOff
    BY <1>19 DEF SineOff
  <1>20. CASE StopUpdates
    BY <1>20 DEF StopUpdates
  <1>21. CASE itInit
    BY <1>21 DEF itInit, SetUp
  <1>24. CASE EXTILine0_11_Config
    BY <1>24 DEF EXTILine0_11_Config, SetUp
  <1>25. CASE App_EventCreate
    BY <1>25 DEF App_EventCreate, SetUp
  <1>22. CASE App_TaskCreate
    BY <1>22 DEF App_TaskCreate, ModemPcs, ModemWaits
  <1>23. CASE accelerometerCompassInit
    BY <1>23 DEF accelerometerCompassInit, SetUp
  <1> QED
    BY <1>1, <1>2, <1>3, <1>4, <1>5, <1>6, <1>7, <1>8, <1>9, <1>10, <1>21, <1>22, <1>23, <1>24, <1>25,
       <1>11, <1>12, <1>13, <1>14, <1>15, <1>16, <1>17, <1>18, <1>19, <1>20
       DEF MainProceeds, MainWaits

\* The modem task.
LEMMA ModemStep ==
  ASSUME IInv, Modem
  PROVE  IInv'
  <1> USE SemLimitAssumption
  <1> USE DEF IInv, TypeOK, BacklogBound, CardOwned, PartialInside,
       TimerWhileCancelling, CallbackWhileBlocked, SchedLocked, CancelBeforeTimeout,
       WakeExplained, SetUpInOrder, Shown
  <1> USE DEF ModemGo, events, clock, ModemPcs, ModemWaits
  <1>1. CASE ModemInit
    BY <1>1 DEF ModemInit
  <1>2. CASE ModemTake
    BY <1>2 DEF ModemTake
  <1>3. CASE ModemTimeout
    BY <1>3 DEF ModemTimeout
  <1>4. CASE GpsReceive
    BY <1>4 DEF GpsReceive
  <1>5. CASE CheckState
    BY <1>5 DEF CheckState
  <1>6. CASE GpsUpdate
    BY <1>6 DEF GpsUpdate
  <1>7. CASE PicturePend
    BY <1>7 DEF PicturePend, Holding
  <1>8. CASE PictureSent
    BY <1>8 DEF PictureSent, Holding
  <1>9. CASE SmsSend
    BY <1>9 DEF SmsSend
  <1> QED
    BY <1>1, <1>2, <1>3, <1>4, <1>5, <1>6, <1>7, <1>8, <1>9 DEF Modem

\* Every step of every actor keeps the invariant.
LEMMA StepIInv == IInv /\ [Next]_vars => IInv'
  <1> SUFFICES ASSUME IInv, [Next]_vars PROVE IInv'
    OBVIOUS
  <1>1. CASE Button_Handler \/ LSM303_Acc_ISR
    BY <1>1, InterruptStep
  <1>2. CASE UNCHANGED vars
    BY <1>2 DEF vars, IInv, TypeOK, BacklogBound, CardOwned, PartialInside,
       TimerWhileCancelling, CallbackWhileBlocked, SchedLocked, CancelBeforeTimeout,
       WakeExplained, SetUpInOrder, Shown
  <1> QED
    BY <1>1, <1>2, TimerStep, MainStep, ModemStep DEF Next, Spin

-----------------------------------------------------------------------------
\* The invariant holds in every reachable state.
LEMMA InvariantIInv == Spec => []IInv
  BY InitIInv, StepIInv, PTL DEF Spec

\* Every reachable state is well typed: no callback counts below zero, and no
\* semaphore exceeds its bound, although PostModem has no guard of its own.
THEOREM TypeCorrect == Spec => []TypeOK
  BY InvariantIInv, PTL DEF IInv

\* The while(1) loops behind OSTmrStop and OSMutexPost are unreachable.
THEOREM NoErrorLoop == Spec => []NoKernelError
  <1>1. IInv => NoKernelError
    BY HoldFacts DEF IInv, NoKernelError, TimerWhileCancelling, Cancelling, CardOwned,
       Holding, Pending, SetUpInOrder, Booting
  <1> QED
    BY <1>1, InvariantIInv, PTL

\* The modem task uploads no half-written picture.
THEOREM WholePictures == Spec => []PhotoWhole
  <1>1. IInv => PhotoWhole
    BY DEF IInv, PhotoWhole, CardOwned, PartialInside, Holding
  <1> QED
    BY <1>1, InvariantIInv, PTL

\* No wake-up of the main task goes unexplained by appFlags.
THEOREM ExplainedWakeUps == Spec => []WakeExplained
  BY InvariantIInv, PTL DEF IInv

\* No impact is cancelled after it has timed out.
THEOREM CancelInTime == Spec => []CancelBeforeTimeout
  BY InvariantIInv, PTL DEF IInv

-----------------------------------------------------------------------------
(***************************************************************************)
(* The refinement.  A step that changes neither siren, emergencyState,     *)
(* modemSem nor the two places the mapping names is a stutter; seven kinds *)
(* of step are the seven steps of the promise.                             *)
(***************************************************************************)
Quiet == UNCHANGED <<siren, emergencyState, modemSem, modemPc>>

\* A step that leaves the alarm and the modem task alone stutters in AlarmPromise.
LEMMA QuietStutters ==
  ASSUME Quiet, UNCHANGED mainPc \/ (mainPc # "postModem" /\ mainPc' # "postModem")
  PROVE  UNCHANGED Promise!vars
  BY DEF Quiet, Promise!vars

\* The main task's steps are steps of the promise or stutter.
LEMMA MainPromise ==
  ASSUME IInv, MainProceeds \/ MainWaits
  PROVE  [Promise!Next]_(Promise!vars)
  <1> USE DEF Go, events, alarm, IInv, Shown
  <1>8. CASE \/ itInit \/ EXTILine0_11_Config \/ App_EventCreate \/ accelerometerCompassInit
    BY <1>8, QuietStutters DEF Quiet, itInit, EXTILine0_11_Config, App_EventCreate,
       accelerometerCompassInit, SetUp
  <1>9. CASE App_TaskCreate
    BY <1>9 DEF App_TaskCreate, SetUpInOrder, Promise!vars
  <1>1. CASE \/ checkAndSetSettings \/ init_picture_count \/ CameraCapture \/ jpeg_test
    BY <1>1, QuietStutters, HoldFacts DEF Quiet, checkAndSetSettings, init_picture_count,
       CameraCapture, jpeg_test, TakeCard, GiveCard
  <1>2. CASE \/ Camera \/ ClearFlags \/ ClearSem \/ Wake \/ Decide \/ StartTimer
             \/ TouchFlagged \/ Touched \/ Key \/ NotCancelled \/ Cancelled
    BY <1>2, QuietStutters DEF Quiet, Camera, ClearFlags, ClearSem, Wake, Decide, StartTimer,
       TouchFlagged, Touched, Key, NotCancelled, Cancelled
  <1>3. CASE SineOn
    <2>1. ~siren /\ ~emergencyState
      BY <1>3 DEF SineOn, LoopTop, Booting
    <2>2. Promise!Detect
      BY <1>3, <2>1 DEF SineOn, Promise!Detect
    <2> QED
      BY <2>2 DEF Promise!Next
  <1>4. CASE SendUpdates
    <2>1. siren /\ ~emergencyState
      BY <1>4 DEF SendUpdates, SirenOn
    <2>2. Promise!Raise
      BY <1>4, <2>1 DEF SendUpdates, Promise!Raise
    <2> QED
      BY <2>2 DEF Promise!Next
  <1>5. CASE PostModem
    <2>1. siren /\ emergencyState
      BY <1>5 DEF PostModem, InAlarm
    <2>2. Promise!Notify
      BY <1>5, <2>1 DEF PostModem, Promise!Notify
    <2> QED
      BY <2>2 DEF Promise!Next
  <1>6. CASE SineOff
    <2>1. siren
      BY <1>6 DEF SineOff
    <2>2. CASE emergencyState
      BY <1>6, <2>2 DEF SineOff, Promise!vars
    <2>3. CASE ~emergencyState
      <3>1. Promise!Cancel
        BY <1>6, <2>1, <2>3 DEF SineOff, Promise!Cancel
      <3> QED
        BY <3>1 DEF Promise!Next
    <2> QED
      BY <2>2, <2>3
  <1>7. CASE StopUpdates
    <2>1. ~siren
      BY <1>7 DEF StopUpdates
    <2>2. CASE ~emergencyState
      BY <1>7, <2>2 DEF StopUpdates, Promise!vars, IInv, TypeOK
    <2>3. CASE emergencyState
      <3>1. Promise!Clear
        BY <1>7, <2>1, <2>3 DEF StopUpdates, Promise!Clear
      <3> QED
        BY <3>1 DEF Promise!Next
    <2> QED
      BY <2>2, <2>3
  <1> QED
    BY <1>1, <1>2, <1>3, <1>4, <1>5, <1>6, <1>7, <1>8, <1>9 DEF MainProceeds, MainWaits

\* The modem task's steps are steps of the promise or stutter.
LEMMA ModemPromise ==
  ASSUME IInv, Modem
  PROVE  [Promise!Next]_(Promise!vars)
  <1> USE DEF ModemGo
  <1>1. CASE \/ ModemInit \/ ModemTimeout \/ GpsReceive \/ CheckState \/ GpsUpdate
             \/ PicturePend \/ PictureSent
    BY <1>1 DEF ModemInit, ModemTimeout, GpsReceive, CheckState, GpsUpdate, PicturePend,
       PictureSent, Promise!vars
  <1>2. CASE ModemTake
    <2>1. Promise!StartDelivery
      BY <1>2 DEF ModemTake, Promise!StartDelivery
    <2> QED
      BY <2>1 DEF Promise!Next
  <1>3. CASE SmsSend
    <2>1. Promise!FinishDelivery
      BY <1>3 DEF SmsSend, Promise!FinishDelivery
    <2> QED
      BY <2>1 DEF Promise!Next
  <1> QED
    BY <1>1, <1>2, <1>3 DEF Modem

\* Every step of the system is a step of the promise or stutters.
LEMMA PromiseStep == IInv /\ [Next]_vars => [Promise!Next]_(Promise!vars)
  <1> SUFFICES ASSUME IInv, [Next]_vars PROVE [Promise!Next]_(Promise!vars)
    OBVIOUS
  <1>3. CASE Button_Handler \/ LSM303_Acc_ISR
    <2>1. UNCHANGED <<siren, emergencyState, modemSem, modemPc>> /\ mainPc' \in {mainPc, "halt"}
      BY <1>3 DEF Button_Handler, LSM303_Acc_ISR, Interrupt, alarm
    <2>2. mainPc' = "halt" => mainPc' = mainPc \/ mainPc # "postModem"
      BY <1>3 DEF Button_Handler, LSM303_Acc_ISR, Interrupt, IInv, SetUpInOrder, Parts, Booting
    <2> QED
      BY <2>1, <2>2, QuietStutters DEF Quiet
  <1>1. CASE Timer \/ StoreTimeout
    BY <1>1, QuietStutters DEF Quiet, Timer, CountDown, LoadFlags, StoreTimeout, alarm
  <1>2. CASE UNCHANGED vars
    BY <1>2, QuietStutters DEF vars, Quiet
  <1> QED
    BY <1>1, <1>2, <1>3, MainPromise, ModemPromise DEF Next, Spin

\* app.c implements AlarmPromise: exactly one notification per alarm, queued
\* before the alarm can be cleared, delivered one at a time.
THEOREM PromiseKept == Spec => KeepsPromise
  <1>1. Init => Promise!Init
    BY DEF Init, Promise!Init
  <1> QED
    BY <1>1, PromiseStep, InvariantIInv, PTL DEF Spec, KeepsPromise, Promise!Spec
=============================================================================
