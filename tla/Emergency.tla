------------------------------ MODULE Emergency ------------------------------
(***************************************************************************)
(* The core of the firmware: the main task's event loop (app.c,            *)
(* App_TaskStart), the button and accelerometer interrupts (app_it.c), the *)
(* count-down callback that runs in the kernel's timer task, the modem     *)
(* task, and the semaphores, flags and SD-card mutex they share.           *)
(*                                                                         *)
(* Scheduling.  The main task (priority 3) preempts the modem task (4),    *)
(* which preempts the kernel's timer task (61); the interrupt handlers     *)
(* preempt every task and do not nest with each other, so a handler is one *)
(* step.  The kernel (uC/OS-II 2.91, not in the repository) runs timer     *)
(* callbacks with its scheduler locked: while one is in progress no task   *)
(* runs, but interrupts do.                                                *)
(*                                                                         *)
(* A step of a task is the stretch between two accesses to shared state.   *)
(***************************************************************************)
EXTENDS Naturals

CONSTANTS
  CountDownStart,  \* ticks shown before an impact becomes an alarm (10 in app.c)
  SemLimit         \* BOUND on both semaphore counts (the kernel's own is 65535)

ASSUME CountDownAssumption == CountDownStart \in Nat \ {0}
ASSUME SemLimitAssumption == SemLimit \in Nat \ {0}

VARIABLES
  appFlags,        \* the bits of appFlags that are set
  emergencySem,    \* count of emergencySem
  modemSem,        \* count of modemSem
  emergencyState,  \* TRUE is SEND_UPDATES, FALSE is STOP_UPDATES
  siren,           \* sineOn() / sineOff()
  timer,           \* state of the impact timer: "stopped" or "running"
  countDown,       \* the callback's static counter
  cbFlags,         \* the value of appFlags the callback has loaded, or NoLoad
  sdOwner,         \* owner of SDMutex: "none", "main" or "modem"
  photo,           \* image.jpg on the card: "none", "partial" or "whole"
  ready,           \* what the start-up has set up so far, of Parts
  mainPc,          \* where the main task is
  modemPc          \* where the modem task is

vars == <<appFlags, emergencySem, modemSem, emergencyState, siren, timer,
          countDown, cbFlags, sdOwner, photo, ready, mainPc, modemPc>>

events == <<appFlags, emergencySem>>
alarm  == <<modemSem, emergencyState, siren>>
clock  == <<timer, countDown, cbFlags>>
card   == <<sdOwner, photo, ready>>

Flags == {"button", "impact", "timeout"}   \* EMER_BUTTON, EMER_IMPACT, APP_TIMEOUT
NoLoad == Flags \cup {"none"}              \* no SUBSET of Flags

\* The handlers in the vector table, the kernel's objects, and the interrupts
\* of the button and of the accelerometer.
Parts == {"handlers", "objects", "button", "impact"}

(***************************************************************************)
(* Who may run.                                                            *)
(***************************************************************************)

\* The main task's states inside a mutex section, keyed by the state that pends.
Hold == [cfgPend |-> "cfgHold",  \* checkAndSetSettings
         numPend |-> "numHold",  \* get_pic_count, from init_picture_count
         bmpPend |-> "bmpHold",  \* Capture_Image_TO_Bmp
         cntPend |-> "cntHold",  \* set_pic_count
         jpgPend |-> "jpgHold"]  \* jpeg_test

\* States in which the main task sits in an OSTimeDly.
MainDelays == {"cfgHold", "numHold", "bmpHold", "cntHold", "cancelTouch", "stopTouch"}

MainBlocked ==
  \/ mainPc = "pend" /\ emergencySem = 0
  \/ mainPc \in DOMAIN Hold /\ sdOwner # "none"
  \/ mainPc \in MainDelays

\* States in which the modem task waits for its UART or in an OSTimeDly.
ModemWaits == {"init", "gps", "update", "photo", "sms"}

ModemBlocked ==
  \/ modemPc = "pend" /\ modemSem = 0
  \/ modemPc = "photoPend" /\ sdOwner # "none"
  \/ modemPc \in ModemWaits \cup {"none"}

SchedLocked == cbFlags # NoLoad

MainRuns  == ~SchedLocked
ModemRuns == ~SchedLocked /\ MainBlocked
TimerRuns == ~SchedLocked /\ MainBlocked /\ ModemBlocked

Init ==
  /\ appFlags = {}
  /\ emergencySem = 0
  /\ modemSem = 0
  /\ emergencyState = FALSE
  /\ siren = FALSE
  /\ timer = "stopped"
  /\ countDown = CountDownStart
  /\ cbFlags = NoLoad
  /\ sdOwner = "none"
  /\ photo \in {"none", "whole"}      \* the card may hold an earlier picture
  /\ ready = {}
  /\ mainPc = "itInit"
  /\ modemPc = "none"

-----------------------------------------------------------------------------
(***************************************************************************)
(* The interrupts.  A handler sets its bit and posts in one step; before   *)
(* the semaphore exists only Button_Handler knows not to post it, and      *)
(* before BSP_IntVectSet the handler is the dummy, which clears no pending *)
(* bit.  What it cannot do without, it needs: else it never returns, and   *)
(* no task runs again.  The first guard is the NVIC, the second the bound: *)
(* in the firmware the handler would hang at OS_ERR_SEM_OVF.               *)
(***************************************************************************)
Interrupt(bit, needs) ==
  /\ bit \in ready
  /\ emergencySem < SemLimit
  /\ appFlags' = IF "handlers" \in ready THEN appFlags \cup {bit} ELSE appFlags
  /\ emergencySem' = IF {"handlers", "objects"} \subseteq ready
                       THEN emergencySem + 1 ELSE emergencySem
  /\ mainPc' = IF needs \subseteq ready THEN mainPc ELSE "halt"
  /\ UNCHANGED <<alarm, clock, card, modemPc>>

Button_Handler == Interrupt("button", {"handlers"})
LSM303_Acc_ISR == Interrupt("impact", {"handlers", "objects"})

-----------------------------------------------------------------------------
\* Mutant: the test for zero is dropped.
Counting_Always == TRUE

(***************************************************************************)
(* impactTimerCallbackFunction, called by the timer task once a second     *)
(* while the timer runs.  `appFlags |= APP_TIMEOUT' is a load and a store, *)
(* between which an interrupt may set another bit.                         *)
(***************************************************************************)
Counting == countDown # 0

CountDown ==
  /\ TimerRuns
  /\ timer = "running"
  /\ Counting
  /\ countDown' = countDown - 1
  /\ UNCHANGED <<events, alarm, timer, cbFlags, card, mainPc, modemPc>>

LoadFlags ==
  /\ TimerRuns
  /\ timer = "running"
  /\ ~Counting
  /\ countDown' = CountDownStart
  /\ cbFlags' = appFlags
  /\ UNCHANGED <<events, alarm, timer, card, mainPc, modemPc>>

\* Mutant: the bit is lost on the way back.
StoreTimeout_Dropped ==
  /\ SchedLocked
  /\ cbFlags' = NoLoad
  /\ UNCHANGED <<events, alarm, timer, countDown, card, mainPc, modemPc>>

StoreTimeout ==
  /\ SchedLocked
  /\ appFlags' = cbFlags \cup {"timeout"}
  /\ cbFlags' = NoLoad
  /\ UNCHANGED <<emergencySem, alarm, timer, countDown, card, mainPc, modemPc>>

-----------------------------------------------------------------------------
(***************************************************************************)
(* The main task.  Go(p, q) is a step of it from p to q.                   *)
(***************************************************************************)
Go(p, q) ==
  /\ MainRuns
  /\ mainPc = p
  /\ mainPc' = q
  /\ UNCHANGED modemPc

\* OSMutexPend(SDMutex, 0) and OSMutexPost(SDMutex) around one use of the card.
TakeCard(p) ==
  /\ sdOwner = "none"
  /\ Go(p, Hold[p])
  /\ sdOwner' = "main"
  /\ UNCHANGED <<events, alarm, clock, ready>>

GiveCard(p, q) ==
  /\ Go(Hold[p], q)
  /\ sdOwner' = "none"
  /\ UNCHANGED <<events, alarm, clock, ready>>

\* App_TaskStart before the loop, in the order of its calls.
SetUp(p, q, parts) ==
  /\ Go(p, q)
  /\ ready' = ready \cup parts
  /\ UNCHANGED <<events, alarm, clock, sdOwner, photo>>

itInit == SetUp("itInit", "exti", {"handlers"})

\* Mutant: the accelerometer's interrupt is enabled with the buttons'.
EXTILine0_11_Config_AllLines == SetUp("exti", "events", {"button", "impact"})

EXTILine0_11_Config == SetUp("exti", "events", {"button"})
App_EventCreate == SetUp("events", "tasks", {"objects"})

App_TaskCreate ==
  /\ MainRuns
  /\ mainPc = "tasks"
  /\ mainPc' = "accel"
  /\ modemPc' = "init"
  /\ UNCHANGED <<events, alarm, clock, card>>

\* The interrupt is enabled before the first register is written over the bus,
\* which is tried again for ever while the sensor does not answer.
accelerometerCompassInit ==
  \/ SetUp("accel", "accelBus", {"impact"})
  \/ SetUp("accelBus", "cfgPend", {})
  \/ SetUp("accelBus", "halt", {})

\* Settings, camera and picture count, before the loop.  The user, the card or
\* the camera may hold checkAndSetSettings or Camera up for ever, in while(1) or
\* in a poll; a while(1) of the main task is the state "halt".
checkAndSetSettings ==
  /\ \/ TakeCard("cfgPend")
     \/ GiveCard("cfgPend", "camera")
     \/ /\ Go("cfgHold", "halt")
        /\ UNCHANGED <<events, alarm, clock, sdOwner, ready>>
  /\ UNCHANGED photo

Camera ==
  /\ Go("camera", "numPend") \/ Go("camera", "halt")
  /\ UNCHANGED <<events, alarm, clock, card>>

init_picture_count ==
  /\ TakeCard("numPend") \/ GiveCard("numPend", "clearFlags")
  /\ UNCHANGED photo

\* The loop: forget the past, then wait for an interrupt to post.
ClearFlags ==
  /\ Go("clearFlags", "clearSem")
  /\ appFlags' = {}
  /\ UNCHANGED <<emergencySem, alarm, clock, card>>

\* Mutant: OSSemSet is forgotten, posts made during an alarm survive it.
ClearSem_Kept ==
  /\ Go("clearSem", "pend")
  /\ UNCHANGED <<events, alarm, clock, card>>

ClearSem ==
  /\ Go("clearSem", "pend")
  /\ emergencySem' = 0
  /\ UNCHANGED <<appFlags, alarm, clock, card>>

Wake ==
  /\ emergencySem > 0
  /\ Go("pend", "sineOn")
  /\ emergencySem' = emergencySem - 1
  /\ UNCHANGED <<appFlags, alarm, clock, card>>

SineOn ==
  /\ Go("sineOn", "bmpPend")
  /\ siren' = TRUE
  /\ UNCHANGED <<events, modemSem, emergencyState, clock, card>>

\* CameraCapture: the picture, then its count, each under the mutex.
CameraCapture ==
  /\ \/ TakeCard("bmpPend")
     \/ GiveCard("bmpPend", "cntPend")
     \/ TakeCard("cntPend")
     \/ GiveCard("cntPend", "jpgPend")
  /\ UNCHANGED photo

\* jpeg_test: opening image.jpg truncates it; encoding makes it whole, unless
\* image.bmp cannot be opened, which leaves it without a picture.
jpeg_test ==
  \/ /\ TakeCard("jpgPend")
     /\ photo' \in {photo, "partial"}
  \/ /\ GiveCard("jpgPend", "decide")
     /\ photo' \in IF photo = "partial" THEN {"whole", "none"} ELSE {photo}

\* `(appFlags & EMER_BUTTON) || !cancelImpact()', up to the call.
Decide ==
  /\ Go("decide", IF "button" \in appFlags THEN "raise" ELSE "startTimer")
  /\ UNCHANGED <<events, alarm, clock, card>>

\* Mutant: OSTmrStart is forgotten.
StartTimer_Forgotten ==
  /\ Go("startTimer", "cancelTouch")
  /\ UNCHANGED <<events, alarm, clock, card>>

\* OSTmrStart restarts a timer that is already running; countDown is untouched.
StartTimer ==
  /\ Go("startTimer", "cancelTouch")
  /\ timer' = "running"
  /\ UNCHANGED <<events, alarm, countDown, cbFlags, card>>

\* OSTmrStop with OS_TMR_OPT_CALLBACK_ARG calls the callback with STOP.
StopTimer ==
  /\ timer' = "stopped"
  /\ countDown' = CountDownStart
  /\ UNCHANGED cbFlags

\* Mutants: a bit is missing from the mask.
CancelMask_NoTimeout == {"button"}
CancelMask_NoButton  == {"timeout"}

\* Touch, inside getPIN: it returns FALSE once a bit of the mask is set, and
\* TRUE when it sees a touch while none is.  BOUND: the user starts no stop PIN
\* while SemLimit notifications wait for the modem task.
CancelMask == {"button", "timeout"}

TouchFlagged ==
  /\ appFlags \cap CancelMask # {}
  /\ Go("cancelTouch", "notCancelled")
  /\ UNCHANGED <<events, alarm, clock, card>>

Touched ==
  /\ \/ appFlags \cap CancelMask = {} /\ Go("cancelTouch", "cancelKey")
     \/ modemSem < SemLimit /\ Go("stopTouch", "stopKey")
  /\ UNCHANGED <<events, alarm, clock, card>>

\* The key completes the right PIN, or more keys are needed.
Key ==
  /\ \/ Go("cancelKey", "cancelled") \/ Go("cancelKey", "cancelTouch")
     \/ Go("stopKey", "sineOff")     \/ Go("stopKey", "stopTouch")
  /\ UNCHANGED <<events, alarm, clock, card>>

\* cancelImpact returning FALSE: as written, the timer is stopped only when it
\* has already timed out.
NotCancelled ==
  /\ Go("notCancelled", "raise")
  /\ IF "timeout" \in appFlags THEN StopTimer ELSE UNCHANGED clock
  /\ UNCHANGED <<events, alarm, card>>

Cancelled ==
  /\ Go("cancelled", "sineOff")
  /\ StopTimer
  /\ UNCHANGED <<events, alarm, card>>

SendUpdates ==
  /\ Go("raise", "postModem")
  /\ emergencyState' = TRUE
  /\ UNCHANGED <<events, modemSem, siren, clock, card>>

\* Mutant: the alarm does not post modemSem.
PostModem_Forgotten ==
  /\ Go("postModem", "stopTouch")
  /\ UNCHANGED <<events, alarm, clock, card>>

PostModem ==
  /\ Go("postModem", "stopTouch")
  /\ modemSem' = modemSem + 1
  /\ UNCHANGED <<events, emergencyState, siren, clock, card>>

SineOff ==
  /\ Go("sineOff", "stopUpdates")
  /\ siren' = FALSE
  /\ UNCHANGED <<events, modemSem, emergencyState, clock, card>>

StopUpdates ==
  /\ Go("stopUpdates", "clearFlags")
  /\ emergencyState' = FALSE
  /\ UNCHANGED <<events, modemSem, siren, clock, card>>

-----------------------------------------------------------------------------
(***************************************************************************)
(* The modem task.                                                         *)
(***************************************************************************)
ModemGo(p, q) ==
  /\ ModemRuns
  /\ modemPc = p
  /\ modemPc' = q
  /\ UNCHANGED <<events, clock, emergencyState, siren, photo, ready, mainPc>>

\* modemInit; when it fails the task spins in while(1), the state "halt".
ModemInit ==
  /\ ModemGo("init", "pend") \/ ModemGo("init", "halt")
  /\ UNCHANGED <<modemSem, sdOwner>>

\* OSSemPend(modemSem, 5000): the semaphore, or the timeout.
ModemTake ==
  /\ modemSem > 0
  /\ ModemGo("pend", "photoPend")
  /\ modemSem' = modemSem - 1
  /\ UNCHANGED sdOwner

ModemTimeout ==
  /\ modemSem = 0
  /\ ModemGo("pend", "gps")
  /\ UNCHANGED <<modemSem, sdOwner>>

GpsReceive ==
  /\ ModemGo("gps", "check")
  /\ UNCHANGED <<modemSem, sdOwner>>

\* Mutant: emergencyState is not tested.
CheckState_Skipped ==
  /\ ModemGo("check", "update")
  /\ UNCHANGED <<modemSem, sdOwner>>

CheckState ==
  /\ ModemGo("check", IF emergencyState THEN "update" ELSE "pend")
  /\ UNCHANGED <<modemSem, sdOwner>>

GpsUpdate ==
  /\ ModemGo("update", "pend")
  /\ UNCHANGED <<modemSem, sdOwner>>

\* Mutant: the upload does not pend on SDMutex.
PicturePend_NoMutex ==
  /\ ModemGo("photoPend", "photo")
  /\ UNCHANGED <<modemSem, sdOwner>>

PicturePend ==
  /\ sdOwner = "none"
  /\ ModemGo("photoPend", "photo")
  /\ sdOwner' = "modem"
  /\ UNCHANGED modemSem

\* Mutant: the text message is skipped.
PictureSent_NoSms ==
  /\ ModemGo("photo", "pend")
  /\ sdOwner' = "none"
  /\ UNCHANGED modemSem

PictureSent ==
  /\ ModemGo("photo", "sms")
  /\ sdOwner' = "none"
  /\ UNCHANGED modemSem

SmsSend ==
  /\ ModemGo("sms", "pend")
  /\ UNCHANGED <<modemSem, sdOwner>>

\* A task in while(1) keeps the processor from the tasks below it.
Spin ==
  /\ mainPc = "halt" \/ (modemPc = "halt" /\ ModemRuns)
  /\ UNCHANGED vars

-----------------------------------------------------------------------------
\* The main task's steps that wait for nobody, and those that wait for the user.
MainProceeds ==
  \/ itInit \/ EXTILine0_11_Config \/ App_EventCreate \/ App_TaskCreate
  \/ init_picture_count \/ ClearFlags \/ ClearSem \/ Wake \/ SineOn
  \/ CameraCapture \/ jpeg_test \/ Decide \/ StartTimer \/ TouchFlagged \/ Key
  \/ NotCancelled \/ Cancelled \/ SendUpdates \/ PostModem \/ SineOff
  \/ StopUpdates

MainWaits == accelerometerCompassInit \/ checkAndSetSettings \/ Camera \/ Touched

Modem ==
  \/ ModemInit \/ ModemTake \/ ModemTimeout \/ GpsReceive \/ CheckState
  \/ GpsUpdate \/ PicturePend \/ PictureSent \/ SmsSend

Timer == CountDown \/ LoadFlags

Next ==
  \/ Button_Handler \/ LSM303_Acc_ISR
  \/ Timer \/ StoreTimeout
  \/ MainProceeds \/ MainWaits
  \/ Modem
  \/ Spin

Spec == Init /\ [][Next]_vars

(***************************************************************************)
(* Fairness.  An unfinished callback is finished before any task runs (WF). *)
(* The main task has the highest priority and waits for nothing but such   *)
(* callbacks: whenever it can proceed between two of them, it does (SF).   *)
(* The lower tasks get the processor whenever the main task sleeps, which  *)
(* it does in every Touch: enabled again and again, not continuously (SF). *)
(* Nothing is assumed of the user, of the interrupts, or of the            *)
(* accelerometer, settings and camera start-up.                            *)
(***************************************************************************)
Fairness ==
  /\ SF_vars(MainProceeds)
  /\ SF_vars(Modem)
  /\ SF_vars(Timer)
  /\ WF_vars(StoreTimeout)

FairSpec == Spec /\ Fairness

-----------------------------------------------------------------------------
(***************************************************************************)
(* Properties.                                                             *)
(***************************************************************************)

\* Where the main task is while cancelImpact runs with its timer started.
Cancelling == {"cancelTouch", "cancelKey", "notCancelled", "cancelled"}

\* From the wake-up to the decision whether the event is an alarm.
Deciding == {"sineOn", "bmpPend", "bmpHold", "cntPend", "cntHold", "jpgPend",
             "jpgHold", "decide", "startTimer", "cancelTouch"}

\* App_TaskStart up to accelerometerCompassInit.
Booting == {"itInit", "exti", "events", "tasks", "accel", "accelBus"}

MainPcs ==
  Booting \cup Cancelling \cup Deciding \cup
  {"cfgPend", "cfgHold", "camera", "numPend", "numHold", "clearFlags", "clearSem",
   "pend", "raise", "postModem", "stopTouch", "stopKey", "sineOff", "stopUpdates",
   "halt"}

ModemPcs == ModemWaits \cup {"none", "pend", "check", "photoPend", "halt"}

\* Every variable has its type; in particular the callback never counts
\* below zero (app.c:1290) and no semaphore count is negative.
TypeOK ==
  /\ appFlags \in SUBSET Flags
  /\ emergencySem \in 0..SemLimit
  /\ modemSem \in 0..SemLimit
  /\ emergencyState \in BOOLEAN
  /\ siren \in BOOLEAN
  /\ timer \in {"stopped", "running"}
  /\ countDown \in 0..CountDownStart
  /\ cbFlags \in (SUBSET Flags) \cup {NoLoad}
  /\ sdOwner \in {"none", "main", "modem"}
  /\ photo \in {"none", "partial", "whole"}
  /\ ready \in SUBSET Parts
  /\ mainPc \in MainPcs
  /\ modemPc \in ModemPcs

\* The error loops `while(1)' after OSTmrStop, OSMutexPost and an interrupt's
\* OSSemPost are unreachable: whenever the timer is stopped it runs (else perr is
\* OS_ERR_TMR_STOPPED), whoever posts SDMutex owns it (app.c:575, 587, 172;
\* modem.c:608), and no interrupt comes before what its handler needs, for all
\* that the button's is enabled long before the kernel's objects (app.c:608).
NoKernelError ==
  /\ mainPc = "cancelled" => timer = "running"
  /\ mainPc = "notCancelled" /\ "timeout" \in appFlags => timer = "running"
  /\ \A p \in DOMAIN Hold : mainPc = Hold[p] => sdOwner = "main"
  /\ modemPc = "photo" => sdOwner = "modem"
  /\ mainPc = "halt" => ready = Parts

\* The modem task never uploads an image.jpg that jpeg_test is in the middle
\* of writing, although main preempts it at any point of the upload.
PhotoWhole == modemPc = "photo" => photo # "partial"

\* A wake-up is never spurious: when emergencySem lets the main task go, or
\* has, appFlags says why, although the bits and the count are cleared in two
\* steps and the timer callback may overwrite a bit.
WakeExplained ==
  mainPc \in Deciding \cup Cancelling \/ (mainPc = "pend" /\ emergencySem > 0)
    => appFlags # {}

\* A PIN accepted in cancelImpact was entered before the count-down ran out:
\* a timed-out impact is never cancelled.
CancelBeforeTimeout == mainPc \in {"cancelKey", "cancelled"} => "timeout" \notin appFlags

\* A button press that finds the device waiting for an event, photographing it or
\* offering to cancel it raises an alarm, even if the callback's store wipes the bit.
PressRaisesAlarm ==
  (/\ "button" \in appFlags
   /\ mainPc \in Deciding \/ (mainPc = "pend" /\ emergencySem > 0))
  ~> emergencyState

\* cancelImpact ends, PIN or no PIN, unless the modem task hangs in App_ModemTask.
CancelEnds == mainPc \in Cancelling ~> (mainPc \notin Cancelling \/ modemPc = "halt")

\* Every queued notification reaches the text message, unless the modem task hangs.
NotificationSent == modemSem > 0 ~> modemPc \in {"sms", "halt"}

\* GPS updates flow for as long as an alarm lasts, and cease after it.
UpdatesFollowAlarm ==
  /\ <>[]emergencyState => []<>(modemPc \in {"update", "halt"})
  /\ <>[]~emergencyState => <>[](modemPc # "update")

\* app.c implements the promise: every alarm queues exactly one notification
\* before it can be cleared, and the modem task delivers them one at a time.
Promise == INSTANCE AlarmPromise WITH
  mode       <- IF emergencyState THEN "alarm" ELSE IF siren THEN "pending" ELSE "armed",
  told       <- emergencyState /\ mainPc # "postModem",
  owed       <- modemSem,
  delivering <- modemPc \in {"photoPend", "photo", "sms"}

KeepsPromise == Promise!Spec

(***************************************************************************)
(* What comments of the code say and the code does not do.  README.md says *)
(* which of these a run refutes, and with which constants TLC refutes the  *)
(* others.                                                                 *)
(***************************************************************************)

\* app.c:571 "If the timeout has not happened, stop the timer": the impact
\* timer runs only while cancelImpact is waiting for the PIN.
TimerOnlyWhileCancelling == timer = "running" => mainPc \in Cancelling

\* app.c:647 "In the impact case the user will have the oppertunity to cancel
\* the emergency algorithm": cancelImpact starts with the whole count-down
\* ahead of it and no timeout already noted.
ImpactGetsItsCountDown ==
  [][mainPc = "startTimer" /\ mainPc' = "cancelTouch" =>
       countDown = CountDownStart /\ "timeout" \notin appFlags]_vars

\* app.c:648 "Pressing the emergency button always results in entering the
\* emergency algorithm": a press once the device has started leads to an alarm.
ButtonAlwaysAlarms ==
  ("button" \in appFlags /\ mainPc \in {"clearSem", "pend"} \cup Deciding) ~> emergencyState

\* app.c:567 "getPIN will return FALSE if it was not able to get a complete pin
\* due to the emergency button being pressed or because of a timeout".
ImpactTimesOut == mainPc \in Cancelling ~> mainPc \notin Cancelling
=============================================================================
