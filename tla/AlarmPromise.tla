---------------------------- MODULE AlarmPromise ----------------------------
(***************************************************************************)
(* What the pepper-spray firmware promises its user, stripped of tasks,    *)
(* interrupts and timers:                                                  *)
(*                                                                         *)
(*   - a detected event first makes the device "pending" (siren on);       *)
(*   - a pending event is either cancelled or raised to an alarm;          *)
(*   - an alarm owes its owner exactly one notification (photo upload and  *)
(*     text message), and is not cleared before that has been queued;      *)
(*   - queued notifications are delivered one at a time, none is invented  *)
(*     and none is dropped.                                                *)
(*                                                                         *)
(* Module Emergency, the model of app.c, is shown to implement this.       *)
(***************************************************************************)
EXTENDS Naturals

VARIABLES
  mode,        \* "armed", "pending" or "alarm": what the siren and updates show
  told,        \* has the alarm in progress queued its notification?
  owed,        \* notifications queued and not yet being delivered
  delivering   \* is a notification being delivered?

vars == <<mode, told, owed, delivering>>

Init ==
  /\ mode = "armed"
  /\ told = FALSE
  /\ owed = 0
  /\ delivering = FALSE

Detect ==
  /\ mode = "armed"
  /\ mode' = "pending"
  /\ UNCHANGED <<told, owed, delivering>>

Cancel ==
  /\ mode = "pending"
  /\ mode' = "armed"
  /\ UNCHANGED <<told, owed, delivering>>

Raise ==
  /\ mode = "pending"
  /\ mode' = "alarm"
  /\ UNCHANGED <<told, owed, delivering>>

Notify ==
  /\ mode = "alarm"
  /\ ~told
  /\ told' = TRUE
  /\ owed' = owed + 1
  /\ UNCHANGED <<mode, delivering>>

Clear ==
  /\ mode = "alarm"
  /\ told
  /\ mode' = "armed"
  /\ told' = FALSE
  /\ UNCHANGED <<owed, delivering>>

StartDelivery ==
  /\ owed > 0
  /\ ~delivering
  /\ owed' = owed - 1
  /\ delivering' = TRUE
  /\ UNCHANGED <<mode, told>>

FinishDelivery ==
  /\ delivering
  /\ delivering' = FALSE
  /\ UNCHANGED <<mode, told, owed>>

Next ==
  \/ Detect \/ Cancel \/ Raise \/ Notify \/ Clear
  \/ StartDelivery \/ FinishDelivery

Spec == Init /\ [][Next]_vars
=============================================================================
