----------------------------- MODULE LineChannel -----------------------------
(***************************************************************************)
(* What the modem's receive path promises to the code that waits for       *)
(* responses: the accepted characters form a queue; they are handed over   *)
(* once each and in order; a call ends at a newline, or gives up when the  *)
(* queue is empty, in which case the part of the line already taken is     *)
(* gone.  Module UartRx is shown to implement this.                        *)
(***************************************************************************)
EXTENDS Naturals, Sequences

CONSTANTS
  Char,      \* the characters that may be accepted
  NewLine,   \* the one that ends a line
  Capacity   \* how many characters wait at most

VARIABLES
  queue,     \* accepted, not yet taken
  line,      \* what the current or last call has taken
  outcome    \* "reading" during a call, else how the last call ended

vars == <<queue, line, outcome>>

Init ==
  /\ queue = <<>>
  /\ line = <<>>
  /\ outcome = "none"

Accept(c) ==
  /\ Len(queue) < Capacity
  /\ queue' = Append(queue, c)
  /\ UNCHANGED <<line, outcome>>

Start ==
  /\ outcome # "reading"
  /\ outcome' = "reading"
  /\ line' = <<>>
  /\ UNCHANGED queue

Take ==
  /\ outcome = "reading"
  /\ queue # <<>>
  /\ line' = Append(line, Head(queue))
  /\ queue' = Tail(queue)
  /\ outcome' = IF Head(queue) = NewLine THEN "line" ELSE "reading"

GiveUp ==
  /\ outcome = "reading"
  /\ queue = <<>>
  /\ outcome' = "timeout"
  /\ UNCHANGED <<queue, line>>

Next == (\E c \in Char : Accept(c)) \/ Start \/ Take \/ GiveUp

Spec == Init /\ [][Next]_vars
=============================================================================
