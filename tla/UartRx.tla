------------------------------- MODULE UartRx -------------------------------
(***************************************************************************)
(* The receive path of the modem driver (modem.c): the USART interrupt     *)
(* fills the ring rx_buffer and posts uartRecvSem once per stored          *)
(* character; modemGetNextLine, in the modem task, empties the ring and    *)
(* pends on the semaphore, with a timeout, when it finds it empty.  They   *)
(* share rx_buffer, rx_in and rx_out without masking the interrupt (the    *)
(* calls that did are commented out).                                      *)
(*                                                                         *)
(* The interrupt preempts the task anywhere: a step of the task is one     *)
(* access to what the two share, and Modem_USART1_IRQ is one step.         *)
(***************************************************************************)
EXTENDS Naturals, Sequences

CONSTANTS
  Size,      \* RX_BUFFER_SIZE, 255 in modem.c
  Char,      \* what the modem may send
  NewLine,   \* '\n'
  Junk,      \* the characters the interrupt drops: controls, non-ASCII
  NoChar,    \* empty data register
  SemLimit,  \* BOUND on uartRecvSem (65535 in the kernel)
  MaxLine    \* BOUND on the characters the modem sends without a newline

ASSUME SizeAssumption == Size \in Nat /\ Size >= 2
ASSUME CharAssumption ==
  Junk \subseteq Char /\ NewLine \in Char \ Junk /\ NoChar \notin Char
ASSUME BoundAssumption == SemLimit \in Nat /\ MaxLine \in Nat

VARIABLES
  rx_buffer, rx_in, rx_out,
  uartRecvSem,   \* its count
  dr,            \* a character the full ring left in the USART's data register
  rx_line,       \* the line being assembled, newline included
  pc,            \* where modemGetNextLine is
  perr,          \* what its last OSSemPend returned
  result         \* what its last call returned

vars == <<rx_buffer, rx_in, rx_out, uartRecvSem, dr, rx_line, pc, perr, result>>

Slots == 0 .. Size - 1

\* Mutant: off by one.
RX_CIRC_INC_Past(x) == (x + 1) % (Size + 1)

RX_CIRC_INC(x) == (x + 1) % Size

Init ==
  /\ \E nul \in Junk : rx_buffer = [i \in Slots |-> nul]   \* static ... = {0}
  /\ rx_in = 0
  /\ rx_out = 0
  /\ uartRecvSem = 0
  /\ dr = NoChar
  /\ rx_line = <<>>
  /\ pc = "idle"
  /\ perr = "none"
  /\ result = "none"

-----------------------------------------------------------------------------
\* How many characters wait in the ring, and which.
Count == IF rx_in >= rx_out THEN rx_in - rx_out ELSE rx_in + Size - rx_out
Contents == [k \in 1..Count |-> rx_buffer[(rx_out + k - 1) % Size]]

\* What the reader has not yet taken: between its read of a slot and its store
\* to rx_out that slot is still in the ring.
Waiting == IF pc = "advance" THEN Tail(Contents) ELSE Contents

(***************************************************************************)
(* Modem_USART1_IRQ, for one received character.  A character that finds   *)
(* the ring full stays in the data register; since the handler does not    *)
(* read it, the interrupt stays pending and is taken again at once, for    *)
(* ever: nothing else runs (Storm).                                        *)
(***************************************************************************)
\* BOUND: the modem ends its lines.
EndsLines(c) ==
  LET sent == rx_line \o Waiting
  IN  \/ c = NewLine
      \/ Len(sent) < MaxLine
      \/ \E i \in 1..Len(sent) : i + MaxLine > Len(sent) /\ sent[i] = NewLine

\* Mutant: the ring is not tested for being full.
Full_Never == FALSE

Full == RX_CIRC_INC(rx_in) = rx_out

\* Mutant: the character is stored without a post.
Store_NoPost(c) ==
  /\ rx_buffer' = [rx_buffer EXCEPT ![rx_in] = c]
  /\ rx_in' = IF c \in Junk THEN rx_in ELSE RX_CIRC_INC(rx_in)
  /\ UNCHANGED <<uartRecvSem, dr>>

Store(c) ==
  /\ rx_buffer' = [rx_buffer EXCEPT ![rx_in] = c]
  /\ IF c \in Junk
     THEN UNCHANGED <<rx_in, uartRecvSem>>
     ELSE /\ rx_in' = RX_CIRC_INC(rx_in)
          /\ uartRecvSem' = uartRecvSem + 1
  /\ UNCHANGED dr

Modem_USART1_IRQ(c) ==
  /\ dr = NoChar
  /\ uartRecvSem < SemLimit
  /\ EndsLines(c)
  /\ IF Full
     THEN /\ dr' = c
          /\ UNCHANGED <<rx_buffer, rx_in, uartRecvSem>>
     ELSE Store(c)
  /\ UNCHANGED <<rx_out, rx_line, pc, perr, result>>

Storm == dr # NoChar /\ UNCHANGED vars

-----------------------------------------------------------------------------
(***************************************************************************)
(* modemGetNextLine.                                                       *)
(***************************************************************************)
Go(p, q) ==
  /\ dr = NoChar
  /\ pc = p
  /\ pc' = q
  /\ UNCHANGED <<rx_buffer, rx_in, dr>>

Call ==
  /\ Go("idle", "test")
  /\ rx_line' = <<>>
  /\ UNCHANGED <<rx_out, uartRecvSem, perr, result>>

\* `in = rx_in; out = rx_out; if (in == out)': only rx_in changes under the task.
Test ==
  /\ Go("test", IF rx_in = rx_out THEN "pend" ELSE "copy")
  /\ UNCHANGED <<rx_out, uartRecvSem, rx_line, perr, result>>

\* OSSemPend(uartRecvSem, timeout_ms, &perr)
Pend ==
  /\ uartRecvSem > 0
  /\ Go("pend", "retest")
  /\ uartRecvSem' = uartRecvSem - 1
  /\ perr' = "none"
  /\ UNCHANGED <<rx_out, rx_line, result>>

PendTimeout ==
  /\ uartRecvSem = 0
  /\ Go("pend", "retest")
  /\ perr' = "timeout"
  /\ UNCHANGED <<rx_out, uartRecvSem, rx_line, result>>

\* Mutant: the ring is not looked at again.
GivesUp_OnError == perr # "none"

\* `if((perr != OS_ERR_NONE) && (in == out)) return RECV_TIMEOUT'
GivesUp == perr # "none" /\ rx_in = rx_out

\* Mutant: it pends again without testing the ring.
Retest_Repend ==
  /\ IF GivesUp
     THEN Go("retest", "idle") /\ result' = "timeout"
     ELSE Go("retest", "pend") /\ UNCHANGED result
  /\ UNCHANGED <<rx_out, uartRecvSem, rx_line, perr>>

Retest ==
  /\ IF GivesUp
     THEN Go("retest", "idle") /\ result' = "timeout"
     ELSE Go("retest", "test") /\ UNCHANGED result
  /\ UNCHANGED <<rx_out, uartRecvSem, rx_line, perr>>

Copy ==
  /\ Go("copy", "advance")
  /\ rx_line' = Append(rx_line, rx_buffer[rx_out])
  /\ UNCHANGED <<rx_out, uartRecvSem, perr, result>>

\* The end of the body and the loop's condition.
LineEnded == rx_line # <<>> /\ rx_line[Len(rx_line)] = NewLine

Advance ==
  /\ IF LineEnded
     THEN Go("advance", "idle") /\ result' = "line"
     ELSE Go("advance", "test") /\ UNCHANGED result
  /\ rx_out' = RX_CIRC_INC(rx_out)
  /\ UNCHANGED <<uartRecvSem, rx_line, perr>>

Reader == Test \/ Pend \/ PendTimeout \/ Retest \/ Copy \/ Advance

Next ==
  \/ \E c \in Char : Modem_USART1_IRQ(c)
  \/ Storm
  \/ Call
  \/ Reader

Spec == Init /\ [][Next]_vars

(***************************************************************************)
(* Fairness.  A call that can proceed does: OSSemPend returns, at the      *)
(* latest at its timeout.  Nothing says that the task calls again.         *)
(***************************************************************************)
FairSpec == Spec /\ WF_vars(Reader)

-----------------------------------------------------------------------------
(***************************************************************************)
(* Properties.                                                             *)
(***************************************************************************)
TypeOK ==
  /\ rx_buffer \in [Slots -> Char]
  /\ rx_in \in Slots
  /\ rx_out \in Slots
  /\ uartRecvSem \in 0..SemLimit
  /\ dr \in Char \cup {NoChar}
  /\ rx_line \in Seq(Char)
  /\ pc \in {"idle", "test", "pend", "retest", "copy", "advance"}
  /\ perr \in {"none", "timeout"}
  /\ result \in {"none", "line", "timeout"}

\* No lost wake-up: while the task sleeps, or is about to, on its finding that
\* the ring was empty, every character that has come in since has left a count
\* in the semaphore, although rx_in was read with the interrupt enabled.
NoLostWakeUp ==
  /\ pc = "pend" => uartRecvSem >= Count
  /\ pc = "retest" /\ perr = "timeout" => uartRecvSem >= Count

\* The reader never takes a slot the interrupt has not filled, nor one that it
\* may be filling: between the test and the store to rx_out the ring is not empty.
ReadsFilledSlot == pc \in {"copy", "advance"} => Count > 0

\* The receive path implements the line channel: every accepted character is
\* handed over once and in order, and a timeout is reported only with an empty ring.
Channel == INSTANCE LineChannel WITH
  Char     <- Char \ Junk,
  Capacity <- Size - 1,
  queue    <- Waiting,
  line     <- rx_line,
  outcome  <- IF pc = "advance" /\ LineEnded THEN "line"
              ELSE IF pc = "idle" THEN result ELSE "reading"

ImplementsChannel == Channel!Spec

\* A call under way returns once its line is complete in the ring, unless the
\* full ring lets the interrupt run for ever.
LineComesOut ==
  (/\ pc # "idle"
   /\ \E k \in 1..Count : Contents[k] = NewLine)
  ~> (pc = "idle" \/ dr # NoChar)
=============================================================================
