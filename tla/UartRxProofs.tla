---------------------------- MODULE UartRxProofs ----------------------------
(***************************************************************************)
(* Proofs about UartRx, for every size of the ring, every alphabet and     *)
(* every bound.                                                            *)
(***************************************************************************)
EXTENDS UartRx, TLAPS

-----------------------------------------------------------------------------
(***************************************************************************)
(* The ring.                                                               *)
(***************************************************************************)

\* RX_CIRC_INC steps to the next slot and wraps after the last.
LEMMA IncFacts ==
  ASSUME NEW x \in Slots
  PROVE  /\ RX_CIRC_INC(x) = IF x = Size - 1 THEN 0 ELSE x + 1
         /\ RX_CIRC_INC(x) \in Slots
  BY SizeAssumption DEF Slots, RX_CIRC_INC

\* The k-th slot from o on.
LEMMA SlotFacts ==
  ASSUME NEW o \in Slots, NEW k \in 1..Size
  PROVE  /\ (o + k - 1) % Size = IF o + k - 1 < Size THEN o + k - 1 ELSE o + k - 1 - Size
         /\ (o + k - 1) % Size \in Slots
  BY SizeAssumption DEF Slots

\* The ring holds at most Size - 1 characters; it is empty when the indices
\* are equal, and full when one more character would make them so.
LEMMA CountFacts ==
  ASSUME rx_in \in Slots, rx_out \in Slots
  PROVE  /\ Count \in 0 .. Size - 1
         /\ Count = 0 <=> rx_in = rx_out
         /\ Full <=> Count = Size - 1
  BY SizeAssumption, IncFacts DEF Count, Slots, Full

\* The ring's contents are a sequence of Count characters.
LEMMA ContentsFacts ==
  TypeOK => Contents \in Seq(Char) /\ Len(Contents) = Count
<1> SUFFICES ASSUME TypeOK
             PROVE  Contents \in Seq(Char) /\ Len(Contents) = Count
  OBVIOUS
<1> USE DEF TypeOK
<1>1. Count \in 0 .. Size - 1
  BY CountFacts
<1>2. \A k \in 1..Count : rx_buffer[(rx_out + k - 1) % Size] \in Char
  <2> TAKE k \in 1..Count
  <2>1. k \in 1..Size
    BY <1>1, SizeAssumption
  <2>2. (rx_out + k - 1) % Size \in Slots
    BY <2>1, SlotFacts
  <2> QED
    BY <2>2
<1> QED
  BY <1>1, <1>2 DEF Contents

\* Storing a character in a ring that is not full appends it to the contents.
LEMMA StoreAppends ==
  ASSUME TypeOK, TypeOK', ~Full, NEW c \in Char,
         rx_buffer' = [rx_buffer EXCEPT ![rx_in] = c],
         rx_in' = RX_CIRC_INC(rx_in), rx_out' = rx_out
  PROVE  Count' = Count + 1 /\ Contents' = Append(Contents, c)
<1>1. rx_in \in Slots /\ rx_out \in Slots /\ Size \in Nat /\ Size >= 2
  BY SizeAssumption DEF TypeOK
<1>2. rx_in' = IF rx_in = Size - 1 THEN 0 ELSE rx_in + 1
  BY <1>1, IncFacts
<1>3. Count \in 0 .. Size - 2
  BY <1>1, CountFacts
<1>4. Count' = Count + 1
  BY <1>1, <1>2, <1>3 DEF Count, Slots
<1>5. \A k \in 1..Count' :
        Contents'[k] = IF k = Count + 1 THEN c ELSE Contents[k]
  <2> TAKE k \in 1..Count'
  <2>1. k \in 1..Size
    BY <1>3, <1>4, SizeAssumption
  <2> DEFINE s == (rx_out + k - 1) % Size
  <2>2. s \in Slots /\ s = IF rx_out + k - 1 < Size THEN rx_out + k - 1 ELSE rx_out + k - 1 - Size
    BY <1>1, <2>1, SlotFacts
  <2>3. Contents'[k] = rx_buffer'[s]
    BY DEF Contents
  <2>4. k # Count + 1 => Contents[k] = rx_buffer[s]
    BY <1>3, <1>4 DEF Contents
  <2> HIDE DEF s
  <2>5. s = rx_in <=> k = Count + 1
    BY <1>1, <1>3, <1>4, <2>1, <2>2 DEF Slots, Count
  <2> QED
    BY <1>1, <2>2, <2>3, <2>4, <2>5 DEF TypeOK
<1>6. Contents \in Seq(Char) /\ Len(Contents) = Count
  BY ContentsFacts
<1>7. (TypeOK => Contents \in Seq(Char) /\ Len(Contents) = Count)'
  BY ContentsFacts, PTL
<1> QED
  BY <1>3, <1>4, <1>5, <1>6, <1>7

\* A store to rx_out removes the first of the contents.
LEMMA AdvanceTakes ==
  ASSUME TypeOK, TypeOK', Count > 0,
         rx_out' = RX_CIRC_INC(rx_out), UNCHANGED <<rx_buffer, rx_in>>
  PROVE  Count' = Count - 1 /\ Contents' = Tail(Contents)
<1>1. rx_in \in Slots /\ rx_out \in Slots /\ rx_out' \in Slots /\ Size \in Nat /\ Size >= 2
  BY SizeAssumption DEF TypeOK
<1>2. rx_out' = IF rx_out = Size - 1 THEN 0 ELSE rx_out + 1
  BY <1>1, IncFacts
<1>3. Count \in 1 .. Size - 1
  BY <1>1, CountFacts
<1>4. Count' = Count - 1
  BY <1>1, <1>2, <1>3 DEF Count, Slots
<1>5. \A k \in 1..Count' : Contents'[k] = Contents[k + 1]
  <2> TAKE k \in 1..Count'
  <2>1. k \in 1..Size /\ k + 1 \in 1..Count /\ k + 1 \in 1..Size
    BY <1>3, <1>4, SizeAssumption
  <2> DEFINE s == (rx_out' + k - 1) % Size
             t == (rx_out + (k + 1) - 1) % Size
  <2>2. s = IF rx_out' + k - 1 < Size THEN rx_out' + k - 1 ELSE rx_out' + k - 1 - Size
    BY <1>1, <2>1, SlotFacts
  <2>3. t = IF rx_out + (k + 1) - 1 < Size THEN rx_out + (k + 1) - 1
            ELSE rx_out + (k + 1) - 1 - Size
    BY <1>1, <2>1, SlotFacts
  <2>4. Contents'[k] = rx_buffer[s] /\ Contents[k + 1] = rx_buffer[t]
    BY <2>1 DEF Contents
  <2> HIDE DEF s, t
  <2>5. s = t
    BY <1>1, <1>2, <2>1, <2>2, <2>3 DEF Slots
  <2> QED
    BY <2>4, <2>5
<1>6. Contents \in Seq(Char) /\ Len(Contents) = Count
  BY ContentsFacts
<1>7. (TypeOK => Contents \in Seq(Char) /\ Len(Contents) = Count)'
  BY ContentsFacts, PTL
<1> QED
  BY <1>3, <1>4, <1>5, <1>6, <1>7

-----------------------------------------------------------------------------
(***************************************************************************)
(* The invariant.                                                          *)
(***************************************************************************)

\* The three safety invariants together are inductive: each is needed for the
\* next step of another.
IInv == TypeOK /\ NoLostWakeUp /\ ReadsFilledSlot

\* The device starts in the invariant.
LEMMA InitIInv == Init => IInv
  BY SizeAssumption, CharAssumption, BoundAssumption
     DEF Init, IInv, TypeOK, NoLostWakeUp, ReadsFilledSlot, Slots, Count

\* Every step keeps the types.
LEMMA StepTypeOK == TypeOK /\ [Next]_vars => TypeOK'
<1> SUFFICES ASSUME TypeOK, [Next]_vars PROVE TypeOK'
  OBVIOUS
<1> USE SizeAssumption, CharAssumption, BoundAssumption DEF TypeOK
<1>1. ASSUME NEW c \in Char, Modem_USART1_IRQ(c) PROVE TypeOK'
  <2>1. RX_CIRC_INC(rx_in) \in Slots
    BY IncFacts
  <2>2. CASE Full
    BY <1>1, <2>2 DEF Modem_USART1_IRQ
  <2>3. CASE ~Full
    BY <1>1, <2>1, <2>3 DEF Modem_USART1_IRQ, Store
  <2> QED
    BY <2>2, <2>3
<1>2. CASE Storm
  BY <1>2 DEF Storm, vars
<1>3. CASE Call
  BY <1>3 DEF Call, Go
<1>4. CASE Test
  BY <1>4 DEF Test, Go
<1>5. CASE Pend
  BY <1>5 DEF Pend, Go
<1>6. CASE PendTimeout
  BY <1>6 DEF PendTimeout, Go
<1>7. CASE Retest
  BY <1>7 DEF Retest, Go
<1>8. CASE Copy
  BY <1>8 DEF Copy, Go
<1>9. CASE Advance
  <2>1. RX_CIRC_INC(rx_out) \in Slots
    BY IncFacts
  <2> QED
    BY <1>9, <2>1 DEF Advance, Go
<1>10. CASE UNCHANGED vars
  BY <1>10 DEF vars
<1> QED
  BY <1>1, <1>2, <1>3, <1>4, <1>5, <1>6, <1>7, <1>8, <1>9, <1>10 DEF Next, Reader

\* Every step keeps the invariant.
LEMMA StepIInv == IInv /\ [Next]_vars => IInv'
<1> SUFFICES ASSUME IInv, [Next]_vars PROVE IInv'
  OBVIOUS
<1> USE DEF IInv
<1>t. TypeOK'
  BY StepTypeOK
<1> SUFFICES NoLostWakeUp' /\ ReadsFilledSlot'
  BY <1>t
<1>n. /\ Count \in Nat /\ uartRecvSem \in Nat
      /\ Count = 0 <=> rx_in = rx_out
  BY CountFacts, SizeAssumption, BoundAssumption DEF TypeOK
<1>1. ASSUME NEW c \in Char, Modem_USART1_IRQ(c)
      PROVE  NoLostWakeUp' /\ ReadsFilledSlot'
  <2>1. CASE Full
    BY <1>1, <2>1 DEF Modem_USART1_IRQ, NoLostWakeUp, ReadsFilledSlot, Count
  <2>2. CASE ~Full /\ c \in Junk
    BY <1>1, <2>2 DEF Modem_USART1_IRQ, Store, NoLostWakeUp, ReadsFilledSlot, Count
  <2>3. CASE ~Full /\ c \notin Junk
    <3>1. Count' = Count + 1
      BY <1>1, <1>t, <2>3, StoreAppends DEF Modem_USART1_IRQ, Store
    <3>2. uartRecvSem' = uartRecvSem + 1 /\ UNCHANGED <<pc, perr>>
      BY <1>1, <2>3 DEF Modem_USART1_IRQ, Store
    <3> QED
      BY <1>n, <3>1, <3>2 DEF NoLostWakeUp, ReadsFilledSlot
  <2> QED
    BY <2>1, <2>2, <2>3
<1>2. ASSUME UNCHANGED <<rx_in, rx_out>> PROVE Count' = Count
  BY <1>2 DEF Count
<1>3. CASE Storm
  BY <1>3, <1>2 DEF Storm, vars, NoLostWakeUp, ReadsFilledSlot
<1>4. CASE Call
  BY <1>4, <1>2 DEF Call, Go, NoLostWakeUp, ReadsFilledSlot
<1>5. CASE Test
  BY <1>5, <1>2, <1>n DEF Test, Go, NoLostWakeUp, ReadsFilledSlot
<1>6. CASE Pend
  BY <1>6, <1>2, <1>n DEF Pend, Go, NoLostWakeUp, ReadsFilledSlot
<1>7. CASE PendTimeout
  BY <1>7, <1>2, <1>n DEF PendTimeout, Go, NoLostWakeUp, ReadsFilledSlot
<1>8. CASE Retest
  BY <1>8, <1>2 DEF Retest, Go, NoLostWakeUp, ReadsFilledSlot
<1>9. CASE Copy
  BY <1>9, <1>2 DEF Copy, Go, NoLostWakeUp, ReadsFilledSlot
<1>10. CASE Advance
  BY <1>10 DEF Advance, Go, NoLostWakeUp, ReadsFilledSlot
<1>11. CASE UNCHANGED vars
  BY <1>11, <1>2 DEF vars, NoLostWakeUp, ReadsFilledSlot
<1> QED
  BY <1>1, <1>3, <1>4, <1>5, <1>6, <1>7, <1>8, <1>9, <1>10, <1>11 DEF Next, Reader

\* The invariant holds in every reachable state.
LEMMA InvariantIInv == Spec => []IInv
  BY InitIInv, StepIInv, PTL DEF Spec

\* Every variable keeps its type, the ring's indices their range.
THEOREM TypeCorrect == Spec => []TypeOK
  BY InvariantIInv, PTL DEF IInv

\* A reader that sleeps has a count in the semaphore for every character that
\* came in after it found the ring empty.
THEOREM WakeUpsKept == Spec => []NoLostWakeUp
  BY InvariantIInv, PTL DEF IInv

\* The reader takes only slots the interrupt has filled.
THEOREM FilledSlotsRead == Spec => []ReadsFilledSlot
  BY InvariantIInv, PTL DEF IInv

-----------------------------------------------------------------------------
(***************************************************************************)
(* The receive path implements the line channel.                           *)
(***************************************************************************)

Outcome == IF pc = "advance" /\ LineEnded THEN "line"
           ELSE IF pc = "idle" THEN result ELSE "reading"

\* The mapped variables of the channel, and what its actions become.
LEMMA ChannelActions ==
  /\ \A c : Channel!Accept(c) <=>
       /\ Len(Waiting) < Size - 1
       /\ Waiting' = Append(Waiting, c)
       /\ UNCHANGED <<rx_line, Outcome>>
  /\ Channel!Start <=>
       Outcome # "reading" /\ Outcome' = "reading" /\ rx_line' = <<>> /\ UNCHANGED Waiting
  /\ Channel!Take <=>
       /\ Outcome = "reading" /\ Waiting # <<>>
       /\ rx_line' = Append(rx_line, Head(Waiting))
       /\ Waiting' = Tail(Waiting)
       /\ Outcome' = IF Head(Waiting) = NewLine THEN "line" ELSE "reading"
  /\ Channel!GiveUp <=>
       /\ Outcome = "reading" /\ Waiting = <<>> /\ Outcome' = "timeout"
       /\ UNCHANGED <<Waiting, rx_line>>
  /\ UNCHANGED Channel!vars <=> UNCHANGED <<Waiting, rx_line, Outcome>>
  /\ Channel!Init <=> Waiting = <<>> /\ rx_line = <<>> /\ Outcome = "none"
  BY DEF Channel!Accept, Channel!Start, Channel!Take, Channel!GiveUp, Channel!vars,
     Channel!Init, Outcome

\* An interrupt is an Accept of the channel, or stutters when it drops the
\* character or finds the ring full.
LEMMA InterruptAccepts ==
  ASSUME IInv, IInv', NEW c \in Char, Modem_USART1_IRQ(c)
  PROVE  (c \notin Junk /\ Channel!Accept(c)) \/ UNCHANGED Channel!vars
<1> USE DEF IInv
<1>1. UNCHANGED <<rx_out, rx_line, pc, result>> /\ UNCHANGED Outcome
  BY DEF Modem_USART1_IRQ, Outcome, LineEnded
<1>2. Contents \in Seq(Char) /\ Len(Contents) = Count
  BY ContentsFacts
<1>3. CASE Full
  <2>1. UNCHANGED Contents
    BY <1>3 DEF Modem_USART1_IRQ, Contents, Count
  <2> QED
    BY <1>1, <2>1, ChannelActions DEF Waiting
<1>4. CASE ~Full /\ c \in Junk
  <2>1. rx_buffer' = [rx_buffer EXCEPT ![rx_in] = c] /\ UNCHANGED <<rx_in, rx_out>>
    BY <1>4 DEF Modem_USART1_IRQ, Store
  <2>2. Count' = Count /\ Count \in 0 .. Size - 1 /\ rx_in \in Slots /\ rx_out \in Slots
    BY <2>1, CountFacts DEF Count, TypeOK
  <2>3. \A k \in 1..Count : rx_buffer'[(rx_out + k - 1) % Size] = rx_buffer[(rx_out + k - 1) % Size]
    <3> TAKE k \in 1..Count
    <3>1. k \in 1..Size
      BY <2>2, SizeAssumption
    <3> DEFINE s == (rx_out + k - 1) % Size
    <3>2. s \in Slots /\ s = IF rx_out + k - 1 < Size THEN rx_out + k - 1 ELSE rx_out + k - 1 - Size
      BY <2>2, <3>1, SlotFacts
    <3> HIDE DEF s
    <3>3. s # rx_in
      BY <2>2, <3>1, <3>2, SizeAssumption DEF Slots, Count
    <3>4. rx_buffer'[s] = rx_buffer[s]
      BY <2>1, <3>2, <3>3 DEF TypeOK
    <3> QED
      BY <3>4 DEF s
  <2>4. UNCHANGED Contents
    BY <2>1, <2>2, <2>3 DEF Contents
  <2> QED
    BY <1>1, <2>4, ChannelActions DEF Waiting
<1>5. CASE ~Full /\ c \notin Junk
  <2>1. Count' = Count + 1 /\ Contents' = Append(Contents, c)
    BY <1>5, StoreAppends DEF Modem_USART1_IRQ, Store
  <2>2. Count \in Nat /\ Count < Size - 1 /\ (pc = "advance" => Count > 0)
    BY <1>5, CountFacts, SizeAssumption DEF TypeOK, ReadsFilledSlot
  <2>3. Waiting' = Append(Waiting, c) /\ Len(Waiting) < Size - 1
    <3>1. CASE pc = "advance"
      <4>1. Tail(Append(Contents, c)) = Append(Tail(Contents), c)
        BY <1>2, <2>2, <3>1
      <4>2. Len(Tail(Contents)) = Count - 1
        BY <1>2, <2>2, <3>1
      <4> QED
        BY <1>1, <2>1, <2>2, <3>1, <4>1, <4>2, SizeAssumption DEF Waiting
    <3>2. CASE pc # "advance"
      BY <1>1, <1>2, <2>1, <2>2, <3>2 DEF Waiting
    <3> QED
      BY <3>1, <3>2
  <2> QED
    BY <1>1, <1>5, <2>3, ChannelActions
<1> QED
  BY <1>3, <1>4, <1>5

\* A step of the reader is one of the channel's, or stutters.
LEMMA ReaderReads ==
  ASSUME IInv, IInv', Call \/ Reader
  PROVE  Channel!Start \/ Channel!Take \/ Channel!GiveUp \/ UNCHANGED Channel!vars
<1> USE DEF IInv
<1>1. Contents \in Seq(Char) /\ Len(Contents) = Count /\ Count \in Nat
  BY ContentsFacts, CountFacts, SizeAssumption DEF TypeOK
<1>2. ASSUME UNCHANGED <<rx_buffer, rx_in, rx_out>> PROVE UNCHANGED Contents
  BY <1>2 DEF Contents, Count
<1>3. CASE Call
  <2>1. Channel!Start
    BY <1>2, <1>3, ChannelActions DEF Call, Go, Waiting, Outcome, TypeOK
  <2> QED
    BY <2>1
<1>4. CASE Test
  <2>1. UNCHANGED Channel!vars
    BY <1>2, <1>4, ChannelActions DEF Test, Go, Waiting, Outcome
  <2> QED
    BY <2>1
<1>5. CASE Pend \/ PendTimeout
  <2>1. UNCHANGED Channel!vars
    BY <1>2, <1>5, ChannelActions DEF Pend, PendTimeout, Go, Waiting, Outcome
  <2> QED
    BY <2>1
<1>6. CASE Retest /\ ~GivesUp
  <2>1. UNCHANGED Channel!vars
    BY <1>2, <1>6, ChannelActions DEF Retest, Go, Waiting, Outcome
  <2> QED
    BY <2>1
<1>7. CASE Retest /\ GivesUp
  <2>1. Contents = <<>>
    BY <1>1, <1>7, CountFacts DEF GivesUp, TypeOK
  <2>2. Channel!GiveUp
    BY <1>2, <1>7, <2>1, ChannelActions DEF Retest, Go, Waiting, Outcome
  <2> QED
    BY <2>2
<1>8. CASE Copy
  <2>1. Count > 0 /\ Head(Contents) = rx_buffer[rx_out] /\ rx_buffer[rx_out] \in Char
    <3>1. Count > 0 /\ rx_out \in Slots /\ rx_buffer[rx_out] \in Char
      BY <1>8 DEF Copy, Go, ReadsFilledSlot, TypeOK
    <3>2. (rx_out + 1 - 1) % Size = rx_out
      BY <3>1, SlotFacts, SizeAssumption DEF Slots
    <3>3. Contents[1] = rx_buffer[(rx_out + 1 - 1) % Size]
      BY <1>1, <3>1 DEF Contents
    <3> QED
      BY <1>1, <3>1, <3>2, <3>3
  <2>2. UNCHANGED Contents /\ pc = "copy" /\ pc' = "advance"
    BY <1>2, <1>8 DEF Copy, Go
  <2>3. rx_line' = Append(rx_line, Head(Contents)) /\ rx_line \in Seq(Char)
    BY <1>8, <2>1 DEF Copy, TypeOK
  <2>4. LineEnded' <=> Head(Contents) = NewLine
    BY <2>1, <2>3 DEF LineEnded
  <2>5. Channel!Take
    BY <1>1, <2>1, <2>2, <2>3, <2>4, ChannelActions DEF Waiting, Outcome
  <2> QED
    BY <2>5
<1>9. CASE Advance
  <2>1. UNCHANGED <<rx_buffer, rx_in, rx_line>> /\ pc = "advance" /\ pc' # "advance"
    BY <1>9 DEF Advance, Go
  <2>2. Contents' = Tail(Contents)
    BY <1>9, <2>1, AdvanceTakes DEF Advance, ReadsFilledSlot
  <2>3. UNCHANGED Outcome
    BY <1>9 DEF Advance, Go, Outcome
  <2>4. UNCHANGED Channel!vars
    BY <2>1, <2>2, <2>3, ChannelActions DEF Waiting
  <2> QED
    BY <2>4
<1> QED
  BY <1>3, <1>4, <1>5, <1>6, <1>7, <1>8, <1>9 DEF Reader

\* The receive path hands over every accepted character once, in order, and
\* times out only on an empty ring.
THEOREM ChannelImplemented == Spec => ImplementsChannel
<1>1. Init => Channel!Init
  <2> SUFFICES ASSUME Init PROVE Channel!Init
    OBVIOUS
  <2>1. Count = 0 /\ Contents = <<>>
    BY SizeAssumption DEF Init, Count, Contents
  <2> QED
    BY <2>1, ChannelActions DEF Init, Waiting, Outcome
<1>2. IInv /\ IInv' /\ [Next]_vars => [Channel!Next]_(Channel!vars)
  <2> SUFFICES ASSUME IInv, IInv', [Next]_vars
               PROVE  [Channel!Next]_(Channel!vars)
    OBVIOUS
  <2>1. ASSUME NEW c \in Char, Modem_USART1_IRQ(c)
        PROVE  [Channel!Next]_(Channel!vars)
    BY <2>1, InterruptAccepts DEF Channel!Next
  <2>2. CASE Call \/ Reader
    BY <2>2, ReaderReads DEF Channel!Next
  <2>3. CASE UNCHANGED vars
    <3>1. UNCHANGED Contents
      BY <2>3 DEF vars, Contents, Count
    <3> QED
      BY <2>3, <3>1, ChannelActions DEF vars, Waiting, Outcome, LineEnded
  <2> QED
    BY <2>1, <2>2, <2>3 DEF Next, Storm
<1> QED
  BY <1>1, <1>2, InvariantIInv, PTL DEF Spec, ImplementsChannel, Channel!Spec
=============================================================================
