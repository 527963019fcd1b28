-------------------------- MODULE SdTransferProofs --------------------------
(***************************************************************************)
(* Theorems about SdTransfer: its types, the quiet it leaves behind, and   *)
(* that disk_read and disk_write implement BlockDevice, for every size of  *)
(* a block and of the FIFO and every number of faults, on a card whose     *)
(* sectors `sector << 9' tells apart.                                      *)
(***************************************************************************)
EXTENDS SdTransfer, TLAPS

USE SdAssumption DEF FaultKinds

\* Whether `sector << 9' tells the sectors of the card apart: its 4 GB.
SmallCard == NumSectors <= Reach

\* Outside a call, and while only the card's state is asked for, nothing moves.
AtRest ==
  /\ pc \in {"idle", "status"} => ~active /\ flag = "none"
  /\ pc = "idle" => card = "tran"

\* Before the data path is started nothing has been counted or reported.
NotBegun ==
  pc \in {"blocklen", "app", "count"} => ~active /\ flag = "none" /\ ~transferEnd

\* The words that the DMA has moved are those of the sector.
WordsOfSector ==
  op = "read" => \A i \in 1..moved : buffer[i] = disk[Address(sector)]

\* DATAEND, on its way or seen: all words of a read have come, and RXACT is up until
\* they are in the buffer; a write is on the card.
EndTrue ==
  transferEnd \/ flag = "end" =>
    IF op = "read" THEN carried = Words /\ (active \/ moved = Words)
                   ELSE disk[Address(sector)] = value

\* A wait that was not given up has seen the interrupt, and a call that reports
\* success has seen DATAEND.
WaitTrue ==
  /\ pc = "drain" /\ ~timedOut => Finished
  /\ pc = "status" /\ ~timedOut /\ ~failed => transferEnd

IInv == TypeOK /\ AtRest /\ NotBegun /\ WordsOfSector /\ EndTrue /\ WaitTrue

-----------------------------------------------------------------------------
LEMMA SizeFacts == Words \in Nat /\ Words > 1 /\ Fifo \in Nat /\ Fifo > 0 /\ Fifo < Words
  OBVIOUS

\* The card's address of a sector is one of its sectors; of a small card, the same one.
LEMMA AddressFacts ==
  ASSUME NEW s \in Sectors
  PROVE  /\ Address(s) \in Sectors
         /\ SmallCard => Address(s) = s
<1>1. s \in Nat /\ s < NumSectors /\ Reach \in Nat /\ Reach > 0
  BY DEF Sectors
<1>2. s % Reach \in Nat /\ s % Reach <= s
  BY <1>1
<1>3. s < Reach => s % Reach = s
  BY <1>1
<1> QED
  BY <1>1, <1>2, <1>3 DEF Address, Sectors, SmallCard

\* Faults are counted up to their bound.
LEMMA FaultFacts ==
  ASSUME TypeOK, UNCHANGED faults \/ (faults < MaxFaults /\ faults' = faults + 1)
  PROVE  faults' \in 0..MaxFaults
  BY DEF TypeOK

LEMMA InitIInv == Init => IInv
<1> SUFFICES ASSUME Init PROVE IInv
  OBVIOUS
<1>1. /\ InFifo \in 0..Fifo
      /\ carried \in 0..Words /\ moved \in 0..Words
  BY SizeFacts DEF Init, InFifo
<1>2. buffer \in [1..Words -> Values \cup {Old}]
  BY DEF Init
<1>3. {transferEnd, transferError, failed, timedOut, itEnabled, dmaOn, active, present} \subseteq BOOLEAN
  BY DEF Init
<1>4. faults \in 0..MaxFaults
  BY DEF Init
<1>5. sector \in Sectors
  BY DEF Init, Sectors
<1>9. TypeOK
  BY <1>1, <1>2, <1>3, <1>4, <1>5 DEF Init, TypeOK
<1> QED
  BY <1>9 DEF Init, IInv, AtRest, NotBegun, WordsOfSector, EndTrue, WaitTrue

-----------------------------------------------------------------------------
(***************************************************************************)
(* The task's steps.                                                       *)
(***************************************************************************)
LEMMA AskStep ==
  ASSUME IInv, Ask PROVE IInv'
<1>1. TypeOK'
  <2>1. InFifo' \in 0..Fifo /\ carried' \in 0..Words /\ moved' \in 0..Words
    BY SizeFacts DEF Ask, StopPath, InFifo
  <2>2. buffer' \in [1..Words -> Values \cup {Old}]
    BY DEF Ask
  <2>3. value' \in Values
    BY DEF IInv, TypeOK, Ask
  <2> QED
    BY <2>1, <2>2, <2>3 DEF IInv, TypeOK, Ask, StopPath, world
<1> QED
  BY <1>1 DEF IInv, TypeOK, AtRest, NotBegun, WordsOfSector, EndTrue, WaitTrue,
              Ask, StopPath, world

LEMMA CommandStep ==
  ASSUME IInv, Prepare \/ Start \/ Enable PROVE IInv'
<1>1. UNCHANGED <<call, buffer, transferEnd, transferError, failed, timedOut, flag,
                  carried, moved, world>>
  BY DEF Prepare, Start, Enable, isr, path, call, world
<1>2. TypeOK'
  <2>1. faults' \in 0..MaxFaults
    BY FaultFacts DEF IInv, Prepare, Start, Enable, Succeeds, Fails, Fault
  <2>2. InFifo' = InFifo
    BY <1>1 DEF InFifo, call
  <2>3. card' \in {"tran", "data", "rcv", "prg"}
    BY DEF IInv, TypeOK, Prepare, Start, Enable, Succeeds, Fails
  <2>4. {itEnabled', dmaOn', active'} \subseteq BOOLEAN
    BY DEF IInv, TypeOK, Prepare, Start, Enable, isr, path
  <2>5. pc' \in {"app", "count", "start", "enable", "wait"}
    BY DEF Prepare, Start, Enable
  <2> QED
    BY <1>1, <2>1, <2>2, <2>3, <2>4, <2>5 DEF IInv, TypeOK, call, world
<1>3. /\ pc' \in {"app", "count", "start", "enable", "wait"}
      /\ pc' \in {"app", "count"} => pc \in {"blocklen", "app"} /\ ~active'
  BY DEF Prepare, Start, Enable
<1>4. active' \/ active' = active \/ (flag # "end" /\ ~transferEnd)
  BY DEF IInv, NotBegun, Prepare, Start, Enable, path
<1> QED
  BY <1>1, <1>2, <1>3, <1>4
  DEF IInv, TypeOK, AtRest, NotBegun, WordsOfSector, EndTrue, WaitTrue, call, world, Address

LEMMA WaitStep ==
  ASSUME IInv, Wait PROVE IInv'
<1>1. TypeOK'
  BY DEF IInv, TypeOK, InFifo, Wait, Finished, call, isr, path, world
<1> QED
  BY <1>1 DEF IInv, AtRest, NotBegun, WordsOfSector, EndTrue, WaitTrue, Wait, Finished,
              call, isr, path, world, Address

LEMMA StopStep ==
  ASSUME IInv, StopTransfer PROVE IInv'
<1>1. TypeOK'
  <2>1. faults' \in 0..MaxFaults
    BY FaultFacts DEF IInv, StopTransfer, Succeeds, Fails, Fault
  <2>2. card' \in {"tran", "data", "rcv", "prg"} /\ failed' \in BOOLEAN
    BY DEF IInv, TypeOK, StopTransfer, Verdict, Succeeds, Fails
  <2> QED
    BY <2>1, <2>2 DEF IInv, TypeOK, InFifo, StopTransfer, call, isr, path, world
<1>2. ~timedOut' /\ ~failed' => transferEnd'
  BY DEF IInv, TypeOK, WaitTrue, Finished, StopTransfer, Verdict, isr
<1> QED
  BY <1>1, <1>2 DEF IInv, AtRest, NotBegun, WordsOfSector, EndTrue, WaitTrue,
                    StopTransfer, Drained, call, isr, path, world, Address

LEMMA StatusStep ==
  ASSUME IInv, Status PROVE IInv'
<1>1. TypeOK'
  BY DEF IInv, TypeOK, InFifo, Status, Fault, call, isr, path, world
<1> QED
  BY <1>1 DEF IInv, AtRest, NotBegun, WordsOfSector, EndTrue, WaitTrue, Finished,
              Status, Ready, Fault, call, isr, path, world, Address

\* The interrupt's handler turns the flag into TransferEnd or TransferError.
LEMMA IrqStep ==
  ASSUME IInv, ProcessIRQSrc PROVE IInv'
<1>1. TypeOK'
  BY DEF IInv, TypeOK, InFifo, ProcessIRQSrc, call, path, world
<1> QED
  BY <1>1 DEF IInv, AtRest, NotBegun, WordsOfSector, EndTrue, WaitTrue, Finished,
              ProcessIRQSrc, IrqPending, call, path, world, Address

-----------------------------------------------------------------------------
(***************************************************************************)
(* The steps of the SDIO, the DMA and the card.                            *)
(***************************************************************************)
\* While the data path is active the task is inside a call and past its commands.
LEMMA UnderWay ==
  ASSUME IInv, active PROVE pc \notin {"idle", "status", "blocklen", "app", "count"}
  BY DEF IInv, AtRest, NotBegun

LEMMA ReadStep ==
  ASSUME IInv, Receive \/ Take PROVE IInv'
<1>0. active /\ op = "read" /\ pc' = pc /\ UNCHANGED <<call, isr, failed, timedOut, card, world>>
  BY DEF Receive, Take, hardware
<1>1. pc' \notin {"idle", "status", "blocklen", "app", "count"}
  BY <1>0, UnderWay
<1>2. ASSUME Receive PROVE TypeOK' /\ WordsOfSector' /\ EndTrue'
  <2>1. TypeOK'
    BY <1>2, SizeFacts DEF IInv, TypeOK, InFifo, Receive, hardware, call, isr, world
  <2> QED
    BY <1>2, <2>1 DEF IInv, TypeOK, WordsOfSector, EndTrue, Receive, hardware, call, isr, world, Address
<1>3. ASSUME Take PROVE TypeOK' /\ WordsOfSector' /\ EndTrue'
  <2>1. moved \in Nat /\ moved' = moved + 1 /\ moved' \in 1..Words /\ carried' = carried
    BY <1>3, SizeFacts DEF IInv, TypeOK, Take
  <2>2. disk[Address(sector)] \in Values
    BY AddressFacts DEF IInv, TypeOK
  <2>3. buffer' = [buffer EXCEPT ![moved'] = disk[Address(sector)]]
    BY <1>3 DEF Take
  <2>4. TypeOK'
    BY <1>0, <1>3, <2>1, <2>2, <2>3, SizeFacts
    DEF IInv, TypeOK, InFifo, Take, hardware, call, isr, world
  <2>5. WordsOfSector'
    BY <1>0, <2>1, <2>3, SizeFacts DEF IInv, TypeOK, WordsOfSector, call, world, Address
  <2>6. EndTrue'
    <3>1. active' \/ moved' = Words
      <4>1. moved' < Words \/ moved' = Words
        BY <2>1, SizeFacts
      <4>2. active' = (moved' < Words)
        BY <1>3 DEF Take
      <4> QED
        BY <4>1, <4>2, Zenon
    <3> QED
      BY <1>0, <1>3, <2>1, <3>1 DEF IInv, EndTrue, Take, call, isr, world, Address
  <2> QED
    BY <2>4, <2>5, <2>6
<1> QED
  BY <1>0, <1>1, <1>2, <1>3 DEF IInv, AtRest, NotBegun, WaitTrue, Finished, isr

LEMMA WriteStep ==
  ASSUME IInv, Bring \/ Send \/ Accept \/ NotBusy PROVE IInv'
<1>0. /\ active /\ op = "write"
      /\ pc' = pc /\ UNCHANGED <<call, isr, failed, timedOut, card, buffer>>
  BY DEF Bring, Send, Accept, NotBusy, hardware, path
<1>1. pc' \notin {"idle", "status", "blocklen", "app", "count"}
  BY <1>0, UnderWay
<1>2. Address(sector) \in Sectors
  BY AddressFacts DEF IInv, TypeOK
<1>3. TypeOK'
  <2>1. CASE Bring \/ Send
    <3>1. /\ carried \in Nat /\ moved \in Nat /\ carried <= moved
          /\ carried <= Words /\ moved <= Words /\ moved - carried <= Fifo
      BY <1>0, SizeFacts DEF IInv, TypeOK, InFifo
    <3>2. \/ moved < Words /\ moved - carried < Fifo /\ moved' = moved + 1 /\ carried' = carried
          \/ carried < moved /\ carried' = carried + 1 /\ moved' = moved
      BY <2>1 DEF Bring, Send
    <3>3. InFifo' \in 0..Fifo /\ carried' \in 0..Words /\ moved' \in 0..Words
      BY <1>0, <3>1, <3>2, SizeFacts DEF InFifo, call
    <3> QED
      BY <1>0, <2>1, <3>3 DEF IInv, TypeOK, Bring, Send, hardware, call, isr, world
  <2>2. CASE Accept \/ NotBusy
    BY <1>0, <1>2, <2>2 DEF IInv, TypeOK, InFifo, Accept, NotBusy, hardware, call, isr, path, world
  <2> QED
    BY <2>1, <2>2
<1>4. EndTrue'
  <2>1. CASE Accept
    BY <1>0, <1>2, <2>1 DEF IInv, TypeOK, EndTrue, Accept, call, Address
  <2>2. CASE Bring \/ Send \/ NotBusy
    BY <1>0, <2>2 DEF IInv, EndTrue, Bring, Send, NotBusy, call, isr, world, Address
  <2> QED
    BY <2>1, <2>2
<1> QED
  BY <1>0, <1>1, <1>3, <1>4
  DEF IInv, AtRest, NotBegun, WaitTrue, Finished, WordsOfSector, call, isr

LEMMA ErrorStep ==
  ASSUME IInv, DataError \/ Underrun PROVE IInv'
<1>0. /\ active /\ ~active' /\ flag' \in {"error", "underrun"}
      /\ pc' = pc /\ UNCHANGED <<call, isr, failed, timedOut, card, buffer, carried, moved, world>>
  BY DEF DataError, Underrun, hardware
<1>1. pc' \notin {"idle", "status", "blocklen", "app", "count"}
  BY <1>0, UnderWay
<1>2. TypeOK'
  <2>1. faults' \in 0..MaxFaults
    BY FaultFacts DEF IInv, DataError, Underrun, Fault
  <2>2. UNCHANGED dmaOn
    BY DEF DataError, Underrun, hardware
  <2> QED
    BY <1>0, <2>1, <2>2 DEF IInv, TypeOK, InFifo, DataError, Underrun, call, isr, world
<1>3. EndTrue'
  BY <1>0 DEF IInv, TypeOK, EndTrue, DataError, Underrun, call, isr, world, Address
<1> QED
  BY <1>0, <1>1, <1>2, <1>3
  DEF IInv, AtRest, NotBegun, WaitTrue, Finished, WordsOfSector, call, isr, world, Address

LEMMA CardStep ==
  ASSUME IInv, Programmed \/ Remove PROVE IInv'
<1>1. TypeOK'
  <2>1. faults' \in 0..MaxFaults
    BY FaultFacts DEF IInv, Programmed, Remove, Fault
  <2> QED
    BY <2>1 DEF IInv, TypeOK, InFifo, Programmed, Remove, hardware, call, isr, path, world
<1> QED
  BY <1>1 DEF IInv, AtRest, NotBegun, WordsOfSector, EndTrue, WaitTrue, Finished,
              Programmed, Remove, hardware, call, isr, path, world, Address

LEMMA StutterStep ==
  ASSUME IInv, UNCHANGED vars PROVE IInv'
  BY DEF IInv, TypeOK, InFifo, AtRest, NotBegun, WordsOfSector, EndTrue, WaitTrue, Finished,
         vars, call, isr, path, world, Address

LEMMA NextIInv == IInv /\ [Next]_vars => IInv'
  BY AskStep, CommandStep, WaitStep, StopStep, StatusStep, IrqStep, ReadStep, WriteStep,
     ErrorStep, CardStep, StutterStep
  DEF Next, Task, Hardware

LEMMA Inductive == Spec => []IInv
  BY InitIInv, NextIInv, PTL DEF Spec

(***************************************************************************)
(* The theorems.                                                           *)
(***************************************************************************)
\* Every variable of the transfer has its type, and the FIFO never holds more words
\* than it can or fewer than none (SD_ReadMultiBlocks and SD_WriteMultiBlocks with the
\* DMA and the SDIO).
THEOREM TypeCorrect == Spec => []TypeOK
  BY Inductive, PTL DEF IInv

\* disk_read and disk_write leave no transfer and no flag behind, and a card that is
\* ready for the next command, whatever failed.
THEOREM NothingLeftBehind == Spec => []LeavesQuiet
<1>1. IInv => LeavesQuiet
  BY DEF IInv, AtRest, LeavesQuiet
<1> QED
  BY <1>1, Inductive, PTL

-----------------------------------------------------------------------------
(***************************************************************************)
(* The refinement.                                                         *)
(***************************************************************************)
asked  == IF pc = "idle" THEN <<>>
          ELSE IF op = "read" THEN <<op, sector>> ELSE <<op, sector, value>>

answer == IF pc # "idle" THEN <<"none", Old>>
          ELSE IF failed \/ timedOut THEN <<"error", Old>>
          ELSE <<"ok", IF op = "read" THEN Fetched ELSE Old>>

\* A step that changes nothing FatFs sees.
Unseen == UNCHANGED <<disk, asked, answer>>

LEMMA InitDevice == Init => Device!Init
  BY DEF Init, Device!Init

LEMMA AskDevice ==
  ASSUME IInv, Ask PROVE Device!Next
<1>1. /\ asked = <<>> /\ answer' = Device!NoAnswer /\ disk' = disk
      /\ asked' = IF op' = "read" THEN <<op', sector'>> ELSE <<op', sector', value'>>
  BY DEF Ask, world, asked, answer, Device!NoAnswer
<1>2. sector' \in Sectors /\ op' \in {"read", "write"}
  BY DEF Ask
<1>3. CASE op' = "read"
  <2>1. Device!AskRead
    BY <1>1, <1>2, <1>3 DEF Device!AskRead, asked, answer
  <2> QED
    BY <2>1 DEF Device!Next
<1>4. CASE op' = "write"
  <2>1. value' \in Values
    BY <1>4 DEF Ask
  <2>2. Device!AskWrite
    BY <1>1, <1>2, <1>4, <2>1 DEF Device!AskWrite, asked, answer
  <2> QED
    BY <2>2 DEF Device!Next
<1> QED
  BY <1>2, <1>3, <1>4

\* The card has taken the block: the write takes effect.
LEMMA AcceptDevice ==
  ASSUME SmallCard, IInv, Accept PROVE Device!Next
<1>1. pc # "idle" /\ pc' = pc /\ op = "write" /\ UNCHANGED call
  BY UnderWay DEF Accept, hardware
<1>2. Address(sector) = sector
  BY AddressFacts DEF IInv, TypeOK
<1>3. asked = <<"write", sector, value>> /\ asked' = asked /\ answer' = answer
  BY <1>1 DEF asked, answer, call
<1>4. disk' = [disk EXCEPT ![asked[2]] = asked[3]]
  BY <1>2, <1>3 DEF Accept
<1>5. Device!Store
  BY <1>3, <1>4 DEF Device!Store, asked, answer
<1> QED
  BY <1>5 DEF Device!Next

\* A call returns: with RES_OK only if the transfer is done.
LEMMA ReturnDevice ==
  ASSUME SmallCard, IInv, Status, pc' = "idle" PROVE Device!Next
<1>1. /\ pc = "status" /\ pc' = "idle"
      /\ UNCHANGED <<call, buffer, isr, failed, timedOut, active, moved, disk>>
  BY DEF Status, path, world
<1>2. asked # <<>> /\ asked' = <<>>
  BY <1>1 DEF asked
<1>3. CASE failed \/ timedOut
  <2>1. answer' = <<"error", Old>>
    BY <1>1, <1>3 DEF answer
  <2>2. Device!AnswerError
    BY <1>1, <1>2, <2>1 DEF Device!AnswerError, asked, answer
  <2> QED
    BY <2>2 DEF Device!Next
<1>4. CASE ~(failed \/ timedOut)
  <2>1. transferEnd /\ ~active
    BY <1>1, <1>4 DEF IInv, WaitTrue, AtRest
  <2>2. Address(sector) = sector
    BY AddressFacts DEF IInv, TypeOK
  <2>3. CASE op = "read"
    <3>1. moved = Words /\ \A i \in 1..Words : buffer[i] = disk[sector]
      BY <2>1, <2>2, <2>3 DEF IInv, EndTrue, WordsOfSector
    <3>2. buffer = [i \in 1..Words |-> buffer[1]] /\ buffer[1] = disk[sector]
      BY <3>1, SizeFacts DEF IInv, TypeOK
    <3>3. Fetched' = disk[sector]
      BY <1>1, <3>2 DEF Fetched
    <3>4. answer' = <<"ok", disk[sector]>> /\ asked = <<"read", sector>>
      BY <1>1, <1>4, <2>3, <3>3 DEF answer, asked, call
    <3>5. Device!AnswerOk
      BY <1>1, <1>2, <3>4 DEF Device!AnswerOk, asked, answer
    <3> QED
      BY <3>5 DEF Device!Next
  <2>4. CASE op = "write"
    <3>1. disk[sector] = value
      BY <2>1, <2>2, <2>4 DEF IInv, EndTrue
    <3>2. answer' = <<"ok", Old>> /\ asked = <<"write", sector, value>>
      BY <1>1, <1>4, <2>4 DEF answer, asked, call
    <3>3. Device!AnswerOk
      BY <1>1, <1>2, <3>1, <3>2 DEF Device!AnswerOk, asked, answer
    <3> QED
      BY <3>3 DEF Device!Next
  <2> QED
    BY <2>3, <2>4 DEF IInv, TypeOK
<1> QED
  BY <1>3, <1>4

\* Inside a call the answer is none and what was asked stays; outside, what would
\* change the answer does not happen.
LEMMA InsideUnseen ==
  ASSUME pc # "idle", pc' # "idle", UNCHANGED <<call, disk>> PROVE Unseen
  BY DEF Unseen, asked, answer, call

LEMMA OutsideUnseen ==
  ASSUME pc' = pc, UNCHANGED <<call, disk, buffer, failed, timedOut>> PROVE Unseen
  BY DEF Unseen, asked, answer, call, Fetched

LEMMA OtherDevice ==
  ASSUME IInv, [Next]_vars, ~Ask, ~Accept, ~(Status /\ pc' = "idle") PROVE Unseen
<1>1. CASE Prepare \/ Start \/ Enable \/ Wait \/ StopTransfer \/ (Status /\ pc' # "idle")
  <2>1. pc # "idle" /\ pc' # "idle" /\ UNCHANGED <<call, disk>>
    BY <1>1 DEF Prepare, Start, Enable, Wait, StopTransfer, Status, world
  <2> QED
    BY <2>1, InsideUnseen
<1>2. CASE Receive \/ Take \/ Bring \/ Send \/ NotBusy \/ DataError \/ Underrun
  <2>1. pc # "idle" /\ pc' = pc /\ UNCHANGED <<call, disk>>
    BY <1>2, UnderWay
    DEF Receive, Take, Bring, Send, NotBusy, DataError, Underrun, hardware, world
  <2> QED
    BY <2>1, InsideUnseen
<1>3. CASE ProcessIRQSrc \/ Programmed \/ Remove \/ UNCHANGED vars
  <2>1. pc' = pc /\ UNCHANGED <<call, disk, buffer, failed, timedOut>>
    BY <1>3 DEF ProcessIRQSrc, Programmed, Remove, hardware, world, vars
  <2> QED
    BY <2>1, OutsideUnseen
<1> QED
  BY <1>1, <1>2, <1>3 DEF Next, Task, Hardware

\* disk_read and disk_write are the block device that FatFs relies on (diskio.c:78-88,
\* 112-121), on a card of at most 4 GB: RES_OK is answered, after a wait that was not
\* given up, only when the sector was read whole or is on the card, and no other sector
\* changes, whatever is lost, damaged or late.
THEOREM DeviceImplemented ==
  ASSUME SmallCard PROVE Spec => IsBlockDevice
<1>1. IInv /\ [Next]_vars => [Device!Next]_(Device!vars)
  <2> SUFFICES ASSUME IInv, [Next]_vars PROVE [Device!Next]_(Device!vars)
    OBVIOUS
  <2>1. CASE Ask
    BY <2>1, AskDevice
  <2>2. CASE Accept
    BY <2>2, AcceptDevice
  <2>3. CASE Status /\ pc' = "idle"
    BY <2>3, ReturnDevice
  <2>4. CASE ~Ask /\ ~Accept /\ ~(Status /\ pc' = "idle")
    <3>1. Unseen
      BY <2>4, OtherDevice
    <3> QED
      BY <3>1 DEF Unseen, asked, answer, Device!vars
  <2> QED
    BY <2>1, <2>2, <2>3, <2>4
<1> QED
  BY <1>1, InitDevice, Inductive, PTL DEF Spec, IsBlockDevice, Device!Spec
=============================================================================
