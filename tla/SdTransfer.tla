----------------------------- MODULE SdTransfer -----------------------------
(***************************************************************************)
(* disk_read and disk_write (diskio.c) over the SD driver                  *)
(* (stm32f4_discovery_sdio_sd.c): the task, which holds SDMutex, sends the *)
(* commands and waits; the card and the SDIO carry the words of a block;   *)
(* the DMA moves them between the FIFO and the buffer; the SDIO interrupt  *)
(* runs SD_ProcessIRQSrc.  SD_ProcessDMAIRQ never runs, because nothing    *)
(* enables its interrupt, and DMAEndOfTransfer stays 0.                    *)
(*                                                                         *)
(* A command or its response may be lost, the data may be damaged, the     *)
(* FIFO may run over or under, and the card may be taken out.              *)
(***************************************************************************)
EXTENDS Integers, FiniteSets

CONSTANTS
  NumSectors,  \* of the card
  Reach,       \* sectors that `sector << 9' tells apart in 32 bits: 2^23
  Values,      \* what a sector may hold
  Old,         \* what a buffer holds before it is read into
  Words,       \* in a block, 128
  Fifo,        \* words the FIFO of the SDIO holds, 32
  Faults,      \* the faults that happen
  MaxFaults    \* BOUND on their number

FaultKinds == {"response", "start", "data", "underrun", "removal"}

ASSUME SdAssumption ==
  /\ NumSectors \in Nat \ {0} /\ Reach \in Nat \ {0}
  /\ Old \notin Values
  /\ Words \in Nat /\ Fifo \in 1 .. Words - 1
  /\ Faults \subseteq FaultKinds /\ MaxFaults \in Nat

Sectors == 0 .. NumSectors - 1

VARIABLES
  pc,             \* where the task is in disk_read or disk_write
  op, sector,     \* "read" or "write", and the argument
  value,          \* that is written
  buffer,         \* the words that are read
  transferEnd, transferError,   \* TransferEnd, and TransferError # SD_OK
  failed,         \* the status of the call, so far
  timedOut,       \* the first loop of the wait ran out (read by no code)
  flag,           \* the data flag of the SDIO that is up
  itEnabled,      \* the mask of the SDIO's interrupts
  dmaOn, active,  \* the stream is on; RXACT or TXACT
  carried, moved, \* words over the bus, words moved by the DMA
  card,           \* state of the card
  disk,           \* contents of the sectors
  present,        \* the card is in
  faults          \* that have happened

call  == <<op, sector, value>>
isr   == <<transferEnd, transferError, itEnabled>>
path  == <<active, carried, moved>>
world == <<disk, present>>
vars  == <<pc, call, buffer, isr, failed, timedOut, flag, dmaOn, path, card, world, faults>>

Init ==
  /\ pc = "idle"
  /\ op = "read" /\ sector = 0 /\ value \in Values
  /\ buffer = [i \in 1..Words |-> Old]
  /\ transferEnd = FALSE /\ transferError = FALSE
  /\ failed = TRUE /\ timedOut = FALSE
  /\ flag = "none" /\ itEnabled = FALSE
  /\ dmaOn = FALSE /\ active = FALSE
  /\ carried = 0 /\ moved = 0
  /\ card = "tran"
  /\ disk \in [Sectors -> Values]
  /\ present = TRUE
  /\ faults = 0

Fault(kind) ==
  /\ kind \in Faults /\ faults < MaxFaults
  /\ faults' = faults + 1

-----------------------------------------------------------------------------
(***************************************************************************)
(* The commands.  The card obeys a command that is legal in its state.     *)
(***************************************************************************)

\* `sector << 9', and the card's division by 512.
Address(s) == s % Reach

\* A command that succeeds takes the card to its next state.
Succeeds(from, to) ==
  /\ present /\ card \in from
  /\ card' = to
  /\ UNCHANGED faults

\* It is not obeyed, or it is and the response is lost or has an error in it.
Fails(from, to, kind) ==
  \/ ~(present /\ card \in from) /\ UNCHANGED <<card, faults>>
  \/ present /\ Fault(kind) /\ card' = card
  \/ present /\ card \in from /\ Fault(kind) /\ card' = to

\* Mutant: the data path keeps what the last transfer has left in it.
StopPath_Keeps == active' = FALSE /\ dmaOn' = FALSE /\ UNCHANGED <<carried, moved>>

\* `SDIO->DCTRL = 0x0', before the new transfer is counted.
StopPath == active' = FALSE /\ dmaOn' = FALSE /\ carried' = 0 /\ moved' = 0

\* disk_read and disk_write, and the start of SD_ReadMultiBlocks and
\* SD_WriteMultiBlocks: the flags are reset and the data path is stopped.
Ask ==
  /\ pc = "idle" /\ pc' = "blocklen"
  /\ op' \in {"read", "write"} /\ sector' \in Sectors
  /\ value' \in IF op' = "write" THEN Values ELSE {value}
  /\ buffer' = [i \in 1..Words |-> Old]
  /\ transferEnd' = FALSE /\ transferError' = FALSE
  /\ StopPath
  /\ timedOut' = FALSE /\ failed' = FALSE
  /\ UNCHANGED <<itEnabled, flag, card, world, faults>>

\* CMD16; before a write also CMD55 and ACMD23.  After a failure
\* disk_read and disk_write go on to wait all the same.
Prepare ==
  /\ pc \in {"blocklen", "app", "count"}
  /\ \/ /\ Succeeds({"tran"}, "tran")
        /\ pc' = IF op = "read" \/ pc = "count" THEN "start"
                 ELSE IF pc = "blocklen" THEN "app" ELSE "count"
     \/ Fails({"tran"}, "tran", "response") /\ pc' = "wait"
  /\ active' = (op = "read" /\ pc' = "start")   \* SDIO_DataConfig, before CMD18
  /\ UNCHANGED <<call, buffer, isr, failed, timedOut, flag, dmaOn, carried, moved, world>>

\* CMD18 or CMD25.
Start ==
  /\ pc = "start"
  /\ LET to == IF op = "read" THEN "data" ELSE "rcv"
     IN  \/ Succeeds({"tran"}, to) /\ pc' = "enable"
         \/ Fails({"tran"}, to, "start") /\ pc' = "wait"
  /\ UNCHANGED <<call, buffer, isr, failed, timedOut, flag, dmaOn, path, world>>

\* SDIO_ITConfig, SDIO_DMACmd and the stream; for a write SDIO_DataConfig first.
\* The interrupt of a flag that is already up comes now.
Enable ==
  /\ pc = "enable" /\ pc' = "wait"
  /\ itEnabled' = TRUE /\ dmaOn' = TRUE
  /\ active' = IF op = "write" THEN TRUE ELSE active
  /\ UNCHANGED <<call, buffer, transferEnd, transferError, failed, timedOut, flag,
                 carried, moved, card, world, faults>>

-----------------------------------------------------------------------------
(***************************************************************************)
(* SD_WaitReadOperation and SD_WaitWriteOperation, and the loop over       *)
(* SD_GetStatus.                                                           *)
(***************************************************************************)
Finished == transferEnd \/ transferError

IrqPending == itEnabled /\ flag \in {"end", "error"}

\* The loop's count (of 2^32) runs out only when no interrupt can come any more:
\* the SDIO's own data timer is shorter.
Quiet == ~active /\ ~IrqPending

Wait ==
  /\ pc = "wait" /\ pc' = "drain"
  /\ Finished \/ Quiet
  /\ timedOut' = ~Finished
  /\ UNCHANGED <<call, buffer, isr, failed, flag, dmaOn, path, card, world, faults>>

\* Mutant: RXACT is not waited for.
Drained_NotWaited == TRUE

\* `while(SDIO->STA & SDIO_FLAG_RXACT)'.
Drained == ~active

Verdict(bad) == transferError \/ bad

\* SD_StopTransfer (CMD12), SDIO_ClearFlag, the status that is returned.
StopTransfer ==
  /\ pc = "drain" /\ Drained /\ pc' = "status"
  /\ LET to == IF card = "data" THEN "tran" ELSE "prg"
     IN  \/ Succeeds({"data", "rcv"}, to) /\ failed' = Verdict(FALSE)
         \/ Fails({"data", "rcv"}, to, "response") /\ failed' = Verdict(TRUE)
  /\ flag' = "none"
  /\ UNCHANGED <<call, buffer, isr, timedOut, dmaOn, path, world>>

\* Mutant: one look at the card, and not a loop.
Ready_Once == TRUE

\* Mutant: another state of the card is waited for.
Ready_Receiving == present /\ card = "rcv"

\* SD_GetState says SD_CARD_TRANSFER; anything else is asked again.
Ready == present /\ card = "tran"

Status ==
  /\ pc = "status"
  /\ \/ Ready /\ pc' = "idle" /\ UNCHANGED faults
     \/ ~Ready /\ UNCHANGED <<pc, faults>>
     \/ Fault("response") /\ UNCHANGED pc
  /\ UNCHANGED <<call, buffer, isr, failed, timedOut, flag, dmaOn, path, card, world>>

Task == Ask \/ Prepare \/ Start \/ Enable \/ Wait \/ StopTransfer \/ Status

-----------------------------------------------------------------------------
(***************************************************************************)
(* SD_ProcessIRQSrc.                                                       *)
(***************************************************************************)
ProcessIRQSrc ==
  /\ IrqPending
  /\ transferEnd' = (transferEnd \/ flag = "end")
  /\ transferError' = (flag = "error")
  /\ flag' = "none"
  /\ itEnabled' = FALSE
  /\ UNCHANGED <<pc, call, buffer, failed, timedOut, dmaOn, path, card, world, faults>>

-----------------------------------------------------------------------------
(***************************************************************************)
(* The SDIO, the DMA and the card.                                         *)
(***************************************************************************)
hardware == <<pc, call, isr, failed, timedOut, dmaOn>>

\* A word comes from the card; DATAEND with the last.
Receive ==
  /\ op = "read" /\ active /\ card = "data" /\ present
  /\ carried < Words /\ carried - moved < Fifo
  /\ carried' = carried + 1
  /\ flag' = IF carried' = Words THEN "end" ELSE flag
  /\ UNCHANGED <<hardware, buffer, active, moved, card, world, faults>>

\* The DMA takes a word; RXACT falls when all have come and the FIFO is empty.
Take ==
  /\ op = "read" /\ dmaOn /\ active /\ moved < carried
  /\ moved' = moved + 1
  /\ buffer' = [buffer EXCEPT ![moved'] = disk[Address(sector)]]
  /\ active' = (moved' < Words)
  /\ UNCHANGED <<hardware, flag, carried, card, world, faults>>

\* The DMA brings a word, and one goes to the card.
Bring ==
  /\ op = "write" /\ dmaOn /\ active /\ moved < Words /\ moved - carried < Fifo
  /\ moved' = moved + 1
  /\ UNCHANGED <<hardware, buffer, flag, active, carried, card, world, faults>>

Send ==
  /\ op = "write" /\ active /\ card = "rcv" /\ present
  /\ carried < moved
  /\ carried' = carried + 1
  /\ UNCHANGED <<hardware, buffer, flag, active, moved, card, world, faults>>

\* The card has checked the block; TXACT falls when it is no longer busy.
Accept ==
  /\ op = "write" /\ active /\ card = "rcv" /\ present
  /\ carried = Words /\ flag = "none" /\ ~transferEnd
  /\ disk' = [disk EXCEPT ![Address(sector)] = value]
  /\ flag' = "end"
  /\ UNCHANGED <<hardware, buffer, path, card, present, faults>>

NotBusy ==
  /\ op = "write" /\ active /\ (flag = "end" \/ transferEnd)
  /\ active' = FALSE
  /\ UNCHANGED <<hardware, buffer, flag, carried, moved, card, world, faults>>

\* The FIFO is full, a word is damaged, or none comes: the data path stops.
DataError ==
  /\ active /\ flag = "none" /\ ~transferEnd
  /\ \/ /\ op = "read" /\ carried - moved = Fifo
        /\ UNCHANGED faults
     \/ ~present /\ UNCHANGED faults
     \/ op = "read" /\ card = "tran" /\ pc = "wait" /\ UNCHANGED faults
     \/ card \in {"data", "rcv"} /\ Fault("data")
  /\ flag' = "error"
  /\ active' = FALSE
  /\ UNCHANGED <<hardware, buffer, carried, moved, card, world>>

\* TXUNDERR, whose interrupt SD_WriteMultiBlocks does not enable.
Underrun ==
  /\ op = "write" /\ active /\ card = "rcv"
  /\ carried > 0 /\ carried = moved /\ carried < Words
  /\ Fault("underrun")
  /\ flag' = "underrun"
  /\ active' = FALSE
  /\ UNCHANGED <<hardware, buffer, carried, moved, card, world>>

\* The card has programmed the blocks it was sent.
Programmed ==
  /\ card = "prg" /\ card' = "tran"
  /\ UNCHANGED <<hardware, buffer, flag, path, world, faults>>

Remove ==
  /\ present /\ Fault("removal")
  /\ present' = FALSE
  /\ UNCHANGED <<hardware, buffer, flag, path, card, disk>>

Hardware ==
  \/ Receive \/ Take \/ Bring \/ Send \/ Accept \/ NotBusy
  \/ DataError \/ Underrun \/ Programmed \/ Remove

Next == Task \/ ProcessIRQSrc \/ Hardware

Spec == Init /\ [][Next]_vars

\* The task runs on, and so do the interrupt, the DMA, the bus and the card;
\* nothing has to fail, and FatFs does not have to call.
FairSpec ==
  /\ Spec
  /\ WF_vars(Prepare \/ Start \/ Enable \/ Wait \/ StopTransfer)
  /\ WF_vars(Ready /\ Status)
  /\ WF_vars(ProcessIRQSrc)
  /\ WF_vars(Receive \/ Take \/ Bring \/ Send \/ Accept \/ NotBusy)
  /\ WF_vars(DataError /\ UNCHANGED faults)
  /\ WF_vars(Programmed)

-----------------------------------------------------------------------------
(***************************************************************************)
(* Properties.                                                             *)
(***************************************************************************)
\* The types, and the FIFO: it never holds more words than it can, nor less than none.
InFifo == IF op = "read" THEN carried - moved ELSE moved - carried

TypeOK ==
  /\ InFifo \in 0..Fifo
  /\ pc \in {"idle", "blocklen", "app", "count", "start", "enable", "wait", "drain", "status"}
  /\ op \in {"read", "write"} /\ sector \in Sectors /\ value \in Values
  /\ buffer \in [1..Words -> Values \cup {Old}]
  /\ {transferEnd, transferError, failed, timedOut, itEnabled, dmaOn, active, present} \subseteq BOOLEAN
  /\ flag \in {"none", "end", "error", "underrun"}
  /\ carried \in 0..Words /\ moved \in 0..Words
  /\ card \in {"tran", "data", "rcv", "prg"}
  /\ disk \in [Sectors -> Values]
  /\ faults \in 0..MaxFaults

\* A call leaves nothing under way that could disturb the next: no transfer, no
\* flag, and the card is ready for data.
LeavesQuiet == pc = "idle" => ~active /\ flag = "none" /\ card = "tran"

\* A call returns, unless the card is taken out or CMD12 is lost: SD_GetStatus is
\* then asked forever, with SDMutex held (diskio.c:82, 116).
StopLost == pc = "status" /\ card \in {"data", "rcv"}
CallEnds == pc # "idle" ~> pc = "idle" \/ ~present \/ StopLost

\* disk_read and disk_write implement the block device that FatFs relies on: whatever is
\* lost, damaged or late, RES_OK is not answered to a transfer that was not done, whole,
\* and no other sector changes (diskio.c:78-88, 112-121).  The exception is the waits
\* that are given up, whose RES_OK counts as an error here.
Fetched == IF buffer = [i \in 1..Words |-> buffer[1]] THEN buffer[1] ELSE Old

Device == INSTANCE BlockDevice WITH
  Nothing  <- Old,
  contents <- disk,
  asked    <- IF pc = "idle" THEN <<>>
              ELSE IF op = "read" THEN <<op, sector>> ELSE <<op, sector, value>>,
  answer   <- IF pc # "idle" THEN <<"none", Old>>
              ELSE IF failed \/ timedOut THEN <<"error", Old>>
              ELSE <<"ok", IF op = "read" THEN Fetched ELSE Old>>

IsBlockDevice == Device!Spec

(***************************************************************************)
(* What comments of the code say and the code does not do: no run checks   *)
(* these, README.md says with which constants TLC refutes them.            *)
(***************************************************************************)

\* What RES_OK should mean: the sector was read into the buffer, all of it, or
\* was written.
Done ==
  IF op = "read" THEN buffer = [i \in 1..Words |-> disk[sector]] ELSE disk[sector] = value

Answered == pc = "idle" /\ ~failed

\* stm32f4_discovery_sdio_sd.c:1371 the wait is called "to insure that all data
\* sent by the card are already transferred by the DMA controller": RES_OK means
\* that they are.
AnswerExact == Answered => Done

\* diskio.c:72, 106 the argument is the "Sector address (LBA)": no other sector
\* is read or written.
SectorExact == Answered /\ ~timedOut => Done
=============================================================================
