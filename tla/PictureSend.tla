----------------------------- MODULE PictureSend -----------------------------
(***************************************************************************)
(* pictureSend (modem.c), between its pend and its post of SDMutex: the    *)
(* picture is read in blocks of ReadSize bytes and encoded into base64     *)
(* groups of four characters, which are written to base64.txt through a    *)
(* buffer of OutSize characters; the length of the HTTP body is announced  *)
(* to the server, and the file is sent in blocks of SendSize characters.   *)
(*                                                                         *)
(* A byte is the place it has in the picture, 1, 2, ...; 0 is a byte of    *)
(* something else.  A group is the one to three bytes it encodes and       *)
(* whether a '+', sent as "%2B", is among its characters (BOUND: at most   *)
(* one).  FatFs may fail at every call, and the card may be full.          *)
(***************************************************************************)
EXTENDS Integers, Sequences, FiniteSets

CONSTANTS
  ReadSize,   \* bytes read from the picture at a time, 512 in modem.c
  OutSize,    \* characters in outBuff, 512
  SendSize,   \* characters read from base64.txt at a time, 256
  MaxLength   \* BOUND on the length of the picture

ASSUME SizeAssumption ==
  /\ ReadSize \in Nat /\ ReadSize >= 2
  /\ OutSize \in Nat \ {0} /\ OutSize % 4 = 0
  /\ SendSize \in Nat \ {0} /\ SendSize % 4 = 0
  /\ MaxLength \in Nat

VARIABLES
  pc,               \* where pictureSend is; "done" when it has returned
  length,           \* of the picture
  position,         \* how much of it has been read
  inBuff, inBuffIndex, bytesRead,
  jpegBytesLeft,    \* read and not encoded
  unEncoded,        \* unEncodedByte1 and unEncodedByte2
  numUnEncoded,     \* how many of them count
  outBuff,          \* the groups not yet written
  endOfFile, dataToProcess,
  base64File,       \* the groups in base64.txt
  base64FileSize, numPlus,
  gpsValid, gpsPlus,   \* is there a position, and how many '+' are in it
  contentLength,    \* as announced to the server
  sent, sentGroups  \* characters of the body sent, groups of the file sent

input  == <<length, position, inBuff, bytesRead>>
rest   == <<inBuffIndex, jpegBytesLeft, unEncoded, numUnEncoded>>
loop   == <<endOfFile, dataToProcess>>
output == <<base64File, base64FileSize, numPlus>>
gps    == <<gpsValid, gpsPlus>>
post   == <<contentLength, sent, sentGroups>>
vars   == <<pc, input, rest, outBuff, loop, output, gps, post>>

-----------------------------------------------------------------------------
\* One call: a picture and a position are given, the locals are reset.
Init ==
  /\ pc = "open"
  /\ length \in 0..MaxLength
  /\ position = 0
  /\ inBuff = [i \in 0 .. ReadSize - 1 |-> 0]
  /\ inBuffIndex = 0
  /\ bytesRead = 0
  /\ jpegBytesLeft = 0
  /\ unEncoded = <<0, 0>>
  /\ numUnEncoded = 0
  /\ outBuff = <<>>
  /\ endOfFile = FALSE
  /\ dataToProcess = FALSE
  /\ base64File = <<>>
  /\ base64FileSize = 0
  /\ numPlus = 0
  /\ gpsValid \in BOOLEAN
  /\ gpsPlus \in IF gpsValid THEN 0..2 ELSE {0}
  /\ contentLength = 0
  /\ sent = 0
  /\ sentGroups = 0

Go(p, q) == pc = p /\ pc' = q

\* f_open of base64.txt and of the picture; a failure ends the call.
Open ==
  /\ Go("open", "read") \/ Go("open", "done")
  /\ UNCHANGED <<input, rest, outBuff, loop, output, gps, post>>

\* Any f_read may fail, and ends the call.
ReadError ==
  /\ Go("read", "done") \/ Go("send", "done")
  /\ UNCHANGED <<input, rest, outBuff, loop, output, gps, post>>

Smaller(a, b) == IF a < b THEN a ELSE b

\* f_read of the picture: FatFs reads less than asked only at the end.
Read ==
  /\ Go("read", "process")
  /\ bytesRead' = Smaller(ReadSize, length - position)
  /\ inBuff' = [i \in DOMAIN inBuff |-> IF i < bytesRead' THEN position + i + 1 ELSE inBuff[i]]
  /\ position' = position + bytesRead'
  /\ jpegBytesLeft' = jpegBytesLeft + bytesRead'
  /\ inBuffIndex' = 0
  /\ dataToProcess' = TRUE
  /\ UNCHANGED <<length, unEncoded, numUnEncoded, outBuff, endOfFile, output, gps, post>>

-----------------------------------------------------------------------------
(***************************************************************************)
(* The loop `while(dataToProcess)'.                                        *)
(***************************************************************************)

\* Mutant: one group more than the buffer holds.
Room_Past == 4 * Len(outBuff) <= OutSize

Room == 4 * Len(outBuff) < OutSize

\* Mutant: the bytes left over from the last block are skipped.
Group_Skips ==
  [k \in 1..3 |-> inBuff[Smaller(inBuffIndex + k - 1, ReadSize - 1)]]

\* Three bytes: those left over from the last block first.
Group ==
  [k \in 1..3 |-> IF k <= numUnEncoded THEN unEncoded[k]
                  ELSE inBuff[inBuffIndex + k - numUnEncoded - 1]]

Encode(bytes) ==
  \E plus \in BOOLEAN : outBuff' = Append(outBuff, [bytes |-> bytes, plus |-> plus])

EncodeGroup ==
  /\ bytesRead # 0 /\ jpegBytesLeft >= 3 /\ Room
  /\ Go("process", "process")
  /\ Encode(Group)
  /\ inBuffIndex' = inBuffIndex + 3 - numUnEncoded
  /\ numUnEncoded' = 0
  /\ jpegBytesLeft' = jpegBytesLeft - 3
  /\ UNCHANGED <<input, unEncoded, loop, output, gps, post>>

\* The inner loop has run out of bytes or of room.  Up to two bytes are kept for
\* the next block; as written, they are looked for in inBuff alone.
KeepRest ==
  /\ bytesRead # 0 /\ ~(jpegBytesLeft >= 3 /\ Room)
  /\ Go("process", IF Room THEN "read" ELSE "flush")
  /\ IF jpegBytesLeft < 3
     THEN /\ dataToProcess' = FALSE
          /\ numUnEncoded' = jpegBytesLeft
          /\ unEncoded' = [k \in 1..2 |-> IF k <= jpegBytesLeft THEN inBuff[inBuffIndex + k - 1]
                                          ELSE unEncoded[k]]
     ELSE UNCHANGED <<dataToProcess, numUnEncoded, unEncoded>>
  /\ UNCHANGED <<input, inBuffIndex, jpegBytesLeft, outBuff, endOfFile, output, gps, post>>

\* Mutant: numUnEncoded is not counted down.
EncodeTail_KeepsCount ==
  IF jpegBytesLeft \in {1, 2}
  THEN /\ Encode(SubSeq(unEncoded, 1, jpegBytesLeft))
       /\ jpegBytesLeft' = 0
       /\ UNCHANGED numUnEncoded
  ELSE UNCHANGED <<outBuff, jpegBytesLeft, numUnEncoded>>

EncodeTail ==
  IF jpegBytesLeft \in {1, 2}
  THEN /\ Encode(SubSeq(unEncoded, 1, jpegBytesLeft))
       /\ jpegBytesLeft' = 0
       /\ numUnEncoded' = numUnEncoded - jpegBytesLeft
  ELSE UNCHANGED <<outBuff, jpegBytesLeft, numUnEncoded>>

\* Mutants: the end is not noted; `|| endOfFile' is not in the flush's condition.
Ended_Never == FALSE
AfterTail_NoFlush == IF Room THEN "reopen" ELSE "flush"

Ended == bytesRead = 0
AfterTail == IF jpegBytesLeft < 3 THEN "flush" ELSE "halt"

\* The end sequence, for the bytes that are left.
EndSequence ==
  /\ bytesRead = 0
  /\ Go("process", AfterTail)
  /\ endOfFile' = Ended
  /\ dataToProcess' = FALSE
  /\ EncodeTail
  /\ UNCHANGED <<input, inBuffIndex, unEncoded, output, gps, post>>

PlusIn(groups) == Cardinality({i \in DOMAIN groups : groups[i].plus})

\* `if(bytesUnwritten >= 512 || endOfFile)', and the assertions after it.
Asserted == endOfFile => jpegBytesLeft = 0 /\ numUnEncoded = 0

AfterFlush ==
  IF ~Asserted THEN "halt"
  ELSE IF endOfFile THEN "reopen" ELSE IF dataToProcess THEN "process" ELSE "read"

\* Mutant: only the last flush is counted.
Counted_Last == PlusIn(outBuff)

Counted == numPlus + PlusIn(outBuff)

Flush ==
  /\ Go("flush", AfterFlush)
  /\ base64File' = base64File \o outBuff
  /\ base64FileSize' = base64FileSize + 4 * Len(outBuff)
  /\ numPlus' = Counted
  /\ outBuff' = <<>>
  /\ UNCHANGED <<input, rest, loop, gps, post>>

\* f_write fails, or says FR_OK of nothing written because the card is full;
\* then the loop `for(... bytesUnwritten != 0 ...)' never ends.
FlushFails ==
  /\ outBuff # <<>>
  /\ Go("flush", "done") \/ Go("flush", "full")
  /\ UNCHANGED <<input, rest, outBuff, loop, output, gps, post>>

-----------------------------------------------------------------------------
(***************************************************************************)
(* The HTTP POST.                                                          *)
(***************************************************************************)
ImageLength == 9    \* "TheImage="
GpsLength   == 31   \* "GPSdata=", latitude, '_', longitude, '&'

Announced == ImageLength + base64FileSize + 2 * numPlus + (IF gpsValid THEN GpsLength ELSE 0)

Reopen ==
  /\ \/ Go("reopen", "socket") /\ contentLength' = Announced
     \/ Go("reopen", "done") /\ UNCHANGED contentLength
  /\ UNCHANGED <<input, rest, outBuff, loop, output, gps, sent, sentGroups>>

\* openExositeSocket, then the position, in which a '+' is sent as "%2B" too.
Socket ==
  /\ \/ /\ Go("socket", "send")
        /\ sent' = ImageLength + (IF gpsValid THEN GpsLength + 2 * gpsPlus ELSE 0)
     \/ Go("socket", "done") /\ UNCHANGED sent
  /\ UNCHANGED <<input, rest, outBuff, loop, output, gps, contentLength, sentGroups>>

Chunk ==
  SubSeq(base64File, sentGroups + 1, Smaller(sentGroups + SendSize \div 4, Len(base64File)))

SendChunk ==
  /\ Go("send", IF Chunk = <<>> THEN "sent" ELSE "send")
  /\ sent' = sent + 4 * Len(Chunk) + 2 * PlusIn(Chunk)
  /\ sentGroups' = sentGroups + Len(Chunk)
  /\ UNCHANGED <<input, rest, outBuff, loop, output, gps, contentLength>>

\* The server's answer, the end of the connection, the post of SDMutex.
Finish ==
  /\ Go("sent", "done")
  /\ UNCHANGED <<input, rest, outBuff, loop, output, gps, post>>

\* The call has returned, or is in while(1) or in the endless write.
Stop == pc \in {"done", "halt", "full"} /\ UNCHANGED vars

Step ==
  \/ Open \/ ReadError \/ Read \/ EncodeGroup \/ KeepRest \/ EndSequence
  \/ Flush \/ FlushFails \/ Reopen \/ Socket \/ SendChunk \/ Finish

Next == Step \/ Stop

Spec == Init /\ [][Next]_vars

\* The modem task gets the processor again and again; every wait has a timeout.
FairSpec == Spec /\ WF_vars(Step)

-----------------------------------------------------------------------------
(***************************************************************************)
(* Properties.                                                             *)
(***************************************************************************)
Groups == [bytes : UNION {[1..n -> 0..MaxLength] : n \in 1..3}, plus : BOOLEAN]

\* The types, and the bounds of the buffers: outBuff is never overrun.
TypeOK ==
  /\ pc \in {"done", "open", "read", "process", "flush", "full", "halt",
             "reopen", "socket", "send", "sent"}
  /\ length \in 0..MaxLength
  /\ position \in 0..length
  /\ inBuff \in [0 .. ReadSize - 1 -> 0..MaxLength]
  /\ inBuffIndex \in 0..ReadSize
  /\ bytesRead \in 0..ReadSize
  /\ jpegBytesLeft \in 0 .. ReadSize + 2
  /\ unEncoded \in [1..2 -> 0..MaxLength]
  /\ numUnEncoded \in 0..2
  /\ outBuff \in Seq(Groups) /\ 4 * Len(outBuff) <= OutSize
  /\ endOfFile \in BOOLEAN /\ dataToProcess \in BOOLEAN
  /\ base64File \in Seq(Groups)
  /\ base64FileSize \in Nat /\ numPlus \in Nat
  /\ gpsValid \in BOOLEAN /\ gpsPlus \in 0..2
  /\ contentLength \in Nat /\ sent \in Nat
  /\ sentGroups \in 0..Len(base64File)

\* What has been encoded so far, written or not.
Encoded == base64File \o outBuff

\* However the blocks and the flushes fall, the n-th group is made of the n-th
\* three bytes, in order, and no byte is skipped or encoded twice.
EncodesInOrder ==
  /\ \A n \in 1..Len(Encoded) :
       3 * n <= length => Encoded[n].bytes = [k \in 1..3 |-> 3 * n - 3 + k]
  /\ pc \in {"read", "process", "flush"} /\ ~endOfFile =>
       3 * Len(Encoded) + jpegBytesLeft = position

\* What is sent is the whole picture: a group for every three bytes, and the
\* last one padded for as many bytes as are missing.
EncodesAll ==
  pc \in {"reopen", "socket", "send", "sent"} =>
    LET full == length \div 3
        tail == length % 3
    IN  /\ Len(base64File) = IF tail = 0 THEN full ELSE full + 1
        /\ tail # 0 => Len(base64File[full + 1].bytes) = tail

\* The loops behind "Should never happen" and "Shouldn't happen I think" are
\* unreachable (modem.c:478, 520).
NeverHalts == pc # "halt"

\* The body has the length that was announced, when no '+' is in the position.
LengthAnnounced == pc = "sent" /\ gpsPlus = 0 => sent = contentLength

\* A call ends, and SDMutex is posted, unless the card is full.
CallEnds == pc = "open" ~> pc \in {"done", "full"}

(***************************************************************************)
(* What comments of the code say and the code does not do.  README.md says *)
(* which of these a run refutes, and with which constants TLC refutes the  *)
(* others.                                                                 *)
(***************************************************************************)

\* modem.c:447 "Write end sequence according to the MIME standard using whatever
\* unencoded JPEG bytes are left": the last group encodes the last bytes.
TailEncoded ==
  pc = "reopen" /\ length % 3 # 0 =>
    LET full == length \div 3
    IN  base64File[full + 1].bytes = [k \in 1 .. length % 3 |-> 3 * full + k]

\* modem.c:487 "We need to keep track of the number of '+' characters for the
\* contentLength in the HTTP POST": the announced length is that of the body.
LengthExact == pc = "sent" => sent = contentLength
=============================================================================
