------------------------- MODULE PictureSendProofs -------------------------
(***************************************************************************)
(* Proofs about PictureSend, for pictures of every length and buffers of   *)
(* every size that SizeAssumption admits: the encoder's order, its buffer  *)
(* bounds, its assertions and the announced length.                        *)
(***************************************************************************)
EXTENDS PictureSend, TLAPS, SequenceTheorems, FunctionTheorems, FiniteSetTheorems

-----------------------------------------------------------------------------
(***************************************************************************)
(* The inductive invariant.                                                *)
(***************************************************************************)

\* Where the flags and the place in the code agree.
FlagsAgree ==
  /\ pc \in {"open", "read", "process"} => ~endOfFile
  /\ pc = "process" => dataToProcess
  /\ pc = "flush" /\ dataToProcess => bytesRead # 0 /\ ~endOfFile
  /\ pc \in {"open", "read"} \/ (pc = "process" /\ bytesRead = 0) => Room
  /\ pc = "process" /\ bytesRead = 0 => position = length
  /\ pc \in {"reopen", "socket", "send", "sent"} => endOfFile /\ outBuff = <<>>

\* Every byte read has been encoded or is left.
Balanced ==
  pc \in {"open", "read", "process", "flush"} /\ ~endOfFile =>
    3 * Len(Encoded) + jpegBytesLeft = position

\* Within a block: the bytes left are those carried over and the rest of
\* inBuff, they are the next ones of the picture, and a short block is the last.
InBlock == (pc = "process" \/ pc = "flush") /\ dataToProcess /\ bytesRead # 0

BlockHeld ==
  InBlock =>
    /\ inBuffIndex <= bytesRead /\ bytesRead <= position
    /\ jpegBytesLeft = numUnEncoded + bytesRead - inBuffIndex
    /\ numUnEncoded # 0 => inBuffIndex = 0
    /\ \A i \in 0 .. ReadSize - 1 : i < bytesRead => inBuff[i] = position - bytesRead + i + 1
    /\ \A k \in 1..2 :
         k <= numUnEncoded => unEncoded[k] = position - bytesRead - numUnEncoded + k
    /\ bytesRead < ReadSize => position = length

\* Between blocks: what is left has been carried over, and it is the next bytes
\* of the picture if more of it follows.
BetweenBlocks ==
  \/ pc \in {"open", "read"}
  \/ pc = "process" /\ bytesRead = 0
  \/ pc = "flush" /\ ~dataToProcess /\ ~endOfFile

CarryHeld ==
  BetweenBlocks =>
    /\ jpegBytesLeft = numUnEncoded
    /\ position < length =>
         \A k \in 1..2 : k <= numUnEncoded => unEncoded[k] = position - numUnEncoded + k

\* The groups whose three bytes all exist encode them, in their order.
InOrder ==
  \A n \in 1..Len(Encoded) :
    3 * n <= length => Encoded[n].bytes = [k \in 1..3 |-> 3 * n - 3 + k]

\* After the end sequence nothing is left, and the last group has the bytes that
\* three do not divide.
Ending ==
  endOfFile =>
    /\ jpegBytesLeft = 0 /\ numUnEncoded = 0
    /\ Len(Encoded) = IF length % 3 = 0 THEN length \div 3 ELSE length \div 3 + 1
    /\ length % 3 # 0 => Len(Encoded[length \div 3 + 1].bytes) = length % 3

\* The counters are those of the file, and so is the announced length.
CountsFile ==
  /\ base64FileSize = 4 * Len(base64File)
  /\ numPlus = PlusIn(base64File)
  /\ pc \in {"socket", "send", "sent"} => contentLength = Announced

\* What has been sent is the position and the first groups of the file.
SentSoFar ==
  /\ pc \in {"open", "read", "process", "flush", "reopen", "socket"} => sentGroups = 0
  /\ pc \in {"send", "sent"} =>
       sent = ImageLength + (IF gpsValid THEN GpsLength + 2 * gpsPlus ELSE 0)
              + 4 * sentGroups + 2 * PlusIn(SubSeq(base64File, 1, sentGroups))
  /\ pc = "sent" => sentGroups = Len(base64File)

IInv ==
  /\ TypeOK /\ FlagsAgree /\ Balanced /\ BlockHeld /\ CarryHeld
  /\ InOrder /\ Ending /\ CountsFile /\ SentSoFar /\ NeverHalts

-----------------------------------------------------------------------------
(***************************************************************************)
(* Counting the '+' of a sequence of groups, and joining groups.           *)
(***************************************************************************)

\* The '+' of a sequence are finitely many.
LEMMA PlusFacts ==
  ASSUME NEW s \in Seq(Groups)
  PROVE  /\ PlusIn(s) \in Nat
         /\ IsFiniteSet({i \in DOMAIN s : s[i].plus})
         /\ s = <<>> => PlusIn(s) = 0
<1> DEFINE P == {i \in DOMAIN s : s[i].plus}
<1>1. Len(s) \in Nat /\ DOMAIN s = 1 .. Len(s)
  BY LenProperties
<1>2. IsFiniteSet(1 .. Len(s))
  BY <1>1, FS_Interval
<1>3. IsFiniteSet(P)
  BY <1>1, <1>2, FS_Subset
<1>4. Cardinality(P) \in Nat
  BY <1>3, FS_CardinalityType
<1>5. s = <<>> => P = {}
  BY <1>1
<1> QED
  BY <1>3, <1>4, <1>5, FS_EmptySet DEF PlusIn

\* The '+' of two sequences after each other are those of both.
LEMMA PlusConcat ==
  ASSUME NEW s \in Seq(Groups), NEW t \in Seq(Groups)
  PROVE  PlusIn(s \o t) = PlusIn(s) + PlusIn(t)
<1> DEFINE c == s \o t
           S == {i \in DOMAIN s : s[i].plus}
           T == {i \in DOMAIN t : t[i].plus}
           C == {i \in DOMAIN c : c[i].plus}
           M == {i \in C : i > Len(s)}
           f == [i \in T |-> i + Len(s)]
<1>1. /\ Len(s) \in Nat /\ DOMAIN s = 1 .. Len(s)
      /\ Len(t) \in Nat /\ DOMAIN t = 1 .. Len(t)
  BY LenProperties
<1>2. /\ c \in Seq(Groups) /\ Len(c) = Len(s) + Len(t)
      /\ \A i \in 1 .. Len(s) + Len(t) : c[i] = IF i <= Len(s) THEN s[i] ELSE t[i - Len(s)]
  BY ConcatProperties
<1>3. DOMAIN c = 1 .. Len(s) + Len(t)
  BY <1>2, LenProperties
<1>4. IsFiniteSet(S) /\ IsFiniteSet(T) /\ IsFiniteSet(C)
  BY <1>2, PlusFacts
<1>5. C = S \cup M /\ S \cap M = {}
  <2>1. ASSUME NEW i
        PROVE  i \in C <=> i \in S \/ i \in M
    BY <1>1, <1>2, <1>3
  <2>2. ASSUME NEW i \in S
        PROVE  i \notin M
    BY <1>1
  <2> QED
    BY <2>1, <2>2
<1>6. f \in Bijection(T, M)
  <2>1. \A i \in T : i + Len(s) \in M
    BY <1>1, <1>2, <1>3
  <2>2. f \in [T -> M]
    BY <2>1
  <2>3. \A i, j \in T : f[i] = f[j] => i = j
    BY <1>1
  <2>4. \A j \in M : \E i \in T : f[i] = j
    <3> TAKE j \in M
    <3>1. j - Len(s) \in T
      BY <1>1, <1>2, <1>3
    <3>2. f[j - Len(s)] = j
      BY <1>1, <1>3, <3>1
    <3> QED
      BY <3>1, <3>2
  <2> QED
    BY <2>2, <2>3, <2>4, Fun_IsBij
<1>7. IsFiniteSet(M) /\ Cardinality(M) = Cardinality(T)
  BY <1>4, <1>6, FS_Bijection DEF ExistsBijection
<1>8. Cardinality(C) = Cardinality(S) + Cardinality(M) - Cardinality({})
  BY <1>4, <1>5, <1>7, FS_Union
<1>9. Cardinality(S) \in Nat /\ Cardinality(T) \in Nat /\ Cardinality({}) = 0
  BY <1>4, FS_CardinalityType, FS_EmptySet
<1>10. Cardinality(C) = Cardinality(S) + Cardinality(T)
  <2> HIDE DEF S, T, C, M
  <2> QED
    BY <1>7, <1>8, <1>9
<1> QED
  BY <1>10 DEF PlusIn

\* What is encoded is the file and then the buffer.
LEMMA EncodedFacts ==
  ASSUME TypeOK
  PROVE  /\ Encoded \in Seq(Groups)
         /\ Len(base64File) \in Nat /\ Len(outBuff) \in Nat
         /\ Len(Encoded) = Len(base64File) + Len(outBuff)
         /\ outBuff = <<>> => Encoded = base64File
BY ConcatProperties, LenProperties, ConcatEmptySeq DEF TypeOK, Encoded

\* A group that is put into the buffer comes after all the others.
LEMMA AppendFacts ==
  ASSUME TypeOK, Room, NEW g \in Groups, outBuff' = Append(outBuff, g), UNCHANGED base64File
  PROVE  /\ outBuff' \in Seq(Groups) /\ 4 * Len(outBuff') <= OutSize
         /\ Len(Encoded) \in Nat
         /\ Len(Encoded') = Len(Encoded) + 1
         /\ Encoded'[Len(Encoded) + 1] = g
         /\ \A n \in 1 .. Len(Encoded) : Encoded'[n] = Encoded[n]
<1>1. /\ outBuff \in Seq(Groups) /\ base64File \in Seq(Groups) /\ base64File' \in Seq(Groups)
      /\ Len(outBuff) \in Nat /\ Len(base64File) \in Nat
  BY LenProperties DEF TypeOK
<1>2. /\ outBuff' \in Seq(Groups) /\ Len(outBuff') = Len(outBuff) + 1
      /\ outBuff'[Len(outBuff) + 1] = g
      /\ \A n \in 1 .. Len(outBuff) : outBuff'[n] = outBuff[n]
  BY <1>1
<1>3. 4 * Len(outBuff') <= OutSize
  BY <1>1, <1>2, SizeAssumption DEF Room
<1>4. /\ Len(Encoded) = Len(base64File) + Len(outBuff)
      /\ \A i \in 1 .. Len(base64File) + Len(outBuff) :
           Encoded[i] = IF i <= Len(base64File) THEN base64File[i]
                        ELSE outBuff[i - Len(base64File)]
  BY <1>1, ConcatProperties DEF Encoded
<1>5. /\ Len(Encoded') = Len(base64File) + Len(outBuff')
      /\ \A i \in 1 .. Len(base64File) + Len(outBuff') :
           Encoded'[i] = IF i <= Len(base64File) THEN base64File[i]
                         ELSE outBuff'[i - Len(base64File)]
  BY <1>1, <1>2, ConcatProperties DEF Encoded
<1>6. Len(Encoded) \in Nat /\ Len(Encoded') = Len(Encoded) + 1
  BY <1>1, <1>2, <1>4, <1>5
<1>7. Encoded'[Len(Encoded) + 1] = g
  BY <1>1, <1>2, <1>4, <1>5
<1>8. \A n \in 1 .. Len(Encoded) : Encoded'[n] = Encoded[n]
  <2> TAKE n \in 1 .. Len(Encoded)
  <2>1. CASE n <= Len(base64File)
    BY <1>1, <1>2, <1>4, <1>5, <2>1
  <2>2. CASE n > Len(base64File)
    <3>1. n - Len(base64File) \in 1 .. Len(outBuff)
      BY <1>1, <1>4, <2>2
    <3>2. Encoded'[n] = outBuff'[n - Len(base64File)]
      BY <1>1, <1>2, <1>4, <1>5, <2>2
    <3>3. Encoded[n] = outBuff[n - Len(base64File)]
      BY <1>1, <1>4, <2>2
    <3> QED
      BY <1>2, <3>1, <3>2, <3>3
  <2> QED
    BY <1>1, <1>4, <2>1, <2>2
<1> QED
  BY <1>2, <1>3, <1>6, <1>7, <1>8

-----------------------------------------------------------------------------
(***************************************************************************)
(* The invariant holds at the start and every step keeps it.               *)
(***************************************************************************)
LEMMA InitHolds ==
  Init => IInv
<1> SUFFICES ASSUME Init
             PROVE  IInv
  OBVIOUS
<1> USE DEF Init
<1>1. <<>> \in Seq(Groups) /\ Len(<<>>) = 0
  BY EmptySeq
<1>2. Encoded = <<>>
  BY <1>1, ConcatEmptySeq DEF Encoded
<1>3. PlusIn(<<>>) = 0
  BY <1>1, PlusFacts
<1>4. TypeOK
  BY <1>1, SizeAssumption DEF TypeOK
<1>5. FlagsAgree /\ NeverHalts
  BY <1>1, SizeAssumption DEF FlagsAgree, Room, NeverHalts
<1>6. Balanced /\ InOrder /\ Ending
  BY <1>1, <1>2 DEF Balanced, InOrder, Ending
<1>7. BlockHeld /\ CarryHeld
  BY DEF BlockHeld, InBlock, CarryHeld
<1>8. CountsFile /\ SentSoFar
  BY <1>1, <1>3 DEF CountsFile, SentSoFar
<1> QED
  BY <1>4, <1>5, <1>6, <1>7, <1>8 DEF IInv

\* The steps that change nothing of the picture and the file.
LEMMA OpenStep ==
  IInv /\ (Open \/ ReadError \/ FlushFails \/ Finish \/ Stop \/ UNCHANGED vars) => IInv'
<1> SUFFICES ASSUME IInv, Open \/ ReadError \/ FlushFails \/ Finish \/ Stop \/ UNCHANGED vars
             PROVE  IInv'
  OBVIOUS
<1> USE DEF IInv
<1>1. /\ UNCHANGED <<input, rest, outBuff, loop, output, gps, post>>
      /\ \/ pc' = pc
         \/ pc = "open" /\ pc' = "read"
         \/ pc' \in {"done", "full"}
  BY DEF Open, ReadError, FlushFails, Finish, Stop, vars, Go
<1> USE DEF input, rest, loop, output, gps, post
<1>2. Encoded' = Encoded /\ Room' = Room /\ Announced' = Announced
  BY <1>1 DEF Encoded, Room, Announced
<1>3. TypeOK'
  BY <1>1 DEF TypeOK
<1>4. FlagsAgree' /\ NeverHalts'
  BY <1>1, <1>2 DEF FlagsAgree, NeverHalts
<1>5. Balanced' /\ InOrder' /\ Ending'
  BY <1>1, <1>2 DEF Balanced, InOrder, Ending
<1>6. BlockHeld' /\ CarryHeld'
  BY <1>1 DEF BlockHeld, InBlock, CarryHeld, BetweenBlocks
<1>7. CountsFile' /\ SentSoFar'
  BY <1>1, <1>2 DEF CountsFile, SentSoFar
<1> QED
  BY <1>3, <1>4, <1>5, <1>6, <1>7

LEMMA ReadStep ==
  IInv /\ Read => IInv'
<1> SUFFICES ASSUME IInv, Read
             PROVE  IInv'
  OBVIOUS
<1> USE DEF IInv
<1>1. /\ pc = "read" /\ pc' = "process"
      /\ inBuffIndex' = 0 /\ dataToProcess' = TRUE
      /\ UNCHANGED <<length, unEncoded, numUnEncoded, outBuff, endOfFile>>
      /\ UNCHANGED <<base64File, base64FileSize, numPlus, gpsValid, gpsPlus>>
      /\ UNCHANGED <<contentLength, sent, sentGroups>>
  BY DEF Read, Go, output, gps, post
<1>2. /\ ReadSize \in Nat /\ ReadSize >= 2 /\ MaxLength \in Nat
      /\ length \in 0..MaxLength /\ position \in 0..length
      /\ numUnEncoded \in 0..2 /\ jpegBytesLeft = numUnEncoded
      /\ ~endOfFile /\ Room
  BY <1>1, SizeAssumption DEF TypeOK, CarryHeld, BetweenBlocks, FlagsAgree
<1>3. PICK n \in 0..ReadSize :
        /\ bytesRead' = n
        /\ position' = position + n /\ jpegBytesLeft' = jpegBytesLeft + n
        /\ position + n <= length
        /\ n < ReadSize => position + n = length
        /\ n # 0 => position < length
  BY <1>2 DEF Read, Smaller
<1>4. inBuff' = [i \in 0 .. ReadSize - 1 |-> IF i < n THEN position + i + 1 ELSE inBuff[i]]
  BY <1>3 DEF Read, TypeOK
<1>5. /\ inBuff' \in [0 .. ReadSize - 1 -> 0..MaxLength]
      /\ \A i \in 0 .. ReadSize - 1 : i < n => inBuff'[i] = position + i + 1
  <2>1. ASSUME NEW i \in 0 .. ReadSize - 1
        PROVE  (IF i < n THEN position + i + 1 ELSE inBuff[i]) \in 0..MaxLength
    <3>1. inBuff[i] \in 0..MaxLength
      BY DEF TypeOK
    <3> QED
      BY <1>2, <1>3, <3>1
  <2> QED
    BY <1>4, <2>1
<1>6. Encoded' = Encoded /\ Room' = Room /\ Len(Encoded) \in Nat
  BY <1>1, EncodedFacts DEF Encoded, Room
<1>7. TypeOK'
  BY <1>1, <1>2, <1>3, <1>5 DEF TypeOK
<1>8. FlagsAgree' /\ NeverHalts'
  BY <1>1, <1>2, <1>3, <1>6 DEF FlagsAgree, NeverHalts
<1>9. Balanced' /\ InOrder' /\ Ending'
  BY <1>1, <1>2, <1>3, <1>6 DEF Balanced, InOrder, Ending
<1>10. BlockHeld'
  <2> SUFFICES ASSUME n # 0
               PROVE  BlockHeld'
    BY <1>3 DEF BlockHeld, InBlock
  <2>1. \A k \in 1..2 : k <= numUnEncoded => unEncoded[k] = position - numUnEncoded + k
    BY <1>1, <1>3 DEF CarryHeld, BetweenBlocks
  <2> QED
    BY <1>1, <1>2, <1>3, <1>5, <2>1 DEF BlockHeld
<1>11. CarryHeld'
  BY <1>1, <1>2, <1>3 DEF CarryHeld, BetweenBlocks
<1>12. CountsFile' /\ SentSoFar'
  BY <1>1 DEF CountsFile, SentSoFar, Announced
<1> QED
  BY <1>7, <1>8, <1>9, <1>10, <1>11, <1>12

\* The group that is encoded next is the next three bytes of the picture.
LEMMA GroupIsNext ==
  ASSUME IInv, InBlock, jpegBytesLeft >= 3
  PROVE  /\ Group = [k \in 1..3 |-> position - jpegBytesLeft + k]
         /\ Group \in [1..3 -> 0..MaxLength]
         /\ inBuffIndex + 3 - numUnEncoded <= bytesRead
<1>1. /\ ReadSize \in Nat /\ MaxLength \in Nat
      /\ length \in 0..MaxLength /\ position \in 0..length
      /\ numUnEncoded \in 0..2 /\ inBuffIndex \in Nat /\ jpegBytesLeft \in Nat
      /\ bytesRead \in 0..ReadSize
  BY SizeAssumption DEF IInv, TypeOK
<1>2. /\ inBuffIndex <= bytesRead /\ bytesRead <= position
      /\ jpegBytesLeft = numUnEncoded + bytesRead - inBuffIndex
      /\ numUnEncoded # 0 => inBuffIndex = 0
      /\ \A i \in 0 .. ReadSize - 1 : i < bytesRead => inBuff[i] = position - bytesRead + i + 1
      /\ \A k \in 1..2 :
           k <= numUnEncoded => unEncoded[k] = position - bytesRead - numUnEncoded + k
  BY DEF IInv, BlockHeld
<1>3. ASSUME NEW k \in 1..3
      PROVE  Group[k] = position - jpegBytesLeft + k
  <2>1. Group[k] = IF k <= numUnEncoded THEN unEncoded[k]
                   ELSE inBuff[inBuffIndex + k - numUnEncoded - 1]
    BY DEF Group
  <2>2. CASE k <= numUnEncoded
    BY <1>1, <1>2, <2>1, <2>2
  <2>3. CASE k > numUnEncoded
    <3>1. /\ inBuffIndex + k - numUnEncoded - 1 \in 0 .. ReadSize - 1
          /\ inBuffIndex + k - numUnEncoded - 1 < bytesRead
      BY <1>1, <1>2, <2>3
    <3> QED
      BY <1>1, <1>2, <2>1, <2>3, <3>1
  <2> QED
    BY <1>1, <2>2, <2>3
<1>4. Group = [k \in 1..3 |-> position - jpegBytesLeft + k]
  BY <1>3 DEF Group
<1>5. \A k \in 1..3 : position - jpegBytesLeft + k \in 0..MaxLength
  <2>1. 3 * Len(Encoded) + jpegBytesLeft = position /\ Len(Encoded) \in Nat
    BY EncodedFacts DEF IInv, Balanced, InBlock, FlagsAgree
  <2> QED
    BY <1>1, <2>1
<1> QED
  BY <1>1, <1>2, <1>4, <1>5

LEMMA EncodeGroupStep ==
  IInv /\ EncodeGroup => IInv'
<1> SUFFICES ASSUME IInv, EncodeGroup
             PROVE  IInv'
  OBVIOUS
<1> USE DEF IInv
<1>1. /\ pc = "process" /\ pc' = "process" /\ dataToProcess = TRUE
      /\ bytesRead # 0 /\ jpegBytesLeft >= 3 /\ Room
      /\ UNCHANGED <<length, position, inBuff, bytesRead, unEncoded, endOfFile, dataToProcess>>
      /\ UNCHANGED <<base64File, base64FileSize, numPlus, gpsValid, gpsPlus>>
      /\ UNCHANGED <<contentLength, sent, sentGroups>>
      /\ numUnEncoded' = 0
  BY DEF EncodeGroup, Go, input, loop, output, gps, post, FlagsAgree, TypeOK
<1>2. PICK plus \in BOOLEAN : outBuff' = Append(outBuff, [bytes |-> Group, plus |-> plus])
  BY DEF EncodeGroup, Encode
<1> DEFINE g == [bytes |-> Group, plus |-> plus]
<1>3. /\ Group = [k \in 1..3 |-> position - jpegBytesLeft + k]
      /\ Group \in [1..3 -> 0..MaxLength]
      /\ inBuffIndex + 3 - numUnEncoded <= bytesRead
  BY <1>1, GroupIsNext DEF InBlock
<1>4. g \in Groups
  BY <1>3 DEF Groups
<1>5. /\ outBuff' \in Seq(Groups) /\ 4 * Len(outBuff') <= OutSize
      /\ Len(Encoded) \in Nat
      /\ Len(Encoded') = Len(Encoded) + 1
      /\ Encoded'[Len(Encoded) + 1] = g
      /\ \A n \in 1 .. Len(Encoded) : Encoded'[n] = Encoded[n]
  <2> HIDE DEF g
  <2>1. outBuff' = Append(outBuff, g) /\ UNCHANGED base64File
    BY <1>1, <1>2 DEF g
  <2> QED
    BY <1>1, <1>4, <2>1, AppendFacts
<1>6. /\ ReadSize \in Nat /\ bytesRead \in 0..ReadSize
      /\ position \in Nat /\ length \in Nat
      /\ numUnEncoded \in 0..2 /\ inBuffIndex \in Nat /\ jpegBytesLeft \in 0 .. ReadSize + 2
      /\ 3 * Len(Encoded) + jpegBytesLeft = position
      /\ ~endOfFile
  BY <1>1, SizeAssumption DEF TypeOK, Balanced, FlagsAgree
<1>7. inBuffIndex' = inBuffIndex + 3 - numUnEncoded /\ jpegBytesLeft' = jpegBytesLeft - 3
  BY DEF EncodeGroup
<1>8. inBuffIndex' \in 0..ReadSize /\ inBuffIndex' <= bytesRead
  BY <1>1, <1>3, <1>6, <1>7
<1>9. TypeOK'
  BY <1>1, <1>5, <1>6, <1>7, <1>8 DEF TypeOK
<1>10. FlagsAgree' /\ NeverHalts'
  BY <1>1, <1>6 DEF FlagsAgree, NeverHalts
<1>11. Balanced'
  BY <1>1, <1>5, <1>6, <1>7 DEF Balanced
<1>12. BlockHeld'
  BY <1>1, <1>3, <1>6, <1>7, <1>8 DEF BlockHeld, InBlock
<1>13. CarryHeld' /\ Ending'
  BY <1>1, <1>6 DEF CarryHeld, BetweenBlocks, Ending
<1>14. InOrder'
  <2> SUFFICES ASSUME NEW n \in 1 .. Len(Encoded) + 1, 3 * n <= length
               PROVE  Encoded'[n].bytes = [k \in 1..3 |-> 3 * n - 3 + k]
    BY <1>1, <1>5 DEF InOrder
  <2>1. CASE n <= Len(Encoded)
    BY <1>5, <2>1 DEF InOrder
  <2>2. CASE n = Len(Encoded) + 1
    <3>1. 3 * n - 3 = position - jpegBytesLeft
      BY <1>5, <1>6, <2>2
    <3>2. Encoded'[n].bytes = Group
      BY <1>5, <2>2
    <3> QED
      BY <1>3, <3>1, <3>2
  <2> QED
    BY <1>5, <2>1, <2>2
<1>15. CountsFile' /\ SentSoFar'
  BY <1>1 DEF CountsFile, SentSoFar, Announced
<1> QED
  BY <1>9, <1>10, <1>11, <1>12, <1>13, <1>14, <1>15

LEMMA KeepRestStep ==
  IInv /\ KeepRest => IInv'
<1> SUFFICES ASSUME IInv, KeepRest
             PROVE  IInv'
  OBVIOUS
<1> USE DEF IInv
<1>1. /\ pc = "process" /\ pc' = IF Room THEN "read" ELSE "flush"
      /\ dataToProcess = TRUE /\ endOfFile = FALSE /\ bytesRead # 0
      /\ UNCHANGED <<length, position, inBuff, bytesRead, endOfFile, outBuff>>
      /\ UNCHANGED <<inBuffIndex, jpegBytesLeft>>
      /\ UNCHANGED <<base64File, base64FileSize, numPlus, gpsValid, gpsPlus>>
      /\ UNCHANGED <<contentLength, sent, sentGroups>>
  BY DEF KeepRest, Go, input, output, gps, post, FlagsAgree, TypeOK
<1>2. Encoded' = Encoded /\ Room' = Room /\ Announced' = Announced
  BY <1>1 DEF Encoded, Room, Announced
<1>3. Balanced' /\ InOrder' /\ Ending' /\ CountsFile' /\ SentSoFar' /\ NeverHalts'
  BY <1>1, <1>2 DEF Balanced, InOrder, Ending, CountsFile, SentSoFar, NeverHalts
<1>4. CASE jpegBytesLeft < 3
  <2>1. /\ dataToProcess' = FALSE /\ numUnEncoded' = jpegBytesLeft
        /\ unEncoded' = [k \in 1..2 |-> IF k <= jpegBytesLeft THEN inBuff[inBuffIndex + k - 1]
                                        ELSE unEncoded[k]]
    BY <1>4 DEF KeepRest
  <2>2. /\ ReadSize \in Nat /\ ReadSize >= 2 /\ MaxLength \in Nat
        /\ bytesRead \in 0..ReadSize /\ position \in Nat /\ length \in Nat
        /\ numUnEncoded \in 0..2 /\ inBuffIndex \in Nat /\ jpegBytesLeft \in 0..2
        /\ inBuffIndex <= bytesRead /\ bytesRead <= position
        /\ jpegBytesLeft = numUnEncoded + bytesRead - inBuffIndex
        /\ numUnEncoded # 0 => inBuffIndex = 0
        /\ bytesRead < ReadSize => position = length
    BY <1>1, <1>4, SizeAssumption DEF TypeOK, BlockHeld, InBlock
  <2>3. \A i \in 0 .. ReadSize - 1 : i < bytesRead => inBuff[i] = position - bytesRead + i + 1
    BY <1>1 DEF BlockHeld, InBlock
  <2>4. unEncoded' \in [1..2 -> 0..MaxLength]
    <3>1. ASSUME NEW k \in 1..2
          PROVE  (IF k <= jpegBytesLeft THEN inBuff[inBuffIndex + k - 1] ELSE unEncoded[k])
                   \in 0..MaxLength
      <4>1. k <= jpegBytesLeft => inBuffIndex + k - 1 \in 0 .. ReadSize - 1
        BY <2>2
      <4> QED
        BY <4>1 DEF TypeOK
    <3> QED
      BY <2>1, <3>1
  <2>5. ASSUME position < length, NEW k \in 1..2, k <= jpegBytesLeft
        PROVE  unEncoded'[k] = position - jpegBytesLeft + k
    <3>1. numUnEncoded = 0 /\ bytesRead = ReadSize
      BY <2>2, <2>5
    <3>2. inBuffIndex + k - 1 \in 0 .. ReadSize - 1 /\ inBuffIndex + k - 1 < bytesRead
      BY <2>2, <2>5, <3>1
    <3>3. inBuff[inBuffIndex + k - 1] = position - bytesRead + (inBuffIndex + k - 1) + 1
      BY <2>3, <3>2
    <3> QED
      BY <2>1, <2>2, <2>5, <3>1, <3>3
  <2>6. TypeOK'
    BY <1>1, <2>1, <2>2, <2>4 DEF TypeOK
  <2>7. FlagsAgree' /\ BlockHeld'
    BY <1>1, <1>2, <2>1 DEF FlagsAgree, BlockHeld, InBlock
  <2>8. CarryHeld'
    BY <1>1, <2>1, <2>5 DEF CarryHeld
  <2> QED
    BY <1>3, <2>6, <2>7, <2>8
<1>5. CASE ~(jpegBytesLeft < 3)
  <2>1. UNCHANGED <<dataToProcess, numUnEncoded, unEncoded>>
    BY <1>5 DEF KeepRest
  <2>2. pc' = "flush"
    <3>1. jpegBytesLeft >= 3
      BY <1>5 DEF TypeOK
    <3> QED
      BY <1>1, <3>1 DEF KeepRest
  <2>3. TypeOK' /\ FlagsAgree'
    BY <1>1, <1>2, <2>1, <2>2 DEF TypeOK, FlagsAgree
  <2>4. BlockHeld' /\ CarryHeld'
    BY <1>1, <2>1, <2>2 DEF BlockHeld, InBlock, CarryHeld, BetweenBlocks
  <2> QED
    BY <1>3, <2>3, <2>4
<1> QED
  BY <1>4, <1>5

LEMMA EndSequenceStep ==
  IInv /\ EndSequence => IInv'
<1> SUFFICES ASSUME IInv, EndSequence
             PROVE  IInv'
  OBVIOUS
<1> USE DEF IInv
<1>1. /\ pc = "process" /\ bytesRead = 0 /\ Room
      /\ endOfFile' = TRUE /\ dataToProcess' = FALSE
      /\ UNCHANGED <<length, position, inBuff, bytesRead, inBuffIndex, unEncoded>>
      /\ UNCHANGED <<base64File, base64FileSize, numPlus, gpsValid, gpsPlus>>
      /\ UNCHANGED <<contentLength, sent, sentGroups>>
  BY DEF EndSequence, Ended, Go, input, output, gps, post, FlagsAgree
<1>2. /\ position = length /\ length \in Nat
      /\ numUnEncoded \in 0..2 /\ jpegBytesLeft = numUnEncoded
      /\ Len(Encoded) \in Nat /\ 3 * Len(Encoded) + jpegBytesLeft = length
  BY <1>1, EncodedFacts DEF TypeOK, FlagsAgree, Balanced, CarryHeld, BetweenBlocks
<1>3. pc' = "flush"
  BY <1>2 DEF EndSequence, Go, AfterTail
<1>4. FlagsAgree' /\ Balanced' /\ BlockHeld' /\ CarryHeld' /\ NeverHalts'
  BY <1>1, <1>3 DEF FlagsAgree, Balanced, BlockHeld, InBlock, CarryHeld, BetweenBlocks, NeverHalts
<1>5. CountsFile' /\ SentSoFar'
  BY <1>1, <1>3 DEF CountsFile, SentSoFar, Announced
<1>6. CASE jpegBytesLeft \in {1, 2}
  <2>1. PICK plus \in BOOLEAN :
          outBuff' = Append(outBuff, [bytes |-> SubSeq(unEncoded, 1, jpegBytesLeft), plus |-> plus])
    BY <1>6 DEF EndSequence, EncodeTail, Encode
  <2>2. jpegBytesLeft' = 0 /\ numUnEncoded' = 0
    BY <1>2, <1>6 DEF EndSequence, EncodeTail
  <2> DEFINE tail == SubSeq(unEncoded, 1, jpegBytesLeft)
             g == [bytes |-> tail, plus |-> plus]
  <2>3. tail \in [1 .. jpegBytesLeft -> 0..MaxLength] /\ Len(tail) = jpegBytesLeft
    <3>1. \A i \in 1 .. jpegBytesLeft : unEncoded[i] \in 0..MaxLength
      BY <1>2 DEF TypeOK
    <3>2. tail \in Seq(0..MaxLength) /\ Len(tail) = jpegBytesLeft
      BY <1>2, <1>6, <3>1, SubSeqProperties
    <3> QED
      BY <3>2, LenProperties
  <2>4. g \in Groups
    BY <1>6, <2>3 DEF Groups
  <2>5. /\ outBuff' \in Seq(Groups) /\ 4 * Len(outBuff') <= OutSize
        /\ Len(Encoded') = Len(Encoded) + 1
        /\ Encoded'[Len(Encoded) + 1] = g
        /\ \A n \in 1 .. Len(Encoded) : Encoded'[n] = Encoded[n]
    <3> HIDE DEF g
    <3>1. outBuff' = Append(outBuff, g) /\ UNCHANGED base64File
      BY <1>1, <2>1 DEF g
    <3> QED
      BY <1>1, <2>4, <3>1, AppendFacts
  <2>6. TypeOK'
    <3>1. ReadSize \in Nat /\ MaxLength \in Nat /\ OutSize \in Nat
      BY SizeAssumption
    <3>2. outBuff' \in Seq(Groups) /\ 4 * Len(outBuff') <= OutSize
      BY <2>5
    <3>3. endOfFile' \in BOOLEAN /\ dataToProcess' \in BOOLEAN
      BY <1>1
    <3> QED
      BY <1>1, <1>3, <2>2, <3>1, <3>2, <3>3 DEF TypeOK
  <2>7. InOrder'
    <3> SUFFICES ASSUME NEW n \in 1 .. Len(Encoded) + 1, 3 * n <= length
                 PROVE  Encoded'[n].bytes = [k \in 1..3 |-> 3 * n - 3 + k]
      BY <1>1, <2>5 DEF InOrder
    <3>1. n \in 1 .. Len(Encoded)
      BY <1>2, <1>6
    <3> QED
      BY <2>5, <3>1 DEF InOrder
  <2>8. Ending'
    <3>1. length % 3 = jpegBytesLeft /\ length \div 3 = Len(Encoded)
      BY <1>2, <1>6
    <3>2. Encoded'[length \div 3 + 1].bytes = tail
      BY <2>5, <3>1
    <3> QED
      BY <1>1, <1>6, <2>2, <2>3, <2>5, <3>1, <3>2 DEF Ending
  <2> QED
    BY <1>4, <1>5, <2>6, <2>7, <2>8
<1>7. CASE jpegBytesLeft = 0
  <2>1. UNCHANGED <<outBuff, jpegBytesLeft, numUnEncoded>>
    BY <1>7 DEF EndSequence, EncodeTail
  <2>2. Encoded' = Encoded
    BY <1>1, <2>1 DEF Encoded
  <2>3. TypeOK' /\ InOrder'
    BY <1>1, <1>3, <2>1, <2>2 DEF TypeOK, InOrder
  <2>4. length % 3 = 0 /\ length \div 3 = Len(Encoded)
    BY <1>2, <1>7
  <2>5. Ending'
    BY <1>1, <1>2, <1>7, <2>1, <2>2, <2>4 DEF Ending
  <2> QED
    BY <1>4, <1>5, <2>3, <2>5
<1> QED
  BY <1>2, <1>6, <1>7

LEMMA FlushStep ==
  IInv /\ Flush => IInv'
<1> SUFFICES ASSUME IInv, Flush
             PROVE  IInv'
  OBVIOUS
<1> USE DEF IInv
<1>1. /\ pc = "flush" /\ outBuff' = <<>>
      /\ base64File' = base64File \o outBuff
      /\ UNCHANGED <<length, position, inBuff, bytesRead, unEncoded, endOfFile, dataToProcess>>
      /\ UNCHANGED <<inBuffIndex, jpegBytesLeft, numUnEncoded, gpsValid, gpsPlus>>
      /\ UNCHANGED <<contentLength, sent, sentGroups>>
  BY DEF Flush, Go, input, rest, loop, gps, post
<1>2. pc' = IF endOfFile THEN "reopen" ELSE IF dataToProcess THEN "process" ELSE "read"
  BY DEF Flush, Go, AfterFlush, Asserted, Ending
<1>3. /\ base64File \in Seq(Groups) /\ outBuff \in Seq(Groups)
      /\ Len(base64File) \in Nat /\ Len(outBuff) \in Nat
      /\ <<>> \in Seq(Groups) /\ Len(<<>>) = 0
      /\ base64File' \in Seq(Groups) /\ Len(base64File') = Len(base64File) + Len(outBuff)
  BY <1>1, LenProperties, EmptySeq, ConcatProperties DEF TypeOK
<1>4. Encoded' = Encoded
  BY <1>1, <1>3, ConcatEmptySeq DEF Encoded
<1>5. base64FileSize' = 4 * Len(base64File')
  BY <1>3 DEF Flush, CountsFile
<1>6. numPlus' = PlusIn(base64File')
  BY <1>1, <1>3, PlusConcat DEF Flush, Counted, CountsFile
<1>7. base64FileSize' \in Nat /\ numPlus' \in Nat
  <2>1. PlusIn(base64File') \in Nat
    BY <1>3, PlusFacts
  <2>2. base64FileSize' \in Nat
    BY <1>3, <1>5
  <2> QED
    BY <1>6, <2>1, <2>2
<1>8. sentGroups' = 0
  BY <1>1 DEF SentSoFar
<1>9. TypeOK'
  BY <1>1, <1>2, <1>3, <1>7, <1>8, SizeAssumption DEF TypeOK
<1>10. FlagsAgree' /\ NeverHalts'
  BY <1>1, <1>2, <1>3, SizeAssumption DEF FlagsAgree, Room, NeverHalts, TypeOK
<1>11. Balanced' /\ InOrder' /\ Ending'
  BY <1>1, <1>2, <1>4 DEF Balanced, InOrder, Ending
<1>12. BlockHeld' /\ CarryHeld'
  <2>1. (InBlock' => InBlock) /\ (BetweenBlocks' => BetweenBlocks)
    BY <1>1, <1>2 DEF InBlock, BetweenBlocks, FlagsAgree
  <2> QED
    BY <1>1, <2>1 DEF BlockHeld, CarryHeld
<1>13. CountsFile' /\ SentSoFar'
  BY <1>1, <1>2, <1>5, <1>6, <1>8 DEF CountsFile, SentSoFar
<1> QED
  BY <1>9, <1>10, <1>11, <1>12, <1>13

LEMMA ReopenStep ==
  IInv /\ (Reopen \/ Socket) => IInv'
<1> SUFFICES ASSUME IInv, Reopen \/ Socket
             PROVE  IInv'
  OBVIOUS
<1> USE DEF IInv
<1>1. /\ pc \in {"reopen", "socket"} /\ pc' \in {"socket", "send", "done"}
      /\ pc' = "socket" => contentLength' = Announced
      /\ pc' = "send" =>
           /\ pc = "socket" /\ UNCHANGED contentLength
           /\ sent' = ImageLength + (IF gpsValid THEN GpsLength + 2 * gpsPlus ELSE 0)
      /\ contentLength' \in {contentLength, Announced}
      /\ sent' \in {sent, ImageLength + (IF gpsValid THEN GpsLength + 2 * gpsPlus ELSE 0)}
      /\ UNCHANGED <<input, rest, outBuff, loop, output, gps, sentGroups>>
  BY DEF Reopen, Socket, Go
<1> USE DEF input, rest, loop, output, gps
<1>2. Encoded' = Encoded /\ Room' = Room /\ Announced' = Announced
  BY <1>1 DEF Encoded, Room, Announced
<1>3. contentLength' \in Nat /\ sent' \in Nat
  BY <1>1 DEF TypeOK, Announced, ImageLength, GpsLength
<1>4. TypeOK'
  BY <1>1, <1>3 DEF TypeOK
<1>5. FlagsAgree' /\ NeverHalts'
  BY <1>1, <1>2 DEF FlagsAgree, NeverHalts
<1>6. Balanced' /\ InOrder' /\ Ending'
  BY <1>1, <1>2 DEF Balanced, InOrder, Ending
<1>7. BlockHeld' /\ CarryHeld'
  BY <1>1 DEF BlockHeld, InBlock, CarryHeld, BetweenBlocks
<1>8. CountsFile'
  BY <1>1, <1>2 DEF CountsFile
<1>9. SentSoFar'
  <2>1. sentGroups = 0
    BY <1>1 DEF SentSoFar
  <2>2. SubSeq(base64File, 1, 0) = <<>> /\ <<>> \in Seq(Groups)
    BY SubSeqEmpty, EmptySeq
  <2>3. PlusIn(SubSeq(base64File, 1, 0)) = 0
    BY <2>2, PlusFacts
  <2>4. pc' = "send" => sent' = sent' + 4 * sentGroups + 2 * PlusIn(SubSeq(base64File, 1, sentGroups))
    BY <1>3, <2>1, <2>3
  <2>5. pc' = "send" => SentSoFar'
    BY <1>1, <1>3, <2>1, <2>3, <2>4 DEF SentSoFar, TypeOK, ImageLength, GpsLength
  <2> QED
    BY <1>1, <2>1, <2>5 DEF SentSoFar
<1> QED
  BY <1>4, <1>5, <1>6, <1>7, <1>8, <1>9

LEMMA SendChunkStep ==
  IInv /\ SendChunk => IInv'
<1> SUFFICES ASSUME IInv, SendChunk
             PROVE  IInv'
  OBVIOUS
<1> USE DEF IInv
<1> DEFINE m == Smaller(sentGroups + SendSize \div 4, Len(base64File))
           done == SubSeq(base64File, 1, sentGroups)
<1>1. /\ pc = "send" /\ pc' = IF Chunk = <<>> THEN "sent" ELSE "send"
      /\ UNCHANGED <<input, rest, outBuff, loop, output, gps, contentLength>>
  BY DEF SendChunk, Go
<1>2. /\ base64File \in Seq(Groups) /\ Len(base64File) \in Nat
      /\ sentGroups \in 0 .. Len(base64File) /\ sent \in Nat
  BY LenProperties DEF TypeOK
<1>3. m \in sentGroups .. Len(base64File) /\ (m = sentGroups => m = Len(base64File))
  <2>1. SendSize \div 4 \in Nat /\ SendSize \div 4 >= 1
    BY SizeAssumption
  <2> QED
    BY <1>2, <2>1 DEF Smaller
<1>4. /\ Chunk = SubSeq(base64File, sentGroups + 1, m)
      /\ Chunk \in Seq(Groups) /\ Len(Chunk) = m - sentGroups
      /\ done \in Seq(Groups)
  <2> HIDE DEF m
  <2>1. Chunk = SubSeq(base64File, sentGroups + 1, m)
    BY DEF Chunk, m
  <2>2. /\ \A i \in sentGroups + 1 .. m : base64File[i] \in Groups
        /\ \A i \in 1 .. sentGroups : base64File[i] \in Groups
    BY <1>2, <1>3, ElementOfSeq
  <2>3. Len(SubSeq(base64File, sentGroups + 1, m))
          = IF sentGroups + 1 <= m THEN m - (sentGroups + 1) + 1 ELSE 0
    BY <1>2, <1>3, <2>2, SubSeqProperties
  <2>4. Chunk \in Seq(Groups) /\ done \in Seq(Groups)
    BY <1>2, <1>3, <2>1, <2>2, SubSeqProperties
  <2>5. Len(Chunk) = m - sentGroups
    BY <1>2, <1>3, <2>1, <2>3
  <2> QED
    BY <2>1, <2>4, <2>5
<1>5. SubSeq(base64File, 1, m) = done \o Chunk
  <2> HIDE DEF m
  <2> QED
    BY <1>2, <1>3, <1>4, ConcatAdjacentSubSeq
<1>6. PlusIn(SubSeq(base64File, 1, m)) = PlusIn(done) + PlusIn(Chunk)
  BY <1>4, <1>5, PlusConcat
<1>7. PlusIn(done) \in Nat /\ PlusIn(Chunk) \in Nat
  BY <1>4, PlusFacts
<1> HIDE DEF m, done
<1>8. sentGroups' = m
  <2>1. sentGroups' = sentGroups + Len(Chunk)
    BY DEF SendChunk
  <2> QED
    BY <1>2, <1>3, <1>4, <2>1
<1>9. sent' = sent + 4 * (m - sentGroups) + 2 * PlusIn(Chunk)
  BY <1>4 DEF SendChunk
<1>10. sent' \in Nat
  BY <1>2, <1>3, <1>7, <1>9
<1> USE DEF input, rest, loop, output, gps
<1>11. Encoded' = Encoded /\ Room' = Room /\ Announced' = Announced
  BY <1>1 DEF Encoded, Room, Announced
<1>12. TypeOK'
  BY <1>1, <1>2, <1>3, <1>8, <1>10 DEF TypeOK
<1>13. FlagsAgree' /\ NeverHalts'
  BY <1>1, <1>11 DEF FlagsAgree, NeverHalts
<1>14. Balanced' /\ InOrder' /\ Ending'
  BY <1>1, <1>11 DEF Balanced, InOrder, Ending
<1>15. BlockHeld' /\ CarryHeld' /\ CountsFile'
  BY <1>1, <1>11 DEF BlockHeld, InBlock, CarryHeld, BetweenBlocks, CountsFile
<1>16. pc' = "sent" => sentGroups' = Len(base64File')
  <2>1. Chunk = <<>> => m = sentGroups
    BY <1>2, <1>3, <1>4, EmptySeq
  <2> QED
    BY <1>1, <1>3, <1>8, <2>1
<1>17. sent' = ImageLength + (IF gpsValid THEN GpsLength + 2 * gpsPlus ELSE 0)
               + 4 * m + 2 * PlusIn(SubSeq(base64File, 1, m))
  <2> DEFINE start == ImageLength + (IF gpsValid THEN GpsLength + 2 * gpsPlus ELSE 0)
  <2>1. start \in Nat
    BY DEF TypeOK, ImageLength, GpsLength
  <2>2. sent = start + 4 * sentGroups + 2 * PlusIn(done)
    BY <1>1 DEF SentSoFar, done
  <2> HIDE DEF start
  <2>3. m \in Nat /\ sentGroups \in Nat
    BY <1>2, <1>3
  <2>4. sent' = start + 4 * m + 2 * (PlusIn(done) + PlusIn(Chunk))
    <3>1. (start + 4 * sentGroups + 2 * PlusIn(done)) + 4 * (m - sentGroups) + 2 * PlusIn(Chunk)
            = start + 4 * m + 2 * (PlusIn(done) + PlusIn(Chunk))
      BY <1>7, <2>1, <2>3
    <3>2. sent' = (start + 4 * sentGroups + 2 * PlusIn(done)) + 4 * (m - sentGroups)
                  + 2 * PlusIn(Chunk)
      BY <1>9, <2>2, ZenonT(30)
    <3> QED
      BY <3>1, <3>2, ZenonT(30)
  <2>5. sent' = start + 4 * m + 2 * PlusIn(SubSeq(base64File, 1, m))
    BY <1>6, <2>4
  <2> QED
    BY <2>5 DEF start
<1>18. SentSoFar'
  BY <1>1, <1>8, <1>16, <1>17 DEF SentSoFar
<1> QED
  BY <1>12, <1>13, <1>14, <1>15, <1>18

LEMMA InvariantHolds ==
  Spec => []IInv
<1>1. IInv /\ [Next]_vars => IInv'
  <2> SUFFICES ASSUME IInv, [Next]_vars
               PROVE  IInv'
    OBVIOUS
  <2>1. CASE Open \/ ReadError \/ FlushFails \/ Finish \/ Stop \/ UNCHANGED vars
    BY <2>1, OpenStep
  <2>2. CASE Read
    BY <2>2, ReadStep
  <2>3. CASE EncodeGroup
    BY <2>3, EncodeGroupStep
  <2>4. CASE KeepRest
    BY <2>4, KeepRestStep
  <2>5. CASE EndSequence
    BY <2>5, EndSequenceStep
  <2>6. CASE Flush
    BY <2>6, FlushStep
  <2>7. CASE Reopen \/ Socket
    BY <2>7, ReopenStep
  <2>8. CASE SendChunk
    BY <2>8, SendChunkStep
  <2> QED
    BY <2>1, <2>2, <2>3, <2>4, <2>5, <2>6, <2>7, <2>8 DEF Next, Step
<1> QED
  BY <1>1, InitHolds, PTL DEF Spec

-----------------------------------------------------------------------------
(***************************************************************************)
(* The theorems.                                                           *)
(***************************************************************************)

\* No buffer is overrun and no index leaves its range, whatever the sizes of the
\* buffers and the length of the picture.
THEOREM TypeCorrect ==
  Spec => []TypeOK
BY InvariantHolds, PTL DEF IInv

\* The n-th group encodes the n-th three bytes however the blocks and the
\* flushes fall, and every byte read is encoded or left (modem.c:392-446).
THEOREM OrderKept ==
  Spec => []EncodesInOrder
<1>1. IInv => EncodesInOrder
  BY DEF IInv, InOrder, Balanced, EncodesInOrder
<1> QED
  BY <1>1, InvariantHolds, PTL

\* The file has a group for every three bytes and the last has the rest
\* (modem.c:447-485).
THEOREM AllEncoded ==
  Spec => []EncodesAll
<1>1. IInv => EncodesAll
  <2> SUFFICES ASSUME IInv, pc \in {"reopen", "socket", "send", "sent"}
               PROVE  LET full == length \div 3
                          tail == length % 3
                      IN  /\ Len(base64File) = IF tail = 0 THEN full ELSE full + 1
                          /\ tail # 0 => Len(base64File[full + 1].bytes) = tail
    BY DEF EncodesAll
  <2>1. endOfFile /\ Encoded = base64File
    BY EncodedFacts DEF IInv, FlagsAgree
  <2> QED
    BY <2>1 DEF IInv, Ending
<1> QED
  BY <1>1, InvariantHolds, PTL

\* The loops behind "Should never happen" are never reached (modem.c:478, 520).
THEOREM HaltUnreachable ==
  Spec => []NeverHalts
BY InvariantHolds, PTL DEF IInv

\* The body is as long as announced when no '+' is in the position
\* (modem.c:543-556).
THEOREM LengthKept ==
  Spec => []LengthAnnounced
<1>1. IInv => LengthAnnounced
  <2> SUFFICES ASSUME IInv, pc = "sent", gpsPlus = 0
               PROVE  sent = contentLength
    BY DEF LengthAnnounced
  <2>1. SubSeq(base64File, 1, Len(base64File)) = base64File
    BY SubSeqFull DEF IInv, TypeOK
  <2>2. PlusIn(base64File) \in Nat /\ Len(base64File) \in Nat
    BY PlusFacts, LenProperties DEF IInv, TypeOK
  <2>3. sent = ImageLength + (IF gpsValid THEN GpsLength ELSE 0)
               + 4 * Len(base64File) + 2 * PlusIn(base64File)
    <3>1. /\ sentGroups = Len(base64File)
          /\ sent = ImageLength + (IF gpsValid THEN GpsLength + 2 * gpsPlus ELSE 0)
                    + 4 * sentGroups + 2 * PlusIn(SubSeq(base64File, 1, sentGroups))
      BY DEF IInv, SentSoFar
    <3>2. GpsLength + 2 * gpsPlus = GpsLength
      BY DEF GpsLength
    <3> QED
      BY <2>1, <3>1, <3>2
  <2>4. contentLength = ImageLength + 4 * Len(base64File) + 2 * PlusIn(base64File)
                        + (IF gpsValid THEN GpsLength ELSE 0)
    BY DEF IInv, CountsFile, Announced
  <2> QED
    BY <2>2, <2>3, <2>4 DEF ImageLength, GpsLength
<1> QED
  BY <1>1, InvariantHolds, PTL
=============================================================================
