---------------------------- MODULE SettingsProofs ----------------------------
(***************************************************************************)
(* Proofs about module Settings, for every length of a phone number and of *)
(* a PIN, every file found on the card, and every way the screen is        *)
(* touched.                                                                *)
(***************************************************************************)
EXTENDS Settings, TLAPS

Keys == Digits \cup {BACKSPACE, ENTER}

(***************************************************************************)
(* Lemmas about the operators.                                             *)
(***************************************************************************)

\* Every touch that Col and Row place among the keys is a key.
LEMMA TouchIsKey == ASSUME NEW s PROVE getKey(s) \in Keys
<1>1. Row(s) \in 1..4 /\ Col(s) \in 1..3
  BY DEF Row, Col
<1>2. \A r \in 1..4, c \in 1..3 : keyArray[r][c] \in Keys
  BY DEF keyArray, Keys, Digits
<1>. QED  BY <1>1, <1>2 DEF getKey

\* A key leaves buffer and index in their types, and in step.
LEMMA KeyInStep ==
  ASSUME NEW n \in Nat, NEW buf \in [1..n -> Chars], index \in 0..n,
         NEW key \in Keys, Holds(buf, n, index)
  PROVE  /\ Keyed(buf, n, key) \in [1..n -> Chars]
         /\ NextIndex(n, key) \in 0..n
         /\ Holds(Keyed(buf, n, key), n, NextIndex(n, key))
<1>1. CASE key = BACKSPACE
  <2>1. CASE index = 0
    BY <1>1, <2>1 DEF Keyed, Erased, NextIndex
  <2>2. CASE index # 0
    <3>1. /\ Keyed(buf, n, key) = [buf EXCEPT ![index] = Blank]
          /\ NextIndex(n, key) = index - 1
      BY <1>1, <2>2 DEF Keyed, Erased, NextIndex, Put
    <3>. QED  BY <2>2, <3>1 DEF Holds, Chars
  <2>. QED  BY <2>1, <2>2
<1>2. CASE key = ENTER
  BY <1>2, CharAssumption DEF Keyed, NextIndex
<1>3. CASE key \in Digits
  <2>1. key # BACKSPACE /\ key # ENTER
    BY <1>3, CharAssumption DEF Digits
  <2>2. CASE index = n
    BY <2>1, <2>2 DEF Keyed, Typed, NextIndex
  <2>3. CASE index < n
    <3>1. /\ Keyed(buf, n, key) = [buf EXCEPT ![index + 1] = key]
          /\ NextIndex(n, key) = index + 1
      BY <2>1, <2>3 DEF Keyed, Typed, NextIndex, Put
    <3>. QED  BY <1>3, <2>3, <3>1 DEF Holds, Chars
  <2>. QED  BY <2>2, <2>3
<1>. QED  BY <1>1, <1>2, <1>3 DEF Keys

\* An empty pad is in step, whatever its size.
LEMMA EmptyInStep ==
  ASSUME NEW n \in Nat
  PROVE  Blanks(n) \in [1..n -> Chars] /\ Holds(Blanks(n), n, 0)
BY DEF Blanks, Holds, Chars

\* What RAM holds after power on is a phone number and a PIN.
LEMMA DefaultTyped == ASSUME NEW n \in Nat PROVE Default(n) \in [1..n -> Chars]
BY DEF Default, Chars, Digits

\* The text of the settings is as long as a record, and gives the settings back.
LEMMA TextFacts ==
  ASSUME NEW phone \in [1..PHONE_LEN -> Chars], NEW pin \in [1..PIN_LEN -> Chars]
  PROVE  /\ Text(phone, pin) \in Seq(Chars)
         /\ Len(Text(phone, pin)) = Record
         /\ validConfig(Text(phone, pin))
         /\ PhoneIn(Text(phone, pin)) = phone
         /\ PinIn(Text(phone, pin)) = pin
<1>. DEFINE t == Text(phone, pin)
<1>1. Record \in Nat /\ PHONE_LEN + 1 \in 1..Record
  BY LengthAssumption DEF Record
<1>2. \A i \in 1..Record : t[i] \in Chars
  BY LengthAssumption DEF Text, Record, Chars
<1>3. t = [i \in 1..Record |-> t[i]]
  BY DEF Text
<1>4. t \in [1..Record -> Chars]
  BY <1>2, <1>3
<1>5. t \in Seq(Chars) /\ Len(t) = Record
  BY <1>1, <1>4
<1>6. validConfig(t)
  BY <1>1, LengthAssumption DEF validConfig, Text
<1>7. PhoneIn(t) = phone
  <2>1. \A i \in 1..PHONE_LEN : t[i] = phone[i]
    BY LengthAssumption DEF Text, Record
  <2>. QED  BY <2>1 DEF PhoneIn
<1>8. PinIn(t) = pin
  <2>1. \A i \in 1..PIN_LEN : t[PHONE_LEN + 1 + i] = pin[i]
    BY LengthAssumption DEF Text, Record
  <2>. QED  BY <2>1 DEF PinIn
<1>. QED  BY <1>5, <1>6, <1>7, <1>8

\* Writing over a file leaves a file that holds the settings, with what a longer
\* one had behind them.
LEMMA OverFacts ==
  ASSUME NEW file \in Seq(Chars), NEW phone \in [1..PHONE_LEN -> Chars],
         NEW pin \in [1..PIN_LEN -> Chars]
  PROVE  LET after == Over(file, Text(phone, pin)) IN
         /\ after \in Seq(Chars)
         /\ Len(after) >= Record /\ Len(after) >= Len(file)
         /\ Len(after) = Record => after = Text(phone, pin)
         /\ PhoneIn(after) = phone /\ PinIn(after) = pin
<1>. DEFINE t == Text(phone, pin)
            after == Over(file, t)
<1>1. Record \in Nat /\ PHONE_LEN \in Nat /\ PIN_LEN \in Nat /\ Record = PHONE_LEN + 1 + PIN_LEN
  BY LengthAssumption DEF Record
<1>2. /\ t \in Seq(Chars) /\ Len(t) = Record
      /\ PhoneIn(t) = phone /\ PinIn(t) = pin
  BY TextFacts
<1>3. CASE Len(file) <= Len(t)
  <2>1. after = t
    BY <1>3 DEF Over
  <2>. HIDE DEF t, after
  <2>. QED  BY <1>1, <1>2, <1>3, <2>1 DEF t, after
<1>4. CASE ~(Len(file) <= Len(t))
  <2>. HIDE DEF t
  <2>1. after = [i \in 1..Len(file) |-> IF i <= Len(t) THEN t[i] ELSE file[i]]
    BY <1>4 DEF Over
  <2>2. \A i \in 1..Len(file) : (IF i <= Len(t) THEN t[i] ELSE file[i]) \in Chars
    BY <1>2
  <2>3. after \in [1..Len(file) -> Chars]
    BY <2>1, <2>2
  <2>4. after \in Seq(Chars) /\ Len(after) = Len(file)
    BY <2>3
  <2>5. \A i \in 1..Record : after[i] = t[i]
    BY <1>1, <1>2, <1>4, <2>1
  <2>6. PhoneIn(after) = PhoneIn(t) /\ PinIn(after) = PinIn(t)
    BY <1>1, <2>5 DEF PhoneIn, PinIn
  <2>7. Len(file) > Record
    BY <1>1, <1>2, <1>4
  <2>. QED  BY <1>1, <1>2, <2>4, <2>6, <2>7 DEF t
<1>. QED  BY <1>3, <1>4

\* A close that fails or is cut off leaves the file, or what will be in it.
LEMMA HalfFacts ==
  ASSUME TypeOK, NEW file \in HalfClosed
  PROVE  /\ file \in Seq(Chars)
         /\ Offers(file) /\ file # conf => file = Text(phoneNum, pinNum)
<1>. DEFINE t == Text(phoneNum, pinNum)
<1>1. /\ Written \in Seq(Chars) /\ Len(Written) >= Len(conf)
      /\ Len(Written) = Record => Written = t
      /\ Len(Written) >= Record
  BY OverFacts DEF TypeOK, Written
<1>2. Record \in Nat
  BY LengthAssumption DEF Record
<1>. HIDE DEF t
<1>3. CASE file = conf
  BY <1>3 DEF TypeOK
<1>4. CASE file = Written
  BY <1>1, <1>4 DEF Offers, t
<1>5. CASE file = SubSeq(Written, 1, Len(conf))
  <2>1. Len(conf) \in Nat /\ Len(Written) \in Nat
    BY <1>1 DEF TypeOK
  <2>2. file \in Seq(Chars) /\ Len(file) = Len(conf)
    BY <1>1, <1>5, <2>1
  <2>3. CASE Len(conf) = Record
    <3>1. Written = t
      BY <1>1, <2>3, TextFacts DEF TypeOK, Written, Over, t
    <3>2. Len(t) = Record /\ t \in Seq(Chars)
      BY TextFacts DEF TypeOK, t
    <3>3. file = t
      <4>1. \A i \in 1..Record : file[i] = t[i]
        BY <1>2, <1>5, <2>3, <3>1, <3>2
      <4>. QED  BY <1>2, <2>2, <2>3, <3>2, <4>1
    <3>. QED  BY <2>2, <3>3 DEF t
  <2>. QED  BY <2>2, <2>3 DEF Offers
<1>. QED  BY <1>3, <1>4, <1>5 DEF HalfClosed

(***************************************************************************)
(* The inductive invariant.  Remembered is not inductive alone: the screen *)
(* that offers the settings found must already show what the card holds,   *)
(* and PadInStep is what makes a completed input whole.                    *)
(***************************************************************************)
OnCard ==
  /\ Len(conf) >= Record
  /\ Len(conf) = Record => Offers(conf)
  /\ PhoneIn(conf) = phoneNum /\ PinIn(conf) = pinNum

Shown == pc \in Running \cup {"check"} => OnCard

IInv == TypeOK /\ PadInStep /\ TypedWhole /\ Shown

USE DEF Running, Places

LEMMA FileTyped == Files \subseteq Seq(Chars)
<1>1. SUFFICES ASSUME NEW n \in FileLengths, NEW f \in [1..n -> FileDigits \cup {Blank, Other}]
               PROVE f \in Seq(Chars)
  BY DEF Files
<1>2. n \in Nat /\ FileDigits \subseteq Digits
  BY FileAssumption DEF Digits
<1>3. f \in [1..n -> Chars]
  BY <1>2 DEF Chars
<1>. QED  BY <1>2, <1>3

LEMMA InitIInv == Init => IInv
<1>. SUFFICES ASSUME Init PROVE IInv
  OBVIOUS
<1>1. TypeOK
  <2>1. /\ Default(PHONE_LEN) \in [1..PHONE_LEN -> Chars]
        /\ Default(PIN_LEN) \in [1..PIN_LEN -> Chars]
        /\ Blanks(PIN_LEN) \in [1..PIN_LEN -> Chars]
    BY LengthAssumption, DefaultTyped, EmptyInStep
  <2>2. 0 \in 0 .. PIN_LEN
    BY LengthAssumption
  <2>. QED  BY FileTyped, <2>1, <2>2 DEF Init, TypeOK
<1>2. pc = "open"
  BY DEF Init
<1>. QED  BY <1>1, <1>2 DEF IInv, PadInStep, TypedWhole, Shown

(***************************************************************************)
(* The steps of the user: a touch on one of the pads.                      *)
(***************************************************************************)
LEMMA PadSteps ==
  ASSUME IInv, TypePhone \/ TypePin \/ TypeStop
  PROVE  IInv'
<1>. USE DEF IInv
<1>1. /\ PHONE_LEN \in Nat /\ 0 \in 0..PHONE_LEN
      /\ PIN_LEN \in Nat /\ 0 \in 0..PIN_LEN
  BY LengthAssumption
<1>2. getKey(finger) \in Keys
  BY TouchIsKey
<1>. DEFINE key == getKey(finger)
<1>3. CASE TypePhone
  <2>1. index \in 0..PHONE_LEN /\ Holds(phoneNum, PHONE_LEN, index)
    BY <1>3 DEF TypePhone, TypeOK, PadInStep
  <2>2. CASE Completes(PHONE_LEN, key)
    <3>1. /\ pc' = "pin" /\ pinNum' = Blanks(PIN_LEN) /\ index' = 0
          /\ fresh' = FALSE
          /\ UNCHANGED <<phoneNum, conf, pinBuff, finger>>
      BY <1>3, <2>2 DEF TypePhone, Show
    <3>2. Holds(phoneNum, PHONE_LEN, PHONE_LEN)
      BY <2>1, <2>2 DEF Completes
    <3>3. Blanks(PIN_LEN) \in [1..PIN_LEN -> Chars] /\ Holds(Blanks(PIN_LEN), PIN_LEN, 0)
      BY <1>1, EmptyInStep
    <3>4. TypeOK'
      BY <1>1, <3>1, <3>3 DEF TypeOK
    <3>5. PadInStep'
      BY <3>1, <3>3 DEF PadInStep
    <3>6. TypedWhole' /\ Shown'
      BY <3>1, <3>2 DEF TypedWhole, Shown
    <3>. QED  BY <3>4, <3>5, <3>6
  <2>3. CASE ~Completes(PHONE_LEN, key)
    <3>1. /\ phoneNum' = Keyed(phoneNum, PHONE_LEN, key)
          /\ index' = NextIndex(PHONE_LEN, key)
          /\ pc = "phone" /\ pc' = pc
          /\ UNCHANGED <<fresh, pinNum, conf, pinBuff, finger>>
      BY <1>3, <2>3 DEF TypePhone
    <3>2. /\ Keyed(phoneNum, PHONE_LEN, key) \in [1..PHONE_LEN -> Chars]
          /\ NextIndex(PHONE_LEN, key) \in 0..PHONE_LEN
          /\ Holds(Keyed(phoneNum, PHONE_LEN, key), PHONE_LEN, NextIndex(PHONE_LEN, key))
      BY <1>1, <1>2, <2>1, KeyInStep DEF TypeOK
    <3>3. TypeOK'
      BY <1>1, <3>1, <3>2 DEF TypeOK
    <3>4. PadInStep'
      BY <3>1, <3>2 DEF PadInStep
    <3>5. TypedWhole'
      BY <3>1 DEF TypedWhole
    <3>6. Shown'
      BY <3>1 DEF Shown
    <3>. QED  BY <3>3, <3>4, <3>5, <3>6
  <2>. QED  BY <2>2, <2>3
<1>4. CASE TypePin
  <2>1. index \in 0..PIN_LEN /\ Holds(pinNum, PIN_LEN, index)
    BY <1>4 DEF TypePin, TypeOK, PadInStep
  <2>2. CASE Completes(PIN_LEN, key)
    <3>1. /\ pc = "pin" /\ pc' = "recheck" /\ index' = 0 /\ fresh' = FALSE
          /\ UNCHANGED <<phoneNum, pinNum, conf, pinBuff, finger>>
      BY <1>4, <2>2 DEF TypePin, Show
    <3>2. Holds(pinNum, PIN_LEN, PIN_LEN)
      BY <2>1, <2>2 DEF Completes
    <3>3. TypeOK'
      BY <1>1, <3>1 DEF TypeOK
    <3>4. PadInStep' /\ Shown'
      BY <3>1 DEF PadInStep, Shown
    <3>5. TypedWhole'
      BY <3>1, <3>2 DEF TypedWhole
    <3>. QED  BY <3>3, <3>4, <3>5
  <2>3. CASE ~Completes(PIN_LEN, key)
    <3>1. /\ pinNum' = Keyed(pinNum, PIN_LEN, key)
          /\ index' = NextIndex(PIN_LEN, key)
          /\ pc = "pin" /\ pc' = pc
          /\ UNCHANGED <<fresh, phoneNum, conf, pinBuff, finger>>
      BY <1>4, <2>3 DEF TypePin
    <3>2. /\ Keyed(pinNum, PIN_LEN, key) \in [1..PIN_LEN -> Chars]
          /\ NextIndex(PIN_LEN, key) \in 0..PIN_LEN
          /\ Holds(Keyed(pinNum, PIN_LEN, key), PIN_LEN, NextIndex(PIN_LEN, key))
      BY <1>1, <1>2, <2>1, KeyInStep DEF TypeOK
    <3>3. TypeOK'
      BY <1>1, <3>1, <3>2 DEF TypeOK
    <3>4. PadInStep'
      BY <3>1, <3>2 DEF PadInStep
    <3>5. TypedWhole'
      BY <3>1 DEF TypedWhole
    <3>6. Shown'
      BY <3>1 DEF Shown
    <3>. QED  BY <3>3, <3>4, <3>5, <3>6
  <2>. QED  BY <2>2, <2>3
<1>5. CASE TypeStop
  <2>1. /\ pc \in {"stop", "cancel"}
        /\ index \in 0..PIN_LEN /\ Holds(pinBuff, PIN_LEN, index)
        /\ UNCHANGED <<conf, phoneNum, pinNum, finger>>
    BY <1>5 DEF TypeStop, TypeOK, PadInStep
  <2>2. CASE Completes(PIN_LEN, key)
    <3>1. /\ pinBuff' = Blanks(PIN_LEN) /\ index' = 0
          /\ pc' \in {pc, "run"} /\ fresh' \in {fresh, FALSE}
      BY <1>5, <2>2 DEF TypeStop, Show
    <3>2. Blanks(PIN_LEN) \in [1..PIN_LEN -> Chars] /\ Holds(Blanks(PIN_LEN), PIN_LEN, 0)
      BY <1>1, EmptyInStep
    <3>3. OnCard'
      BY <2>1 DEF Shown, OnCard, Offers
    <3>4. TypeOK'
      BY <1>1, <2>1, <3>1, <3>2 DEF TypeOK
    <3>5. PadInStep'
      BY <2>1, <3>1, <3>2 DEF PadInStep
    <3>6. TypedWhole' /\ Shown'
      BY <2>1, <3>1, <3>3 DEF TypedWhole, Shown
    <3>. QED  BY <3>4, <3>5, <3>6
  <2>3. CASE ~Completes(PIN_LEN, key)
    <3>1. /\ pinBuff' = Keyed(pinBuff, PIN_LEN, key)
          /\ index' = NextIndex(PIN_LEN, key)
          /\ pc' = pc /\ UNCHANGED fresh
      BY <1>5, <2>3 DEF TypeStop
    <3>2. /\ Keyed(pinBuff, PIN_LEN, key) \in [1..PIN_LEN -> Chars]
          /\ NextIndex(PIN_LEN, key) \in 0..PIN_LEN
          /\ Holds(Keyed(pinBuff, PIN_LEN, key), PIN_LEN, NextIndex(PIN_LEN, key))
      BY <1>1, <1>2, <2>1, KeyInStep DEF TypeOK
    <3>3. OnCard'
      BY <2>1 DEF Shown, OnCard, Offers
    <3>4. TypeOK'
      BY <2>1, <3>1, <3>2 DEF TypeOK
    <3>5. PadInStep'
      BY <2>1, <3>1, <3>2 DEF PadInStep
    <3>6. TypedWhole' /\ Shown'
      BY <2>1, <3>1, <3>3 DEF TypedWhole, Shown
    <3>. QED  BY <3>4, <3>5, <3>6
  <2>. QED  BY <2>2, <2>3
<1>. QED  BY <1>3, <1>4, <1>5

(***************************************************************************)
(* The steps that change neither RAM nor the card.                         *)
(***************************************************************************)
LEMMA QuietSteps ==
  ASSUME IInv, Open \/ Fails \/ Accept \/ Verify \/ Seek \/ Write \/ PutDown \/ Lift
  PROVE  IInv'
<1>. USE DEF IInv
<1>1. /\ UNCHANGED <<conf, phoneNum, pinNum, pinBuff, index>>
      /\ pc' \in Places /\ fresh' \in BOOLEAN /\ finger' \in Spots \cup {NoTouch}
  BY DEF Open, Fails, Accept, Verify, Seek, Write, PutDown, Lift, Show, ram, TypeOK
<1>2. pc' = pc \/ pc' \notin {"phone", "pin", "stop", "cancel"}
  BY DEF Open, Fails, Accept, Verify, Seek, Write, PutDown, Lift, Show
<1>3. PHONE_LEN \in Nat /\ PIN_LEN \in Nat
  BY LengthAssumption
<1>4. pc = "phone" => pc' = pc \/ pc' = "halt"
  BY DEF Open, Fails, Accept, Verify, Seek, Write, PutDown, Lift, Show
<1>5. pc # "phone" => pc' # "phone"
  BY <1>2
<1>6. pc = "phone" => pc' = "phone"
  BY DEF Open, Fails, Accept, Verify, Seek, Write, PutDown, Lift, Show
<1>7. TypeOK'
  BY <1>1, <1>5, <1>6 DEF TypeOK
<1>8. PadInStep'
  BY <1>1, <1>2 DEF PadInStep
<1>9. TypedWhole'
  <2>1. pc' \in {"recheck", "verify", "seek", "write", "close"} =>
          pc \in {"recheck", "verify", "seek", "write", "close"}
    BY DEF Open, Fails, Accept, Verify, Seek, Write, PutDown, Lift, Show
  <2>2. pc' = "pin" => pc = "pin"
    BY <1>2
  <2>. QED  BY <1>1, <2>1, <2>2 DEF TypedWhole
<1>10. Shown'
  <2>1. pc' \in Running \cup {"check"} => pc \in Running \cup {"check"}
    BY DEF Open, Fails, Accept, Verify, Seek, Write, PutDown, Lift, Show
  <2>2. OnCard <=> OnCard'
    BY <1>1 DEF OnCard
  <2>. QED  BY <2>1, <2>2 DEF Shown
<1>. QED  BY <1>7, <1>8, <1>9, <1>10

(***************************************************************************)
(* The steps that read or write the card, or draw a pad.                   *)
(***************************************************************************)
LEMMA CardSteps ==
  ASSUME IInv, Offer \/ NoSettings \/ Modify \/ Close \/ CloseFails
                 \/ Alarm \/ Interrupted \/ Reset
  PROVE  IInv'
<1>. USE DEF IInv
<1>1. /\ PHONE_LEN \in Nat /\ 0 \in 0..PHONE_LEN
      /\ PIN_LEN \in Nat /\ 0 \in 0..PIN_LEN
  BY LengthAssumption
<1>2. CASE Offer
  <2>1. /\ pc = "read" /\ pc' = "check" /\ fresh' = FALSE /\ Offers(conf)
        /\ phoneNum' = PhoneIn(conf) /\ pinNum' = PinIn(conf)
        /\ UNCHANGED <<conf, pinBuff, index, finger>>
    BY <1>2 DEF Offer, Show
  <2>2. /\ PhoneIn(conf) \in [1..PHONE_LEN -> Chars]
        /\ PinIn(conf) \in [1..PIN_LEN -> Chars]
    <3>1. \A i \in 1..Record : conf[i] \in Chars
      BY <2>1, LengthAssumption DEF TypeOK, Offers, Record
    <3>. QED  BY <3>1, LengthAssumption DEF PhoneIn, PinIn, Record
  <2>3. TypeOK'
    BY <2>1, <2>2 DEF TypeOK
  <2>4. PadInStep' /\ TypedWhole'
    BY <2>1 DEF PadInStep, TypedWhole
  <2>5. Len(conf) >= Record
    BY <2>1, LengthAssumption DEF Offers, Record
  <2>6. Shown'
    BY <2>1, <2>5 DEF Shown, OnCard
  <2>. QED  BY <2>3, <2>4, <2>6
<1>3. CASE NoSettings \/ Modify
  <2>1. /\ pc' = "phone" /\ fresh' = FALSE
        /\ phoneNum' = Blanks(PHONE_LEN) /\ index' = 0
        /\ UNCHANGED <<conf, pinNum, pinBuff, finger>>
    BY <1>3 DEF NoSettings, Modify, AskPhone, Show
  <2>2. /\ Blanks(PHONE_LEN) \in [1..PHONE_LEN -> Chars]
        /\ Holds(Blanks(PHONE_LEN), PHONE_LEN, 0)
    BY <1>1, EmptyInStep
  <2>3. TypeOK'
    BY <1>1, <2>1, <2>2 DEF TypeOK
  <2>4. PadInStep' /\ TypedWhole' /\ Shown'
    BY <2>1, <2>2 DEF PadInStep, TypedWhole, Shown
  <2>. QED  BY <2>3, <2>4
<1>4. CASE Close
  <2>1. /\ pc = "close" /\ pc' = "run" /\ conf' = Written
        /\ UNCHANGED <<phoneNum, pinNum, pinBuff, index, finger, fresh>>
    BY <1>4 DEF Close, ram
  <2>2. /\ Written \in Seq(Chars) /\ Len(Written) >= Record
        /\ Len(Written) = Record => Written = Text(phoneNum, pinNum)
        /\ PhoneIn(Written) = phoneNum /\ PinIn(Written) = pinNum
    BY OverFacts DEF TypeOK, Written
  <2>3. Len(Written) = Record => Offers(Written)
    BY <2>2, TextFacts DEF TypeOK, Offers
  <2>4. TypeOK'
    BY <2>1, <2>2 DEF TypeOK
  <2>5. PadInStep' /\ TypedWhole'
    BY <2>1 DEF PadInStep, TypedWhole
  <2>6. Shown'
    BY <2>1, <2>2, <2>3 DEF Shown, OnCard
  <2>. QED  BY <2>4, <2>5, <2>6
<1>5. CASE CloseFails
  <2>1. /\ pc = "close" /\ pc' = "halt" /\ conf' \in HalfClosed
        /\ UNCHANGED <<phoneNum, pinNum, pinBuff, index, finger, fresh>>
    BY <1>5 DEF CloseFails, ram
  <2>2. conf' \in Seq(Chars)
    BY <2>1, HalfFacts
  <2>3. TypeOK'
    BY <2>1, <2>2 DEF TypeOK
  <2>4. PadInStep' /\ TypedWhole' /\ Shown'
    BY <2>1 DEF PadInStep, TypedWhole, Shown
  <2>. QED  BY <2>3, <2>4
<1>6. CASE Alarm \/ Interrupted
  <2>1. /\ pc \in {"run", "cancel"} /\ pc' \in {"stop", "cancel"}
        /\ fresh' = FALSE /\ pinBuff' = Blanks(PIN_LEN) /\ index' = 0
        /\ UNCHANGED <<conf, phoneNum, pinNum, finger>>
    BY <1>6 DEF Alarm, Interrupted, AskPin, Show
  <2>2. Blanks(PIN_LEN) \in [1..PIN_LEN -> Chars] /\ Holds(Blanks(PIN_LEN), PIN_LEN, 0)
    BY <1>1, EmptyInStep
  <2>3. TypeOK'
    BY <1>1, <2>1, <2>2 DEF TypeOK
  <2>4. PadInStep' /\ TypedWhole'
    BY <2>1, <2>2 DEF PadInStep, TypedWhole
  <2>5. Shown'
    BY <2>1 DEF Shown, OnCard
  <2>. QED  BY <2>3, <2>4, <2>5
<1>7. CASE Reset
  <2>1. /\ pc' = "open" /\ index' = 0 /\ fresh' = FALSE
        /\ phoneNum' = Default(PHONE_LEN) /\ pinNum' = Default(PIN_LEN)
        /\ pinBuff' = Blanks(PIN_LEN)
        /\ conf' \in HalfClosed \cup {conf}
        /\ UNCHANGED finger
    BY <1>7 DEF Reset
  <2>2. conf' \in Seq(Chars)
    BY <2>1, HalfFacts DEF TypeOK
  <2>3. /\ Default(PHONE_LEN) \in [1..PHONE_LEN -> Chars]
        /\ Default(PIN_LEN) \in [1..PIN_LEN -> Chars]
        /\ Blanks(PIN_LEN) \in [1..PIN_LEN -> Chars]
    BY <1>1, DefaultTyped, EmptyInStep
  <2>4. TypeOK'
    BY <1>1, <2>1, <2>2, <2>3 DEF TypeOK
  <2>5. PadInStep' /\ TypedWhole' /\ Shown'
    BY <2>1 DEF PadInStep, TypedWhole, Shown
  <2>. QED  BY <2>4, <2>5
<1>. QED  BY <1>2, <1>3, <1>4, <1>5, <1>6, <1>7

LEMMA StepIInv == IInv /\ [Next]_vars => IInv'
<1>. SUFFICES ASSUME IInv, [Next]_vars PROVE IInv'
  OBVIOUS
<1>1. CASE Next
  BY <1>1, PadSteps, QuietSteps, CardSteps DEF Next, Screens, Card
<1>2. CASE UNCHANGED vars
  BY <1>2 DEF vars, ram, IInv, TypeOK, PadInStep, TypedWhole, Shown, OnCard
<1>. QED  BY <1>1, <1>2

LEMMA Inductive == Spec => []IInv
BY InitIInv, StepIInv, PTL DEF Spec

(***************************************************************************)
(* The theorems.                                                           *)
(***************************************************************************)

\* Whatever is touched, the index of the pad stays inside its buffer, and every
\* variable has its type.
THEOREM TypeCorrect == Spec => []TypeOK
BY Inductive, PTL DEF IInv

\* Whatever is typed, erased, held down or interrupted, index and buffer agree.
THEOREM PadCorrect == Spec => []PadInStep
BY Inductive, PTL DEF IInv

\* Settings that the user typed consist of digits when they are shown and written.
THEOREM InputWhole == Spec => []TypedWhole
BY Inductive, PTL DEF IInv

\* A device that runs uses the settings that its card holds.
THEOREM SettingsRemembered == Spec => []Remembered
<1>1. Shown => Remembered
  BY DEF Shown, OnCard, Remembered
<1>. QED  BY <1>1, Inductive, PTL DEF IInv

\* No power failure leaves a mixture of old and new settings that would be offered.
THEOREM SettingsWhole == Spec => NeverMixed
<1>1. ASSUME IInv, [Next]_vars
      PROVE  [Offers(conf') /\ conf' # conf => conf' = Text(phoneNum, pinNum)]_vars
  <2>1. CASE Close
    <3>1. conf' \in HalfClosed
      BY <2>1 DEF Close, HalfClosed
    <3>. QED  BY <1>1, <3>1, HalfFacts DEF IInv
  <2>2. CASE CloseFails \/ Reset
    <3>1. conf' \in HalfClosed
      BY <2>2 DEF CloseFails, Reset, HalfClosed
    <3>. QED  BY <1>1, <3>1, HalfFacts DEF IInv
  <2>3. CASE UNCHANGED conf
    BY <2>3
  <2>4. CASE Next
    BY <2>1, <2>2, <2>3, <2>4
    DEF Next, Screens, Card, TypePhone, TypePin, TypeStop, Accept, Modify, Open,
        Offer, NoSettings, Verify, Seek, Write, Fails, Alarm, Interrupted, PutDown, Lift
  <2>. QED  BY <1>1, <2>4
<1>. QED  BY <1>1, Inductive, PTL DEF Spec, NeverMixed
===============================================================================
