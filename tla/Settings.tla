------------------------------- MODULE Settings -------------------------------
(***************************************************************************)
(* The emergency contact and the stop PIN (app.c): checkAndSetSettings     *)
(* reads them from conf.txt at start-up, shows them and lets the user      *)
(* accept or modify them; getPIN asks for the PIN again to stop an alarm   *)
(* or to call one off.  All input comes from a resistive screen that Touch *)
(* polls: it says where the finger is, never that it was lifted.           *)
(*                                                                         *)
(* A character is a digit 0..9, Blank (the space) or Other, which stands   *)
(* for every other byte.  The device may lose power at any time.           *)
(***************************************************************************)
EXTENDS Integers, Sequences

CONSTANTS
  PHONE_LEN, PIN_LEN,   \* 11 and 4 in app.c
  Blank, Other,         \* the characters that are not digits
  BACKSPACE, ENTER,     \* the keys that are not digits
  NoTouch,              \* no finger on the screen
  Spots,                \* the places touched, [x, y] as the controller reads them
  FileLengths,          \* lengths of the conf.txt found on a card
  FileDigits            \* BOUND: the digits in it

ASSUME LengthAssumption == PHONE_LEN \in Nat \ {0} /\ PIN_LEN \in Nat \ {0}
ASSUME CharAssumption ==
  /\ Blank \notin 0..9 /\ Other \notin 0..9 /\ Blank # Other
  /\ BACKSPACE \notin 0..9 /\ ENTER \notin 0..9 /\ BACKSPACE # ENTER
ASSUME SpotAssumption ==
  NoTouch \notin Spots /\ \A s \in Spots : s.x \in Nat /\ s.y \in Nat
ASSUME FileAssumption == FileLengths \subseteq Nat /\ FileDigits \subseteq 0..9

VARIABLES
  pc,         \* the screen shown, or the step of checkAndSetSettings
  conf,       \* what conf.txt holds
  phoneNum, pinNum,   \* in RAM
  pinBuff,    \* the PIN typed to stop or to cancel
  index,      \* digits typed on the pad shown
  finger,     \* where it is
  fresh       \* it was put down after the screen shown was drawn

ram  == <<phoneNum, pinNum, pinBuff, index>>
vars == <<pc, conf, ram, finger, fresh>>

-----------------------------------------------------------------------------
Digits == 0..9
Chars  == Digits \cup {Blank, Other}
Record == PHONE_LEN + 1 + PIN_LEN

Default(n) == [i \in 1..n |-> (i - 1) % 10]
Blanks(n)  == [i \in 1..n |-> Blank]

\* The text of the settings, sprintf's "%s %s".
Text(phone, pin) ==
  [i \in 1..Record |->
     IF i <= PHONE_LEN THEN phone[i]
     ELSE IF i = PHONE_LEN + 1 THEN Blank ELSE pin[i - PHONE_LEN - 1]]

PhoneIn(text) == [i \in 1..PHONE_LEN |-> text[i]]
PinIn(text)   == [i \in 1..PIN_LEN |-> text[PHONE_LEN + 1 + i]]

\* Both of `config[i] < '0' && config[i] > '9'' never hold, whatever the character.
validConfig(text) == text[PHONE_LEN + 1] = Blank

-----------------------------------------------------------------------------
\* The keys, by row and column, and where a touch falls among them.
keyArray == << <<1, 2, 3>>, <<4, 5, 6>>, <<7, 8, 9>>, <<BACKSPACE, 0, ENTER>> >>

Row(s) == IF s.y < 1000 THEN 1 ELSE IF s.y < 1900 THEN 2 ELSE IF s.y < 2800 THEN 3 ELSE 4
Col(s) == IF s.x > 3200 THEN 1 ELSE IF s.x > 2600 THEN 2 ELSE 3

OnPad(s)  == s.x > 1900
getKey(s) == keyArray[Row(s)][Col(s)]

\* The left half of the check screen, "Accept".
OnAccept(s) == s.x > 2000

-----------------------------------------------------------------------------
\* A pad holds the characters of buf, the first index of which were typed.
Put(buf, i, c) == [buf EXCEPT ![i] = c]

\* Mutant: the character is left in the buffer.
Erased_Left(buf) == buf

Erased(buf) == IF index = 0 THEN buf ELSE Put(buf, index, Blank)

Typed(buf, n, key) == IF index < n THEN Put(buf, index + 1, key) ELSE buf

\* The buffer and the index after a key that does not end the input.
Keyed(buf, n, key) ==
  IF key = BACKSPACE THEN Erased(buf)
  ELSE IF key = ENTER THEN buf ELSE Typed(buf, n, key)

\* Mutant: one digit more than there is room to count.
NextIndex_OneMore(n, key) ==
  IF key = BACKSPACE THEN IF index = 0 THEN 0 ELSE index - 1
  ELSE IF key = ENTER \/ index > n THEN index ELSE index + 1

\* Mutant: an erased character still counts.
NextIndex_Kept(n, key) ==
  IF key \in {BACKSPACE, ENTER} \/ index = n THEN index ELSE index + 1

NextIndex(n, key) ==
  IF key = BACKSPACE THEN IF index = 0 THEN 0 ELSE index - 1
  ELSE IF key = ENTER \/ index = n THEN index ELSE index + 1

Completes(n, key) == key = ENTER /\ index = n

\* A screen is drawn; the finger may still be down.
Show(screen) == pc' = screen /\ fresh' = FALSE

-----------------------------------------------------------------------------
Files == UNION {[1..n -> FileDigits \cup {Blank, Other}] : n \in FileLengths}

Init ==
  /\ pc = "open" /\ conf \in Files
  /\ phoneNum = Default(PHONE_LEN) /\ pinNum = Default(PIN_LEN)
  /\ pinBuff = Blanks(PIN_LEN) /\ index = 0
  /\ finger = NoTouch /\ fresh = FALSE

\* f_open succeeds; until it does the loop of checkAndSetSettings asks for a card.
Open == pc = "open" /\ pc' = "read" /\ UNCHANGED <<conf, ram, finger, fresh>>

\* DisplayGetSettings starts with the phone number.
AskPhone ==
  /\ Show("phone") /\ phoneNum' = Blanks(PHONE_LEN) /\ index' = 0

\* The file has the length and the look of settings.
Offers(file) == Len(file) = Record /\ validConfig(file)

Offer ==
  /\ pc = "read" /\ Offers(conf)
  /\ phoneNum' = PhoneIn(conf) /\ pinNum' = PinIn(conf)
  /\ Show("check")
  /\ UNCHANGED <<conf, pinBuff, index, finger>>

NoSettings ==
  /\ pc = "read" /\ ~Offers(conf)
  /\ AskPhone
  /\ UNCHANGED <<conf, pinNum, pinBuff, finger>>

\* f_read, f_lseek or f_write fails, or f_write comes short: while(1).
Fails ==
  /\ pc \in {"read", "seek", "write"} /\ pc' = "halt"
  /\ UNCHANGED <<conf, ram, finger, fresh>>

\* DisplayCheckSettings: the settings found, then the settings typed.
Accept ==
  /\ pc \in {"check", "recheck"} /\ finger # NoTouch /\ OnAccept(finger)
  /\ Show(IF pc = "check" THEN "run" ELSE "verify")
  /\ UNCHANGED <<conf, ram, finger>>

Modify ==
  /\ pc \in {"check", "recheck"} /\ finger # NoTouch /\ ~OnAccept(finger)
  /\ AskPhone
  /\ UNCHANGED <<conf, pinNum, pinBuff, finger>>

TypePhone ==
  /\ pc = "phone" /\ finger # NoTouch /\ OnPad(finger)
  /\ LET key == getKey(finger) IN
       IF Completes(PHONE_LEN, key)
       THEN Show("pin") /\ pinNum' = Blanks(PIN_LEN) /\ index' = 0 /\ UNCHANGED phoneNum
       ELSE /\ phoneNum' = Keyed(phoneNum, PHONE_LEN, key) /\ index' = NextIndex(PHONE_LEN, key)
            /\ UNCHANGED <<pc, fresh, pinNum>>
  /\ UNCHANGED <<conf, pinBuff, finger>>

\* getPIN(pinNum, 0).
TypePin ==
  /\ pc = "pin" /\ finger # NoTouch /\ OnPad(finger)
  /\ LET key == getKey(finger) IN
       IF Completes(PIN_LEN, key)
       THEN Show("recheck") /\ index' = 0 /\ UNCHANGED pinNum
       ELSE /\ pinNum' = Keyed(pinNum, PIN_LEN, key) /\ index' = NextIndex(PIN_LEN, key)
            /\ UNCHANGED <<pc, fresh>>
  /\ UNCHANGED <<conf, phoneNum, pinBuff, finger>>

-----------------------------------------------------------------------------
Verify ==
  /\ pc = "verify"
  /\ pc' = IF validConfig(Text(phoneNum, pinNum)) THEN "seek" ELSE "halt"
  /\ UNCHANGED <<conf, ram, finger, fresh>>

\* Mutant: f_write goes on where f_read stopped.
Over_Append(file, text) == file \o text

\* Mutant: the count leaves out the PIN.
Over_PhoneOnly(file, text) ==
  IF Len(file) <= PHONE_LEN + 1 THEN SubSeq(text, 1, PHONE_LEN + 1)
  ELSE [i \in 1..Len(file) |-> IF i <= PHONE_LEN + 1 THEN text[i] ELSE file[i]]

\* f_write from the start of the file, over what is there.
Over(file, text) ==
  IF Len(file) <= Len(text) THEN text
  ELSE [i \in 1..Len(file) |-> IF i <= Len(text) THEN text[i] ELSE file[i]]

Seek == pc = "seek" /\ pc' = "write" /\ UNCHANGED <<conf, ram, finger, fresh>>

\* The text is in FatFs's window; nothing is on the card yet.
Write == pc = "write" /\ pc' = "close" /\ UNCHANGED <<conf, ram, finger, fresh>>

Written == Over(conf, Text(phoneNum, pinNum))

Close ==
  /\ pc = "close" /\ pc' = "run" /\ conf' = Written
  /\ UNCHANGED <<ram, finger, fresh>>

\* f_close writes the sector of the file and then its size: either may fail.
HalfClosed == {conf, SubSeq(Written, 1, Len(conf)), Written}

CloseFails ==
  /\ pc = "close" /\ pc' = "halt" /\ conf' \in HalfClosed
  /\ UNCHANGED <<ram, finger, fresh>>

-----------------------------------------------------------------------------
\* The device runs; an alarm and an impact (cancelImpact) ask for the PIN.
AskPin(screen) == Show(screen) /\ pinBuff' = Blanks(PIN_LEN) /\ index' = 0

Alarm ==
  /\ pc = "run" /\ \E screen \in {"stop", "cancel"} : AskPin(screen)
  /\ UNCHANGED <<conf, phoneNum, pinNum, finger>>

\* A flag of appFlagMask is set: getPIN returns FALSE and the alarm goes on.
Interrupted ==
  /\ pc = "cancel" /\ AskPin("stop")
  /\ UNCHANGED <<conf, phoneNum, pinNum, finger>>

\* getPIN(pinBuff, ...) until the PIN is right; it clears the buffer first.
TypeStop ==
  /\ pc \in {"stop", "cancel"} /\ finger # NoTouch /\ OnPad(finger)
  /\ LET key == getKey(finger) IN
       IF Completes(PIN_LEN, key)
       THEN /\ pinBuff' = Blanks(PIN_LEN) /\ index' = 0
            /\ IF pinBuff = pinNum THEN Show("run") ELSE UNCHANGED <<pc, fresh>>
       ELSE /\ pinBuff' = Keyed(pinBuff, PIN_LEN, key) /\ index' = NextIndex(PIN_LEN, key)
            /\ UNCHANGED <<pc, fresh>>
  /\ UNCHANGED <<conf, phoneNum, pinNum, finger>>

\* The user's finger.
PutDown ==
  /\ finger = NoTouch /\ finger' \in Spots /\ fresh' = TRUE
  /\ UNCHANGED <<pc, conf, ram>>
Lift ==
  /\ finger # NoTouch /\ finger' = NoTouch /\ fresh' = FALSE
  /\ UNCHANGED <<pc, conf, ram>>

\* Power is lost and comes back: main memory holds its initialisers.
Reset ==
  /\ pc' = "open" /\ index' = 0 /\ fresh' = FALSE
  /\ phoneNum' = Default(PHONE_LEN) /\ pinNum' = Default(PIN_LEN)
  /\ pinBuff' = Blanks(PIN_LEN)
  /\ conf' \in IF pc = "close" THEN HalfClosed ELSE {conf}
  /\ UNCHANGED finger

Screens == TypePhone \/ TypePin \/ TypeStop \/ Accept \/ Modify
Card    == Open \/ Offer \/ NoSettings \/ Verify \/ Seek \/ Write \/ Close
Next    == Screens \/ Card \/ Fails \/ CloseFails \/ Alarm \/ Interrupted
           \/ PutDown \/ Lift \/ Reset

Spec == Init /\ [][Next]_vars

-----------------------------------------------------------------------------
Running == {"run", "stop", "cancel"}
Places  == Running \cup {"open", "read", "check", "recheck", "phone", "pin",
                         "verify", "seek", "write", "close", "halt"}

TypeOK ==
  /\ pc \in Places
  /\ conf \in Seq(Chars)
  /\ phoneNum \in [1..PHONE_LEN -> Chars]
  /\ pinNum \in [1..PIN_LEN -> Chars]
  /\ pinBuff \in [1..PIN_LEN -> Chars]
  /\ index \in 0 .. IF pc = "phone" THEN PHONE_LEN ELSE PIN_LEN
  /\ finger \in Spots \cup {NoTouch}
  /\ fresh \in BOOLEAN

\* What a pad's buffer holds: the digits typed and not erased, then spaces.
Holds(buf, n, k) ==
  \A i \in 1..n : IF i <= k THEN buf[i] \in Digits ELSE buf[i] = Blank

\* The index and the buffer of the pad shown agree, whatever was typed, erased,
\* held down, interrupted or cut off by a reset.
PadInStep ==
  /\ pc = "phone" => Holds(phoneNum, PHONE_LEN, index)
  /\ pc = "pin" => Holds(pinNum, PIN_LEN, index)
  /\ pc \in {"stop", "cancel"} => Holds(pinBuff, PIN_LEN, index)

\* Settings the user typed consist of digits when they are shown and written.
TypedWhole ==
  /\ pc \in {"pin", "recheck", "verify", "seek", "write", "close"} =>
       Holds(phoneNum, PHONE_LEN, PHONE_LEN)
  /\ pc \in {"recheck", "verify", "seek", "write", "close"} =>
       Holds(pinNum, PIN_LEN, PIN_LEN)

\* A device that runs has the settings in RAM that its card holds: after a reset
\* they are offered again, unless the file found was longer than a record.
Remembered ==
  pc \in Running =>
    /\ Len(conf) >= Record
    /\ Len(conf) = Record => Offers(conf)
    /\ PhoneIn(conf) = phoneNum /\ PinIn(conf) = pinNum

\* Power failures and failed closes leave the settings of the card, those the user
\* accepted last, or a file that is too short to be offered: never a mixture.
NeverMixed ==
  [][Offers(conf') /\ conf' # conf => conf' = Text(phoneNum, pinNum)]_vars

-----------------------------------------------------------------------------
\* The check accepts "All values should be a number except the space" (app.c:184):
\* so the stop PIN of a device that runs can be typed on its pad.
PinTypeable == pc \in Running => \A i \in 1..PIN_LEN : pinNum[i] \in Digits

\* "Check with user if configuration is okay" (app.c:490): settings are accepted
\* by a touch made after they were shown.
CheckedWithUser ==
  [][(pc \in {"check", "recheck"} /\ pc' \in {"run", "verify"}) => fresh]_vars
===============================================================================
