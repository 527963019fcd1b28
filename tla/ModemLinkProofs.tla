-------------------------- MODULE ModemLinkProofs ---------------------------
(***************************************************************************)
(* Theorems about ModemLink, for every number of repeats, faults, alarms   *)
(* and updates.                                                            *)
(***************************************************************************)
EXTENDS ModemLink, SequenceTheorems, TLAPS

USE LinkAssumption

\* The modem answers ATE0 with OK, if it answers.
EchoObeyed == "ATE0" \notin Refused

\* And CMGS with its prompt, for which smsSend does not wait.
PromptGiven == "CMGS" \notin Refused

Asking   == {"ate", "ate2", "set", "gps", "sgact", "connect", "close", "cmgf"}
Saying   == {"header", "escape", "cmgs", "text"}
Awaiting == {"reply", "hangup", "sent"}
Others   == {"pulse", "pulse2", "position", "body", "encode", "idle", "halted"}

\* The alarms whose job has begun.
Begun == alarms - modemSem

-----------------------------------------------------------------------------
(***************************************************************************)
(* The invariant behind the types and the number of texts.                 *)
(***************************************************************************)
\* How often a command may be sent.
Most(p) == IF p = "gps" THEN 1 ELSE Repeats

\* It is not sent more often.
Counted ==
  /\ waiting => pc \in Asking
  /\ pc \in Asking /\ ~waiting => tries < Most(pc)
  /\ pc \notin Asking => tries = 0

\* A job says "text" at most once.
OneText ==
  /\ texts \in Nat /\ modemSem <= alarms
  /\ texts <= Begun
  /\ pc \in {"cmgf", "cmgs", "text"} => job = "alarm"
  /\ job = "alarm" /\ pc \notin {"sent", "idle"} => texts < Begun

Basic == TypeOK /\ Counted /\ OneText

-----------------------------------------------------------------------------
(***************************************************************************)
(* The invariant behind the start of the modem.                            *)
(***************************************************************************)
Quiet == lines = <<>> /\ coming = <<>>

\* Each try that is over has cost a fault.
Paid ==
  IF waiting THEN /\ faults >= tries - 1
                  /\ faults >= tries \/ ~Quiet
  ELSE faults >= tries

Starting ==
  /\ pc = "pulse" => Quiet
  /\ pc \in {"pulse", "ate", "pulse2", "ate2"} =>
       /\ mode \in {"off", "command"}
       /\ lines \in Seq({"OK"}) /\ coming \in Seq({"OK"})
  /\ pc = "ate" => IF mode = "off" THEN Quiet ELSE Paid
  /\ pc = "pulse2" => mode = "off" \/ faults >= Repeats
  /\ pc = "ate2" => faults >= Repeats \/ (mode = "command" /\ Paid)
  /\ pc = "halted" => faults >= Repeats

-----------------------------------------------------------------------------
(***************************************************************************)
(* The invariant behind the step the modem and the task keep.              *)
(***************************************************************************)
\* One line is on its way or has come, and nothing else.
Only(line) ==
  \/ lines = <<>> /\ coming = <<line>>
  \/ lines = <<line>> /\ coming = <<>>

\* A position and the line after it.
PositionComes ==
  \/ lines = <<>> /\ coming = <<"$GPSACP:", "OK">>
  \/ lines = <<"$GPSACP:">> /\ coming = <<"OK">>
  \/ lines = <<"$GPSACP:", "OK">> /\ coming = <<>>

Refusal == mode = "command" /\ Only("ERROR")

Abreast ==
  /\ pc = "pulse2" => mode = "off" /\ Quiet
  /\ pc \in {"ate", "ate2"} =>
       \/ mode = "command" /\ IF waiting THEN Only("OK") ELSE Quiet
       \/ pc = "ate" /\ mode = "off" /\ Quiet
  /\ pc \in Asking \ {"ate", "ate2"} /\ ~waiting => mode = "command" /\ Quiet
  /\ pc \in {"set", "sgact", "close", "cmgf"} /\ waiting =>
       Refusal \/ (mode = "command" /\ Only("OK"))
  /\ pc = "gps" /\ waiting => Refusal \/ (mode = "command" /\ PositionComes)
  /\ pc = "position" => mode = "command" /\ Only("OK")
  /\ pc = "connect" /\ waiting => Refusal \/ (mode = "online" /\ Only("CONNECT"))
  /\ pc \in {"header", "body", "escape"} => mode = "online" /\ Quiet
  /\ pc = "reply" => mode = "online" /\ Only("Content-Length: 0")
  /\ pc = "hangup" => mode = "command" /\ Only("NO CARRIER")
  /\ pc \in {"cmgs", "idle", "encode"} => mode = "command" /\ Quiet
  /\ pc = "text" => mode = "prompt" /\ Quiet
  /\ pc = "sent" => mode = "command" /\ Only("OK")

\* The text of every job that is past it was taken.
TextTaken ==
  IF job = "alarm" /\ pc \notin {"sent", "idle"} THEN texts = Begun - 1 ELSE texts = Begun

Faultless == faults = 0 => Abreast /\ TextTaken

IInv == Basic /\ Starting /\ Faultless

-----------------------------------------------------------------------------
(***************************************************************************)
(* The steps of the conversations.                                         *)
(***************************************************************************)
LEMMA PlacesAre == Places = Asking \cup Saying \cup Awaiting
  BY DEF Places, Asking, Saying, Awaiting

LEMMA AskFacts ==
  ASSUME NEW p \in Asking
  PROVE  /\ Step(p).kind = "ask"
         /\ Step(p).what \in Commands \ {"CMGS"}
         /\ Step(p).max = Most(p)
         /\ {Step(p).next, Step(p).otherwise} \subseteq
              {"pulse2", "halted", "set", "gps", "position", "sgact", "connect", "header",
               "cmgf", "cmgs", "idle"}
<1>1. Step(p).kind = "ask" /\ Step(p).what \in Commands \ {"CMGS"}
  BY DEF Asking, Ask, Step, Commands
<1>2. Step(p).max = Most(p)
  BY DEF Asking, Ask, Step, Most
<1>3. {Step(p).next, Step(p).otherwise} \subseteq
        {"pulse2", "halted", "set", "gps", "position", "sgact", "connect", "header",
         "cmgf", "cmgs", "idle"}
  BY DEF Asking, Ask, Step, AfterGps, AfterPost, SecondTry
<1> QED
  BY <1>1, <1>2, <1>3

\* Only the job of an alarm comes to the text.
LEMMA JobFacts ==
  ASSUME NEW p \in Asking
  PROVE  /\ {Step(p).next, Step(p).otherwise} \cap {"cmgf", "cmgs"} # {} => job = "alarm" \/ p = "cmgf"
         /\ {Step(p).next, Step(p).otherwise} \cap {"idle"} # {} => job # "alarm"
  BY DEF Asking, Ask, Step, AfterGps, AfterPost, SecondTry

LEMMA SayFacts ==
  ASSUME NEW p \in Saying
  PROVE  /\ Step(p).kind = "say"
         /\ Step(p).what \in Said \ {"ATE0"}
         /\ Step(p).what = "text" <=> p = "text"
         /\ Step(p).next = CASE p = "header" -> "body" [] p = "escape" -> "hangup"
                             [] p = "cmgs" -> "text" [] p = "text" -> "sent"
<1>1. Step(p).kind = "say" /\ Step(p).what \in Said \ {"ATE0"}
  BY DEF Saying, Say, Step, Said, Commands
<1>2. Step(p).what = "text" <=> p = "text"
  BY DEF Saying, Say, Step
<1>3. Step(p).next = CASE p = "header" -> "body" [] p = "escape" -> "hangup"
                       [] p = "cmgs" -> "text" [] p = "text" -> "sent"
  BY DEF Saying, Say, Step, AfterReply
<1> QED
  BY <1>1, <1>2, <1>3

LEMMA AwaitFacts ==
  ASSUME NEW p \in Awaiting
  PROVE  /\ Step(p).kind = "await"
         /\ Step(p).max = 0
         /\ Step(p).next = CASE p = "reply" -> "escape" [] p = "hangup" -> "close"
                             [] p = "sent" -> "idle"
         /\ Step(p).otherwise = Step(p).next
<1>1. Step(p).kind = "await" /\ Step(p).max = 0 /\ Step(p).otherwise = Step(p).next
  BY DEF Awaiting, Await, Step
<1>2. Step(p).next = CASE p = "reply" -> "escape" [] p = "hangup" -> "close"
                       [] p = "sent" -> "idle"
  BY DEF Awaiting, Await, Step, AfterReply
<1> QED
  BY <1>1, <1>2

LEMMA Bounds == /\ Repeats \in Nat /\ Repeats > 0
                /\ MaxFaults \in Nat /\ MaxAlarms \in Nat
  OBVIOUS

LEMMA InitIInv == Init => IInv
<1> SUFFICES ASSUME Init PROVE IInv
  OBVIOUS
<1>1. /\ lines \in Seq({"OK"}) /\ coming \in Seq({"OK"})
      /\ lines \in Seq(Lines) /\ coming \in Seq(Lines)
  BY DEF Init
<1>2. TypeOK
  <2>1. waiting \in BOOLEAN /\ {sending, gpsValid} \subseteq BOOLEAN
    BY DEF Init
  <2>2. tries \in 0..Repeats /\ modemSem \in 0..MaxAlarms /\ alarms \in 0..MaxAlarms
        /\ texts <= alarms /\ faults \in 0..MaxFaults
    BY Bounds DEF Init
  <2> QED
    BY <1>1, <2>1, <2>2 DEF Init, TypeOK
<1>3. Counted /\ OneText
  BY DEF Init, Counted, OneText, Begun, Asking, Most
<1>4. Starting
  BY <1>1 DEF Init, Starting, Quiet
<1>5. Faultless
  BY DEF Init, Faultless, Abreast, TextTaken, Asking, Begun
<1> QED
  BY <1>2, <1>3, <1>4, <1>5 DEF IInv, Basic

-----------------------------------------------------------------------------
(***************************************************************************)
(* What the modem does with what it hears.                                 *)
(***************************************************************************)
Modes == {"off", "command", "prompt", "online"}

LEMMA ObeysTypes ==
  ASSUME NEW what \in Commands
  PROVE  /\ Obeys(what).mode \in Modes
         /\ Obeys(what).answer \in Seq(Lines)
         /\ Obeys(what).text = 0
<1>1. Obeys(what).mode \in Modes /\ Obeys(what).text = 0
  BY DEF Commands, Obeys, Reaction, Modes
<1>2. Obeys(what).answer \in {<<>>, <<"CONNECT">>, <<"$GPSACP:", "OK">>, <<"OK">>}
  BY DEF Commands, Obeys, Reaction
<1>3. {<<>>, <<"CONNECT">>, <<"$GPSACP:", "OK">>, <<"OK">>} \subseteq Seq(Lines)
  BY DEF Lines
<1> QED
  BY <1>1, <1>2, <1>3

LEMMA ReactionTypes ==
  ASSUME mode \in Modes, NEW what, NEW r \in Reactions(what)
  PROVE  /\ r.mode \in Modes
         /\ r.answer \in Seq(Lines)
         /\ r.text = 0 \/ (r.text = 1 /\ what = "text")
<1>1. /\ <<>> \in Seq(Lines) /\ <<"OK">> \in Seq(Lines) /\ <<"ERROR">> \in Seq(Lines)
      /\ <<"NO CARRIER">> \in Seq(Lines) /\ <<"Content-Length: 0">> \in Seq(Lines)
  BY DEF Lines
<1>2. CASE mode = "off"
  <2>1. r = Reaction("off", <<>>, 0)
    BY <1>2 DEF Reactions
  <2> QED
    BY <1>1, <2>1 DEF Reaction, Modes
<1>3. CASE mode = "command"
  <2>1. \/ what \in Commands /\ r = Obeys(what)
        \/ r = Reaction("command", <<"ERROR">>, 0)
    BY <1>3 DEF Reactions
  <2>2. CASE what \in Commands /\ r = Obeys(what)
    BY <2>2, ObeysTypes
  <2>3. CASE r = Reaction("command", <<"ERROR">>, 0)
    BY <1>1, <2>3 DEF Reaction, Modes
  <2> QED
    BY <2>1, <2>2, <2>3
<1>4. CASE mode = "prompt"
  <2>1. \/ what = "text" /\ r = Reaction("command", <<"OK">>, 1)
        \/ r = Reaction("prompt", <<>>, 0)
    BY <1>4 DEF Reactions
  <2>2. CASE what = "text" /\ r = Reaction("command", <<"OK">>, 1)
    BY <1>1, <2>2 DEF Reaction, Modes
  <2>3. CASE r = Reaction("prompt", <<>>, 0)
    BY <1>1, <2>3 DEF Reaction, Modes
  <2> QED
    BY <2>1, <2>2, <2>3
<1>5. CASE mode = "online"
  <2>1. \/ r = Reaction("command", <<"NO CARRIER">>, 0)
        \/ r = Reaction("online", <<"Content-Length: 0">>, 0)
        \/ r = Reaction("online", <<>>, 0)
    BY <1>5 DEF Reactions
  <2>2. CASE r = Reaction("command", <<"NO CARRIER">>, 0)
    BY <1>1, <2>2 DEF Reaction, Modes
  <2>3. CASE r = Reaction("online", <<"Content-Length: 0">>, 0)
    BY <1>1, <2>3 DEF Reaction, Modes
  <2>4. CASE r = Reaction("online", <<>>, 0)
    BY <1>1, <2>4 DEF Reaction, Modes
  <2> QED
    BY <2>1, <2>2, <2>3, <2>4
<1> QED
  BY <1>2, <1>3, <1>4, <1>5 DEF Modes

LEMMA HearsTypes ==
  ASSUME TypeOK, texts \in Nat, NEW what, Hears(what)
  PROVE  /\ mode' \in Modes /\ coming' \in Seq(Lines)
         /\ texts' = texts \/ (texts' = texts + 1 /\ what = "text")
         /\ faults' \in 0..MaxFaults /\ (faults' = faults \/ faults' = faults + 1)
<1>1. PICK r \in Reactions(what) :
        /\ mode' = r.mode /\ texts' = texts + r.text
        /\ \/ coming' = coming \o r.answer /\ UNCHANGED faults
           \/ r.answer # <<>> /\ Fault("silent") /\ UNCHANGED coming
  BY DEF Hears
<1>2. /\ r.mode \in Modes /\ r.answer \in Seq(Lines)
      /\ r.text = 0 \/ (r.text = 1 /\ what = "text")
  BY ReactionTypes DEF TypeOK, Modes
<1>3. mode' \in Modes /\ coming' \in Seq(Lines)
  <2>1. coming \in Seq(Lines) /\ coming \o r.answer \in Seq(Lines)
    BY <1>2 DEF TypeOK
  <2> QED
    BY <1>1, <1>2, <2>1
<1>4. texts' = texts \/ (texts' = texts + 1 /\ what = "text")
  BY <1>1, <1>2
<1>5. faults' \in 0..MaxFaults /\ (faults' = faults \/ faults' = faults + 1)
  BY <1>1, Bounds DEF Fault, TypeOK
<1> QED
  BY <1>3, <1>4, <1>5

-----------------------------------------------------------------------------
(***************************************************************************)
(* Every step keeps Basic.                                                 *)
(***************************************************************************)
LEMMA Afresh ==
  ASSUME waiting' = FALSE, tries' = 0 PROVE Counted'
  BY Bounds DEF Counted, Most

Jobs == {"init", "alarm", "update"}
Pcs  == Places \cup Others

\* What the task's own part of TypeOK says.
TaskTypes ==
  pc \in Pcs /\ job \in Jobs /\ waiting \in BOOLEAN /\ tries \in 0..Repeats

\* The rest of TypeOK.
DataTypes ==
  /\ modemSem \in 0..MaxAlarms /\ {sending, gpsValid} \subseteq BOOLEAN
  /\ mode \in Modes
  /\ coming \in Seq(Lines) /\ lines \in Seq(Lines)
  /\ alarms \in 0..MaxAlarms /\ texts <= alarms /\ faults \in 0..MaxFaults

LEMMA TypesSplit ==
  (TypeOK <=> TaskTypes /\ DataTypes) /\ (TypeOK' <=> TaskTypes' /\ DataTypes')
  BY DEF TypeOK, TaskTypes, DataTypes, Pcs, Others, Jobs, Modes

\* The task goes to another place, for the same job.
Moved ==
  /\ waiting' = FALSE /\ tries' = 0 /\ job' = job
  /\ pc' \in Pcs
  /\ pc' \in {"cmgf", "cmgs", "text"} => job = "alarm"
  /\ pc \in {"sent", "idle"} => pc' = "idle"

LEMMA MovedBasic ==
  ASSUME Basic, Moved, UNCHANGED <<texts, alarms, modemSem>>
  PROVE  TaskTypes' /\ Counted' /\ OneText'
<1>1. TaskTypes'
  <2>1. tries' \in 0..Repeats
    BY Bounds DEF Moved
  <2> QED
    BY <2>1, TypesSplit DEF Basic, TaskTypes, Moved
<1>2. Counted'
  BY Afresh DEF Moved
<1>3. OneText'
  BY DEF Basic, OneText, Begun, Moved
<1> QED
  BY <1>1, <1>2, <1>3

LEMMA PulseBasic ==
  ASSUME Basic, Pulse PROVE Basic'
<1>1. Moved /\ UNCHANGED <<texts, alarms, modemSem>>
  BY DEF Pulse, Goto, Moved, Pcs, Places, app, tally
<1>2. DataTypes'
  <2>1. mode' \in Modes /\ coming' \in Seq(Lines)
    BY DEF Pulse, Modes
  <2> QED
    BY <2>1, TypesSplit DEF Basic, Pulse, DataTypes, app, tally
<1> QED
  BY <1>1, <1>2, MovedBasic, TypesSplit DEF Basic

LEMMA SpeakBasic ==
  ASSUME Basic, Speak PROVE Basic'
<1>1. /\ Hears(Step(pc).what) /\ ~waiting /\ pc \in Asking \cup Saying
      /\ UNCHANGED <<app, gpsValid, lines, updates>>
  BY PlacesAre, AwaitFacts DEF Speak
<1>2. /\ mode' \in Modes /\ coming' \in Seq(Lines)
      /\ texts' = texts \/ (texts' = texts + 1 /\ Step(pc).what = "text")
      /\ faults' \in 0..MaxFaults
  BY <1>1, HearsTypes DEF Basic, OneText
<1>3. texts' = texts \/ (texts' = texts + 1 /\ pc = "text")
  BY <1>1, <1>2, AskFacts, SayFacts DEF Commands
<1>4. texts \in Nat /\ alarms \in Nat /\ modemSem \in Nat
  BY Bounds, TypesSplit DEF Basic, OneText, DataTypes
<1>5. texts' <= Begun /\ texts' <= alarms /\ texts' \in Nat
  <2>1. pc = "text" => texts < Begun
    BY DEF Basic, OneText
  <2>2. texts <= Begun
    BY DEF Basic, OneText
  <2> QED
    BY <1>3, <1>4, <2>1, <2>2 DEF Begun
<1>6. DataTypes'
  BY <1>1, <1>2, <1>5, TypesSplit DEF Basic, DataTypes, app
<1>7. CASE pc \in Saying
  <2>1. Goto(Step(pc).next)
    BY <1>7, SayFacts DEF Speak
  <2>2. /\ waiting' = FALSE /\ tries' = 0 /\ job' = job
        /\ pc' \in {"body", "hangup", "text", "sent"}
        /\ pc' = "text" => pc = "cmgs"
        /\ pc = "text" => pc' = "sent"
    BY <1>7, <2>1, SayFacts DEF Goto, Saying
  <2>3. TaskTypes'
    <3>1. tries' \in 0..Repeats
      BY <2>2, Bounds
    <3> QED
      BY <2>2, <3>1, TypesSplit DEF Basic, TaskTypes, Pcs, Places, Others
  <2>4. OneText'
    BY <1>1, <1>3, <1>5, <1>7, <2>2 DEF Basic, OneText, Begun, app, Saying
  <2> QED
    BY <1>6, <2>2, <2>3, <2>4, Afresh, TypesSplit DEF Basic
<1>8. CASE pc \in Asking
  <2>1. waiting' = TRUE /\ tries' = tries + 1 /\ UNCHANGED <<pc, job>>
    BY <1>8, AskFacts DEF Speak
  <2>2. tries' \in 0..Repeats
    <3>1. tries \in Nat /\ tries < Most(pc)
      BY <1>1, <1>8, TypesSplit DEF Basic, Counted, TaskTypes
    <3> QED
      BY <2>1, <3>1, Bounds DEF Most
  <2>3. TaskTypes'
    BY <2>1, <2>2, TypesSplit DEF Basic, TaskTypes
  <2>4. Counted'
    BY <1>8, <2>1 DEF Counted
  <2>5. texts' = texts
    BY <1>3, <1>8 DEF Asking
  <2>6. OneText'
    BY <1>1, <2>1, <2>5 DEF Basic, OneText, Begun, app
  <2> QED
    BY <1>6, <2>3, <2>4, <2>6, TypesSplit DEF Basic
<1> QED
  BY <1>1, <1>7, <1>8

LEMMA AnswerBasic ==
  ASSUME Basic, Answer PROVE Basic'
<1>1. UNCHANGED <<task, app, gpsValid, mode, tally, faults>>
  BY DEF Answer
<1>2. lines' \in Seq(Lines) /\ coming' \in Seq(Lines)
  BY TypesSplit DEF Basic, DataTypes, Answer
<1>3. TaskTypes' /\ DataTypes' /\ Counted' /\ OneText'
  BY <1>1, <1>2, TypesSplit
  DEF Basic, TaskTypes, DataTypes, Counted, OneText, Begun, Most, task, app, tally
<1> QED
  BY <1>3, TypesSplit DEF Basic

\* The task goes on in the same or another place, and nothing else is counted but faults.
LEMMA ListenBasic ==
  ASSUME Basic,
         \/ Moved \/ UNCHANGED task
         \/ waiting' = FALSE /\ tries < Most(pc) /\ UNCHANGED <<pc, job, tries>>,
         UNCHANGED <<app, modem, texts>>,
         lines' \in Seq(Lines), faults' \in 0..MaxFaults, gpsValid' \in BOOLEAN
  PROVE  Basic'
<1>1. DataTypes'
  BY TypesSplit DEF Basic, DataTypes, app, modem
<1>2. TaskTypes' /\ Counted' /\ OneText'
  <2>1. CASE Moved
    BY <2>1, MovedBasic DEF app
  <2>2. CASE UNCHANGED task
    BY <2>2, TypesSplit DEF Basic, TaskTypes, Counted, OneText, Begun, Most, task, app
  <2>3. CASE waiting' = FALSE /\ tries < Most(pc) /\ UNCHANGED <<pc, job, tries>>
    <3>1. TaskTypes'
      BY <2>3, TypesSplit DEF Basic, TaskTypes
    <3>2. Counted' /\ OneText'
      BY <2>3 DEF Basic, Counted, OneText, Begun, Most, app
    <3> QED
      BY <3>1, <3>2
  <2> QED
    BY <2>1, <2>2, <2>3
<1> QED
  BY <1>1, <1>2, TypesSplit DEF Basic

\* What the place after a wait has to do with the job.
LEMMA ListeningMoves ==
  ASSUME Basic, Listening, Goto(Step(pc).next) \/ Goto(Step(pc).otherwise)
  PROVE  Moved
<1>1. waiting' = FALSE /\ tries' = 0 /\ job' = job
  BY DEF Goto
<1>2. pc' \in {Step(pc).next, Step(pc).otherwise}
  BY DEF Goto
<1>3. pc \in Asking \cup Awaiting
  BY PlacesAre, SayFacts DEF Listening, Basic, Counted, Asking, Saying
<1>4. CASE pc \in Asking
  <2>1. pc' \in {"pulse2", "halted", "set", "gps", "position", "sgact", "connect", "header",
                 "cmgf", "cmgs", "idle"}
    BY <1>2, <1>4, AskFacts
  <2>2. pc' \in {"cmgf", "cmgs"} => job = "alarm" \/ pc = "cmgf"
    BY <1>2, <1>4, JobFacts
  <2> QED
    BY <1>1, <1>4, <2>1, <2>2 DEF Basic, OneText, Moved, Pcs, Places, Others, Asking
<1>5. CASE pc \in Awaiting
  <2>1. pc' \in {"escape", "close", "idle"} /\ (pc = "sent" => pc' = "idle")
    BY <1>2, <1>5, AwaitFacts DEF Awaiting
  <2> QED
    BY <1>1, <1>5, <2>1 DEF Moved, Pcs, Places, Others, Awaiting
<1> QED
  BY <1>3, <1>4, <1>5

LEMMA LinesFacts ==
  ASSUME Basic, lines # <<>>, lines' = Tail(lines)
  PROVE  lines' \in Seq(Lines) /\ Head(lines) \in Lines
  BY TypesSplit DEF Basic, DataTypes

LEMMA FaultFacts ==
  ASSUME Basic, UNCHANGED faults \/ \E kind \in {"late", "silent", "drop", "disk"} : Fault(kind)
  PROVE  /\ faults' \in 0..MaxFaults
         /\ faults \in Nat /\ (faults' = faults \/ faults' = faults + 1)
  BY Bounds, TypesSplit DEF Basic, DataTypes, Fault

LEMMA TakeBasic ==
  ASSUME Basic, Take PROVE Basic'
<1>1. Moved \/ UNCHANGED task
  BY ListeningMoves DEF Take
<1>2. lines' \in Seq(Lines)
  BY LinesFacts DEF Take
<1>3. UNCHANGED <<app, gpsValid, modem, texts, faults>> /\ faults' \in 0..MaxFaults
      /\ gpsValid' \in BOOLEAN
  BY TypesSplit DEF Take, Basic, DataTypes
<1> QED
  BY <1>1, <1>2, <1>3, ListenBasic

LEMMA TimeOutBasic ==
  ASSUME Basic, TimeOut PROVE Basic'
<1>1. Moved \/ (waiting' = FALSE /\ Again /\ UNCHANGED <<pc, job, tries>>)
  BY ListeningMoves DEF TimeOut
<1>2. Again => tries < Most(pc)
  <2>1. pc \in Asking \cup Awaiting
    BY PlacesAre, SayFacts DEF TimeOut, Listening, Basic, Counted, Asking, Saying
  <2>2. tries \in Nat
    BY TypesSplit DEF Basic, TaskTypes
  <2> QED
    BY <2>1, <2>2, AskFacts, AwaitFacts DEF Again
<1>3. UNCHANGED <<app, gpsValid, modem, lines, texts>> /\ lines' \in Seq(Lines)
      /\ gpsValid' \in BOOLEAN
  BY TypesSplit DEF TimeOut, Basic, DataTypes
<1>4. faults' \in 0..MaxFaults
  BY FaultFacts DEF TimeOut
<1> QED
  BY <1>1, <1>2, <1>3, <1>4, ListenBasic

LEMMA PositionBasic ==
  ASSUME Basic, Position PROVE Basic'
<1>1. Moved \/ UNCHANGED task
  BY DEF Position, Goto, Moved, AfterGps, Pcs, Places, Others
<1>2. lines' \in Seq(Lines)
  BY LinesFacts, TypesSplit DEF Position, Basic, DataTypes
<1>3. gpsValid' \in BOOLEAN
  BY TypesSplit DEF Position, Basic, DataTypes
<1>4. faults' \in 0..MaxFaults
  BY FaultFacts DEF Position
<1> QED
  BY <1>1, <1>2, <1>3, <1>4, ListenBasic DEF Position, tally

LEMMA BodyBasic ==
  ASSUME Basic, Body PROVE Basic'
<1>1. pc = "body" /\ UNCHANGED <<app, gpsValid, lines, updates>>
      /\ (Goto("reply") \/ Goto("gps"))
  BY DEF Body
<1>2. Moved
  BY <1>1 DEF Goto, Moved, Pcs, Places
<1>3. /\ mode' \in Modes /\ coming' \in Seq(Lines) /\ texts' = texts
      /\ faults' \in 0..MaxFaults
  <2>1. CASE Hears("data")
    BY <2>1, HearsTypes DEF Basic, OneText
  <2>2. CASE Fault("disk") /\ UNCHANGED <<modem, texts>>
    BY <2>2, FaultFacts, TypesSplit DEF Basic, DataTypes, modem
  <2> QED
    BY <2>1, <2>2 DEF Body
<1>4. DataTypes'
  BY <1>1, <1>3, TypesSplit DEF Basic, DataTypes, app
<1> QED
  BY <1>1, <1>2, <1>3, <1>4, MovedBasic, TypesSplit DEF Basic, app

LEMMA EncodeBasic ==
  ASSUME Basic, Encode PROVE Basic'
<1>1. Moved
  BY DEF Encode, Goto, Moved, Pcs, Places
<1>2. UNCHANGED <<app, gpsValid, modem, lines, texts, faults>>
  BY DEF Encode, tally
<1>3. lines' \in Seq(Lines) /\ faults' \in 0..MaxFaults /\ gpsValid' \in BOOLEAN
  BY <1>2, TypesSplit DEF Basic, DataTypes
<1> QED
  BY <1>1, <1>2, <1>3, ListenBasic

LEMMA PendBasic ==
  ASSUME Basic, Pend PROVE Basic'
<1>1. /\ pc = "idle" /\ pc' \in {"encode", "gps"}
      /\ UNCHANGED <<waiting, tries, sending, alarms, gpsValid, modem, lines, texts, faults>>
  BY DEF Pend
<1>2. waiting = FALSE /\ waiting' = FALSE
  BY <1>1, TypesSplit DEF Basic, Counted, TaskTypes, Asking
<1>3. \/ modemSem > 0 /\ modemSem' = modemSem - 1 /\ job' = "alarm" /\ pc' = "encode"
      \/ modemSem' = modemSem /\ job' = "update" /\ pc' = "gps"
  BY DEF Pend
<1>4. modemSem \in 0..MaxAlarms /\ alarms \in 0..MaxAlarms /\ texts \in Nat /\ texts <= alarms - modemSem
      /\ modemSem <= alarms
  BY TypesSplit DEF Basic, DataTypes, OneText, Begun
<1>5. modemSem' \in 0..MaxAlarms /\ texts <= alarms - modemSem' /\ modemSem' <= alarms
      /\ (job' = "alarm" => texts < alarms - modemSem')
  BY <1>3, <1>4, Bounds
<1>6. tries \in 0..Repeats
  BY TypesSplit DEF Basic, TaskTypes
<1>7. TaskTypes'
  BY <1>1, <1>2, <1>3, <1>6 DEF TaskTypes, Pcs, Places, Others, Jobs
<1>8. DataTypes'
  BY <1>1, <1>5, TypesSplit DEF Basic, DataTypes, modem
<1>9. OneText'
  BY <1>1, <1>4, <1>5 DEF OneText, Begun
<1>10. Counted'
  BY <1>1, <1>2, Bounds DEF Basic, Counted, Asking, Most
<1> QED
  BY <1>7, <1>8, <1>9, <1>10, TypesSplit DEF Basic

\* The steps of the modem's network and of the emergency task.
LEMMA OthersBasic ==
  ASSUME Basic, Drop \/ Post \/ Stop \/ UNCHANGED vars PROVE Basic'
<1>1. UNCHANGED <<task, gpsValid, lines, texts>>
  BY DEF Drop, Post, Stop, vars, tally
<1>2. /\ modemSem \in 0..MaxAlarms /\ alarms \in 0..MaxAlarms
      /\ texts \in Nat /\ texts <= alarms /\ texts <= alarms - modemSem /\ modemSem <= alarms
  BY TypesSplit DEF Basic, DataTypes, OneText, Begun
<1>3. \/ modemSem' = modemSem /\ alarms' = alarms
      \/ modemSem' = modemSem + 1 /\ alarms' = alarms + 1 /\ alarms < MaxAlarms
  BY DEF Drop, Post, Stop, vars, app
<1>4. /\ modemSem' \in 0..MaxAlarms /\ alarms' \in 0..MaxAlarms
      /\ alarms' - modemSem' = alarms - modemSem /\ modemSem' <= alarms' /\ texts <= alarms'
  BY <1>2, <1>3, Bounds
<1>5. mode' \in Modes /\ coming' \in Seq(Lines)
  <2>1. CASE Drop
    <3>1. "NO CARRIER" \in Lines /\ coming \in Seq(Lines)
      BY TypesSplit DEF Lines, Basic, DataTypes
    <3>2. Append(coming, "NO CARRIER") \in Seq(Lines)
      BY <3>1, AppendProperties
    <3> QED
      BY <2>1, <3>2 DEF Drop, Modes
  <2>2. CASE Post \/ Stop \/ UNCHANGED vars
    BY <2>2, TypesSplit DEF Basic, DataTypes, Post, Stop, vars, modem
  <2> QED
    BY <2>1, <2>2
<1>6. sending' \in BOOLEAN
  BY TypesSplit DEF Basic, DataTypes, Drop, Post, Stop, vars, app
<1>7. faults' \in 0..MaxFaults
  BY FaultFacts DEF Drop, Post, Stop, vars
<1>8. DataTypes'
  BY <1>1, <1>4, <1>5, <1>6, <1>7, TypesSplit DEF Basic, DataTypes
<1>9. TaskTypes' /\ Counted' /\ OneText'
  <2>1. TaskTypes' /\ Counted'
    BY <1>1, TypesSplit DEF Basic, TaskTypes, Counted, Most, task
  <2>2. OneText'
    BY <1>1, <1>2, <1>4 DEF Basic, OneText, Begun, task
  <2> QED
    BY <2>1, <2>2
<1> QED
  BY <1>8, <1>9, TypesSplit DEF Basic

LEMMA NextBasic == Basic /\ [Next]_vars => Basic'
  BY PulseBasic, SpeakBasic, TakeBasic, TimeOutBasic, PositionBasic, BodyBasic, EncodeBasic,
     PendBasic, AnswerBasic, OthersBasic
  DEF Next, Task

-----------------------------------------------------------------------------
(***************************************************************************)
(* Every step keeps Starting.                                              *)
(***************************************************************************)
Early == {"pulse", "ate", "pulse2", "ate2"}

\* Outside the start of the modem nothing is claimed.
LEMMA Late ==
  ASSUME pc' \notin Early \cup {"halted"} PROVE Starting'
  BY DEF Starting, Early

LEMMA EchoFacts ==
  /\ \A p \in {"ate", "ate2"} :
        /\ Step(p).kind = "ask" /\ Step(p).what = "ATE0" /\ Step(p).target = "OK"
        /\ Step(p).max = Repeats /\ Step(p).next = "set"
  /\ Step("ate").otherwise = "pulse2" /\ Step("ate2").otherwise = "halted"
<1>1. \A p \in {"ate", "ate2"} :
        /\ Step(p).kind = "ask" /\ Step(p).what = "ATE0" /\ Step(p).target = "OK"
        /\ Step(p).max = Repeats /\ Step(p).next = "set"
  <2>1. /\ Step("ate") = Ask("ATE0", "OK", Repeats, "set", "pulse2")
        /\ Step("ate2") = Ask("ATE0", "OK", Repeats, "set", "halted")
    BY DEF Step, SecondTry
  <2> QED
    BY <2>1 DEF Ask
<1>2. Step("ate").otherwise = "pulse2" /\ Step("ate2").otherwise = "halted"
  BY DEF Step, Ask, SecondTry
<1> QED
  BY <1>1, <1>2

LEMMA LateFacts ==
  ASSUME NEW p \in Asking \ {"ate", "ate2"}
  PROVE  {Step(p).next, Step(p).otherwise} \cap (Early \cup {"halted"}) = {}
  BY DEF Asking, Step, Ask, AfterGps, AfterPost, Early

\* What comes of ATE0.
LEMMA HearsEcho ==
  ASSUME EchoObeyed, Hears("ATE0"), mode \in {"off", "command"}, coming \in Seq({"OK"})
  PROVE  /\ mode' = mode /\ coming' \in Seq({"OK"})
         /\ mode = "off" => coming' = coming /\ faults' = faults
         /\ mode = "command" => \/ coming' # <<>> /\ faults' = faults
                                \/ coming' = coming /\ faults' = faults + 1
<1>1. PICK r \in Reactions("ATE0") :
        /\ mode' = r.mode /\ texts' = texts + r.text
        /\ \/ coming' = coming \o r.answer /\ UNCHANGED faults
           \/ r.answer # <<>> /\ Fault("silent") /\ UNCHANGED coming
  BY DEF Hears
<1>2. CASE mode = "off"
  <2>1. r = Reaction("off", <<>>, 0)
    BY <1>2 DEF Reactions
  <2>2. r.mode = "off" /\ r.answer = <<>>
    BY <2>1 DEF Reaction
  <2>3. coming \o <<>> = coming
    BY ConcatEmptySeq
  <2> QED
    BY <1>1, <1>2, <2>2, <2>3
<1>3. CASE mode = "command"
  <2>1. r = Reaction("command", <<"OK">>, 0)
    BY <1>3 DEF Reactions, Obeys, Commands, EchoObeyed
  <2>2. r.mode = "command" /\ r.answer = <<"OK">>
    BY <2>1 DEF Reaction
  <2>3. coming \o <<"OK">> \in Seq({"OK"}) /\ coming \o <<"OK">> # <<>>
    OBVIOUS
  <2> QED
    BY <1>1, <1>3, <2>2, <2>3 DEF Fault
<1> QED
  BY <1>2, <1>3

LEMMA PulseStarting ==
  ASSUME Basic, Starting, Pulse PROVE Starting'
<1>1. /\ coming' = <<>> /\ lines' = lines /\ faults' = faults
      /\ waiting' = FALSE /\ tries' = 0
      /\ mode' = IF mode = "off" THEN "command" ELSE "off"
  BY DEF Pulse, Goto
<1>2. faults \in Nat
  BY Bounds, TypesSplit DEF Basic, DataTypes
<1>3. lines' \in Seq({"OK"}) /\ coming' \in Seq({"OK"}) /\ Paid'
  BY <1>1, <1>2 DEF Pulse, Starting, Paid
<1>4. CASE pc = "pulse"
  <2>1. pc' = "ate"
    BY <1>4 DEF Pulse, Goto
  <2>2. Quiet'
    BY <1>1, <1>4 DEF Starting, Quiet
  <2> QED
    BY <1>1, <1>3, <2>1, <2>2 DEF Starting
<1>5. CASE pc = "pulse2"
  <2>1. pc' = "ate2"
    BY <1>5 DEF Pulse, Goto
  <2>2. faults' >= Repeats \/ mode' = "command"
    BY <1>1, <1>5 DEF Starting
  <2> QED
    BY <1>1, <1>3, <2>1, <2>2 DEF Starting
<1> QED
  BY <1>4, <1>5 DEF Pulse

LEMMA SpeakStarting ==
  ASSUME EchoObeyed, Basic, Starting, Speak PROVE Starting'
<1>1. CASE pc \in {"ate", "ate2"}
  <2>1. /\ Hears("ATE0") /\ ~waiting /\ waiting' = TRUE /\ tries' = tries + 1
        /\ pc' = pc /\ lines' = lines
    BY <1>1, EchoFacts DEF Speak
  <2>2. mode \in {"off", "command"} /\ lines \in Seq({"OK"}) /\ coming \in Seq({"OK"})
    BY <1>1 DEF Starting
  <2>3. /\ mode' = mode /\ coming' \in Seq({"OK"})
        /\ mode = "off" => coming' = coming /\ faults' = faults
        /\ mode = "command" => \/ coming' # <<>> /\ faults' = faults
                               \/ faults' = faults + 1
    BY <2>1, <2>2, HearsEcho
  <2>4. faults \in Nat /\ tries \in Nat
    BY Bounds, TypesSplit DEF Basic, DataTypes, TaskTypes
  <2>5. mode = "off" /\ Quiet => Quiet'
    BY <2>1, <2>3 DEF Quiet
  <2>6. mode = "command" /\ Paid => Paid'
    BY <2>1, <2>3, <2>4 DEF Paid, Quiet
  <2>7. faults >= Repeats => faults' >= Repeats
    BY <2>2, <2>3, <2>4, Bounds
  <2> QED
    BY <1>1, <2>1, <2>2, <2>3, <2>5, <2>6, <2>7 DEF Starting
<1>2. CASE pc \in Asking \ {"ate", "ate2"}
  <2>1. pc' = pc
    BY <1>2, AskFacts DEF Speak
  <2> QED
    BY <1>2, <2>1, Late DEF Asking, Early
<1>3. CASE pc \in Saying
  <2>1. pc' \in {"body", "hangup", "text", "sent"}
    BY <1>3, SayFacts DEF Speak, Goto, Saying
  <2> QED
    BY <2>1, Late DEF Early
<1> QED
  BY <1>1, <1>2, <1>3, PlacesAre, AwaitFacts DEF Speak

\* A wait that is not for ATE0 does not lead back to the start.
LEMMA OtherWaits ==
  ASSUME Basic, Listening, pc \notin {"ate", "ate2"},
         UNCHANGED pc \/ Goto(Step(pc).next) \/ Goto(Step(pc).otherwise)
  PROVE  Starting'
<1>1. pc \in Asking \cup Awaiting
  BY PlacesAre, SayFacts DEF Listening, Basic, Counted, Asking, Saying
<1>2. CASE pc \in Asking
  BY <1>2, LateFacts, Late DEF Goto, Asking, Early
<1>3. CASE pc \in Awaiting
  <2>1. pc' = pc \/ pc' \in {"escape", "close", "idle"}
    BY <1>3, AwaitFacts DEF Goto, Awaiting
  <2> QED
    BY <1>3, <2>1, Late DEF Awaiting, Early
<1> QED
  BY <1>1, <1>2, <1>3

LEMMA TakeStarting ==
  ASSUME Basic, Starting, Take PROVE Starting'
<1>1. CASE pc \in {"ate", "ate2"}
  <2>1. Head(lines) = "OK"
    <3>1. lines \in Seq({"OK"}) /\ lines # <<>>
      BY <1>1 DEF Starting, Take
    <3> QED
      BY <3>1
  <2>2. Goto("set")
    BY <1>1, <2>1, EchoFacts DEF Take, Ends
  <2> QED
    BY <2>2, Late DEF Goto, Early
<1>2. CASE pc \notin {"ate", "ate2"}
  BY <1>2, OtherWaits DEF Take, task
<1> QED
  BY <1>1, <1>2

LEMMA TimeOutStarting ==
  ASSUME Basic, Starting, TimeOut PROVE Starting'
<1>1. CASE pc \in {"ate", "ate2"}
  <2>1. waiting /\ lines = <<>> /\ UNCHANGED <<lines, modem>> /\ waiting' = FALSE
    BY <1>1, EchoFacts DEF TimeOut, Listening, Expired, Goto
  <2>2. (coming = <<>> /\ faults' = faults) \/ faults' = faults + 1
    BY DEF TimeOut, Fault
  <2>3. faults \in Nat /\ tries \in Nat
    BY Bounds, TypesSplit DEF Basic, DataTypes, TaskTypes
  <2>4. \/ tries < Repeats /\ pc' = pc /\ tries' = tries
        \/ ~(tries < Repeats) /\ pc' = IF pc = "ate" THEN "pulse2" ELSE "halted"
    BY <1>1, EchoFacts DEF TimeOut, Again, Goto
  <2>5. Paid => faults' >= tries
    BY <2>1, <2>2, <2>3 DEF Paid, Quiet
  <2>6. faults >= Repeats => faults' >= Repeats
    BY <2>2, <2>3, Bounds
  <2>7. Quiet => Quiet'
    BY <2>1 DEF Quiet, modem
  <2>8. CASE tries < Repeats /\ pc' = pc /\ tries' = tries
    <3>1. Paid => Paid'
      BY <2>1, <2>5, <2>8 DEF Paid
    <3> QED
      BY <1>1, <2>1, <2>6, <2>7, <2>8, <3>1 DEF Starting, modem
  <2>9. CASE ~(tries < Repeats) /\ pc' = IF pc = "ate" THEN "pulse2" ELSE "halted"
    <3>1. Paid => faults' >= Repeats
      BY <2>2, <2>3, <2>5, <2>9, Bounds
    <3> QED
      BY <1>1, <2>1, <2>6, <2>9, <3>1 DEF Starting, modem
  <2> QED
    BY <2>4, <2>8, <2>9
<1>2. CASE pc \notin {"ate", "ate2"}
  BY <1>2, OtherWaits DEF TimeOut
<1> QED
  BY <1>1, <1>2

LEMMA AnswerStarting ==
  ASSUME Basic, Starting, Answer PROVE Starting'
<1>1. UNCHANGED <<task, mode, faults>> /\ coming # <<>>
  BY DEF Answer
<1>2. CASE pc \in Early
  <2>1. lines \in Seq({"OK"}) /\ coming \in Seq({"OK"})
    BY <1>2 DEF Starting, Early
  <2>2. lines' \in Seq({"OK"}) /\ coming' \in Seq({"OK"}) /\ lines' # <<>>
    BY <2>1 DEF Answer
  <2>3. ~Quiet /\ ~Quiet' /\ (Paid => Paid')
    BY <1>1, <2>2 DEF Quiet, Paid, task
  <2> QED
    BY <1>1, <1>2, <2>2, <2>3 DEF Starting, task, Early
<1>3. CASE pc \notin Early
  BY <1>1, <1>3 DEF Starting, task, Early
<1> QED
  BY <1>2, <1>3

LEMMA OthersStarting ==
  ASSUME Basic, Starting, Drop \/ Post \/ Stop \/ UNCHANGED vars PROVE Starting'
<1>1. CASE Drop
  <2>1. pc' = pc /\ pc \notin Early /\ faults' = faults + 1
    BY <1>1 DEF Drop, Starting, Early, task, Fault
  <2>2. faults \in Nat
    BY Bounds, TypesSplit DEF Basic, DataTypes
  <2>3. faults >= Repeats => faults' >= Repeats
    BY <2>1, <2>2, Bounds
  <2> QED
    BY <2>1, <2>3 DEF Starting, Early
<1>2. CASE Post \/ Stop \/ UNCHANGED vars
  BY <1>2 DEF Post, Stop, vars, Starting, Quiet, Paid, task, modem
<1> QED
  BY <1>1, <1>2

LEMMA NextStarting == EchoObeyed /\ Basic /\ Starting /\ [Next]_vars => Starting'
<1>1. Position \/ Body \/ Encode \/ Pend => pc' \notin Early \cup {"halted"}
  BY DEF Position, Body, Encode, Pend, Goto, AfterGps, task, Early
<1> QED
  BY <1>1, Late, PulseStarting, SpeakStarting, TakeStarting, TimeOutStarting, AnswerStarting,
     OthersStarting
  DEF Next, Task

-----------------------------------------------------------------------------
(***************************************************************************)
(* Every step without a fault keeps the modem and the task abreast.        *)
(***************************************************************************)
\* What comes of one thing that is heard while nothing is on its way.
LEMMA HearsQuietly ==
  ASSUME NEW what, Hears(what), mode \in Modes, faults \in Nat, faults' = faults, coming = <<>>
  PROVE  \E r \in Reactions(what) : mode' = r.mode /\ coming' = r.answer /\ texts' = texts + r.text
<1>1. PICK r \in Reactions(what) :
        /\ mode' = r.mode /\ texts' = texts + r.text
        /\ \/ coming' = coming \o r.answer /\ UNCHANGED faults
           \/ r.answer # <<>> /\ Fault("silent") /\ UNCHANGED coming
  BY DEF Hears
<1>2. ~Fault("silent")
  BY DEF Fault
<1>3. r.answer \in Seq(Lines)
  BY ReactionTypes
<1>4. <<>> \o r.answer = r.answer
  BY <1>3, ConcatEmptySeq
<1> QED
  BY <1>1, <1>2, <1>4

LEMMA HearsCommand ==
  ASSUME NEW what \in Commands, Hears(what), mode = "command", texts \in Nat,
         faults \in Nat, faults' = faults, coming = <<>>
  PROVE  /\ texts' = texts
         /\ \/ mode' = "command" /\ coming' = <<"ERROR">> /\ what \in Refused
            \/ what = "CMGS" /\ mode' = "prompt" /\ coming' = <<>>
            \/ what = "SD" /\ mode' = "online" /\ coming' = <<"CONNECT">>
            \/ what = "GPSACP" /\ mode' = "command" /\ coming' = <<"$GPSACP:", "OK">>
            \/ /\ what \notin {"CMGS", "SD", "GPSACP"}
               /\ mode' = "command" /\ coming' = <<"OK">>
<1>1. PICK r \in Reactions(what) : mode' = r.mode /\ coming' = r.answer /\ texts' = texts + r.text
  BY HearsQuietly DEF Modes
<1>2. r = Obeys(what) \/ (r = Reaction("command", <<"ERROR">>, 0) /\ what \in Refused)
  BY DEF Reactions
<1>3. CASE r = Reaction("command", <<"ERROR">>, 0) /\ what \in Refused
  <2>1. r.mode = "command" /\ r.answer = <<"ERROR">> /\ r.text = 0
    BY <1>3 DEF Reaction
  <2> QED
    BY <1>1, <1>3, <2>1
<1>4. CASE r = Obeys(what)
  <2>1. CASE what = "CMGS"
    <3>1. r.mode = "prompt" /\ r.answer = <<>> /\ r.text = 0
      BY <1>4, <2>1 DEF Obeys, Reaction
    <3> QED
      BY <1>1, <2>1, <3>1
  <2>2. CASE what = "SD"
    <3>1. r.mode = "online" /\ r.answer = <<"CONNECT">> /\ r.text = 0
      BY <1>4, <2>2 DEF Obeys, Reaction
    <3> QED
      BY <1>1, <2>2, <3>1
  <2>3. CASE what = "GPSACP"
    <3>1. r.mode = "command" /\ r.answer = <<"$GPSACP:", "OK">> /\ r.text = 0
      BY <1>4, <2>3 DEF Obeys, Reaction
    <3> QED
      BY <1>1, <2>3, <3>1
  <2>4. CASE what \notin {"CMGS", "SD", "GPSACP"}
    <3>1. r = Reaction("command", <<"OK">>, 0)
      BY <1>4, <2>4 DEF Obeys
    <3>2. r.mode = "command" /\ r.answer = <<"OK">> /\ r.text = 0
      BY <3>1 DEF Reaction
    <3> QED
      BY <1>1, <2>4, <3>2
  <2> QED
    BY <2>1, <2>2, <2>3, <2>4
<1> QED
  BY <1>2, <1>3, <1>4

LEMMA HearsText ==
  ASSUME Hears("text"), mode = "prompt", faults \in Nat, faults' = faults, coming = <<>>
  PROVE  texts' = texts + 1 /\ mode' = "command" /\ coming' = <<"OK">>
<1>1. PICK r \in Reactions("text") : mode' = r.mode /\ coming' = r.answer /\ texts' = texts + r.text
  BY HearsQuietly DEF Modes
<1>2. r = Reaction("command", <<"OK">>, 1)
  BY DEF Reactions
<1>3. r.mode = "command" /\ r.answer = <<"OK">> /\ r.text = 1
  BY <1>2 DEF Reaction
<1> QED
  BY <1>1, <1>3

LEMMA NoText ==
  ASSUME NEW r, r.text = 0, texts \in Nat, texts' = texts + r.text PROVE texts' = texts
  OBVIOUS

\* On the connection.
LEMMA HearsOnline ==
  ASSUME NEW what \in {"data", "+++"}, Hears(what), mode = "online", texts \in Nat,
         faults \in Nat, faults' = faults, coming = <<>>
  PROVE  /\ texts' = texts
         /\ what = "+++" => mode' = "command" /\ coming' = <<"NO CARRIER">>
         /\ what = "data" => /\ mode' = "online"
                             /\ coming' = IF pc = "body" THEN <<"Content-Length: 0">> ELSE <<>>
<1>1. PICK r \in Reactions(what) : mode' = r.mode /\ coming' = r.answer /\ texts' = texts + r.text
  BY HearsQuietly DEF Modes
<1>2. CASE what = "+++"
  <2>1. r = Reaction("command", <<"NO CARRIER">>, 0)
    BY <1>2 DEF Reactions
  <2>2. r.mode = "command" /\ r.answer = <<"NO CARRIER">> /\ r.text = 0
    BY <2>1 DEF Reaction
  <2>3. texts' = texts
    BY <1>1, <2>2, NoText
  <2> QED
    BY <1>1, <1>2, <2>2, <2>3
<1>3. CASE what = "data"
  <2>1. r = Reaction("online", IF pc = "body" THEN <<"Content-Length: 0">> ELSE <<>>, 0)
    BY <1>3 DEF Reactions
  <2>2. /\ r.mode = "online" /\ r.text = 0
        /\ r.answer = IF pc = "body" THEN <<"Content-Length: 0">> ELSE <<>>
    BY <2>1 DEF Reaction
  <2>3. texts' = texts
    BY <1>1, <2>2, NoText
  <2> QED
    BY <1>1, <1>3, <2>2, <2>3
<1> QED
  BY <1>2, <1>3

-----------------------------------------------------------------------------
\* The invariant, in a step without a fault.
Before == EchoObeyed /\ PromptGiven /\ Basic /\ Starting /\ Abreast /\ TextTaken /\ faults = 0 /\ faults' = 0
After  == Abreast' /\ TextTaken'

LEMMA PulseAbreast ==
  ASSUME Before, Pulse PROVE After
<1>1. /\ coming' = <<>> /\ lines' = lines /\ waiting' = FALSE /\ job' = job
      /\ UNCHANGED <<app, texts>>
      /\ mode' = IF mode = "off" THEN "command" ELSE "off"
  BY DEF Pulse, Goto, tally
<1>2. lines = <<>> /\ Quiet'
  BY <1>1 DEF Pulse, Before, Starting, Abreast, Quiet
<1>3. pc \in {"pulse", "pulse2"} /\ pc' = IF pc = "pulse" THEN "ate" ELSE "ate2"
  BY DEF Pulse, Goto
<1>4. pc = "pulse2" => mode' = "command"
  BY <1>1 DEF Before, Abreast
<1>5. mode' \in {"command", "off"}
  BY <1>1
<1>6. Abreast'
  BY <1>1, <1>2, <1>3, <1>4, <1>5 DEF Abreast, Asking
<1>7. TextTaken'
  BY <1>1, <1>3 DEF Before, TextTaken, Begun, app
<1> QED
  BY <1>6, <1>7 DEF After

LEMMA SpeakAbreast ==
  ASSUME Before, Speak PROVE After
<1>1. /\ Hears(Step(pc).what) /\ ~waiting /\ pc \in Asking \cup Saying
      /\ UNCHANGED <<app, lines>>
  BY PlacesAre, AwaitFacts DEF Speak
<1>2. faults \in Nat /\ faults' = faults /\ texts \in Nat
  BY DEF Before, Basic, OneText
<1>3. CASE pc \in {"ate", "ate2"}
  <2>1. Hears("ATE0") /\ waiting' = TRUE /\ UNCHANGED <<pc, job>>
    BY <1>1, <1>3, EchoFacts DEF Speak
  <2>2. CASE mode = "command"
    <3>1. Quiet
      BY <1>1, <1>3, <2>2 DEF Before, Abreast
    <3>2. "ATE0" \in Commands
      BY DEF Commands
    <3>3. texts' = texts /\ mode' = "command" /\ coming' = <<"OK">>
      BY <1>2, <2>1, <2>2, <3>1, <3>2, HearsCommand DEF Before, EchoObeyed, Quiet
    <3>4. Only("OK")'
      BY <1>1, <3>1, <3>3 DEF Only, Quiet
    <3> QED
      BY <1>1, <1>3, <2>1, <3>3, <3>4
      DEF After, Abreast, TextTaken, Before, Begun, app, Asking
  <2>3. CASE mode = "off"
    <3>1. pc = "ate" /\ Quiet
      BY <1>3, <2>3 DEF Before, Abreast
    <3>2. PICK r \in Reactions("ATE0") : mode' = r.mode /\ coming' = r.answer /\ texts' = texts + r.text
      BY <1>2, <2>1, <2>3, <3>1, HearsQuietly DEF Quiet, Modes
    <3>3. r = Reaction("off", <<>>, 0)
      BY <2>3 DEF Reactions
    <3>4. texts' = texts /\ mode' = "off" /\ coming' = <<>>
      BY <1>2, <3>2, <3>3 DEF Reaction
    <3>5. Quiet'
      BY <1>1, <3>1, <3>4 DEF Quiet
    <3> QED
      BY <1>1, <2>1, <3>1, <3>4, <3>5
      DEF After, Abreast, TextTaken, Before, Begun, app, Asking
  <2> QED
    BY <1>3, <2>2, <2>3 DEF Before, Abreast
<1>4. CASE pc \in Asking \ {"ate", "ate2"}
  <2>1. /\ waiting' = TRUE /\ UNCHANGED <<pc, job>> /\ Step(pc).what \in Commands
        /\ Hears(Step(pc).what)
    BY <1>1, <1>4, AskFacts DEF Speak
  <2>2. mode = "command" /\ Quiet
    BY <1>1, <1>4 DEF Before, Abreast
  <2>3. /\ pc \in {"set", "sgact", "close", "cmgf"} => Step(pc).what \notin {"CMGS", "SD", "GPSACP"}
        /\ pc = "gps" => Step(pc).what = "GPSACP"
        /\ pc = "connect" => Step(pc).what = "SD"
    BY DEF Step, Ask
  <2>4. /\ texts' = texts
        /\ \/ mode' = "command" /\ coming' = <<"ERROR">>
           \/ pc = "connect" /\ mode' = "online" /\ coming' = <<"CONNECT">>
           \/ pc = "gps" /\ mode' = "command" /\ coming' = <<"$GPSACP:", "OK">>
           \/ /\ pc \in {"set", "sgact", "close", "cmgf"}
              /\ mode' = "command" /\ coming' = <<"OK">>
    <3> DEFINE what == Step(pc).what
    <3>1. /\ texts' = texts
          /\ \/ mode' = "command" /\ coming' = <<"ERROR">>
             \/ what = "CMGS"
             \/ what = "SD" /\ mode' = "online" /\ coming' = <<"CONNECT">>
             \/ what = "GPSACP" /\ mode' = "command" /\ coming' = <<"$GPSACP:", "OK">>
             \/ /\ what \notin {"CMGS", "SD", "GPSACP"}
                /\ mode' = "command" /\ coming' = <<"OK">>
      BY <1>2, <2>1, <2>2, HearsCommand DEF Quiet
    <3>2. what # "CMGS"
      BY <1>4, AskFacts
    <3> QED
      BY <1>4, <2>3, <3>1, <3>2 DEF Asking
  <2>5. lines' = <<>>
    BY <1>1, <2>2 DEF Quiet
  <2>6. /\ pc \in {"set", "sgact", "close", "cmgf"} => Refusal' \/ (mode' = "command" /\ Only("OK")')
        /\ pc = "gps" => Refusal' \/ (mode' = "command" /\ PositionComes')
        /\ pc = "connect" => Refusal' \/ (mode' = "online" /\ Only("CONNECT")')
    BY <2>4, <2>5 DEF Refusal, Only, PositionComes
  <2>7. Abreast'
    BY <1>4, <2>1, <2>6 DEF Abreast, Asking
  <2>8. TextTaken'
    BY <1>1, <2>1, <2>4 DEF TextTaken, Before, Begun, app
  <2> QED
    BY <2>7, <2>8 DEF After
<1>5. CASE pc \in Saying
  <2>1. /\ waiting' = FALSE /\ job' = job
        /\ pc' = Step(pc).next /\ Hears(Step(pc).what)
    BY <1>1, <1>5, SayFacts DEF Speak, Goto
  <2>2. CASE pc = "header"
    <3>1. Step(pc).what = "data" /\ Step(pc).next = "body"
      BY <2>2 DEF Step, Say
    <3>2. mode = "online" /\ Quiet
      BY <2>2 DEF Before, Abreast
    <3>3. texts' = texts /\ mode' = "online" /\ Quiet'
      BY <1>1, <1>2, <2>1, <2>2, <3>1, <3>2, HearsOnline DEF Quiet
    <3> QED
      BY <1>1, <2>1, <2>2, <3>1, <3>3 DEF After, Abreast, TextTaken, Before, Begun, app, Asking
  <2>3. CASE pc = "escape"
    <3>1. Step(pc).what = "+++" /\ Step(pc).next = "hangup"
      BY <2>3 DEF Step, Say, AfterReply
    <3>2. mode = "online" /\ Quiet
      BY <2>3 DEF Before, Abreast
    <3>3. texts' = texts /\ mode' = "command" /\ Only("NO CARRIER")'
      BY <1>1, <1>2, <2>1, <3>1, <3>2, HearsOnline DEF Quiet, Only
    <3> QED
      BY <1>1, <2>1, <2>3, <3>1, <3>3 DEF After, Abreast, TextTaken, Before, Begun, app, Asking
  <2>4. CASE pc = "cmgs"
    <3>1. Step(pc).what = "CMGS" /\ Step(pc).next = "text" /\ "CMGS" \in Commands
      BY <2>4 DEF Step, Say, Commands
    <3>2. mode = "command" /\ Quiet
      BY <2>4 DEF Before, Abreast
    <3>3. texts' = texts /\ mode' = "prompt" /\ Quiet'
      BY <1>1, <1>2, <2>1, <3>1, <3>2, HearsCommand DEF Quiet, Before, PromptGiven
    <3> QED
      BY <1>1, <2>1, <2>4, <3>1, <3>3 DEF After, Abreast, TextTaken, Before, Begun, app, Asking
  <2>5. CASE pc = "text"
    <3>1. Step(pc).what = "text" /\ Step(pc).next = "sent"
      BY <2>5 DEF Step, Say
    <3>2. mode = "prompt" /\ Quiet
      BY <2>5 DEF Before, Abreast
    <3>3. texts' = texts + 1 /\ mode' = "command" /\ Only("OK")'
      BY <1>1, <1>2, <2>1, <3>1, <3>2, HearsText DEF Quiet, Only
    <3>4. job = "alarm" /\ texts = Begun - 1
      BY <2>5 DEF Before, Basic, OneText, TextTaken
    <3>5. texts' = Begun'
      <4>1. alarms \in Nat /\ modemSem \in Nat
        BY Bounds, TypesSplit DEF Before, Basic, DataTypes
      <4> QED
        BY <1>1, <1>2, <3>3, <3>4, <4>1 DEF Begun, app
    <3> QED
      BY <2>1, <3>1, <3>3, <3>5 DEF After, Abreast, TextTaken, Asking
  <2> QED
    BY <1>5, <2>2, <2>3, <2>4, <2>5 DEF Saying
<1> QED
  BY <1>1, <1>3, <1>4, <1>5

\* Taking the line that is there.
LEMMA OnlyTaken ==
  ASSUME NEW line, Only(line), lines # <<>>, lines' = Tail(lines), coming' = coming
  PROVE  Head(lines) = line /\ Quiet'
<1>1. lines = <<line>> /\ coming = <<>>
  BY DEF Only
<1> QED
  BY <1>1 DEF Quiet

LEMMA PositionTaken ==
  ASSUME PositionComes, lines # <<>>, lines' = Tail(lines), coming' = coming
  PROVE  Head(lines) = "$GPSACP:" /\ Only("OK")'
<1>1. CASE lines = <<"$GPSACP:">> /\ coming = <<"OK">>
  BY <1>1 DEF Only
<1>2. CASE lines = <<"$GPSACP:", "OK">> /\ coming = <<>>
  BY <1>2 DEF Only
<1> QED
  BY <1>1, <1>2 DEF PositionComes

LEMMA ListeningAt ==
  ASSUME Basic, Listening
  PROVE  pc \in Asking \cup Awaiting /\ (pc \in Asking => waiting)
<1>1. pc \in Asking \cup Awaiting
  BY PlacesAre, SayFacts DEF Listening, Basic, Counted, Asking, Saying
<1>2. pc \in Asking => waiting
  BY AskFacts DEF Listening
<1> QED
  BY <1>1, <1>2

LEMMA TakeAbreast ==
  ASSUME Before, Take PROVE After
<1>1. /\ Listening /\ lines # <<>> /\ lines' = Tail(lines) /\ coming' = coming /\ mode' = mode
      /\ UNCHANGED <<app, texts>>
  BY DEF Take, modem
<1>2. pc \in Asking \cup Awaiting /\ (pc \in Asking => waiting)
  BY <1>1, ListeningAt DEF Before
<1>3. ASSUME Head(lines) \in {"ERROR", Step(pc).target}
      PROVE  /\ waiting' = FALSE /\ job' = job
             /\ pc' = IF Head(lines) = "ERROR" THEN Step(pc).otherwise ELSE Step(pc).next
  BY <1>3 DEF Take, Ends, Goto
<1>4. TextTaken'
  <2>1. TaskTypes /\ (Moved \/ UNCHANGED task)
    BY ListeningMoves, TypesSplit DEF Before, Take, Basic
  <2>2. CASE UNCHANGED task
    BY <1>1, <2>2 DEF Before, TextTaken, Begun, task, app
  <2>3. CASE pc \in Asking /\ Moved
    <3>1. pc' = pc \/ pc' \in {Step(pc).next, Step(pc).otherwise}
      BY DEF Take, task, Goto
    <3>2. pc' \in {"sent", "idle"} => job # "alarm"
      BY <2>3, <3>1, AskFacts, JobFacts DEF Asking
    <3> QED
      BY <1>1, <2>3, <3>2 DEF Before, TextTaken, Begun, app, Moved, Asking
  <2>4. CASE pc \in Awaiting /\ Moved
    <3>1. pc' = pc \/ pc' \in {Step(pc).next, Step(pc).otherwise}
      BY DEF Take, task, Goto
    <3>2. pc' \in {"sent", "idle"} <=> pc = "sent"
      BY <2>4, <3>1, AwaitFacts DEF Awaiting, Moved
    <3> QED
      BY <1>1, <2>4, <3>2 DEF Before, TextTaken, Begun, app, Moved, Awaiting
  <2> QED
    BY <1>2, <2>1, <2>2, <2>3, <2>4
<1>5. CASE pc \in {"ate", "ate2"}
  <2>1. mode = "command" /\ Only("OK")
    BY <1>1, <1>2, <1>5 DEF Before, Abreast, Quiet, Asking
  <2>2. Head(lines) = "OK" /\ Quiet'
    BY <1>1, <2>1, OnlyTaken
  <2>3. pc' = "set" /\ waiting' = FALSE
    BY <1>3, <1>5, <2>2, EchoFacts
  <2> QED
    BY <1>1, <1>4, <2>1, <2>2, <2>3 DEF After, Abreast, Asking
<1>6. CASE pc \in {"set", "sgact", "close", "cmgf"}
  <2>1. mode = "command" /\ (Only("OK") \/ Only("ERROR"))
    BY <1>2, <1>6 DEF Before, Abreast, Refusal, Asking
  <2>2. Head(lines) \in {"OK", "ERROR"} /\ Quiet'
    BY <1>1, <2>1, OnlyTaken
  <2>3. /\ Step(pc).target = "OK"
        /\ {Step(pc).next, Step(pc).otherwise} \subseteq {"gps", "connect", "idle", "cmgs"}
    BY <1>6 DEF Step, Ask, AfterPost
  <2>4. pc' \in {"gps", "connect", "idle", "cmgs"} /\ waiting' = FALSE
    BY <1>3, <2>2, <2>3
  <2> QED
    BY <1>1, <1>4, <2>1, <2>2, <2>4 DEF After, Abreast, Asking
<1>7. CASE pc = "gps"
  <2>1. mode = "command" /\ (PositionComes \/ Only("ERROR"))
    BY <1>2, <1>7 DEF Before, Abreast, Refusal, Asking
  <2>2. /\ Step(pc).target = "$GPSACP:" /\ Step(pc).next = "position"
        /\ Step(pc).otherwise \in {"cmgf", "sgact", "idle"}
    BY <1>7 DEF Step, Ask, AfterGps
  <2>3. CASE PositionComes
    <3>1. Head(lines) = "$GPSACP:" /\ Only("OK")'
      BY <1>1, <2>3, PositionTaken
    <3>2. pc' = "position" /\ waiting' = FALSE
      BY <1>3, <2>2, <3>1
    <3> QED
      BY <1>1, <1>4, <2>1, <3>1, <3>2 DEF After, Abreast, Asking
  <2>4. CASE Only("ERROR")
    <3>1. Head(lines) = "ERROR" /\ Quiet'
      BY <1>1, <2>4, OnlyTaken
    <3>2. pc' \in {"cmgf", "sgact", "idle"} /\ waiting' = FALSE
      BY <1>3, <2>2, <3>1
    <3> QED
      BY <1>1, <1>4, <2>1, <3>1, <3>2 DEF After, Abreast, Asking
  <2> QED
    BY <2>1, <2>3, <2>4
<1>8. CASE pc = "connect"
  <2>1. Refusal \/ (mode = "online" /\ Only("CONNECT"))
    BY <1>2, <1>8 DEF Before, Abreast, Asking
  <2>2. /\ Step(pc).target = "CONNECT" /\ Step(pc).next = "header"
        /\ Step(pc).otherwise \in {"gps", "idle"}
    BY <1>8 DEF Step, Ask, AfterPost
  <2>3. CASE mode = "online" /\ Only("CONNECT")
    <3>1. Head(lines) = "CONNECT" /\ Quiet'
      BY <1>1, <2>3, OnlyTaken
    <3>2. pc' = "header" /\ waiting' = FALSE
      BY <1>3, <2>2, <3>1
    <3> QED
      BY <1>1, <1>4, <2>3, <3>1, <3>2 DEF After, Abreast, Asking
  <2>4. CASE Refusal
    <3>1. Head(lines) = "ERROR" /\ Quiet' /\ mode = "command"
      BY <1>1, <2>4, OnlyTaken DEF Refusal
    <3>2. pc' \in {"gps", "idle"} /\ waiting' = FALSE
      BY <1>3, <2>2, <3>1
    <3> QED
      BY <1>1, <1>4, <3>1, <3>2 DEF After, Abreast, Asking
  <2> QED
    BY <2>1, <2>3, <2>4
<1>9. CASE pc \in Awaiting
  <2>1. /\ pc = "reply" => mode = "online" /\ Only("Content-Length: 0")
        /\ pc = "hangup" => mode = "command" /\ Only("NO CARRIER")
        /\ pc = "sent" => mode = "command" /\ Only("OK")
    BY DEF Before, Abreast
  <2>2. /\ pc = "reply" => Step(pc).target = "Content-Length: 0" /\ Step(pc).next = "escape"
        /\ pc = "hangup" => Step(pc).target = "NO CARRIER" /\ Step(pc).next = "close"
        /\ pc = "sent" => Step(pc).target = "OK" /\ Step(pc).next = "idle"
    BY DEF Step, Await, AfterReply
  <2>3. Head(lines) = Step(pc).target /\ Head(lines) # "ERROR" /\ Quiet'
    BY <1>1, <1>9, <2>1, <2>2, OnlyTaken DEF Awaiting
  <2>4. pc' = Step(pc).next /\ waiting' = FALSE
    BY <1>3, <2>3
  <2> QED
    BY <1>1, <1>4, <1>9, <2>1, <2>2, <2>3, <2>4 DEF After, Abreast, Asking, Awaiting
<1> QED
  BY <1>2, <1>5, <1>6, <1>7, <1>8, <1>9 DEF Asking

\* Without a fault only a modem that is off lets a wait run out.
LEMMA TimeOutAbreast ==
  ASSUME Before, TimeOut PROVE After
<1>1. /\ Listening /\ lines = <<>> /\ UNCHANGED <<app, modem, lines, texts>>
  BY DEF TimeOut, Expired
<1>2. coming = <<>>
  BY DEF TimeOut, Fault, Before
<1>3. pc \in Asking \cup Awaiting /\ (pc \in Asking => waiting)
  BY <1>1, ListeningAt DEF Before
<1>4. \A line \in Lines : ~Only(line)
  BY <1>1, <1>2 DEF Only
<1>5. ~PositionComes /\ Quiet /\ Quiet'
  BY <1>1, <1>2 DEF PositionComes, Quiet, modem
<1>6. pc = "ate" /\ mode = "off"
  BY <1>3, <1>4, <1>5 DEF Before, Abreast, Refusal, Asking, Awaiting, Lines
<1>7. pc' \in {"ate", "pulse2"} /\ waiting' = FALSE /\ job' = job
  BY <1>6, EchoFacts DEF TimeOut, Goto
<1>8. mode' = "off"
  BY <1>1, <1>6 DEF modem
<1>9. Abreast'
  BY <1>5, <1>7, <1>8 DEF Abreast, Asking
<1>10. TextTaken'
  BY <1>1, <1>6, <1>7 DEF Before, TextTaken, Begun, app
<1> QED
  BY <1>9, <1>10 DEF After

LEMMA PositionAbreast ==
  ASSUME Before, Position PROVE After
<1>1. pc = "position" /\ mode = "command" /\ Only("OK") /\ UNCHANGED <<app, modem, texts>>
  BY DEF Position, Before, Abreast, tally
<1>2. lines # <<>> /\ lines' = Tail(lines)
  <2>1. ~(lines = <<>> /\ coming = <<>>)
    BY <1>1 DEF Only
  <2>2. ~Fault("late")
    BY DEF Fault, Before
  <2> QED
    BY <2>1, <2>2 DEF Position, Expired
<1>3. Head(lines) = "OK" /\ Quiet' /\ mode' = "command"
  BY <1>1, <1>2, OnlyTaken DEF modem
<1>4. Goto(IF job = "update" /\ sending /\ gpsValid' THEN "sgact" ELSE AfterGps)
  BY <1>2, <1>3 DEF Position, Expired
<1>5. /\ waiting' = FALSE /\ job' = job /\ pc' \in {"cmgf", "sgact", "idle"}
      /\ pc' = "idle" => job # "alarm"
  BY <1>4 DEF Goto, AfterGps
<1>6. Abreast'
  BY <1>3, <1>5 DEF Abreast, Asking
<1>7. TextTaken'
  BY <1>1, <1>5 DEF Before, TextTaken, Begun, app
<1> QED
  BY <1>6, <1>7 DEF After

LEMMA BodyAbreast ==
  ASSUME Before, Body PROVE After
<1>1. pc = "body" /\ mode = "online" /\ Quiet /\ UNCHANGED <<app, lines>>
  BY DEF Body, Before, Abreast
<1>2. Hears("data") /\ Goto("reply")
  BY DEF Body, Fault, Before
<1>3. texts' = texts /\ mode' = "online" /\ coming' = <<"Content-Length: 0">>
  BY <1>1, <1>2, HearsOnline DEF Before, Basic, OneText, Quiet
<1>4. pc' = "reply" /\ waiting' = FALSE /\ job' = job /\ Only("Content-Length: 0")'
  BY <1>1, <1>2, <1>3 DEF Goto, Only, Quiet
<1>5. Abreast'
  BY <1>3, <1>4 DEF Abreast, Asking
<1>6. TextTaken'
  BY <1>1, <1>3, <1>4 DEF Before, TextTaken, Begun, app
<1> QED
  BY <1>5, <1>6 DEF After

LEMMA EncodeAbreast ==
  ASSUME Before, Encode PROVE After
<1>1. /\ pc = "encode" /\ pc' \in {"sgact", "gps"} /\ waiting' = FALSE /\ job' = job
      /\ UNCHANGED <<app, modem, lines, texts>>
  BY DEF Encode, Goto, tally
<1>2. mode' = "command" /\ Quiet'
  BY <1>1 DEF Before, Abreast, Quiet, modem
<1> QED
  BY <1>1, <1>2 DEF After, Abreast, Asking, Before, TextTaken, Begun, app

LEMMA PendAbreast ==
  ASSUME Before, Pend PROVE After
<1>1. /\ pc = "idle" /\ waiting = FALSE
      /\ UNCHANGED <<waiting, alarms, modem, lines, texts>>
  BY TypesSplit DEF Pend, Before, Basic, Counted, Asking, TaskTypes
<1>2. mode' = "command" /\ Quiet'
  BY <1>1 DEF Before, Abreast, Quiet, modem
<1>3. \/ modemSem' = modemSem - 1 /\ pc' = "encode" /\ job' = "alarm"
      \/ modemSem' = modemSem /\ pc' = "gps" /\ job' = "update"
  BY DEF Pend
<1>4. Abreast'
  BY <1>1, <1>2, <1>3 DEF Abreast, Asking
<1>5. TextTaken'
  <2>1. texts = Begun
    BY <1>1 DEF Before, TextTaken
  <2>2. alarms \in Nat /\ modemSem \in Nat
    BY Bounds, TypesSplit DEF Before, Basic, DataTypes
  <2> QED
    BY <1>1, <1>3, <2>1, <2>2 DEF TextTaken, Begun
<1> QED
  BY <1>4, <1>5 DEF After

LEMMA AppendSecond ==
  ASSUME NEW x, NEW y PROVE Append(<<x>>, y) = <<x, y>>
<1> DEFINE S == {x, y}
<1>1. <<x>> \in Seq(S) /\ <<x, y>> \in Seq(S) /\ y \in S
  OBVIOUS
<1>2. /\ Append(<<x>>, y) \in Seq(S) /\ Len(Append(<<x>>, y)) = 2
      /\ Append(<<x>>, y)[1] = x /\ Append(<<x>>, y)[2] = y
  BY <1>1
<1>3. \A i \in 1..Len(<<x, y>>) : Append(<<x>>, y)[i] = <<x, y>>[i]
  BY <1>2
<1> QED
  BY <1>1, <1>2, <1>3, SeqEqual

LEMMA AnswerAbreast ==
  ASSUME Before, Answer PROVE After
<1>1. UNCHANGED <<task, app, mode, texts>> /\ coming # <<>>
      /\ lines' = Append(lines, Head(coming)) /\ coming' = Tail(coming)
  BY DEF Answer, tally
<1>2. ASSUME NEW line \in Lines, Only(line) PROVE lines' = <<line>> /\ coming' = <<>>
  <2>1. lines = <<>> /\ coming = <<line>>
    BY <1>1, <1>2 DEF Only
  <2> QED
    BY <1>1, <2>1
<1>3. /\ Only("OK") => Only("OK")'
      /\ Only("ERROR") => Only("ERROR")'
      /\ Only("CONNECT") => Only("CONNECT")'
      /\ Only("NO CARRIER") => Only("NO CARRIER")'
      /\ Only("Content-Length: 0") => Only("Content-Length: 0")'
  BY <1>2 DEF Only, Lines
<1>4. PositionComes => PositionComes'
  <2>1. CASE lines = <<>> /\ coming = <<"$GPSACP:", "OK">>
    BY <1>1, <2>1 DEF PositionComes
  <2>2. CASE lines = <<"$GPSACP:">> /\ coming = <<"OK">>
    <3>1. Head(coming) = "OK" /\ coming' = <<>>
      BY <1>1, <2>2
    <3>2. Append(<<"$GPSACP:">>, "OK") = <<"$GPSACP:", "OK">>
      BY AppendSecond
    <3> QED
      BY <1>1, <2>2, <3>1, <3>2 DEF PositionComes
  <2> QED
    BY <1>1, <2>1, <2>2 DEF PositionComes
<1>5. ~Quiet
  BY <1>1 DEF Quiet
<1>6. Refusal => Refusal'
  BY <1>1, <1>3 DEF Refusal
<1>7. Abreast'
  BY <1>1, <1>3, <1>4, <1>5, <1>6 DEF Before, Abreast, task
<1>8. TextTaken'
  BY <1>1 DEF Before, TextTaken, Begun, task, app
<1> QED
  BY <1>7, <1>8 DEF After

LEMMA OthersAbreast ==
  ASSUME Before, Drop \/ Post \/ Stop \/ UNCHANGED vars PROVE After
<1>1. ~Drop
  BY DEF Drop, Fault, Before
<1>2. UNCHANGED <<task, modem, lines, texts>>
  BY <1>1 DEF Post, Stop, vars, tally
<1>3. Abreast'
  BY <1>2 DEF Before, Abreast, Quiet, Only, Refusal, PositionComes, task, modem
<1>4. Begun' = Begun
  <2>1. \/ modemSem' = modemSem + 1 /\ alarms' = alarms + 1
        \/ modemSem' = modemSem /\ alarms' = alarms
    BY <1>1 DEF Post, Stop, vars, app
  <2>2. alarms \in Nat /\ modemSem \in Nat
    BY Bounds, TypesSplit DEF Before, Basic, DataTypes
  <2> QED
    BY <2>1, <2>2 DEF Begun
<1>5. TextTaken'
  BY <1>2, <1>4 DEF Before, TextTaken, task
<1> QED
  BY <1>3, <1>5 DEF After

LEMMA NextFaultless ==
  EchoObeyed /\ PromptGiven /\ Basic /\ Starting /\ Faultless /\ [Next]_vars => Faultless'
<1> SUFFICES ASSUME EchoObeyed, PromptGiven, Basic, Starting, Faultless, [Next]_vars,
                    faults' = 0
             PROVE  After
  BY DEF Faultless, After
<1>1. faults = 0
  <2>1. faults \in Nat
    BY Bounds, TypesSplit DEF Basic, DataTypes
  <2>2. faults' = faults \/ faults' = faults + 1
    <3>1. CASE Speak \/ Body
      BY <3>1, HearsTypes DEF Speak, Body, Basic, OneText, Fault
    <3>2. CASE Pulse \/ Take \/ TimeOut \/ Position \/ Encode \/ Pend
      BY <3>2 DEF Pulse, Take, TimeOut, Position, Encode, Pend, Fault
    <3>3. CASE Answer \/ Drop \/ Post \/ Stop \/ UNCHANGED vars
      BY <3>3 DEF Answer, Drop, Post, Stop, vars, Fault
    <3> QED
      BY <3>1, <3>2, <3>3 DEF Next, Task
  <2> QED
    BY <2>1, <2>2
<1>2. Before
  BY <1>1 DEF Before, Faultless
<1> QED
  BY <1>2, PulseAbreast, SpeakAbreast, TakeAbreast, TimeOutAbreast, PositionAbreast,
     BodyAbreast, EncodeAbreast, PendAbreast, AnswerAbreast, OthersAbreast
  DEF Next, Task

-----------------------------------------------------------------------------
(***************************************************************************)
(* The theorems.                                                           *)
(***************************************************************************)
LEMMA BasicHolds == Spec => []Basic
<1>1. Init => Basic
  BY InitIInv DEF IInv
<1> QED
  BY <1>1, NextBasic, PTL DEF Spec

\* Every variable of the modem task and of the modem has its type: no command is sent
\* more often than maxRepeat (modemSendAndWaitResp) and no alarm has two texts,
\* whatever the modem refuses, loses or delays.
THEOREM TypeCorrect == Spec => []TypeOK
  BY BasicHolds, PTL DEF Basic

\* modemInit gives the modem up only after as many answers were lost or late as it
\* sends ATE0, whether the modem was on or off at first: the second pulse undoes the
\* first (modem.c:172-185).
THEOREM ModemFound ==
  ASSUME EchoObeyed PROVE Spec => []Found
<1>1. Init => Starting
  BY InitIInv DEF IInv
<1>2. Basic /\ Starting /\ [Next]_vars => Starting'
  BY NextStarting
<1>3. Starting => Found
  BY DEF Starting, Found
<1> QED
  BY <1>1, <1>2, <1>3, BasicHolds, PTL DEF Spec

LEMMA IInvHolds ==
  ASSUME EchoObeyed, PromptGiven PROVE Spec => []IInv
<1>1. IInv /\ [Next]_vars => IInv'
  BY NextBasic, NextStarting, NextFaultless DEF IInv
<1> QED
  BY <1>1, InitIInv, PTL DEF Spec

\* The modem has taken at most one text message of each alarm, and without a fault
\* exactly one of each alarm that was served, whichever commands it refuses but CMGS
\* (App_ModemTask, smsSend).
THEOREM OneTextEach ==
  ASSUME EchoObeyed, PromptGiven PROVE Spec => []TextSent
<1>1. IInv => TextSent
  BY DEF IInv, Basic, OneText, Faultless, TextTaken, TextSent, Begun
<1> QED
  BY <1>1, IInvHolds, PTL

\* Without a fault every job of the modem task ends with the modem in its command mode and
\* no line left over, whatever was refused and wherever a job stopped.
THEOREM KeptInStep ==
  ASSUME EchoObeyed, PromptGiven PROVE Spec => []InStep
<1>1. IInv => InStep
  BY DEF IInv, Faultless, Abreast, Quiet, InStep
<1> QED
  BY <1>1, IInvHolds, PTL
=============================================================================
