----------------------------- MODULE ModemLink -----------------------------
(***************************************************************************)
(* The conversations of the modem task (App_ModemTask, modem.c) with the   *)
(* LE910: modemInit, parseGPSData, pictureSend's POST, gpsUpdate and       *)
(* smsSend.  They are sequences of three kinds of steps: a command whose   *)
(* answer is waited for (modemSendAndWaitResp, getResponse), something     *)
(* said without waiting (modemSend), and a wait (waitResponse).            *)
(*                                                                         *)
(* The modem is known by how the code uses it.  It takes what it hears for *)
(* a command, for the text of a message after its prompt, or for data of   *)
(* the connection; it answers in the order in which it heard.  An answer   *)
(* may be late or missing, a command refused, the connection dropped.      *)
(***************************************************************************)
EXTENDS Naturals, Sequences

CONSTANTS
  Repeats,    \* maxRepeat, 5
  Refused,    \* the commands that may be answered with ERROR
  Faults,     \* the faults that happen
  MaxFaults,  \* BOUND on their number
  MaxAlarms,  \* BOUND on the posts of modemSem
  MaxUpdates  \* BOUND on the updates of the position

Commands == {"ATE0", "SET", "SGACT", "GPSACP", "CMGF", "CMGS", "SD", "SH"}
Said     == Commands \cup {"text", "data", "+++"}
Lines    == {"OK", "ERROR", "CONNECT", "NO CARRIER", "Content-Length: 0", "$GPSACP:"}

ASSUME LinkAssumption ==
  /\ Repeats \in Nat \ {0}
  /\ Refused \subseteq Commands
  /\ Faults \subseteq {"late", "silent", "drop", "disk"}
  /\ {MaxFaults, MaxAlarms, MaxUpdates} \subseteq Nat

VARIABLES
  pc,         \* the step of the modem task
  job,        \* what it is for: "init", "alarm" or "update"
  waiting,    \* the command was sent, its answer is waited for
  tries,      \* how often it was sent
  modemSem, sending,   \* the semaphore; emergencyState = SEND_UPDATES
  gpsValid,
  mode,       \* of the modem: "off", "command", "prompt" or "online"
  coming,     \* lines the modem is going to answer
  lines,      \* lines that were received
  alarms, texts, updates,   \* counts: posts, texts taken by the modem, time-outs of the pend
  faults

task  == <<pc, job, waiting, tries>>
modem == <<mode, coming>>
app   == <<modemSem, sending, alarms>>
tally == <<texts, updates>>
vars  == <<task, app, gpsValid, modem, lines, tally, faults>>

Init ==
  /\ pc = "pulse" /\ job = "init"
  /\ waiting = FALSE /\ tries = 0
  /\ modemSem = 0 /\ sending = FALSE
  /\ gpsValid = FALSE
  /\ mode \in {"off", "command"}     \* the processor may be reset alone
  /\ coming = <<>> /\ lines = <<>>
  /\ alarms = 0 /\ texts = 0 /\ updates = 0
  /\ faults = 0

Fault(kind) ==
  /\ kind \in Faults /\ faults < MaxFaults
  /\ faults' = faults + 1

-----------------------------------------------------------------------------
(***************************************************************************)
(* The steps.                                                              *)
(***************************************************************************)
Ask(what, target, max, next, otherwise) ==
  [kind |-> "ask", what |-> what, target |-> target, max |-> max,
   next |-> next, otherwise |-> otherwise]

Say(what, next) == [kind |-> "say", what |-> what, next |-> next]

Await(target, next) ==
  [kind |-> "await", what |-> "", target |-> target, max |-> 0,
   next |-> next, otherwise |-> next]

AfterGps ==
  IF job = "alarm" THEN "cmgf"
  ELSE IF job = "update" /\ sending /\ gpsValid THEN "sgact" ELSE "idle"

\* Mutant: pictureSend's failure ends the job.
AfterPost_Idle == "idle"

AfterPost == IF job = "alarm" THEN "gps" ELSE "idle"

\* Mutant: after the time-outs that follow the first pulse the modem is given up.
SecondTry_None == "halted"

SecondTry == "pulse2"

\* Mutant: the connection is not escaped from before it is closed.
AfterReply_Close == "close"

AfterReply == "escape"

Step(place) ==
  CASE place = "ate"     -> Ask("ATE0", "OK", Repeats, "set", SecondTry)
    [] place = "ate2"    -> Ask("ATE0", "OK", Repeats, "set", "halted")
    \* AT+CSQ, AT#SCFG, AT+CGDCONT, AT#SGACT, AT$GPSAT, AT$GPSP: any answer will do
    [] place = "set"     -> Ask("SET", "OK", Repeats, "gps", "gps")
    \* parseGPSData
    [] place = "gps"     -> Ask("GPSACP", "$GPSACP:", 1, "position", AfterGps)
    \* openExositeSocket, the body, and the end of the connection
    [] place = "sgact"   -> Ask("SGACT", "OK", Repeats, "connect", "connect")
    [] place = "connect" -> Ask("SD", "CONNECT", Repeats, "header", AfterPost)
    [] place = "header"  -> Say("data", "body")
    [] place = "reply"   -> Await("Content-Length: 0", AfterReply)
    [] place = "escape"  -> Say("+++", "hangup")
    [] place = "hangup"  -> Await("NO CARRIER", "close")
    [] place = "close"   -> Ask("SH", "OK", Repeats, AfterPost, AfterPost)
    \* smsSend
    [] place = "cmgf"    -> Ask("CMGF", "OK", Repeats, "cmgs", "cmgs")
    [] place = "cmgs"    -> Say("CMGS", "text")
    [] place = "text"    -> Say("text", "sent")
    [] place = "sent"    -> Await("OK", "idle")

Places == {"ate", "ate2", "set", "gps", "sgact", "connect", "header", "reply", "escape",
           "hangup", "close", "cmgf", "cmgs", "text", "sent"}

-----------------------------------------------------------------------------
(***************************************************************************)
(* The modem.                                                              *)
(***************************************************************************)
\* What it may answer to `what', and the mode it is in then.
Reaction(m, answer, text) == [mode |-> m, answer |-> answer, text |-> text]

Obeys(what) ==
  CASE what = "CMGS"   -> Reaction("prompt", <<>>, 0)
    [] what = "SD"     -> Reaction("online", <<"CONNECT">>, 0)
    [] what = "GPSACP" -> Reaction("command", <<"$GPSACP:", "OK">>, 0)
    [] OTHER           -> Reaction("command", <<"OK">>, 0)

Reactions(what) ==
  CASE mode = "off"     -> {Reaction("off", <<>>, 0)}
    [] mode = "command" ->
         IF what \notin Commands THEN {Reaction("command", <<"ERROR">>, 0)}
         ELSE {Obeys(what)} \cup
              (IF what \in Refused THEN {Reaction("command", <<"ERROR">>, 0)} ELSE {})
    \* Ctrl-Z ends the text
    [] mode = "prompt"  ->
         IF what = "text" THEN {Reaction("command", <<"OK">>, 1)} ELSE {Reaction("prompt", <<>>, 0)}
    [] mode = "online"  ->
         IF what = "+++" THEN {Reaction("command", <<"NO CARRIER">>, 0)}
         ELSE {Reaction("online", IF what = "data" /\ pc = "body" THEN <<"Content-Length: 0">>
                                  ELSE <<>>, 0)}

Hears(what) ==
  \E r \in Reactions(what) :
    /\ mode' = r.mode
    /\ texts' = texts + r.text
    /\ \/ coming' = coming \o r.answer /\ UNCHANGED faults
       \/ r.answer # <<>> /\ Fault("silent") /\ UNCHANGED coming

Answer ==
  /\ coming # <<>>
  /\ lines' = Append(lines, Head(coming)) /\ coming' = Tail(coming)
  /\ UNCHANGED <<task, app, gpsValid, mode, tally, faults>>

Drop ==
  /\ mode = "online" /\ Fault("drop")
  /\ mode' = "command" /\ coming' = Append(coming, "NO CARRIER")
  /\ UNCHANGED <<task, app, gpsValid, lines, tally>>

-----------------------------------------------------------------------------
(***************************************************************************)
(* The task.                                                               *)
(***************************************************************************)
Goto(place) ==
  /\ pc' = place /\ waiting' = FALSE /\ tries' = 0
  /\ UNCHANGED job

\* Two pulses on the ON_OFF pin, which switch the modem on, or off if it was on.
Pulse ==
  /\ pc \in {"pulse", "pulse2"}
  /\ Goto(IF pc = "pulse" THEN "ate" ELSE "ate2")
  /\ mode' = IF mode = "off" THEN "command" ELSE "off"
  /\ coming' = <<>>
  /\ UNCHANGED <<app, gpsValid, lines, tally, faults>>

\* modemSend.
Speak ==
  /\ pc \in Places /\ Step(pc).kind \in {"ask", "say"} /\ ~waiting
  /\ Hears(Step(pc).what)
  /\ IF Step(pc).kind = "say" THEN Goto(Step(pc).next)
     ELSE waiting' = TRUE /\ tries' = tries + 1 /\ UNCHANGED <<pc, job>>
  /\ UNCHANGED <<app, gpsValid, lines, updates>>

Listening == pc \in Places /\ (waiting \/ Step(pc).kind = "await")

Ends(line) == line \in {Step(pc).target, "ERROR"}

\* waitResponse takes lines until one ends the wait.
Take ==
  /\ Listening /\ lines # <<>>
  /\ lines' = Tail(lines)
  /\ IF ~Ends(Head(lines)) THEN UNCHANGED task
     ELSE Goto(IF Head(lines) = "ERROR" THEN Step(pc).otherwise ELSE Step(pc).next)
  /\ UNCHANGED <<app, gpsValid, modem, texts, updates, faults>>

\* Mutant: modemGetNextLine waits for ever.
Expired_Never == FALSE

\* The answer is not late unless the run says so.
Expired == lines = <<>> /\ (coming = <<>> \/ "late" \in Faults)

\* Mutant: the command is sent once more than maxRepeat.
Again_OneMore == tries <= Step(pc).max

Again == tries < Step(pc).max

\* Only a time-out makes modemSendAndWaitResp send again.
TimeOut ==
  /\ Listening /\ Expired
  /\ IF Again THEN waiting' = FALSE /\ UNCHANGED <<pc, job, tries>>
     ELSE Goto(Step(pc).otherwise)
  /\ IF coming # <<>> THEN Fault("late") ELSE UNCHANGED faults
  /\ UNCHANGED <<app, gpsValid, modem, lines, texts, updates>>

\* The rest of getResponse, to the line "OK"; a position was found or it was not.
Position ==
  /\ pc = "position"
  /\ \/ /\ lines # <<>> /\ lines' = Tail(lines)
        /\ IF Head(lines) \notin {"OK", "ERROR"} THEN UNCHANGED <<task, gpsValid>>
           ELSE /\ gpsValid' \in IF Head(lines) = "OK" THEN {gpsValid, TRUE} ELSE {gpsValid}
                /\ Goto(IF job = "update" /\ sending /\ gpsValid' THEN "sgact" ELSE AfterGps)
        /\ UNCHANGED faults
     \/ /\ Expired /\ Goto(AfterGps)
        /\ IF coming # <<>> THEN Fault("late") ELSE UNCHANGED faults
        /\ UNCHANGED <<gpsValid, lines>>
  /\ UNCHANGED <<app, modem, tally>>

\* The body: of a picture, as much as is read from the card; else the position.
\* After a read error `goto end' leads to smsSend.
Body ==
  /\ pc = "body"
  /\ \/ Hears("data") /\ Goto("reply")
     \/ /\ job = "alarm" /\ Fault("disk") /\ Goto("gps")
        /\ UNCHANGED <<modem, texts>>
  /\ UNCHANGED <<app, gpsValid, lines, updates>>

\* The picture is encoded, or it cannot be.
Encode ==
  /\ pc = "encode"
  /\ Goto("sgact") \/ Goto("gps")
  /\ UNCHANGED <<app, gpsValid, modem, lines, tally, faults>>

\* OSSemPend of modemSem, with a time-out of 5 seconds.
Pend ==
  /\ pc = "idle"
  /\ IF modemSem > 0
     THEN modemSem' = modemSem - 1 /\ pc' = "encode" /\ job' = "alarm" /\ UNCHANGED updates
     ELSE /\ updates < MaxUpdates
          /\ updates' = updates + 1 /\ pc' = "gps" /\ job' = "update" /\ UNCHANGED modemSem
  /\ UNCHANGED <<waiting, tries, sending, alarms, gpsValid, modem, lines, texts, faults>>

Task == Pulse \/ Speak \/ Take \/ TimeOut \/ Position \/ Body \/ Encode \/ Pend

\* The emergency task posts modemSem, and stops the updates after the PIN.
Post ==
  /\ alarms < MaxAlarms
  /\ modemSem' = modemSem + 1 /\ sending' = TRUE /\ alarms' = alarms + 1
  /\ UNCHANGED <<task, gpsValid, modem, lines, tally, faults>>

Stop ==
  /\ sending /\ sending' = FALSE
  /\ UNCHANGED <<task, modemSem, alarms, gpsValid, modem, lines, tally, faults>>

Next == Task \/ Answer \/ Drop \/ Post \/ Stop

Spec == Init /\ [][Next]_vars

\* The task runs on and time-outs expire; the modem need not answer.
FairSpec == Spec /\ WF_vars(Task) /\ WF_vars(Answer)

-----------------------------------------------------------------------------
(***************************************************************************)
(* Properties.                                                             *)
(***************************************************************************)
TypeOK ==
  /\ pc \in Places \cup {"pulse", "pulse2", "position", "body", "encode", "idle", "halted"}
  /\ job \in {"init", "alarm", "update"}
  /\ waiting \in BOOLEAN /\ tries \in 0..Repeats
  /\ modemSem \in 0..MaxAlarms /\ {sending, gpsValid} \subseteq BOOLEAN
  /\ mode \in {"off", "command", "prompt", "online"}
  /\ coming \in Seq(Lines) /\ lines \in Seq(Lines)
  /\ alarms \in 0..MaxAlarms /\ texts <= alarms /\ faults \in 0..MaxFaults

\* Whatever commands the modem refuses and whether or not it connects, the modem has
\* taken one text message of each alarm; and not two whatever goes wrong, however
\* often commands are sent again (app.c:695-699, modem.c:695-712).
TextSent ==
  /\ texts <= alarms - modemSem
  /\ pc = "idle" /\ faults = 0 => texts = alarms - modemSem

\* Between two jobs the modem listens for commands, and no line is left that the
\* next job would take for an answer to its first command.
InStep == pc = "idle" /\ faults = 0 => mode = "command" /\ lines = <<>> /\ coming = <<>>

\* modemInit finds the modem whether it was on or off when the processor started,
\* unless as many answers are lost or late as it sends ATE0 (modem.c:172-185).
Found == pc = "halted" => faults >= Repeats

\* A modem that does not answer, or answers late, cannot keep the task: every post
\* of modemSem is served, unless modemInit has failed.
Served == [](modemSem > 0 => <>(modemSem = 0 \/ pc = "halted"))

(***************************************************************************)
(* What comments of the code say and the code does not do: no run checks   *)
(* these, README.md says with which constants TLC refutes them.            *)
(***************************************************************************)

\* app.c:680 "it is time to send the photo+gps coordinates to exosite and a send
\* text message": when the upload fails, the message is sent all the same.
TextAnyway == pc = "idle" => texts >= alarms - modemSem

\* modem.c:619 "Okay if it returns error, the PDP context may already be active.": also
\* when the lines are one behind, since the server closed the last connection early.
RefusalOkay == pc \in {"cmgf", "cmgs", "text"} => mode # "online"
=============================================================================
