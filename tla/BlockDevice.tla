----------------------------- MODULE BlockDevice -----------------------------
(***************************************************************************)
(* What FatFs relies on when it calls disk_read and disk_write (diskio.c)  *)
(* for one sector: RES_OK is answered to a read only with the contents of  *)
(* the sector, and to a write only when the sector holds what was written; *)
(* whatever is answered, no other sector changes.                          *)
(***************************************************************************)
CONSTANTS
  Sectors,
  Values,    \* what a sector may hold
  Nothing    \* no value

VARIABLES
  contents,  \* of every sector
  asked,     \* <<"read", sector>>, <<"write", sector, value>>, or none
  answer     \* to the last call: "ok" or "error", and what was read

vars == <<contents, asked, answer>>

NoAnswer == <<"none", Nothing>>

Init ==
  /\ contents \in [Sectors -> Values]
  /\ asked = <<>>
  /\ answer = <<"error", Nothing>>

AskRead ==
  /\ asked = <<>>
  /\ \E s \in Sectors : asked' = <<"read", s>>
  /\ answer' = NoAnswer
  /\ UNCHANGED contents

AskWrite ==
  /\ asked = <<>>
  /\ \E s \in Sectors, v \in Values : asked' = <<"write", s, v>>
  /\ answer' = NoAnswer
  /\ UNCHANGED contents

\* A write may take effect whether or not it is then reported as an error.
Store ==
  /\ asked # <<>> /\ asked[1] = "write"
  /\ contents' = [contents EXCEPT ![asked[2]] = asked[3]]
  /\ UNCHANGED <<asked, answer>>

AnswerOk ==
  /\ asked # <<>>
  /\ asked[1] = "write" => contents[asked[2]] = asked[3]
  /\ answer' = <<"ok", IF asked[1] = "read" THEN contents[asked[2]] ELSE Nothing>>
  /\ asked' = <<>>
  /\ UNCHANGED contents

AnswerError ==
  /\ asked # <<>>
  /\ answer' = <<"error", Nothing>>
  /\ asked' = <<>>
  /\ UNCHANGED contents

Next == AskRead \/ AskWrite \/ Store \/ AnswerOk \/ AnswerError

Spec == Init /\ [][Next]_vars
=============================================================================
