------------------------------ MODULE FatFile ------------------------------
(***************************************************************************)
(* Files of FatFs (ff.c, configured _FS_TINY): all open files, the FAT and *)
(* the directory share one window, fs->win, which is written back when     *)
(* another sector is wanted.                                               *)
(*                                                                         *)
(* The task that calls holds SDMutex: there is one call at a time.  It     *)
(* goes from one use of the card to the next; a step of it is a            *)
(* move_window, or a disk_read or disk_write past the window, with what    *)
(* follows until the next one.  A use of the card may go wrong:            *)
(*   "lost"    the sector is not transferred and the error is answered;    *)
(*   "stored"  the sector is written, and an error answered all the same;  *)
(*   "torn"    the window is filled half-way when a read fails;            *)
(*   "power"   the supply fails during a call: only the card's contents    *)
(*             stay.                                                       *)
(*                                                                         *)
(* A sector is a function to numbers.  FAT16, one copy of the FAT; the     *)
(* entries of the root directory exist and fill SS/2 entries per sector.   *)
(***************************************************************************)
EXTENDS Integers, Sequences, Functions

CONSTANTS
  SS,          \* units in a sector, 512 bytes; an entry of the FAT and half an entry
               \* of the directory are a unit
  CSize,       \* sectors in a cluster
  NumClusters,
  NumFiles,
  Requests,    \* how much a call reads or writes
  MaxSize,     \* BOUND on the size of a file
  UpdateSize,  \* BOUND on how much of a file is written over; the settings and the
               \* picture counter are less than a sector
  MaxOpens,    \* BOUND on the calls of f_open for writing
  Kinds,       \* of faults
  MaxFaults    \* BOUND on their number

ASSUME FatAssumption ==
  /\ SS \in Nat /\ SS % 2 = 0 /\ SS > 0
  /\ CSize \in Nat \ {0} /\ NumClusters \in Nat \ {0} /\ NumFiles \in Nat \ {0}
  /\ Requests \subseteq Nat \ {0} /\ MaxSize \in Nat /\ UpdateSize \in 0..MaxSize
  /\ Kinds \subseteq {"lost", "stored", "torn", "power"}
  /\ MaxFaults \in Nat /\ MaxOpens \in Nat

Files    == 0 .. NumFiles - 1
Units    == 0 .. SS - 1
n_fatent == NumClusters + 2
Clusters == 2 .. n_fatent - 1
LastLink == n_fatent       \* 0x0FFFFFFF, "last link"
DiskErr  == n_fatent + 1   \* 0xFFFFFFFF

FatSector(c) == 1 + c \div SS
DirSector(f) == FatSector(n_fatent - 1) + 1 + (2 * f) \div SS
SizeAt(f)    == (2 * f) % SS
ClustAt(f)   == SizeAt(f) + 1
DataBase     == DirSector(NumFiles - 1) + 1
Sectors      == 1 .. DataBase + NumClusters * CSize - 1

clust2sect(c) == (c - 2) * CSize + DataBase

VARIABLES
  volume,  \* disk: the sectors; win, winsect, wflag, last_clust of the FATFS
  handle,  \* the FIL of each file
  call,    \* at: the step that comes next; op: what was called, on the file f; n: how
           \* much is left to transfer; c, scl: the cluster, or sector, it has come to
           \* and the one it began with
  held,    \* what the calls have put in each file
  gen,     \* how often a file was opened for writing: old contents are told from new
  sure,    \* no call has failed on the file since it was created
  misread, \* f_read has delivered something else than what was written
  faults

vars == <<volume, handle, call, held, gen, sure, misread, faults>>

Blank == [u \in Units |-> 0]

Closed == [mode |-> "closed", written |-> FALSE, error |-> FALSE,
           org |-> 0, size |-> 0, ptr |-> 0, cur |-> 0, dsect |-> 0]

Idle == [at |-> "idle", op |-> "none", f |-> 0, n |-> 0, c |-> 0, scl |-> 0]

Mounted(disk) == [disk |-> disk, win |-> Blank, winsect |-> 0, wflag |-> FALSE, last |-> 0]

Init ==
  /\ volume = Mounted([s \in Sectors |-> Blank])
  /\ handle = [f \in Files |-> Closed]
  /\ call = Idle
  /\ held = [f \in Files |-> <<>>]
  /\ gen = 0
  /\ sure = [f \in Files |-> TRUE]
  /\ misread = FALSE
  /\ faults = 0

fp == handle[call.f]

-----------------------------------------------------------------------------
(***************************************************************************)
(* The window.                                                             *)
(***************************************************************************)
\* move_window, when the card answers: the window is written back if it is dirty,
\* and then filled.
Back(v) == IF v.wflag THEN [v EXCEPT !.disk[v.winsect] = v.win, !.wflag = FALSE] ELSE v

Filled(v, sect) ==
  IF sect = 0 THEN v ELSE [v EXCEPT !.win = v.disk[sect], !.winsect = sect]

Moved(v, sect) == IF v.winsect = sect THEN v ELSE Filled(Back(v), sect)

\* What a disk_write, or a disk_read into the window, leaves that goes wrong.
BadWrite(v, sect, data) ==
  {IF k = "stored" THEN [v EXCEPT !.disk[sect] = data] ELSE v : k \in Kinds \cap {"lost", "stored"}}

BadRead(v, sect) ==
  {IF k = "torn"
   THEN [v EXCEPT !.win = [u \in Units |-> IF u < SS \div 2 THEN v.disk[sect][u] ELSE @[u]]]
   ELSE v : k \in Kinds \cap {"lost", "torn"}}

\* move_window, when one of its disk calls fails.
Unmoved(v, sect) ==
  (IF v.wflag /\ v.winsect # sect THEN BadWrite(v, v.winsect, v.win) ELSE {}) \cup
  (IF sect \notin {0, v.winsect} THEN BadRead(Back(v), sect) ELSE {})

\* Store into the window, which is then dirty.
Poke(v, u, n) == [v EXCEPT !.win[u] = n, !.wflag = TRUE]

Right == UNCHANGED faults
Wrong == faults < MaxFaults /\ faults' = faults + 1

-----------------------------------------------------------------------------
(***************************************************************************)
(* The steps of a call, and its ends.                                      *)
(***************************************************************************)
Writing(f) == handle[f].mode \in {"create", "update"}

Goto(at)       == call' = [call EXCEPT !.at = at]
GotoWith(at, c) == call' = [call EXCEPT !.at = at, !.c = c]

\* FR_OK, or the end of f_open, with the FIL as it is then.
Done(file) == call' = Idle /\ handle' = [handle EXCEPT ![call.f] = file]

\* An error is answered: of the contents of a file that is being written nothing
\* is sure any more.
Failed(file) ==
  /\ Done(file)
  /\ sure' = [sure EXCEPT ![call.f] = @ /\ ~Writing(call.f)]

Abort == Failed([fp EXCEPT !.error = TRUE])

-----------------------------------------------------------------------------
(***************************************************************************)
(* f_open.  The application writes one file at a time, while it may read   *)
(* others.                                                                 *)
(***************************************************************************)
Open(f, mode) ==
  /\ call.at = "idle"
  /\ handle[f].mode = "closed"
  /\ mode = "create" \/ sure[f]
  /\ \/ mode = "read" /\ UNCHANGED gen
     \/ /\ mode # "read" /\ gen < MaxOpens /\ ~\E g \in Files : Writing(g)
        /\ gen' = gen + 1
  /\ call' = [Idle EXCEPT !.at = "follow", !.op = mode, !.f = f, !.c = DirSector(0)]
  /\ sure' = [sure EXCEPT ![f] = @ /\ mode # "create"]
  /\ held' = IF mode = "create" THEN [held EXCEPT ![f] = <<>>] ELSE held
  /\ UNCHANGED <<volume, handle, misread, faults>>

\* follow_path: the directory is read from its first sector on.
FollowPath ==
  /\ call.at = "follow"
  /\ \/ /\ volume' = Moved(volume, call.c) /\ Right
        /\ \/ call.c < DirSector(call.f) /\ GotoWith("follow", call.c + 1)
           \/ call.c = DirSector(call.f) /\ Goto(IF call.op = "create" THEN "empty" ELSE "opened")
        /\ UNCHANGED <<handle, sure>>
     \/ volume' \in Unmoved(volume, call.c) /\ Wrong /\ Failed(Closed)
  /\ UNCHANGED <<held, gen, misread>>

\* FA_CREATE_ALWAYS truncates the file, whose clusters are freed.
Emptied(v, f) == Poke(Poke(v, SizeAt(f), 0), ClustAt(f), 0)

Truncate ==
  /\ call.at = "empty"
  /\ volume' = Emptied(volume, call.f)
  /\ LET cl == volume.win[ClustAt(call.f)]
     IN  \/ cl = 0 /\ Goto("opened") /\ UNCHANGED <<handle, sure>>
         \/ /\ cl \in Clusters /\ call' = [call EXCEPT !.at = "unlink", !.c = cl, !.scl = cl]
            /\ UNCHANGED <<handle, sure>>
         \/ cl \notin Clusters \cup {0} /\ Failed(Closed)
  /\ UNCHANGED <<held, gen, misread, faults>>

\* remove_chain: an entry is read, and set to 0 while the window shows it.
RemoveChain ==
  /\ call.at = "unlink"
  /\ \/ LET v   == Moved(volume, FatSector(call.c))
            nxt == v.win[call.c % SS]
        IN  /\ volume' = IF nxt < 2 THEN v ELSE Poke(v, call.c % SS, 0)
            /\ IF nxt = 1 THEN Failed(Closed)
               ELSE /\ GotoWith(IF nxt \in Clusters THEN "unlink" ELSE "reuse", nxt)
                    /\ UNCHANGED <<handle, sure>>
            /\ Right
     \/ volume' \in Unmoved(volume, FatSector(call.c)) /\ Wrong /\ Failed(Closed)
  /\ UNCHANGED <<held, gen, misread>>

\* The hole is used again, and the window returns to the directory.
Reuse ==
  /\ call.at = "reuse"
  /\ LET v == [volume EXCEPT !.last = call.scl - 1]
     IN  \/ /\ volume' = Moved(v, DirSector(call.f)) /\ Right
            /\ Goto("opened") /\ UNCHANGED <<handle, sure>>
         \/ volume' \in Unmoved(v, DirSector(call.f)) /\ Wrong /\ Failed(Closed)
  /\ UNCHANGED <<held, gen, misread>>

Opened ==
  /\ call.at = "opened"
  /\ Done([Closed EXCEPT !.mode = call.op, !.written = (call.op = "create"),
             !.org = volume.win[ClustAt(call.f)], !.size = volume.win[SizeAt(call.f)]])
  /\ sure' = [sure EXCEPT ![call.f] = TRUE]
  /\ UNCHANGED <<volume, held, gen, misread, faults>>

-----------------------------------------------------------------------------
(***************************************************************************)
(* What f_read and f_write have in common: the iterations, and how one     *)
(* comes to its cluster.                                                   *)
(***************************************************************************)
\* The sector where the file pointer is, and that it is the first of a cluster.
Sect      == clust2sect(fp.cur) + ((fp.ptr \div SS) % CSize)
OnCluster == fp.ptr % (SS * CSize) = 0

\* Whole sectors that are transferred at once, up to the end of the cluster.
Whole == LET left == CSize - ((fp.ptr \div SS) % CSize)
         IN  IF call.n \div SS > left THEN left ELSE call.n \div SS

Partial == IF call.n < SS - (fp.ptr % SS) THEN call.n ELSE SS - (fp.ptr % SS)

\* disk_read and disk_write transfer one sector, whatever `count' is.
Transferred(cc) == 1

\* A call that finds the error flag set returns at once and changes nothing.
Read(f) ==
  /\ call.at = "idle"
  /\ handle[f].mode \in {"read", "update"} /\ sure[f] /\ ~handle[f].error
  /\ \E n \in Requests :
       LET remain == handle[f].size - handle[f].ptr
           btr    == IF n > remain THEN remain ELSE n
       IN  btr > 0 /\ call' = [Idle EXCEPT !.at = "loop", !.op = "get", !.f = f, !.n = btr]
  /\ UNCHANGED <<volume, handle, held, gen, sure, misread, faults>>

Write(f) ==
  /\ call.at = "idle"
  /\ Writing(f) /\ sure[f] /\ ~handle[f].error
  /\ \E n \in Requests :
       /\ handle[f].ptr + n <= IF handle[f].mode = "update" THEN UpdateSize ELSE MaxSize
       /\ call' = [Idle EXCEPT !.at = "loop", !.op = "put", !.f = f, !.n = n]
  /\ UNCHANGED <<volume, handle, held, gen, sure, misread, faults>>

\* Where create_chain begins to look for the first cluster of a file.
Suggested == IF volume.last \in 1..n_fatent - 1 THEN volume.last ELSE 1

Iterate ==
  /\ call.at = "loop" /\ call.n > 0
  /\ \/ fp.ptr % SS # 0 /\ Goto("part")
     \/ fp.ptr % SS = 0 /\ ~OnCluster /\ Goto("sector")
     \/ OnCluster /\ fp.ptr # 0 /\ Goto("next")
     \/ fp.ptr = 0 /\ (fp.org # 0 \/ call.op = "get") /\ GotoWith("join", fp.org)
     \/ /\ fp.ptr = 0 /\ fp.org = 0 /\ call.op = "put"
        /\ call' = [call EXCEPT !.at = "find", !.c = Suggested, !.scl = Suggested]
  /\ UNCHANGED <<volume, handle, held, gen, sure, misread, faults>>

\* get_fat of the current cluster: f_read goes to the cluster it answers, f_write to
\* that of create_chain, which looks for a free one if the chain ends, or cannot be read.
Answered(cs) ==
  \/ call.op = "get" /\ GotoWith("join", cs)
  \/ call.op = "put" /\ cs < n_fatent /\ GotoWith("join", IF cs < 2 THEN 1 ELSE cs)
  \/ /\ call.op = "put" /\ cs >= n_fatent
     /\ call' = [call EXCEPT !.at = "find", !.c = fp.cur, !.scl = fp.cur]

Advance ==
  /\ call.at = "next"
  /\ LET sect == FatSector(fp.cur)
     IN  \/ volume' = Moved(volume, sect) /\ Right /\ Answered(volume'.win[fp.cur % SS])
         \/ volume' \in Unmoved(volume, sect) /\ Wrong /\ Answered(DiskErr)
  /\ UNCHANGED <<handle, held, gen, sure, misread>>

\* create_chain: the search for a free cluster, from call.c on and up to scl.  It is
\* marked as the end of a chain while the window shows its entry, and then linked.
NextOf(c) == IF c + 1 < n_fatent THEN c + 1 ELSE 2

\* Mutant: the new cluster is not marked.
Marked_Not(v, ncl) == v

Marked(v, ncl) == Poke(v, ncl % SS, LastLink)

\* Mutant: the old end of the chain is never linked to the new cluster.
Stretches_Never == FALSE

\* The chain that is stretched, if there is one, is linked to the new cluster.
Stretches == fp.ptr # 0

\* From the last cluster to one of those before scl, and there are none.
NoneLeft == call.c + 1 >= n_fatent /\ 2 > call.scl

FindFree ==
  /\ call.at = "find"
  /\ LET ncl == NextOf(call.c)
         v   == Moved(volume, FatSector(ncl))
         cs  == v.win[ncl % SS]
     IN  \/ NoneLeft /\ GotoWith("join", 0) /\ UNCHANGED volume /\ Right
         \/ /\ ~NoneLeft /\ cs = 0 /\ Right
            /\ volume' = IF Stretches THEN Marked(v, ncl) ELSE [Marked(v, ncl) EXCEPT !.last = ncl]
            /\ GotoWith(IF Stretches THEN "link" ELSE "join", ncl)
         \/ /\ ~NoneLeft /\ cs # 0 /\ Right
            /\ volume' = v
            /\ IF cs = 1 \/ ncl = call.scl THEN GotoWith("join", IF cs = 1 THEN 1 ELSE 0)
               ELSE GotoWith("find", ncl)
         \/ /\ ~NoneLeft /\ volume' \in Unmoved(volume, FatSector(ncl)) /\ Wrong
            /\ GotoWith("join", DiskErr)
  /\ UNCHANGED <<handle, held, gen, sure, misread>>

\* put_fat sets wflag also when the window could not be moved.
Link ==
  /\ call.at = "link"
  /\ \/ /\ volume' = [Poke(Moved(volume, FatSector(fp.cur)), fp.cur % SS, call.c) EXCEPT !.last = call.c]
        /\ Goto("join") /\ Right
     \/ /\ \E w \in Unmoved(volume, FatSector(fp.cur)) : volume' = [w EXCEPT !.wflag = TRUE]
        /\ GotoWith("join", DiskErr) /\ Wrong
  /\ UNCHANGED <<handle, held, gen, sure, misread>>

\* Mutant: the file moves to its next cluster before the answer is looked at.
Follows_Any(file, c) == [file EXCEPT !.cur = c]

Follows(file, c) == [file EXCEPT !.cur = IF c \in {0, 1, DiskErr} THEN @ ELSE c]

\* A cluster is found, or an answer that is none.  The first cluster of a file is
\* stored before it is looked at; clust2sect answers 0 for a number that is no
\* cluster's.  The disk may be full, which is not an error.
Join ==
  /\ call.at = "join"
  /\ LET first == IF call.op = "put" /\ fp.ptr = 0 THEN [fp EXCEPT !.org = call.c] ELSE fp
         file  == Follows(first, call.c)
     IN  \/ /\ call.c \in Clusters /\ Goto("sector")
            /\ handle' = [handle EXCEPT ![call.f] = file] /\ UNCHANGED sure
         \/ /\ call.c = 0 /\ call.op = "put" /\ call' = [call EXCEPT !.at = "loop", !.n = 0]
            /\ UNCHANGED <<handle, sure>>
         \/ /\ call.c \notin Clusters /\ ~(call.c = 0 /\ call.op = "put")
            /\ Failed([file EXCEPT !.error = TRUE])
  /\ UNCHANGED <<volume, held, gen, misread, faults>>

\* m units are transferred, and the next iteration follows.
Transfer(file, m) ==
  /\ handle' = [handle EXCEPT ![call.f] = [file EXCEPT !.ptr = @ + m]]
  /\ call' = [call EXCEPT !.at = "loop", !.n = @ - m]

-----------------------------------------------------------------------------
(***************************************************************************)
(* f_read.                                                                 *)
(***************************************************************************)
\* Mutant: a whole sector is read from the disk even if it is dirty in the window.
Newest_OnDisk(sect) == volume.disk[sect]

Newest(sect) ==
  IF volume.wflag /\ volume.winsect = sect THEN volume.win ELSE volume.disk[sect]

\* What f_read delivers from the file pointer on is compared with what was written.
Delivers(data) ==
  misread' = (misread \/ data # SubSeq(held[call.f], fp.ptr + 1, fp.ptr + Len(data)))

GetWhole ==
  /\ call.at = "sector" /\ call.op = "get" /\ call.n >= SS
  /\ LET Unit(i) == IF i \div SS < Transferred(Whole) THEN Newest(Sect + (i \div SS))[i % SS] ELSE 0
     IN  \/ /\ Delivers([i \in 1..SS * Whole |-> Unit(i - 1)]) /\ Transfer(fp, SS * Whole)
            /\ Right /\ UNCHANGED sure
         \/ Kinds \cap {"lost", "torn"} # {} /\ Wrong /\ Abort /\ UNCHANGED misread
  /\ UNCHANGED <<volume, held, gen>>

GetSector ==
  /\ call.at = "sector" /\ call.op = "get" /\ call.n < SS
  /\ handle' = [handle EXCEPT ![call.f].dsect = Sect]
  /\ Goto("part")
  /\ UNCHANGED <<volume, held, gen, sure, misread, faults>>

GetPart ==
  /\ call.at = "part" /\ call.op = "get"
  /\ \/ /\ volume' = Moved(volume, fp.dsect) /\ Right
        /\ Delivers([i \in 1..Partial |-> volume'.win[(fp.ptr + i - 1) % SS]])
        /\ Transfer(fp, Partial) /\ UNCHANGED sure
     \/ volume' \in Unmoved(volume, fp.dsect) /\ Wrong /\ Abort /\ UNCHANGED misread
  /\ UNCHANGED <<held, gen>>

GetDone ==
  /\ call.at = "loop" /\ call.n = 0 /\ call.op = "get"
  /\ Done(fp)
  /\ UNCHANGED <<volume, held, gen, sure, misread, faults>>

-----------------------------------------------------------------------------
(***************************************************************************)
(* f_write.                                                                *)
(***************************************************************************)
\* Unit p of a file, as a call writes it.
Datum(p) == 100 * (call.f + 1) + 10 * gen + p

\* The calls have written m units more; 0 is for units that none has written.
Holds(m) ==
  LET all == IF fp.ptr + m > Len(held[call.f]) THEN fp.ptr + m ELSE Len(held[call.f])
  IN  held' = [held EXCEPT ![call.f] = [p \in 1..all |->
                 IF p \in fp.ptr + 1 .. fp.ptr + m THEN Datum(p - 1)
                 ELSE IF p \in DOMAIN @ THEN @[p] ELSE 0]]

\* The part that is in the window is written back before whole sectors are.
PutSector ==
  /\ call.at = "sector" /\ call.op = "put"
  /\ \/ /\ volume' = IF volume.winsect = fp.dsect THEN Moved(volume, 0) ELSE volume
        /\ \/ call.n >= SS /\ Goto("whole") /\ UNCHANGED handle
           \/ call.n < SS /\ fp.ptr >= fp.size /\ Goto("edge") /\ UNCHANGED handle
           \/ /\ call.n < SS /\ fp.ptr < fp.size /\ Goto("part")
              /\ handle' = [handle EXCEPT ![call.f].dsect = Sect]
        /\ Right /\ UNCHANGED sure
     \/ /\ volume.winsect = fp.dsect /\ volume' \in Unmoved(volume, 0) /\ Wrong /\ Abort
  /\ UNCHANGED <<held, gen, misread>>

\* Whole sectors go past the window, which is filled anew if it shows one of them.
Past(v) ==
  LET k == v.winsect - Sect
  IN  IF k \in 0..Whole - 1
      THEN [v EXCEPT !.win = [u \in Units |-> Datum(fp.ptr + k * SS + u)], !.wflag = FALSE]
      ELSE v

PutWhole ==
  /\ call.at = "whole"
  /\ LET data == [u \in Units |-> Datum(fp.ptr + u)]
     IN  \/ /\ volume' = Past([volume EXCEPT !.disk[Sect] = data]) /\ Right
            /\ Holds(SS * Whole) /\ Transfer(fp, SS * Whole) /\ UNCHANGED sure
         \/ volume' \in BadWrite(volume, Sect, data) /\ Wrong /\ Abort /\ UNCHANGED held
  /\ UNCHANGED <<gen, misread>>

\* A part of a sector goes into the window.
Fit(v) ==
  LET from == fp.ptr % SS
  IN  [v EXCEPT !.win = [u \in Units |-> IF u - from \in 0..Partial - 1
                                         THEN Datum(fp.ptr - from + u) ELSE @[u]],
                !.wflag = TRUE]

\* At the growing edge the window is taken over and not read.
PutEdge ==
  /\ call.at = "edge"
  /\ \/ /\ volume' = Fit([Moved(volume, 0) EXCEPT !.winsect = Sect]) /\ Right
        /\ Holds(Partial) /\ Transfer([fp EXCEPT !.dsect = Sect], Partial) /\ UNCHANGED sure
     \/ volume' \in Unmoved(volume, 0) /\ Wrong /\ Abort /\ UNCHANGED held
  /\ UNCHANGED <<gen, misread>>

PutPart ==
  /\ call.at = "part" /\ call.op = "put"
  /\ \/ /\ volume' = Fit(Moved(volume, fp.dsect)) /\ Right
        /\ Holds(Partial) /\ Transfer(fp, Partial) /\ UNCHANGED sure
     \/ volume' \in Unmoved(volume, fp.dsect) /\ Wrong /\ Abort /\ UNCHANGED held
  /\ UNCHANGED <<gen, misread>>

PutDone ==
  /\ call.at = "loop" /\ call.n = 0 /\ call.op = "put"
  /\ Done([fp EXCEPT !.size = IF fp.ptr > @ THEN fp.ptr ELSE @, !.written = TRUE])
  /\ UNCHANGED <<volume, held, gen, sure, misread, faults>>

\* f_lseek to the start, before the settings are written.
Rewind(f) ==
  /\ call.at = "idle"
  /\ handle[f].mode = "update" /\ handle[f].ptr > 0 /\ ~handle[f].error
  /\ handle' = [handle EXCEPT ![f].ptr = 0]
  /\ UNCHANGED <<volume, call, held, gen, sure, misread, faults>>

-----------------------------------------------------------------------------
(***************************************************************************)
(* f_close, with f_sync, which does not look at the error flag.  After an  *)
(* error the application closes the file as well.                          *)
(***************************************************************************)
Close(f) ==
  /\ call.at = "idle"
  /\ handle[f].mode # "closed"
  /\ \/ handle[f].written /\ call' = [Idle EXCEPT !.at = "record", !.op = "close", !.f = f] /\ UNCHANGED handle
     \/ ~handle[f].written /\ handle' = [handle EXCEPT ![f] = Closed] /\ UNCHANGED call
  /\ UNCHANGED <<volume, held, gen, sure, misread, faults>>

Recorded(v) == Poke(Poke(v, SizeAt(call.f), fp.size), ClustAt(call.f), fp.org)

Record ==
  /\ call.at = "record"
  /\ \/ /\ volume' = Recorded(Moved(volume, DirSector(call.f))) /\ Right
        /\ handle' = [handle EXCEPT ![call.f].written = FALSE]
        /\ Goto("sync") /\ UNCHANGED sure
     \/ volume' \in Unmoved(volume, DirSector(call.f)) /\ Wrong /\ Failed(fp)
  /\ UNCHANGED <<held, gen, misread>>

\* Mutant: the directory entry is left in the window.
Synced_Never(v) == v

Synced(v) == Moved(v, 0)

Sync ==
  /\ call.at = "sync"
  /\ \/ volume' = Synced(volume) /\ Right /\ Done(Closed) /\ UNCHANGED sure
     \/ volume' \in Unmoved(volume, 0) /\ Wrong /\ Failed(fp)
  /\ UNCHANGED <<held, gen, misread>>

-----------------------------------------------------------------------------
\* f_mount, with which every function of the application begins, whatever the one
\* before it has left open; during a call, the supply failed.
Remount ==
  /\ call.at = "idle" \/ "power" \in Kinds
  /\ volume' = Mounted(volume.disk)
  /\ handle' = [f \in Files |-> Closed]
  /\ call' = Idle
  /\ sure' = [f \in Files |-> sure[f] /\ ~Writing(f)]
  /\ IF call.at # "idle" \/ \E f \in Files : Writing(f) THEN Wrong ELSE Right
  /\ UNCHANGED <<held, gen, misread>>

Begins ==
  \E f \in Files :
    \/ \E mode \in {"create", "read", "update"} : Open(f, mode)
    \/ Read(f) \/ Write(f) \/ Rewind(f) \/ Close(f)

Next ==
  \/ Begins \/ Remount
  \/ FollowPath \/ Truncate \/ RemoveChain \/ Reuse \/ Opened
  \/ Iterate \/ Advance \/ FindFree \/ Link \/ Join
  \/ GetWhole \/ GetSector \/ GetPart \/ GetDone
  \/ PutSector \/ PutWhole \/ PutEdge \/ PutPart \/ PutDone
  \/ Record \/ Sync

Spec == Init /\ [][Next]_vars

-----------------------------------------------------------------------------
(***************************************************************************)
(* Properties.                                                             *)
(***************************************************************************)
Entry(disk, c)   == disk[FatSector(c)][c % SS]
SizeOf(disk, f)  == disk[DirSector(f)][SizeAt(f)]
StartOf(disk, f) == disk[DirSector(f)][ClustAt(f)]

\* A chain passes through no cluster twice, and its last entry says that it ends.
Chains == UNION {Injection(1..n, Clusters) : n \in 1..NumClusters}

IsChain(disk, c, ch) ==
  /\ ch[1] = c
  /\ \A i \in DOMAIN ch : Entry(disk, ch[i]) = IF i < Len(ch) THEN ch[i + 1] ELSE LastLink

\* The chain of a file: a set of one, or of none if there is no complete one.
ChainOf(disk, f) == {ch \in Chains : IsChain(disk, StartOf(disk, f), ch)}

Disjoint(ch, d) == Range(ch) \cap Range(d) = {}

\* The units of the file are those of data.
Contains(disk, f, data) ==
  /\ SizeOf(disk, f) = Len(data)
  /\ data # <<>> => \E ch \in ChainOf(disk, f) :
       /\ Len(ch) * SS * CSize >= Len(data)
       /\ \A p \in DOMAIN data :
            LET q == p - 1
            IN  disk[clust2sect(ch[q \div (SS * CSize) + 1]) + ((q \div SS) % CSize)][q % SS]
                  = data[p]

\* The types.
Volumes == [disk : [Sectors -> [Units -> Nat]], win : [Units -> Nat],
            winsect : Sectors \cup {0}, wflag : BOOLEAN, last : 0..n_fatent]

FILs == [mode : {"closed", "create", "read", "update"}, written : BOOLEAN, error : BOOLEAN,
         org : {0, 1, DiskErr} \cup Clusters, size : 0..MaxSize, ptr : 0..MaxSize,
         cur : {0, LastLink} \cup Clusters, dsect : Sectors \cup {0}]

Calls == [at : {"idle", "follow", "empty", "unlink", "reuse", "opened", "loop", "next", "find",
                "link", "join", "sector", "whole", "edge", "part", "record", "sync"},
          op : {"none", "create", "read", "update", "get", "put", "close"},
          f : Files, n : 0..MaxSize, c : Nat, scl : Nat]

\* A file comes past the end of its chain only to stop there with an error.
TypeOK ==
  /\ volume \in Volumes /\ handle \in [Files -> FILs] /\ call \in Calls
  /\ held \in [Files -> Seq(Nat)] /\ sure \in [Files -> BOOLEAN] /\ misread \in BOOLEAN
  /\ gen \in 0..MaxOpens /\ faults \in 0..MaxFaults
  /\ \A f \in Files : handle[f].cur = LastLink => handle[f].error

\* At every moment, so also when the supply fails, what is on the card is a file
\* system: the chain of a file that is not empty is allocated and long enough, ends,
\* and shares no cluster with another (ff.c:649-815, 2340-2376).
Sound ==
  LET disk == volume.disk
  IN  \A f \in Files : SizeOf(disk, f) > 0 =>
        \E ch \in ChainOf(disk, f) :
          /\ Len(ch) * SS * CSize >= SizeOf(disk, f)
          /\ \A g \in Files \ {f} :
               SizeOf(disk, g) > 0 => \E d \in ChainOf(disk, g) : Disjoint(ch, d)

\* What f_close has answered FR_OK to is on the card, and stays there whatever
\* happens to other files, until the file is opened for writing (ff.c:2387).
Durable ==
  \A f \in Files : sure[f] /\ ~Writing(f) => Contains(volume.disk, f, held[f])

\* A read returns what was written, though the window is shared with the FAT and
\* with a file that is being written at the same time (ff.c:2133-2217).
ReadsTrue == ~misread

\* Without faults no cluster is lost: the ones in use are those of files.
Allocated(disk) == {c \in Clusters : Entry(disk, c) # 0}

NoLeak ==
  (\A f \in Files : sure[f] /\ handle[f].mode = "closed") /\ faults = 0 =>
    \A c \in Allocated(volume.disk) :
      \E f \in Files : \E ch \in ChainOf(volume.disk, f) : c \in Range(ch)

(***************************************************************************)
(* What comments of the code say and the code does not do.  README.md says *)
(* which of these a run refutes, and with which constants TLC refutes the  *)
(* others.                                                                 *)
(***************************************************************************)

\* ff.h:299 winsect is the "Current sector appearing in the win[]".
WindowTrue ==
  volume.winsect # 0 /\ ~volume.wflag => volume.win = volume.disk[volume.winsect]

\* ff.h:314 org_clust, the file's start cluster, is "0 when fsize==0".
NoneWhenEmpty ==
  \A f \in Files : SizeOf(volume.disk, f) = 0 => StartOf(volume.disk, f) = 0

\* diskio.c:97 "The disk function should process the multiple sector transfer
\* properly": a file holds what was written.
WholeRequest == Durable

\* ff.c:766 create_chain returns "0xFFFFFFFF:Disk error" when the FAT cannot be read:
\* an update that meets it is not answered with FR_OK and the end of the file lost.
DiskErrorSeen == Durable
=============================================================================
