-------------------------- MODULE FatVolumeProofs --------------------------
(***************************************************************************)
(* The types of FatFile, that what is on the card is a file system at      *)
(* every moment, and that no cluster of it is lost.                        *)
(*                                                                         *)
(* First the volume: where the entries of the FAT and the directory are,   *)
(* what move_window does to what the calls see of the card, and what the   *)
(* stores of create_chain, remove_chain and f_sync do to the chains.       *)
(***************************************************************************)
EXTENDS FatFile, TLAPS, FunctionTheorems, FiniteSetTheorems, SequenceTheorems

USE FatAssumption

\* The sectors of the FAT and of the directory, and those of the clusters.
Meta == 1 .. DataBase - 1
Data == Sectors \ Meta

\* Quotient and remainder.
LEMMA DivMod ==
  ASSUME NEW a \in Nat, NEW b \in Nat \ {0}
  PROVE  /\ a \div b \in Nat /\ a % b \in 0..b - 1
         /\ a = b * (a \div b) + (a % b)
OBVIOUS

\* They are determined by these bounds.
LEMMA DivModUnique ==
  ASSUME NEW a \in Nat, NEW b \in Nat \ {0}, NEW q \in Nat, NEW r \in 0..b - 1,
         a = b * q + r
  PROVE  a \div b = q /\ a % b = r
<1>1. a = b * (a \div b) + (a % b) /\ a \div b \in Nat /\ a % b \in 0..b - 1
  BY DivMod
<1> DEFINE p == a \div b
           s == a % b
<1> HIDE DEF p, s
<1>2. a = b * p + s /\ p \in Nat /\ s \in 0..b - 1
  BY <1>1 DEF p, s
<1>3. CASE p < q
  <2>1. q >= p + 1
    BY <1>2, <1>3
  <2>2. b * q >= b * (p + 1)
    BY <1>2, <2>1
  <2>3. b * (p + 1) = b * p + b
    BY <1>2
  <2>4. QED
    BY <1>2, <2>2, <2>3
<1>4. CASE p > q
  <2>1. p >= q + 1
    BY <1>2, <1>4
  <2>2. b * p >= b * (q + 1)
    BY <1>2, <2>1
  <2>3. b * (q + 1) = b * q + b
    BY <1>2
  <2>4. QED
    BY <1>2, <2>2, <2>3
<1>5. CASE p = q
  BY <1>2, <1>5 DEF p, s
<1>6. QED
  BY <1>2, <1>3, <1>4, <1>5

LEMMA DivMonotone ==
  ASSUME NEW a \in Nat, NEW c \in Nat, NEW b \in Nat \ {0}, a <= c
  PROVE  a \div b <= c \div b
<1>1. /\ a = b * (a \div b) + (a % b) /\ a \div b \in Nat /\ a % b \in 0..b - 1
      /\ c = b * (c \div b) + (c % b) /\ c \div b \in Nat /\ c % b \in 0..b - 1
  BY DivMod
<1> DEFINE p == a \div b
           q == c \div b
<1>2. a = b * p + (a % b) /\ p \in Nat /\ a % b \in 0..b - 1 /\ c = b * q + (c % b) /\ q \in Nat /\ c % b \in 0..b - 1
  BY <1>1
<1> HIDE DEF p, q
<1>3. CASE q < p
  <2>1. b * p >= b * (q + 1)
    BY <1>2, <1>3
  <2>2. b * (q + 1) = b * q + b
    BY <1>2
  <2>3. QED
    BY <1>2, <2>1, <2>2
<1>4. QED
  BY <1>2, <1>3 DEF p, q

-----------------------------------------------------------------------------
\* The FAT comes before the directory, and that before the clusters.
LEMMA Layout ==
  /\ n_fatent \in Nat /\ n_fatent >= 3
  /\ FatSector(n_fatent - 1) \in Nat \ {0}
  /\ DirSector(0) \in Nat /\ DirSector(0) > FatSector(n_fatent - 1)
  /\ DataBase \in Nat /\ DataBase > DirSector(0)
  /\ NumClusters * CSize \in Nat
  /\ Meta \subseteq Sectors
<1>1. n_fatent \in Nat /\ n_fatent >= 3
  BY DEF n_fatent
<1>2. FatSector(n_fatent - 1) \in Nat \ {0}
  BY <1>1, DivMod DEF FatSector
<1>3. (2 * 0) \div SS = 0 /\ DirSector(0) = FatSector(n_fatent - 1) + 1
  BY <1>2, DivModUnique DEF DirSector
<1>4. (2 * (NumFiles - 1)) \div SS \in Nat /\ DirSector(NumFiles - 1) >= DirSector(0)
  <2> DEFINE k == 2 * (NumFiles - 1)
  <2>1. k \in Nat
    OBVIOUS
  <2>2. k \div SS \in Nat
    BY <2>1, DivMod
  <2>3. QED
    BY <1>2, <1>3, <2>2 DEF DirSector
<1>5. DataBase \in Nat /\ DataBase > DirSector(0)
  BY <1>2, <1>3, <1>4 DEF DataBase, DirSector
<1>6. NumClusters * CSize \in Nat
  OBVIOUS
<1>7. QED
  BY <1>1, <1>2, <1>3, <1>5, <1>6 DEF Meta, Sectors

LEMMA EntryAt ==
  ASSUME NEW c \in Clusters
  PROVE  /\ FatSector(c) \in Meta /\ FatSector(c) \in Sectors
         /\ FatSector(c) < DirSector(0)
         /\ c % SS \in Units
<1>1. c \in Nat /\ c <= n_fatent - 1 /\ n_fatent - 1 \in Nat
  BY Layout DEF Clusters
<1>2. c \div SS <= (n_fatent - 1) \div SS /\ c \div SS \in Nat /\ c % SS \in 0..SS - 1
  BY <1>1, DivMonotone, DivMod
<1>3. FatSector(c) <= FatSector(n_fatent - 1) /\ FatSector(c) \in Nat \ {0}
  BY <1>1, <1>2, DivMod DEF FatSector
<1>4. QED
  BY <1>2, <1>3, Layout DEF Meta, Units

LEMMA SameEntry ==
  ASSUME NEW c \in Clusters, NEW d \in Clusters,
         FatSector(c) = FatSector(d), c % SS = d % SS
  PROVE  c = d
<1>1. c \in Nat /\ d \in Nat
  BY Layout DEF Clusters
<1>2. /\ c = SS * (c \div SS) + (c % SS) /\ c \div SS \in Nat
      /\ d = SS * (d \div SS) + (d % SS) /\ d \div SS \in Nat
  <2>1. SS \in Nat \ {0}
    OBVIOUS
  <2>2. QED
    BY <1>1, <2>1, DivMod, Zenon
<1>3. c \div SS = d \div SS
  BY <1>2 DEF FatSector
<1>4. QED
  BY <1>2, <1>3

LEMMA TwiceDiv ==
  ASSUME NEW f \in Files
  PROVE  2 * f = SS * ((2 * f) \div SS) + SizeAt(f) /\ (2 * f) \div SS \in Nat /\ SizeAt(f) \in 0..SS - 1
<1> DEFINE k == 2 * f
<1>1. k \in Nat
  BY DEF Files
<1> HIDE DEF k
<1>2. k = SS * (k \div SS) + (k % SS) /\ k \div SS \in Nat /\ k % SS \in 0..SS - 1
  BY <1>1, DivMod
<1>3. QED
  BY <1>2 DEF SizeAt, k

\* An entry of the directory does not straddle sectors, and no two share a unit.
LEMMA EvenUnit ==
  ASSUME NEW f \in Files
  PROVE  \E h \in Nat : SizeAt(f) = 2 * h /\ 2 * h + 1 < SS
<1>1. 2 * f \in Nat /\ f \in Nat
  BY DEF Files
<1>2. 2 * f = SS * ((2 * f) \div SS) + SizeAt(f) /\ (2 * f) \div SS \in Nat /\ SizeAt(f) \in 0..SS - 1
  BY TwiceDiv
<1> DEFINE q == (2 * f) \div SS
           k == SS \div 2
<1>3. SS = 2 * k /\ k \in Nat
  OBVIOUS
<1>4. q \in Nat /\ 2 * f = SS * q + SizeAt(f)
  BY <1>2
<1> HIDE DEF q, k
<1>5. SS * q = 2 * (k * q)
  BY <1>3, <1>4
<1>6. k * q \in Nat
  BY <1>3, <1>4
<1>7. SizeAt(f) = 2 * (f - k * q) /\ f - k * q \in Int
  BY <1>1, <1>2, <1>4, <1>5, <1>6
<1> DEFINE h == f - k * q
<1>8. SizeAt(f) = 2 * h /\ h \in Int
  BY <1>7
<1> HIDE DEF h
<1>9. h \in Nat /\ 2 * h + 1 < SS
  BY <1>2, <1>3, <1>8
<1>10. QED
  BY <1>8, <1>9

LEMMA DirAt ==
  ASSUME NEW f \in Files
  PROVE  /\ DirSector(f) \in Meta /\ DirSector(f) \in Sectors
         /\ DirSector(f) >= DirSector(0)
         /\ SizeAt(f) \in Units /\ ClustAt(f) \in Units /\ SizeAt(f) # ClustAt(f)
<1>1. f \in Nat /\ 2 * f <= 2 * (NumFiles - 1) /\ 2 * f \in Nat /\ 2 * (NumFiles - 1) \in Nat
  BY DEF Files
<1>2. (2 * f) \div SS <= (2 * (NumFiles - 1)) \div SS /\ (2 * f) \div SS \in Nat
  <2> DEFINE k == 2 * f
             m == 2 * (NumFiles - 1)
  <2>1. k \in Nat /\ m \in Nat /\ k <= m
    BY <1>1
  <2> HIDE DEF k, m
  <2>2. k \div SS <= m \div SS /\ k \div SS \in Nat
    BY <2>1, DivMonotone, DivMod
  <2>3. QED
    BY <2>2 DEF k, m
<1>3. (2 * (NumFiles - 1)) \div SS \in Nat
  BY <1>1, DivMod
<1>4. (2 * 0) \div SS = 0
  BY DivModUnique
<1>5. DirSector(f) >= DirSector(0) /\ DirSector(f) < DataBase /\ DirSector(f) \in Nat
  BY <1>2, <1>3, <1>4, Layout DEF DirSector, DataBase
<1>6. SizeAt(f) \in Units /\ ClustAt(f) \in Units /\ SizeAt(f) # ClustAt(f)
  BY EvenUnit DEF ClustAt, Units
<1>7. QED
  BY <1>5, <1>6, Layout DEF Meta

LEMMA SameFile ==
  ASSUME NEW f \in Files, NEW g \in Files
  PROVE  /\ SizeAt(f) # ClustAt(g)
         /\ DirSector(f) = DirSector(g) /\ SizeAt(f) = SizeAt(g) => f = g
         /\ DirSector(f) = DirSector(g) /\ ClustAt(f) = ClustAt(g) => f = g
<1>1. PICK h \in Nat : SizeAt(f) = 2 * h
  BY EvenUnit
<1>2. PICK i \in Nat : SizeAt(g) = 2 * i
  BY EvenUnit
<1>3. SizeAt(f) # ClustAt(g)
  BY <1>1, <1>2 DEF ClustAt
<1>4. ASSUME DirSector(f) = DirSector(g), SizeAt(f) = SizeAt(g)
      PROVE  f = g
  <2>2. /\ 2 * f = SS * ((2 * f) \div SS) + SizeAt(f) /\ (2 * f) \div SS \in Nat
        /\ 2 * g = SS * ((2 * g) \div SS) + SizeAt(g) /\ (2 * g) \div SS \in Nat
    BY TwiceDiv
  <2>3. (2 * f) \div SS = (2 * g) \div SS
    BY <1>4, <2>2, Layout DEF DirSector
  <2>4. 2 * f = 2 * g
    BY <1>4, <2>2, <2>3
  <2>5. QED
    BY <2>4 DEF Files
<1>5. ClustAt(f) = ClustAt(g) => SizeAt(f) = SizeAt(g)
  BY <1>1, <1>2 DEF ClustAt
<1>6. QED
  BY <1>3, <1>4, <1>5

\* The FAT and the directory are in different sectors.
LEMMA FatNotDir ==
  ASSUME NEW c \in Clusters, NEW f \in Files
  PROVE  FatSector(c) # DirSector(f)
<1>1. FatSector(c) < DirSector(0) /\ FatSector(c) \in Int
  BY EntryAt DEF Meta
<1>2. DirSector(f) >= DirSector(0) /\ DirSector(f) \in Int /\ DirSector(0) \in Int
  BY DirAt, Layout DEF Meta
<1>3. QED
  BY <1>1, <1>2

LEMMA SectorOf ==
  ASSUME NEW c \in Clusters, NEW j \in 0..CSize - 1
  PROVE  clust2sect(c) + j \in Data
<1>1. c - 2 \in 0..NumClusters - 1
  BY DEF Clusters, n_fatent
<1> DEFINE k == c - 2
<1>2. k \in 0..NumClusters - 1
  BY <1>1
<1> HIDE DEF k
<1>3. k * CSize \in Nat /\ k * CSize <= (NumClusters - 1) * CSize
  BY <1>2
<1>4. (NumClusters - 1) * CSize = NumClusters * CSize - CSize
  OBVIOUS
<1>5. k * CSize + j <= NumClusters * CSize - 1 /\ k * CSize + j >= 0
  BY <1>3, <1>4, Layout
<1>6. clust2sect(c) = k * CSize + DataBase
  BY DEF clust2sect, k
<1>7. clust2sect(c) + j >= DataBase /\ clust2sect(c) + j <= DataBase + NumClusters * CSize - 1 /\ clust2sect(c) + j \in Int
  BY <1>3, <1>5, <1>6, Layout
<1>8. QED
  BY <1>7, Layout DEF Data, Sectors, Meta

\* The sectors of different clusters are different.
LEMMA SameSector ==
  ASSUME NEW c \in Clusters, NEW d \in Clusters,
         NEW i \in 0..CSize - 1, NEW j \in 0..CSize - 1,
         clust2sect(c) + i = clust2sect(d) + j
  PROVE  c = d /\ i = j
<1> DEFINE p == c - 2
           q == d - 2
<1>1. p \in Nat /\ q \in Nat
  BY Layout DEF Clusters
<1>2. p * CSize + DataBase + i = q * CSize + DataBase + j
  BY DEF clust2sect
<1> HIDE DEF p, q
<1>3. p * CSize \in Nat /\ q * CSize \in Nat
  BY <1>1
<1>4. CSize * p + i = CSize * q + j
  BY <1>1, <1>2, <1>3, Layout
<1> DEFINE n == CSize * p + i
<1>5. n \in Nat /\ n = CSize * p + i /\ n = CSize * q + j
  BY <1>1, <1>3, <1>4
<1> HIDE DEF n
<1>6. p = q /\ i = j
  BY <1>1, <1>5, DivModUnique
<1>7. QED
  BY <1>6 DEF p, q, Clusters

-----------------------------------------------------------------------------
\* The card as the calls see it: a dirty window covers its sector.
View(v) == IF v.wflag THEN [v.disk EXCEPT ![v.winsect] = v.win] ELSE v.disk

\* On the sectors S a clean window shows what is on the card.
WindowOn(v, S) ==
  /\ v.wflag => v.winsect # 0
  /\ ~v.wflag /\ v.winsect \in S => v.win = v.disk[v.winsect]

LEMMA ViewType ==
  ASSUME NEW v \in Volumes
  PROVE  View(v) \in [Sectors -> [Units -> Nat]]
BY DEF View, Volumes

LEMMA BackView ==
  ASSUME NEW v \in Volumes, NEW S, WindowOn(v, S)
  PROVE  /\ Back(v) \in Volumes /\ WindowOn(Back(v), S)
         /\ Back(v).disk = View(v) /\ ~Back(v).wflag
         /\ Back(v).win = v.win /\ Back(v).winsect = v.winsect /\ Back(v).last = v.last
<1>1. CASE v.wflag
  <2>1. Back(v) = [v EXCEPT !.disk = View(v), !.wflag = FALSE]
    BY <1>1 DEF Back, View, Volumes
  <2>2. v.winsect \in Sectors
    BY <1>1 DEF WindowOn, Volumes
  <2>3. Back(v) \in Volumes
    BY <2>1, ViewType DEF Volumes
  <2>4. v.winsect \in Sectors => View(v)[v.winsect] = v.win
    BY <1>1 DEF View, Volumes
  <2>5. QED
    BY <2>1, <2>2, <2>3, <2>4 DEF Volumes, WindowOn
<1>2. CASE ~v.wflag
  BY <1>2 DEF Back, View
<1>3. QED
  BY <1>1, <1>2

\* A window that is moved shows the sector that is wanted, and the calls see what
\* they saw before; the card has changed at most to what they see.
LEMMA MovedView ==
  ASSUME NEW v \in Volumes, NEW S, WindowOn(v, S), NEW sect \in Sectors \cup {0}
  PROVE  /\ Moved(v, sect) \in Volumes /\ WindowOn(Moved(v, sect), S)
         /\ View(Moved(v, sect)) = View(v)
         /\ Moved(v, sect).disk \in {v.disk, View(v)}
         /\ Moved(v, sect).last = v.last
         /\ sect # 0 => Moved(v, sect).winsect = sect
         /\ sect \in S /\ sect # 0 => Moved(v, sect).win = View(v)[sect]
         /\ sect = 0 /\ v.winsect # 0 => ~Moved(v, sect).wflag /\ Moved(v, sect).disk = View(v)
<1>1. CASE v.winsect = sect
  <2>1. Moved(v, sect) = v
    BY <1>1 DEF Moved
  <2>2. sect \in S /\ sect # 0 => v.win = View(v)[sect]
    BY <1>1 DEF View, WindowOn, Volumes
  <2>3. QED
    BY <1>1, <2>1, <2>2
<1>2. CASE v.winsect # sect /\ sect = 0
  <2>1. Moved(v, sect) = Back(v)
    BY <1>2 DEF Moved, Filled
  <2>2. QED
    BY <1>2, <2>1, BackView DEF View
<1>3. CASE v.winsect # sect /\ sect # 0
  <2> DEFINE b == Back(v)
             m == [b EXCEPT !.win = b.disk[sect], !.winsect = sect]
  <2>1. Moved(v, sect) = m
    BY <1>3 DEF Moved, Filled
  <2>2. b \in Volumes /\ b.disk = View(v) /\ ~b.wflag /\ b.last = v.last
    BY BackView
  <2> HIDE DEF b
  <2>3. sect \in Sectors
    BY <1>3
  <2>4. /\ m \in Volumes /\ m.disk = View(v) /\ m.wflag = b.wflag /\ m.last = v.last
        /\ m.winsect = sect /\ m.win = View(v)[sect]
    BY <2>2, <2>3 DEF Volumes
  <2>5. View(m) = View(v)
    BY <2>2, <2>4 DEF View
  <2>6. WindowOn(m, S)
    BY <2>2, <2>4 DEF WindowOn
  <2>7. QED
    BY <1>3, <2>1, <2>4, <2>5, <2>6
<1>4. QED
  BY <1>1, <1>2, <1>3

\* A window that cannot be moved: what the calls see is not touched, if reads that
\* fail leave the window alone.
LEMMA UnmovedView ==
  ASSUME "torn" \notin Kinds,
         NEW v \in Volumes, NEW S, WindowOn(v, S), NEW sect \in Sectors \cup {0},
         NEW w \in Unmoved(v, sect)
  PROVE  /\ w \in Volumes /\ WindowOn(w, S)
         /\ View(w) = View(v)
         /\ w.disk \in {v.disk, View(v)}
         /\ w.last = v.last /\ w.winsect = v.winsect
<1>1. ASSUME v.wflag, w \in BadWrite(v, v.winsect, v.win)
      PROVE  /\ w \in Volumes /\ WindowOn(w, S)
             /\ View(w) = View(v)
             /\ w.disk \in {v.disk, View(v)}
             /\ w.last = v.last /\ w.winsect = v.winsect
  <2>1. w = v \/ w = [v EXCEPT !.disk[v.winsect] = v.win]
    BY <1>1 DEF BadWrite
  <2>2. CASE w = v
    BY <2>2
  <2>3. CASE w = [v EXCEPT !.disk[v.winsect] = v.win]
    <3>1. w = [v EXCEPT !.disk = View(v)]
      BY <1>1, <2>3 DEF View, Volumes
    <3>2. v.winsect \in Sectors
      BY <1>1 DEF WindowOn, Volumes
    <3>3. /\ w \in Volumes /\ w.disk = View(v) /\ w.wflag = v.wflag
          /\ w.win = v.win /\ w.last = v.last /\ w.winsect = v.winsect
      BY <3>1, ViewType DEF Volumes
    <3>4. [View(v) EXCEPT ![v.winsect] = v.win] = View(v)
      BY <1>1, <3>2 DEF View, Volumes
    <3>5. View(w) = View(v)
      BY <1>1, <3>3, <3>4 DEF View
    <3>6. WindowOn(w, S)
      BY <1>1, <3>2, <3>3, Layout DEF WindowOn
    <3>7. QED
      BY <3>3, <3>5, <3>6
  <2>4. QED
    BY <2>1, <2>2, <2>3
<1>2. ASSUME w \in BadRead(Back(v), sect)
      PROVE  /\ w \in Volumes /\ WindowOn(w, S)
             /\ View(w) = View(v)
             /\ w.disk \in {v.disk, View(v)}
             /\ w.last = v.last /\ w.winsect = v.winsect
  <2>1. w = Back(v)
    BY <1>2 DEF BadRead
  <2>2. QED
    BY <2>1, BackView DEF View
<1>3. QED
  BY <1>1, <1>2 DEF Unmoved

\* The unit u of the sector s is n.
Put(V, s, u, n) == [V EXCEPT ![s][u] = n]

\* A unit that is stored into the window is seen by the calls; the card is as it was.
LEMMA PokeView ==
  ASSUME NEW v \in Volumes, NEW S, WindowOn(v, S), v.winsect \in S, v.winsect \in Sectors,
         NEW u \in Units, NEW n \in Nat
  PROVE  /\ Poke(v, u, n) \in Volumes /\ WindowOn(Poke(v, u, n), S)
         /\ View(Poke(v, u, n)) = Put(View(v), v.winsect, u, n)
         /\ Poke(v, u, n).disk = v.disk /\ Poke(v, u, n).last = v.last
         /\ Poke(v, u, n).winsect = v.winsect
<1> DEFINE p == Poke(v, u, n)
<1>1. /\ p \in Volumes /\ p.wflag = TRUE /\ p.win = [v.win EXCEPT ![u] = n]
      /\ p.disk = v.disk /\ p.last = v.last /\ p.winsect = v.winsect
  BY DEF Poke, Volumes
<1>2. View(v)[v.winsect] = v.win
  BY DEF View, WindowOn, Volumes
<1>3. View(p) = [v.disk EXCEPT ![v.winsect] = [v.win EXCEPT ![u] = n]]
  BY <1>1 DEF View
<1>4. [View(v) EXCEPT ![v.winsect][u] = n] = [View(v) EXCEPT ![v.winsect] = [v.win EXCEPT ![u] = n]]
  BY <1>2
<1>5. [View(v) EXCEPT ![v.winsect] = [v.win EXCEPT ![u] = n]] = [v.disk EXCEPT ![v.winsect] = [v.win EXCEPT ![u] = n]]
  BY DEF View, Volumes
<1>6. v.winsect # 0
  BY Layout DEF Sectors
<1>7. QED
  BY <1>1, <1>3, <1>4, <1>5, <1>6 DEF WindowOn, Put

\* A window that is only called dirty is seen as before.
LEMMA DirtyView ==
  ASSUME NEW v \in Volumes, NEW S, WindowOn(v, S), v.winsect \in S, v.winsect \in Sectors
  PROVE  LET w == [v EXCEPT !.wflag = TRUE]
         IN  /\ w \in Volumes /\ WindowOn(w, S) /\ View(w) = View(v)
             /\ w.disk = v.disk /\ w.last = v.last /\ w.winsect = v.winsect
<1> DEFINE w == [v EXCEPT !.wflag = TRUE]
<1>1. /\ w \in Volumes /\ w.wflag = TRUE /\ w.win = v.win
      /\ w.disk = v.disk /\ w.last = v.last /\ w.winsect = v.winsect
  BY DEF Volumes
<1>2. View(w) = [v.disk EXCEPT ![v.winsect] = v.win]
  BY <1>1 DEF View
<1>3. View(v) = [v.disk EXCEPT ![v.winsect] = v.win]
  BY DEF View, WindowOn, Volumes
<1>4. v.winsect # 0
  BY Layout DEF Sectors
<1>5. QED
  BY <1>1, <1>2, <1>3, <1>4 DEF WindowOn

-----------------------------------------------------------------------------
SSC == SS * CSize   \* units in a cluster

-----------------------------------------------------------------------------
(***************************************************************************)
(* Chains.                                                                 *)
(***************************************************************************)
LEMMA ChainType ==
  ASSUME NEW ch \in Chains
  PROVE  /\ Len(ch) \in 1..NumClusters /\ DOMAIN ch = 1..Len(ch)
         /\ ch \in Seq(Clusters)
         /\ ch \in Injection(1..Len(ch), Clusters)
         /\ \A i \in 1..Len(ch) : ch[i] \in Clusters
         /\ \A i \in 1..Len(ch), j \in 1..Len(ch) : ch[i] = ch[j] => i = j
<1>1. PICK n \in 1..NumClusters : ch \in Injection(1..n, Clusters)
  BY DEF Chains
<1>2. ch \in [1..n -> Clusters] /\ \A i \in 1..n, j \in 1..n : ch[i] = ch[j] => i = j
  BY <1>1 DEF Injection, IsInjective
<1>3. ch \in Seq(Clusters) /\ Len(ch) = n
  BY <1>2
<1>4. QED
  BY <1>1, <1>2, <1>3

LEMMA RangeOf ==
  ASSUME NEW ch \in Chains, NEW c
  PROVE  c \in Range(ch) <=> \E i \in 1..Len(ch) : ch[i] = c
BY ChainType DEF Range

\* No chain is longer than there are clusters.
LEMMA ChainFits ==
  ASSUME NEW n \in Nat, NEW ch \in Injection(1..n, Clusters)
  PROVE  n <= NumClusters
<1>1. IsFiniteSet(Clusters) /\ Cardinality(Clusters) = NumClusters
  <2>1. 2 \in Int /\ n_fatent - 1 \in Int /\ ~(2 > n_fatent - 1) /\ (n_fatent - 1) - 2 + 1 = NumClusters
    BY DEF n_fatent
  <2>2. QED
    BY <2>1, FS_Interval DEF Clusters
<1>2. Cardinality(1..n) = n
  BY FS_Interval
<1>3. Cardinality(1..n) <= Cardinality(Clusters)
  BY <1>1, FS_Injection
<1>4. QED
  BY <1>1, <1>2, <1>3

LEMMA OneIsChain ==
  ASSUME NEW c \in Clusters
  PROVE  <<c>> \in Chains /\ Len(<<c>>) = 1 /\ <<c>>[1] = c /\ Range(<<c>>) = {c}
<1>1. <<c>> \in [1..1 -> Clusters] /\ IsInjective(<<c>>)
  BY DEF IsInjective
<1>2. <<c>> \in Chains
  BY <1>1 DEF Chains, Injection
<1>3. QED
  BY <1>2 DEF Range

LEMMA AppendIsChain ==
  ASSUME NEW ch \in Chains, NEW c \in Clusters, c \notin Range(ch)
  PROVE  /\ Append(ch, c) \in Chains
         /\ Len(Append(ch, c)) = Len(ch) + 1
         /\ \A i \in 1..Len(ch) : Append(ch, c)[i] = ch[i]
         /\ Append(ch, c)[Len(ch) + 1] = c
         /\ Range(Append(ch, c)) = Range(ch) \cup {c}
<1> DEFINE d == Append(ch, c)
           n == Len(ch) + 1
<1>1. n \in Nat /\ Len(ch) \in 1..NumClusters
  BY ChainType
<1>2. /\ d \in Seq(Clusters) /\ Len(d) = n /\ DOMAIN d = 1..n
      /\ \A i \in 1..Len(ch) : d[i] = ch[i]
      /\ d[n] = c
  BY ChainType
<1> HIDE DEF d
<1>3. d \in [1..n -> Clusters]
  BY <1>2
<1>4. \A i \in 1..Len(ch) : ch[i] # c
  BY RangeOf
<1>5. \A i \in 1..n, j \in 1..n : d[i] = d[j] => i = j
  <2> TAKE i \in 1..n, j \in 1..n
  <2>1. CASE i \in 1..Len(ch) /\ j \in 1..Len(ch)
    BY <1>2, <2>1, ChainType
  <2>2. CASE i = n \/ j = n
    BY <1>1, <1>2, <1>4, <2>2
  <2>3. QED
    BY <1>1, <2>1, <2>2
<1>6. d \in Injection(1..n, Clusters)
  BY <1>3, <1>5 DEF Injection, IsInjective
<1>7. n \in 1..NumClusters
  BY <1>1, <1>6, ChainFits
<1>8. d \in Chains
  BY <1>6, <1>7 DEF Chains
<1>9. Range(d) = Range(ch) \cup {c}
  BY <1>1, <1>2, ChainType DEF Range
<1>10. QED
  BY <1>2, <1>8, <1>9 DEF d

LEMMA TailIsChain ==
  ASSUME NEW ch \in Chains, Len(ch) > 1
  PROVE  /\ Tail(ch) \in Chains
         /\ Len(Tail(ch)) = Len(ch) - 1
         /\ \A i \in 1..Len(ch) - 1 : Tail(ch)[i] = ch[i + 1]
         /\ Range(Tail(ch)) \subseteq Range(ch)
         /\ ch[1] \notin Range(Tail(ch))
<1> DEFINE d == Tail(ch)
           n == Len(ch) - 1
<1>1. n \in 1..NumClusters
  BY ChainType
<1>2. /\ d \in Seq(Clusters) /\ Len(d) = n /\ DOMAIN d = 1..n
      /\ \A i \in 1..n : d[i] = ch[i + 1]
  BY <1>1, ChainType
<1> HIDE DEF d
<1>3. d \in [1..n -> Clusters]
  BY <1>2
<1>4. \A i \in 1..n, j \in 1..n : d[i] = d[j] => i = j
  BY <1>1, <1>2, ChainType
<1>5. d \in Injection(1..n, Clusters)
  BY <1>3, <1>4 DEF Injection, IsInjective
<1>8. d \in Chains
  BY <1>1, <1>5 DEF Chains
<1>6. Range(d) \subseteq Range(ch)
  BY <1>1, <1>2, ChainType DEF Range
<1>7. ch[1] \notin Range(d)
  BY <1>1, <1>2, ChainType DEF Range
<1>9. QED
  BY <1>2, <1>6, <1>7, <1>8 DEF d

-----------------------------------------------------------------------------
(***************************************************************************)
(* A file system: V is what the sectors hold, root[f] the cluster where a  *)
(* chain of the file f begins, recorded or not, and chain[f] that chain.   *)
(***************************************************************************)
Starts == {0, 1, DiskErr} \cup Clusters

ChainsOK(V, root, chain) ==
  \A f \in Files : root[f] \in Clusters =>
    /\ IsChain(V, root[f], chain[f])
    /\ \A g \in Files \ {f} : root[g] \in Clusters => Disjoint(chain[f], chain[g])

\* The directory: a start that is recorded is that of the chain, which is long enough.
DirOK(V, root, chain) ==
  \A f \in Files :
    /\ StartOf(V, f) \in Starts /\ SizeOf(V, f) \in 0..MaxSize
    /\ SizeOf(V, f) > 0 => StartOf(V, f) \in Clusters
    /\ StartOf(V, f) \in Clusters =>
         StartOf(V, f) = root[f] /\ Len(chain[f]) * SSC >= SizeOf(V, f)

FsOK(V, root, chain) == ChainsOK(V, root, chain) /\ DirOK(V, root, chain)

\* No chain passes through the cluster c.
Unowned(root, chain, c) ==
  \A g \in Files : root[g] \in Clusters => c \notin Range(chain[g])

Consistent(V) ==
  \E chain \in [Files -> Chains] : FsOK(V, [f \in Files |-> StartOf(V, f)], chain)

SameFat(V, W) == \A c \in Clusters : Entry(W, c) = Entry(V, c)
SameDir(V, W) == \A f \in Files : SizeOf(W, f) = SizeOf(V, f) /\ StartOf(W, f) = StartOf(V, f)

Images == [Sectors -> [Units -> Nat]]

\* What a chain says depends on its entries alone.
LEMMA ChainKept ==
  ASSUME NEW V, NEW W, NEW ch \in Chains, NEW c, IsChain(V, c, ch),
         \A d \in Range(ch) : Entry(W, d) = Entry(V, d)
  PROVE  IsChain(W, c, ch)
<1>1. \A i \in DOMAIN ch : Entry(W, ch[i]) = Entry(V, ch[i])
  BY DEF Range
<1>2. QED
  BY <1>1 DEF IsChain

\* The same file system without some of its chains.
LEMMA FsDrop ==
  ASSUME NEW V, NEW root, NEW chain, FsOK(V, root, chain), NEW less,
         \A f \in Files : less[f] \in Clusters => less[f] = root[f],
         \A f \in Files : StartOf(V, f) \in Clusters => less[f] = StartOf(V, f)
  PROVE  FsOK(V, less, chain)
<1>1. ChainsOK(V, less, chain)
  BY DEF FsOK, ChainsOK
<1>2. DirOK(V, less, chain)
  BY DEF FsOK, DirOK
<1>3. QED
  BY <1>1, <1>2 DEF FsOK

LEMMA FsSame ==
  ASSUME NEW V, NEW W, NEW root, NEW chain \in [Files -> Chains], FsOK(V, root, chain),
         SameFat(V, W), SameDir(V, W)
  PROVE  FsOK(W, root, chain)
<1>1. ASSUME NEW f \in Files, root[f] \in Clusters
      PROVE  IsChain(W, root[f], chain[f])
  <2>1. \A d \in Range(chain[f]) : d \in Clusters
    BY RangeOf, ChainType
  <2>2. IsChain(V, root[f], chain[f])
    BY <1>1 DEF FsOK, ChainsOK
  <2>3. QED
    BY <2>1, <2>2, ChainKept DEF SameFat
<1>2. ChainsOK(W, root, chain)
  BY <1>1 DEF FsOK, ChainsOK
<1>3. DirOK(W, root, chain)
  BY DEF FsOK, DirOK, SameDir
<1>4. QED
  BY <1>2, <1>3 DEF FsOK

\* What is seen of a file system whose starts are those recorded.
LEMMA FsConsistent ==
  ASSUME NEW V, NEW root, NEW chain \in [Files -> Chains], FsOK(V, root, chain)
  PROVE  Consistent(V)
<1> DEFINE less == [f \in Files |-> StartOf(V, f)]
<1>1. \A f \in Files : less[f] \in Clusters => less[f] = root[f]
  BY DEF FsOK, DirOK
<1>2. FsOK(V, less, chain)
  BY <1>1, FsDrop
<1>3. QED
  BY <1>2 DEF Consistent

LEMMA ConsistentSame ==
  ASSUME NEW V, NEW W, Consistent(V), SameFat(V, W), SameDir(V, W)
  PROVE  Consistent(W)
<1>1. PICK chain \in [Files -> Chains] : FsOK(V, [f \in Files |-> StartOf(V, f)], chain)
  BY DEF Consistent
<1>2. FsOK(W, [f \in Files |-> StartOf(V, f)], chain)
  BY <1>1, FsSame
<1>3. QED
  BY <1>2, FsConsistent

-----------------------------------------------------------------------------
\* What a unit of the FAT, and of the directory, changes.
LEMMA FatPoked ==
  ASSUME NEW V \in Images, NEW c \in Clusters, NEW n \in Nat,
         NEW W, W = Put(V, FatSector(c), c % SS, n)
  PROVE  /\ W \in Images
         /\ Entry(W, c) = n
         /\ \A d \in Clusters \ {c} : Entry(W, d) = Entry(V, d)
         /\ SameDir(V, W)
<1>1. FatSector(c) \in Sectors /\ c % SS \in Units
  BY EntryAt
<1>2. /\ W \in Images
      /\ \A s \in Sectors, u \in Units :
           W[s][u] = IF s = FatSector(c) /\ u = c % SS THEN n ELSE V[s][u]
  BY <1>1 DEF Images, Put
<1>3. Entry(W, c) = n
  BY <1>1, <1>2 DEF Entry
<1>4. ASSUME NEW d \in Clusters \ {c}
      PROVE  Entry(W, d) = Entry(V, d)
  <2>1. FatSector(d) \in Sectors /\ d % SS \in Units
    BY EntryAt
  <2>2. ~(FatSector(d) = FatSector(c) /\ d % SS = c % SS)
    BY SameEntry
  <2>3. QED
    BY <1>2, <2>1, <2>2 DEF Entry
<1>5. ASSUME NEW f \in Files
      PROVE  SizeOf(W, f) = SizeOf(V, f) /\ StartOf(W, f) = StartOf(V, f)
  BY <1>2, DirAt, FatNotDir DEF SizeOf, StartOf
<1>6. QED
  BY <1>2, <1>3, <1>4, <1>5 DEF SameDir

LEMMA DirPoked ==
  ASSUME NEW V \in Images, NEW f \in Files, NEW m \in Nat, NEW n \in Nat,
         NEW W, W = Put(Put(V, DirSector(f), SizeAt(f), m), DirSector(f), ClustAt(f), n)
  PROVE  /\ W \in Images
         /\ SizeOf(W, f) = m /\ StartOf(W, f) = n
         /\ \A g \in Files \ {f} : SizeOf(W, g) = SizeOf(V, g) /\ StartOf(W, g) = StartOf(V, g)
         /\ SameFat(V, W)
<1>1. DirSector(f) \in Sectors /\ SizeAt(f) \in Units /\ ClustAt(f) \in Units /\ SizeAt(f) # ClustAt(f)
  BY DirAt
<1>2. /\ W \in Images
      /\ \A s \in Sectors, u \in Units :
           W[s][u] = IF s = DirSector(f) /\ u = ClustAt(f) THEN n
                     ELSE IF s = DirSector(f) /\ u = SizeAt(f) THEN m ELSE V[s][u]
  BY <1>1 DEF Images, Put
<1>3. SizeOf(W, f) = m /\ StartOf(W, f) = n
  BY <1>1, <1>2 DEF SizeOf, StartOf
<1>4. ASSUME NEW g \in Files \ {f}
      PROVE  SizeOf(W, g) = SizeOf(V, g) /\ StartOf(W, g) = StartOf(V, g)
  <2>1. DirSector(g) \in Sectors /\ SizeAt(g) \in Units /\ ClustAt(g) \in Units
    BY DirAt
  <2>2. SizeAt(g) # ClustAt(f) /\ SizeAt(f) # ClustAt(g)
    BY SameFile
  <2>3. DirSector(g) = DirSector(f) => SizeAt(g) # SizeAt(f) /\ ClustAt(g) # ClustAt(f)
    BY SameFile
  <2>4. QED
    BY <1>2, <2>1, <2>2, <2>3 DEF SizeOf, StartOf
<1>5. ASSUME NEW c \in Clusters
      PROVE  Entry(W, c) = Entry(V, c)
  BY <1>2, EntryAt, FatNotDir DEF Entry
<1>6. QED
  BY <1>2, <1>3, <1>4, <1>5 DEF SameFat

-----------------------------------------------------------------------------
(***************************************************************************)
(* The steps of a file system.                                             *)
(***************************************************************************)
\* Only the entry of the cluster c is changed.
OnlyEntry(V, W, c) ==
  SameDir(V, W) /\ \A d \in Clusters \ {c} : Entry(W, d) = Entry(V, d)

\* The entry of a cluster that no chain passes through may be anything.
LEMMA FsFree ==
  ASSUME NEW V, NEW W, NEW root, NEW chain \in [Files -> Chains], FsOK(V, root, chain),
         NEW c \in Clusters, Unowned(root, chain, c), OnlyEntry(V, W, c)
  PROVE  FsOK(W, root, chain)
<1>1. ASSUME NEW f \in Files, root[f] \in Clusters
      PROVE  IsChain(W, root[f], chain[f])
  <2>1. \A d \in Range(chain[f]) : d \in Clusters \ {c}
    BY <1>1, RangeOf, ChainType DEF Unowned
  <2>2. IsChain(V, root[f], chain[f])
    BY <1>1 DEF FsOK, ChainsOK
  <2>3. QED
    BY <2>1, <2>2, ChainKept DEF OnlyEntry
<1>2. ChainsOK(W, root, chain)
  BY <1>1 DEF FsOK, ChainsOK
<1>3. DirOK(W, root, chain)
  BY DEF FsOK, DirOK, OnlyEntry, SameDir
<1>4. QED
  BY <1>2, <1>3 DEF FsOK

\* A cluster whose entry is 0, or that another is not linked to, is not passed through.
LEMMA FreeUnowned ==
  ASSUME NEW V, NEW root, NEW chain \in [Files -> Chains], FsOK(V, root, chain),
         NEW c \in Clusters, Entry(V, c) = 0
  PROVE  Unowned(root, chain, c)
<1>1. ASSUME NEW g \in Files, root[g] \in Clusters, c \in Range(chain[g])
      PROVE  FALSE
  <2>1. IsChain(V, root[g], chain[g])
    BY <1>1 DEF FsOK, ChainsOK
  <2>2. PICK i \in 1..Len(chain[g]) : chain[g][i] = c
    BY <1>1, RangeOf
  <2>3. Entry(V, c) = IF i < Len(chain[g]) THEN chain[g][i + 1] ELSE LastLink
    BY <2>1, <2>2, ChainType DEF IsChain
  <2>4. i < Len(chain[g]) => chain[g][i + 1] \in Clusters
    BY ChainType
  <2>5. QED
    BY <2>3, <2>4, Layout DEF Clusters, LastLink
<1>2. QED
  BY <1>1 DEF Unowned

\* The chain of a file without one is its new cluster.
LEMMA FsFirst ==
  ASSUME NEW V, NEW root \in [Files -> Nat], NEW chain \in [Files -> Chains], FsOK(V, root, chain),
         NEW f \in Files, root[f] \notin Clusters,
         NEW c \in Clusters, Unowned(root, chain, c), Entry(V, c) = LastLink
  PROVE  FsOK(V, [root EXCEPT ![f] = c], [chain EXCEPT ![f] = <<c>>])
<1> DEFINE r == [root EXCEPT ![f] = c]
           h == [chain EXCEPT ![f] = <<c>>]
<1>1. /\ r[f] = c /\ \A g \in Files \ {f} : r[g] = root[g]
      /\ h[f] = <<c>> /\ \A g \in Files \ {f} : h[g] = chain[g]
  OBVIOUS
<1> HIDE DEF r, h
<1>2. IsChain(V, r[f], h[f])
  BY <1>1 DEF IsChain
<1>3. \A g \in Files \ {f} : root[g] \in Clusters => Disjoint(h[f], chain[g]) /\ Disjoint(chain[g], h[f])
  BY <1>1, OneIsChain DEF Unowned, Disjoint
<1>4. ChainsOK(V, r, h)
  BY <1>1, <1>2, <1>3 DEF FsOK, ChainsOK
<1>5. DirOK(V, r, h)
  BY <1>1 DEF FsOK, DirOK
<1>6. QED
  BY <1>4, <1>5 DEF FsOK, r, h

\* The end of a chain is linked to a new cluster.
LEMMA FsLink ==
  ASSUME NEW V, NEW W, NEW root, NEW chain \in [Files -> Chains], FsOK(V, root, chain),
         NEW f \in Files, root[f] \in Clusters,
         NEW c \in Clusters, Unowned(root, chain, c), Entry(V, c) = LastLink,
         NEW e, e = chain[f][Len(chain[f])],
         OnlyEntry(V, W, e), Entry(W, e) = c
  PROVE  FsOK(W, root, [chain EXCEPT ![f] = Append(chain[f], c)])
<1> DEFINE h == [chain EXCEPT ![f] = Append(chain[f], c)]
           n == Len(chain[f])
<1>1. h[f] = Append(chain[f], c) /\ \A g \in Files \ {f} : h[g] = chain[g]
  OBVIOUS
<1> HIDE DEF h
<1>2. chain[f] \in Chains /\ c \notin Range(chain[f]) /\ n \in Nat \ {0}
  BY ChainType DEF Unowned
<1>3. /\ Len(h[f]) = n + 1 /\ h[f] \in Chains
      /\ \A i \in 1..n : h[f][i] = chain[f][i]
      /\ h[f][n + 1] = c /\ Range(h[f]) = Range(chain[f]) \cup {c}
  BY <1>1, <1>2, AppendIsChain
<1>4. e \in Range(chain[f]) /\ e \in Clusters
  BY <1>2, RangeOf, ChainType
<1>5. e # c
  BY <1>2, <1>4
<1>6. IsChain(V, root[f], chain[f])
  BY DEF FsOK, ChainsOK
<1>7. IsChain(W, root[f], h[f])
  <2>1. h[f][1] = root[f]
    BY <1>2, <1>3, <1>6 DEF IsChain
  <2>2. ASSUME NEW i \in 1..n + 1
        PROVE  Entry(W, h[f][i]) = IF i < n + 1 THEN h[f][i + 1] ELSE LastLink
    <3>1. CASE i < n
      <4>1. chain[f][i] # e /\ chain[f][i] \in Clusters
        BY <1>2, <3>1, ChainType
      <4>2. Entry(W, chain[f][i]) = Entry(V, chain[f][i])
        BY <4>1 DEF OnlyEntry
      <4>3. Entry(V, chain[f][i]) = chain[f][i + 1]
        BY <1>2, <1>6, <3>1, ChainType DEF IsChain
      <4>4. QED
        BY <1>2, <1>3, <3>1, <4>2, <4>3
    <3>2. CASE i = n
      BY <1>2, <1>3, <3>2
    <3>3. CASE i = n + 1
      <4>1. Entry(W, c) = Entry(V, c)
        BY <1>5 DEF OnlyEntry
      <4>2. QED
        BY <1>2, <1>3, <3>3, <4>1
    <3>4. QED
      BY <1>2, <3>1, <3>2, <3>3
  <2>3. DOMAIN h[f] = 1..n + 1
    BY <1>3, ChainType
  <2>4. QED
    BY <1>3, <2>1, <2>2, <2>3 DEF IsChain
<1>8. ASSUME NEW g \in Files \ {f}, root[g] \in Clusters
      PROVE  IsChain(W, root[g], chain[g]) /\ Disjoint(h[f], chain[g]) /\ Disjoint(chain[g], h[f])
  <2>1. IsChain(V, root[g], chain[g]) /\ Disjoint(chain[f], chain[g])
    BY <1>8 DEF FsOK, ChainsOK
  <2>2. e \notin Range(chain[g]) /\ c \notin Range(chain[g])
    BY <1>4, <1>8, <2>1 DEF Disjoint, Unowned
  <2>3. \A d \in Range(chain[g]) : d \in Clusters \ {e}
    BY <2>2, RangeOf, ChainType
  <2>4. IsChain(W, root[g], chain[g])
    BY <2>1, <2>3, ChainKept DEF OnlyEntry
  <2>5. QED
    BY <1>3, <2>1, <2>2, <2>4 DEF Disjoint
<1>9. ASSUME NEW g \in Files \ {f}, NEW k \in Files \ {f}, g # k,
             root[g] \in Clusters, root[k] \in Clusters
      PROVE  Disjoint(chain[g], chain[k])
  BY <1>9 DEF FsOK, ChainsOK
<1>10. ChainsOK(W, root, h)
  BY <1>1, <1>7, <1>8, <1>9 DEF ChainsOK
<1>11. ASSUME NEW g \in Files
       PROVE  /\ Len(h[g]) * SSC >= Len(chain[g]) * SSC
              /\ Len(chain[g]) * SSC \in Nat /\ Len(h[g]) * SSC \in Nat
  <2>1. Len(chain[g]) \in Nat /\ SSC \in Nat
    BY ChainType DEF SSC
  <2>2. CASE g = f
    <3>1. Len(h[g]) = Len(chain[g]) + 1
      BY <1>3, <2>2
    <3>2. QED
      BY <2>1, <3>1
  <2>3. CASE g # f
    BY <1>1, <2>1, <2>3
  <2>4. QED
    BY <2>2, <2>3
<1>12. DirOK(W, root, h)
  <2>1. ASSUME NEW g \in Files
        PROVE  /\ StartOf(W, g) \in Starts /\ SizeOf(W, g) \in 0..MaxSize
               /\ SizeOf(W, g) > 0 => StartOf(W, g) \in Clusters
               /\ StartOf(W, g) \in Clusters =>
                    StartOf(W, g) = root[g] /\ Len(h[g]) * SSC >= SizeOf(W, g)
    <3>1. SizeOf(W, g) = SizeOf(V, g) /\ StartOf(W, g) = StartOf(V, g)
      BY DEF OnlyEntry, SameDir
    <3>2. /\ StartOf(V, g) \in Starts /\ SizeOf(V, g) \in 0..MaxSize
          /\ SizeOf(V, g) > 0 => StartOf(V, g) \in Clusters
          /\ StartOf(V, g) \in Clusters =>
               StartOf(V, g) = root[g] /\ Len(chain[g]) * SSC >= SizeOf(V, g)
      BY DEF FsOK, DirOK
    <3>3. StartOf(V, g) \in Clusters => Len(h[g]) * SSC >= SizeOf(V, g)
      BY <1>11, <3>2
    <3>4. QED
      BY <3>1, <3>2, <3>3
  <2>2. QED
    BY <2>1 DEF DirOK
<1>13. QED
  BY <1>10, <1>12 DEF FsOK, h

\* The first cluster of a chain that is not recorded any more is freed.
LEMMA FsUnlink ==
  ASSUME NEW V, NEW W, NEW root \in [Files -> Nat], NEW chain \in [Files -> Chains],
         FsOK(V, root, chain), NEW f \in Files, root[f] \in Clusters,
         StartOf(V, f) = 0,
         NEW c, c = root[f], OnlyEntry(V, W, c), NEW nxt, nxt = Entry(V, c)
  PROVE  /\ nxt \in Clusters \cup {LastLink}
         /\ nxt \in Clusters =>
              /\ [chain EXCEPT ![f] = Tail(chain[f])] \in [Files -> Chains]
              /\ FsOK(W, [root EXCEPT ![f] = nxt], [chain EXCEPT ![f] = Tail(chain[f])])
         /\ FsOK(W, [root EXCEPT ![f] = 0], chain)
<1> DEFINE n == Len(chain[f])
           none == [root EXCEPT ![f] = 0]
<1>1. IsChain(V, c, chain[f]) /\ chain[f] \in Chains
  BY DEF FsOK, ChainsOK
<1>2. n \in Nat \ {0} /\ chain[f][1] = c /\ DOMAIN chain[f] = 1..n
  BY <1>1, ChainType DEF IsChain
<1>3. nxt = IF 1 < n THEN chain[f][2] ELSE LastLink
  BY <1>1, <1>2 DEF IsChain
<1>4. nxt \in Clusters \cup {LastLink}
  BY <1>2, <1>3, ChainType
<1>5. 0 \notin Clusters /\ LastLink \notin Clusters
  BY Layout DEF Clusters, LastLink
<1>6. none[f] = 0 /\ \A g \in Files \ {f} : none[g] = root[g]
  OBVIOUS
<1>7. FsOK(V, none, chain)
  <2>1. \A g \in Files : none[g] \in Clusters => none[g] = root[g]
    BY <1>5, <1>6
  <2>2. \A g \in Files : StartOf(V, g) \in Clusters => none[g] = StartOf(V, g)
    BY <1>5, <1>6 DEF FsOK, DirOK
  <2> HIDE DEF none
  <2>3. QED
    BY <2>1, <2>2, FsDrop
<1>8. c \in Range(chain[f])
  BY <1>2, RangeOf
<1>9. Unowned(none, chain, c)
  BY <1>5, <1>6, <1>8 DEF Unowned, FsOK, ChainsOK, Disjoint
<1>10. FsOK(W, none, chain)
  <2> HIDE DEF none
  <2>1. QED
    BY <1>7, <1>9, FsFree
<1>11. ASSUME nxt \in Clusters
       PROVE  /\ [chain EXCEPT ![f] = Tail(chain[f])] \in [Files -> Chains]
              /\ FsOK(W, [root EXCEPT ![f] = nxt], [chain EXCEPT ![f] = Tail(chain[f])])
  <2> DEFINE h == [chain EXCEPT ![f] = Tail(chain[f])]
             r == [root EXCEPT ![f] = nxt]
  <2>1. n > 1 /\ nxt = chain[f][2]
    BY <1>2, <1>3, <1>5, <1>11
  <2>2. /\ Tail(chain[f]) \in Chains /\ Len(Tail(chain[f])) = n - 1
        /\ \A i \in 1..n - 1 : Tail(chain[f])[i] = chain[f][i + 1]
        /\ Range(Tail(chain[f])) \subseteq Range(chain[f])
        /\ c \notin Range(Tail(chain[f]))
    BY <1>1, <1>2, <2>1, TailIsChain
  <2>3. /\ h \in [Files -> Chains] /\ h[f] = Tail(chain[f]) /\ \A g \in Files \ {f} : h[g] = chain[g]
        /\ r[f] = nxt /\ \A g \in Files \ {f} : r[g] = root[g]
    BY <2>2
  <2> HIDE DEF h, r
  <2>4. IsChain(W, nxt, h[f])
    <3>1. h[f][1] = nxt
      BY <1>2, <2>1, <2>2, <2>3
    <3>2. ASSUME NEW i \in 1..n - 1
          PROVE  Entry(W, h[f][i]) = IF i < n - 1 THEN h[f][i + 1] ELSE LastLink
      <4>1. h[f][i] = chain[f][i + 1] /\ chain[f][i + 1] \in Clusters \ {c}
        BY <1>2, <2>1, <2>2, <2>3, ChainType
      <4>2. Entry(W, h[f][i]) = Entry(V, chain[f][i + 1])
        BY <4>1 DEF OnlyEntry
      <4>3. Entry(V, chain[f][i + 1]) = IF i + 1 < n THEN chain[f][i + 2] ELSE LastLink
        BY <1>1, <1>2, <2>1 DEF IsChain
      <4>4. QED
        BY <1>2, <2>1, <2>2, <2>3, <4>2, <4>3
    <3>3. DOMAIN h[f] = 1..n - 1 /\ Len(h[f]) = n - 1
      BY <2>2, <2>3, ChainType
    <3>4. QED
      BY <3>1, <3>2, <3>3 DEF IsChain
  <2>5. ASSUME NEW g \in Files \ {f}, root[g] \in Clusters
        PROVE  /\ IsChain(W, root[g], chain[g])
               /\ Disjoint(h[f], chain[g]) /\ Disjoint(chain[g], h[f])
               /\ \A k \in Files \ {f, g} : root[k] \in Clusters => Disjoint(chain[g], chain[k])
    <3>1. IsChain(W, root[g], chain[g])
      BY <1>6, <1>10, <2>5 DEF FsOK, ChainsOK
    <3>2. Disjoint(chain[f], chain[g])
      BY <2>5 DEF FsOK, ChainsOK
    <3>3. \A k \in Files \ {f, g} : root[k] \in Clusters => Disjoint(chain[g], chain[k])
      BY <2>5 DEF FsOK, ChainsOK
    <3>4. QED
      BY <2>2, <2>3, <3>1, <3>2, <3>3 DEF Disjoint
  <2>6. ChainsOK(W, r, h)
    BY <2>3, <2>4, <2>5 DEF ChainsOK
  <2>7. \A g \in Files : StartOf(W, g) = StartOf(V, g) /\ SizeOf(W, g) = SizeOf(V, g)
    BY DEF OnlyEntry, SameDir
  <2>8. DirOK(W, r, h)
    BY <1>5, <2>3, <2>7 DEF FsOK, DirOK
  <2>9. QED
    BY <2>3, <2>6, <2>8 DEF FsOK, h, r
<1>12. QED
  BY <1>4, <1>10, <1>11

\* An entry of the directory is written: it has no cluster, or is that of the chain.
LEMMA FsRecord ==
  ASSUME NEW V, NEW W, NEW root, NEW chain \in [Files -> Chains], FsOK(V, root, chain),
         NEW f \in Files, SameFat(V, W),
         \A g \in Files \ {f} : SizeOf(W, g) = SizeOf(V, g) /\ StartOf(W, g) = StartOf(V, g),
         StartOf(W, f) \in Starts, SizeOf(W, f) \in 0..MaxSize,
         SizeOf(W, f) > 0 => StartOf(W, f) \in Clusters,
         StartOf(W, f) \in Clusters => StartOf(W, f) = root[f] /\ Len(chain[f]) * SSC >= SizeOf(W, f)
  PROVE  FsOK(W, root, chain)
<1>1. ASSUME NEW g \in Files, root[g] \in Clusters
      PROVE  IsChain(W, root[g], chain[g])
  <2>1. \A d \in Range(chain[g]) : d \in Clusters
    BY RangeOf, ChainType
  <2>2. IsChain(V, root[g], chain[g])
    BY <1>1 DEF FsOK, ChainsOK
  <2>3. QED
    BY <2>1, <2>2, ChainKept DEF SameFat
<1>2. ChainsOK(W, root, chain)
  BY <1>1 DEF FsOK, ChainsOK
<1>3. ASSUME NEW g \in Files
      PROVE  /\ StartOf(W, g) \in Starts /\ SizeOf(W, g) \in 0..MaxSize
             /\ SizeOf(W, g) > 0 => StartOf(W, g) \in Clusters
             /\ StartOf(W, g) \in Clusters =>
                  StartOf(W, g) = root[g] /\ Len(chain[g]) * SSC >= SizeOf(W, g)
  <2>1. CASE g = f
    BY <2>1
  <2>2. CASE g # f
    <3>1. SizeOf(W, g) = SizeOf(V, g) /\ StartOf(W, g) = StartOf(V, g)
      BY <2>2
    <3>2. QED
      BY <3>1 DEF FsOK, DirOK
  <2>3. QED
    BY <2>1, <2>2
<1>4. DirOK(W, root, chain)
  BY <1>3 DEF DirOK
<1>5. QED
  BY <1>2, <1>4 DEF FsOK

-----------------------------------------------------------------------------
(***************************************************************************)
(* The invariant.  What the calls see, the disk with a dirty window over   *)
(* it, is a file system whose chains begin at the roots: the cluster in    *)
(* the FIL of a file that is being written, what is left of a chain that   *)
(* is being freed, or the start that is recorded.  The disk is at each     *)
(* moment what the calls saw at some earlier one.                          *)
(***************************************************************************)
WritesOn(file) == file.mode \in {"create", "update"}

\* Where the chain of f begins, in a state with the view V, the FILs h and the call c.
Root(V, h, c, f) ==
  IF WritesOn(h[f]) THEN h[f].org
  ELSE IF c.at = "unlink" /\ c.f = f THEN c.c
  ELSE StartOf(V, f)

Roots(V, h, c) == [f \in Files |-> Root(V, h, c, f)]

Opening      == {"follow", "empty", "unlink", "reuse", "opened"}
Transferring == {"loop", "next", "find", "link", "join", "sector", "whole", "edge", "part"}
InSector     == {"sector", "whole", "edge", "part"}

\* The call has linked the file f to its next cluster, and not moved to it.
Joining(c, f) == c.f = f /\ c.at = "join" /\ c.op = "put" /\ c.c \in Clusters
Filling(c, f) == c.f = f /\ c.at \in InSector

EndOf(ch) == ch[Len(ch)]

\* A FIL and the chain of its file: a file that is being created is at its end.
FileOK(file, c, f, ch) ==
  /\ file.written => WritesOn(file)
  /\ file.ptr % SS # 0 => file.dsect \in Data
  /\ file.ptr > 0 /\ ~file.error => file.cur \in Clusters
  /\ WritesOn(file) =>
       /\ file.org \notin Clusters => file.ptr = 0 /\ file.size = 0
       /\ file.org \in Clusters => Len(ch) * SSC >= file.ptr /\ Len(ch) * SSC >= file.size
  /\ file.mode = "create" /\ ~file.error =>
       /\ file.org \in Clusters /\ ~Joining(c, f) => file.cur = EndOf(ch)
       /\ file.ptr = 0 /\ ~Filling(c, f) => file.org = 0

\* A call of f_open; it creates a file when what was recorded of it is erased.
OpenOK(V, file, c) ==
  /\ c.at \in Opening => c.op \in {"create", "update", "read"} /\ file.mode = "closed"
  /\ c.at \in {"empty", "unlink", "reuse"} => c.op = "create"
  /\ (c.at \in {"unlink", "reuse", "opened"} /\ c.op = "create") => StartOf(V, c.f) = 0
  /\ c.at = "follow" => c.c \in DirSector(0)..DirSector(c.f)
  /\ c.at = "unlink" => c.c \in Clusters
  /\ c.at \in {"unlink", "reuse"} => c.scl \in Clusters

\* A call of f_read or f_write, but for the cluster it has come to.
TransferOK(file, c) ==
  /\ c.at \in Transferring =>
       /\ ~file.error
       /\ \/ c.op = "get" /\ file.mode \in {"read", "update"} /\ file.ptr + c.n <= file.size
          \/ /\ c.op = "put" /\ WritesOn(file)
             /\ file.ptr + c.n <= IF file.mode = "update" THEN UpdateSize ELSE MaxSize
  /\ c.at \in {"find", "link", "whole", "edge"} => c.op = "put"
  /\ c.at \in Transferring \ {"loop"} => c.n > 0
  /\ c.at = "next" => file.ptr > 0 /\ file.ptr % SSC = 0
  /\ c.at \in {"find", "link", "join", "sector", "whole", "edge"} => file.ptr % SS = 0
  /\ c.at \in InSector => file.cur \in Clusters
  /\ c.at = "part" => file.dsect \in Data
  /\ c.at = "whole" => c.n >= SS
  /\ c.at = "record" => file.written

\* The search for a cluster and its result; r is where the chains begin.
ChainOK(V, r, file, c, chain) ==
  /\ c.at = "find" =>
       /\ c.c \in 1..n_fatent - 1 /\ c.scl \in 1..n_fatent - 1
       /\ IF file.ptr = 0 THEN file.org = 0 ELSE file.mode = "create"
  /\ c.at = "link" =>
       /\ file.ptr > 0 /\ file.mode = "create"
       /\ c.c \in Clusters /\ Entry(V, c.c) = LastLink /\ Unowned(r, chain, c.c)
  /\ c.at = "join" =>
       /\ c.c \in {0, 1, DiskErr, LastLink} \cup Clusters /\ (c.op = "put" => c.c # LastLink)
       /\ c.op = "put" /\ file.ptr = 0 => file.org \in {0, c.c}
       /\ c.op = "put" /\ c.c \in Clusters =>
            \/ file.ptr = 0 /\ file.org = c.c
            \/ /\ file.ptr = 0 /\ file.org = 0
               /\ Entry(V, c.c) = LastLink /\ Unowned(r, chain, c.c)
            \/ /\ file.ptr > 0 /\ file.org \in Clusters /\ c.c = EndOf(chain[c.f])
               /\ file.ptr < Len(chain[c.f]) * SSC
  /\ c.at \in InSector /\ c.op = "put" =>
       file.org \in Clusters /\ file.ptr < Len(chain[c.f]) * SSC

Links(V, h, c, chain) ==
  /\ FsOK(V, Roots(V, h, c), chain)
  /\ \A f \in Files : FileOK(h[f], c, f, chain[f])
  /\ OpenOK(V, h[c.f], c) /\ TransferOK(h[c.f], c)
  /\ ChainOK(V, Roots(V, h, c), h[c.f], c, chain)

Linked(V, h, c) == \E chain \in [Files -> Chains] : Links(V, h, c, chain)

\* Every entry of the FAT is free, the end of a chain, or in one.
FatTyped(V) == \A c \in Clusters : Entry(V, c) \in {0, LastLink} \cup Clusters

Good(V) == Consistent(V) /\ FatTyped(V)

VolumeOK(v) == v \in Volumes /\ WindowOn(v, Meta) /\ Good(v.disk) /\ FatTyped(View(v))

\* A step that goes on with the sector in the window has moved it there.
WindowAt(v, c) ==
  /\ c.at \in {"empty", "opened"} => v.winsect = DirSector(c.f)
  /\ c.at = "link" => v.winsect = FatSector(c.c)

FatInv ==
  /\ TypeOK
  /\ VolumeOK(volume)
  /\ WindowAt(volume, call)
  /\ Linked(View(volume), handle, call)

-----------------------------------------------------------------------------
(***************************************************************************)
(* What the steps do to the volume.                                        *)
(***************************************************************************)
SameMeta(V, W) == \A s \in Meta : W[s] = V[s]

LEMMA MetaSame ==
  ASSUME NEW V, NEW W, SameMeta(V, W)
  PROVE  SameFat(V, W) /\ SameDir(V, W)
BY EntryAt, DirAt DEF SameMeta, SameFat, SameDir, Entry, SizeOf, StartOf

LEMMA GoodSame ==
  ASSUME NEW V, NEW W, Good(V), SameMeta(V, W)
  PROVE  Good(W)
<1>1. SameFat(V, W) /\ SameDir(V, W)
  BY MetaSame
<1>2. Consistent(W)
  BY <1>1, ConsistentSame DEF Good
<1>3. QED
  BY <1>1, <1>2 DEF Good, FatTyped, SameFat

\* A file system whose chains are known.
LEMMA LinkedGood ==
  ASSUME NEW v, VolumeOK(v), NEW h, NEW c, Linked(View(v), h, c)
  PROVE  Good(View(v))
<1>1. PICK chain \in [Files -> Chains] : FsOK(View(v), Roots(View(v), h, c), chain)
  BY DEF Linked, Links
<1>2. QED
  BY <1>1, FsConsistent DEF Good, VolumeOK

\* move_window.
LEMMA VolumeMoved ==
  ASSUME NEW v, VolumeOK(v), Good(View(v)), NEW sect \in Sectors \cup {0}
  PROVE  /\ VolumeOK(Moved(v, sect)) /\ View(Moved(v, sect)) = View(v)
         /\ Moved(v, sect).last = v.last
         /\ sect # 0 => Moved(v, sect).winsect = sect
         /\ sect \in Meta => Moved(v, sect).win = View(v)[sect]
<1> DEFINE m == Moved(v, sect)
<1>1. v \in Volumes /\ WindowOn(v, Meta)
  BY DEF VolumeOK
<1>2. 0 \notin Meta
  BY Layout DEF Meta
<1>3. /\ m \in Volumes /\ WindowOn(m, Meta) /\ View(m) = View(v) /\ m.disk \in {v.disk, View(v)}
      /\ m.last = v.last /\ (sect # 0 => m.winsect = sect)
      /\ sect \in Meta => m.win = View(v)[sect]
  BY <1>1, <1>2, MovedView
<1> HIDE DEF m
<1>4. Good(m.disk) /\ FatTyped(View(m))
  BY <1>3 DEF VolumeOK
<1>5. QED
  BY <1>3, <1>4 DEF VolumeOK, m

LEMMA VolumeUnmoved ==
  ASSUME "torn" \notin Kinds,
         NEW v, VolumeOK(v), Good(View(v)), NEW sect \in Sectors \cup {0}, NEW w \in Unmoved(v, sect)
  PROVE  /\ VolumeOK(w) /\ View(w) = View(v) /\ w.last = v.last /\ w.winsect = v.winsect
<1>1. v \in Volumes /\ WindowOn(v, Meta)
  BY DEF VolumeOK
<1>2. /\ w \in Volumes /\ WindowOn(w, Meta) /\ View(w) = View(v) /\ w.disk \in {v.disk, View(v)}
      /\ w.last = v.last /\ w.winsect = v.winsect
  BY <1>1, UnmovedView
<1>3. Good(w.disk) /\ FatTyped(View(w))
  BY <1>2 DEF VolumeOK
<1>4. QED
  BY <1>2, <1>3 DEF VolumeOK

\* An entry of the FAT, and one of the directory, is stored into the window.
LEMMA VolumeEntry ==
  ASSUME NEW v, VolumeOK(v), NEW c \in Clusters, v.winsect = FatSector(c),
         NEW n \in {0, LastLink} \cup Clusters
  PROVE  LET w == Poke(v, c % SS, n)
         IN  /\ VolumeOK(w) /\ w.last = v.last /\ w.winsect = v.winsect
             /\ OnlyEntry(View(v), View(w), c) /\ Entry(View(w), c) = n
<1> DEFINE w == Poke(v, c % SS, n)
<1>1. v \in Volumes /\ WindowOn(v, Meta) /\ View(v) \in Images
  BY ViewType DEF VolumeOK, Images
<1>2. v.winsect \in Meta /\ v.winsect \in Sectors /\ c % SS \in Units
  BY EntryAt
<1>3. n \in Nat
  BY Layout DEF LastLink, Clusters
<1>4. /\ w \in Volumes /\ WindowOn(w, Meta) /\ View(w) = Put(View(v), v.winsect, c % SS, n)
      /\ w.disk = v.disk /\ w.last = v.last /\ w.winsect = v.winsect
  BY <1>1, <1>2, <1>3, PokeView, ZenonT(40)
<1> HIDE DEF w
<1>5. OnlyEntry(View(v), View(w), c) /\ Entry(View(w), c) = n
  <2>1. View(w) = Put(View(v), FatSector(c), c % SS, n)
    BY <1>4
  <2>2. QED
    BY <1>1, <1>3, <2>1, FatPoked DEF OnlyEntry
<1>6. FatTyped(View(w))
  BY <1>5 DEF FatTyped, OnlyEntry, VolumeOK
<1>7. QED
  BY <1>4, <1>5, <1>6 DEF VolumeOK, w

LEMMA VolumeDir ==
  ASSUME NEW v, VolumeOK(v), NEW f \in Files, v.winsect = DirSector(f), NEW m \in Nat, NEW n \in Nat
  PROVE  LET w == Poke(Poke(v, SizeAt(f), m), ClustAt(f), n)
         IN  /\ VolumeOK(w) /\ w.last = v.last /\ w.winsect = v.winsect
             /\ SizeOf(View(w), f) = m /\ StartOf(View(w), f) = n
             /\ \A g \in Files \ {f} : /\ SizeOf(View(w), g) = SizeOf(View(v), g)
                                       /\ StartOf(View(w), g) = StartOf(View(v), g)
             /\ SameFat(View(v), View(w))
<1> DEFINE x == Poke(v, SizeAt(f), m)
           w == Poke(x, ClustAt(f), n)
<1>1. v \in Volumes /\ WindowOn(v, Meta) /\ View(v) \in Images
  BY ViewType DEF VolumeOK, Images
<1>2. v.winsect \in Meta /\ v.winsect \in Sectors /\ SizeAt(f) \in Units /\ ClustAt(f) \in Units
  BY DirAt
<1>3. /\ x \in Volumes /\ WindowOn(x, Meta) /\ View(x) = Put(View(v), v.winsect, SizeAt(f), m)
      /\ x.disk = v.disk /\ x.last = v.last /\ x.winsect = v.winsect
  BY <1>1, <1>2, PokeView, ZenonT(40)
<1> HIDE DEF x
<1>4. /\ w \in Volumes /\ WindowOn(w, Meta) /\ View(w) = Put(View(x), v.winsect, ClustAt(f), n)
      /\ w.disk = x.disk /\ w.last = x.last /\ w.winsect = x.winsect
  <2>1. x.winsect \in Meta /\ x.winsect \in Sectors
    BY <1>2, <1>3
  <2>2. View(w) = Put(View(x), x.winsect, ClustAt(f), n)
    BY <1>2, <1>3, <2>1, PokeView, Zenon
  <2>3. QED
    BY <1>2, <1>3, <2>1, <2>2, PokeView, ZenonT(40)
<1> HIDE DEF w
<1>5. View(w) = Put(Put(View(v), DirSector(f), SizeAt(f), m), DirSector(f), ClustAt(f), n)
  BY <1>3, <1>4
<1>6. /\ SizeOf(View(w), f) = m /\ StartOf(View(w), f) = n
      /\ \A g \in Files \ {f} : /\ SizeOf(View(w), g) = SizeOf(View(v), g)
                                /\ StartOf(View(w), g) = StartOf(View(v), g)
      /\ SameFat(View(v), View(w))
  BY <1>1, <1>5, DirPoked
<1>7. FatTyped(View(w))
  BY <1>6 DEF FatTyped, SameFat, VolumeOK
<1>8. QED
  BY <1>3, <1>4, <1>6, <1>7 DEF VolumeOK, w, x

\* What only concerns the contents of files.
LEMMA VolumeStored ==
  ASSUME NEW v, VolumeOK(v), NEW w \in Volumes, WindowOn(w, Meta),
         SameMeta(v.disk, w.disk), SameMeta(View(v), View(w))
  PROVE  VolumeOK(w)
<1>1. Good(w.disk)
  BY GoodSame DEF VolumeOK
<1>2. FatTyped(View(w))
  BY MetaSame DEF FatTyped, SameFat, VolumeOK
<1>3. QED
  BY <1>1, <1>2 DEF VolumeOK

LEMMA VolumeLast ==
  ASSUME NEW v, VolumeOK(v), NEW n \in 0..n_fatent
  PROVE  LET w == [v EXCEPT !.last = n]
         IN  VolumeOK(w) /\ View(w) = View(v) /\ w.winsect = v.winsect
<1> DEFINE w == [v EXCEPT !.last = n]
<1>1. /\ w \in Volumes /\ w.disk = v.disk /\ w.win = v.win
      /\ w.winsect = v.winsect /\ w.wflag = v.wflag
  BY DEF VolumeOK, Volumes
<1> HIDE DEF w
<1>2. View(w) = View(v) /\ WindowOn(w, Meta)
  BY <1>1 DEF View, WindowOn, VolumeOK
<1>3. QED
  BY <1>1, <1>2 DEF VolumeOK, w

LEMMA VolumeMounted ==
  ASSUME NEW disk \in Images, Good(disk)
  PROVE  VolumeOK(Mounted(disk)) /\ View(Mounted(disk)) = disk
<1>1. Blank \in [Units -> Nat] /\ 0 \in 0..n_fatent /\ 0 \notin Meta
  BY Layout DEF Blank, Meta
<1>2. Mounted(disk) \in Volumes /\ View(Mounted(disk)) = disk /\ WindowOn(Mounted(disk), Meta)
  BY <1>1 DEF Mounted, Volumes, View, WindowOn, Images
<1>3. QED
  BY <1>2 DEF VolumeOK, Good, Mounted

-----------------------------------------------------------------------------
(***************************************************************************)
(* What the steps do to the chains: of the files, only the one that the    *)
(* call is about is concerned.                                             *)
(***************************************************************************)
LEMMA OtherKept ==
  ASSUME NEW file, NEW ch, NEW f, NEW g, g # f,
         NEW c, c.f = f \/ c.at = "idle", NEW d, d.f = f \/ d.at = "idle",
         FileOK(file, c, g, ch)
  PROVE  FileOK(file, d, g, ch)
<1>1. ~Joining(c, g) /\ ~Filling(c, g) /\ ~Joining(d, g) /\ ~Filling(d, g)
  BY DEF Joining, Filling, InSector
<1>2. QED
  BY <1>1 DEF FileOK

\* A step that leaves the FAT and the directory alone may forget a chain, and keeps
\* one that is recorded.
LEMMA QuietStep ==
  ASSUME NEW V, NEW h, NEW c, NEW chain \in [Files -> Chains], Links(V, h, c, chain),
         NEW f \in Files, c.f = f \/ c.at = "idle",
         NEW W, NEW i, NEW d, d.f = f \/ d.at = "idle",
         SameFat(V, W), SameDir(V, W), \A g \in Files \ {f} : i[g] = h[g],
         Root(W, i, d, f) \in {Root(V, h, c, f), StartOf(V, f)},
         FileOK(i[f], d, f, chain[f]),
         OpenOK(W, i[d.f], d), TransferOK(i[d.f], d),
         ChainOK(W, Roots(W, i, d), i[d.f], d, chain)
  PROVE  Linked(W, i, d)
<1>1. \A g \in Files : StartOf(W, g) = StartOf(V, g)
  BY DEF SameDir
<1>2. ASSUME NEW g \in Files \ {f}
      PROVE  FileOK(i[g], d, g, chain[g]) /\ Root(W, i, d, g) = Root(V, h, c, g)
  <2>1. g # f /\ g \in Files /\ i[g] = h[g] /\ StartOf(W, g) = StartOf(V, g)
    BY <1>1
  <2>2. FileOK(h[g], c, g, chain[g])
    BY DEF Links
  <2>3. FileOK(h[g], d, g, chain[g])
    BY <2>1, <2>2, OtherKept
  <2>4. Root(W, i, d, g) = Root(V, h, c, g)
    BY <2>1 DEF Root
  <2>5. QED
    BY <2>1, <2>3, <2>4
<1>3. FsOK(V, Roots(V, h, c), chain)
  BY DEF Links
<1>4. FsOK(W, Roots(V, h, c), chain)
  BY <1>3, FsSame
<1>5. \A g \in Files : StartOf(W, g) \in Clusters => StartOf(W, g) = Root(V, h, c, g)
  BY <1>4 DEF FsOK, DirOK, Roots
<1>6. \A g \in Files : Roots(W, i, d)[g] \in Clusters => Roots(W, i, d)[g] = Roots(V, h, c)[g]
  BY <1>1, <1>2, <1>5 DEF Roots
<1>7. \A g \in Files : StartOf(W, g) \in Clusters => Roots(W, i, d)[g] = StartOf(W, g)
  BY <1>1, <1>2, <1>5 DEF Roots
<1>8. FsOK(W, Roots(W, i, d), chain)
  BY <1>4, <1>6, <1>7, FsDrop
<1>9. QED
  BY <1>2, <1>8 DEF Linked, Links

\* One that also keeps the roots.
LEMMA SameRoots ==
  ASSUME NEW V, NEW h, NEW c, NEW chain, Links(V, h, c, chain),
         NEW f \in Files, c.f = f \/ c.at = "idle",
         NEW W, NEW i, NEW d, d.f = f \/ d.at = "idle",
         SameDir(V, W), \A g \in Files \ {f} : i[g] = h[g],
         Root(W, i, d, f) = Root(V, h, c, f)
  PROVE  Roots(W, i, d) = Roots(V, h, c)
<1>1. \A g \in Files : StartOf(W, g) = StartOf(V, g)
  BY DEF SameDir
<1>2. \A g \in Files \ {f} : Root(W, i, d, g) = Root(V, h, c, g)
  BY <1>1 DEF Root
<1>3. QED
  BY <1>2 DEF Roots

\* The end of a call, with the FIL as it is then.
LEMMA IdleOK ==
  ASSUME NEW V, NEW r, NEW file, NEW chain
  PROVE  OpenOK(V, file, Idle) /\ TransferOK(file, Idle) /\ ChainOK(V, r, file, Idle, chain)
BY DEF Idle, OpenOK, TransferOK, ChainOK, Opening, Transferring, InSector

LEMMA DoneStep ==
  ASSUME call \in Calls, handle \in [Files -> FILs],
         NEW chain \in [Files -> Chains], Links(View(volume), handle, call, chain),
         NEW file \in FILs, Done(file),
         SameFat(View(volume), View(volume')), SameDir(View(volume), View(volume')),
         WritesOn(file) => file.org \in {Root(View(volume), handle, call, call.f),
                                         StartOf(View(volume), call.f)},
         FileOK(file, Idle, call.f, chain[call.f])
  PROVE  /\ call' \in Calls /\ handle' \in [Files -> FILs]
         /\ handle'[call.f] = file /\ \A g \in Files \ {call.f} : handle'[g] = handle[g]
         /\ WindowAt(volume', call')
         /\ Linked(View(volume'), handle', call')
<1>1. /\ call' = Idle /\ handle' \in [Files -> FILs] /\ call.f \in Files
      /\ handle'[call.f] = file /\ \A g \in Files \ {call.f} : handle'[g] = handle[g]
  BY DEF Done, Calls
<1>2. Idle \in Calls
  BY DEF Idle, Calls, Files
<1>3. Root(View(volume'), handle', Idle, call.f)
        \in {Root(View(volume), handle, call, call.f), StartOf(View(volume), call.f)}
  BY <1>1 DEF Root, Idle, SameDir
<1>4. Idle.at = "idle"
  BY DEF Idle
<1>5. Linked(View(volume'), handle', Idle)
  BY <1>1, <1>3, <1>4, IdleOK, QuietStep
<1>6. WindowAt(volume', Idle)
  BY <1>4 DEF WindowAt
<1>7. QED
  BY <1>1, <1>2, <1>5, <1>6

LEMMA SameView ==
  ASSUME NEW V, NEW W, W = V
  PROVE  SameFat(V, W) /\ SameDir(V, W)
BY DEF SameFat, SameDir

LEMMA ClosedOK ==
  ASSUME NEW c, NEW f, NEW ch
  PROVE  FileOK(Closed, c, f, ch) /\ Closed \in FILs /\ ~WritesOn(Closed) /\ Closed.cur # LastLink
<1>1. 0 % SS = 0
  BY DivModUnique
<1>2. FileOK(Closed, c, f, ch)
  BY <1>1 DEF FileOK, Closed, WritesOn
<1>3. Closed \in FILs
  BY DEF Closed, FILs
<1>4. QED
  BY <1>2, <1>3, Layout DEF Closed, WritesOn, LastLink

\* An error within a call.
LEMMA AbortOK ==
  ASSUME NEW file \in FILs, NEW c, NEW d, NEW f, NEW ch, FileOK(file, c, f, ch)
  PROVE  LET bad == [file EXCEPT !.error = TRUE]
         IN  FileOK(bad, d, f, ch) /\ bad \in FILs /\ (WritesOn(bad) <=> WritesOn(file)) /\ bad.org = file.org
<1> DEFINE bad == [file EXCEPT !.error = TRUE]
<1>1. /\ bad \in FILs /\ bad.error = TRUE /\ bad.mode = file.mode /\ bad.written = file.written
      /\ bad.org = file.org /\ bad.size = file.size /\ bad.ptr = file.ptr /\ bad.cur = file.cur
      /\ bad.dsect = file.dsect
  BY DEF FILs
<1> HIDE DEF bad
<1>2. FileOK(bad, d, f, ch)
  BY <1>1 DEF FileOK, WritesOn
<1>3. QED
  BY <1>1, <1>2 DEF bad, WritesOn

-----------------------------------------------------------------------------
(***************************************************************************)
(* f_open.                                                                 *)
(***************************************************************************)
LEMMA OpenInv ==
  ASSUME FatInv, NEW f \in Files, NEW mode \in {"create", "read", "update"}, Open(f, mode)
  PROVE  FatInv'
<1>1. /\ TypeOK /\ VolumeOK(volume) /\ call \in Calls /\ handle \in [Files -> FILs]
      /\ call.at = "idle" /\ handle[f].mode = "closed"
      /\ call' = [Idle EXCEPT !.at = "follow", !.op = mode, !.f = f, !.c = DirSector(0)]
      /\ volume' = volume /\ handle' = handle
  BY DEF FatInv, Open, TypeOK
<1>2. PICK chain \in [Files -> Chains] : Links(View(volume), handle, call, chain)
  BY DEF FatInv, Linked
<1>3. call' \in Calls /\ call'.at = "follow" /\ call'.f = f /\ call'.op = mode /\ call'.c = DirSector(0)
  <2>1. call' = [at |-> "follow", op |-> mode, f |-> f, n |-> 0, c |-> DirSector(0), scl |-> 0]
    BY <1>1 DEF Idle
  <2>2. DirSector(0) \in Nat /\ 0 \in 0..MaxSize /\ 0 \in Nat
    BY Layout
  <2>3. QED
    BY <2>1, <2>2 DEF Calls
<1>4. TypeOK'
  BY <1>1, <1>3, SMTT(30) DEF Open, TypeOK
<1>5. Linked(View(volume), handle, call')
  <2>1. Root(View(volume), handle, call', f) = Root(View(volume), handle, call, f)
    BY <1>1, <1>3 DEF Root
  <2>2. FileOK(handle[f], call', f, chain[f])
    BY <1>1, <1>2, <1>3 DEF Links, FileOK, WritesOn
  <2>3. OpenOK(View(volume), handle[call'.f], call')
    BY <1>1, <1>3, DirAt, Layout DEF OpenOK, Opening, Meta
  <2>4. TransferOK(handle[call'.f], call')
    BY <1>3 DEF TransferOK, Transferring, InSector
  <2>5. ChainOK(View(volume), Roots(View(volume), handle, call'), handle[call'.f], call', chain)
    BY <1>3 DEF ChainOK, InSector
  <2>6. SameFat(View(volume), View(volume)) /\ SameDir(View(volume), View(volume))
    BY DEF SameFat, SameDir
  <2>7. QED
    BY <1>1, <1>2, <1>3, <2>1, <2>2, <2>3, <2>4, <2>5, <2>6, QuietStep
<1>6. QED
  BY <1>1, <1>3, <1>4, <1>5 DEF FatInv, WindowAt

\* A step that goes on with the call.
LEMMA OnStep ==
  ASSUME call \in Calls, handle \in [Files -> FILs],
         NEW chain \in [Files -> Chains], Links(View(volume), handle, call, chain),
         SameFat(View(volume), View(volume')), SameDir(View(volume), View(volume')),
         handle' = handle, call' \in Calls, call'.f = call.f,
         call.at # "unlink" \/ StartOf(View(volume), call.f) \notin Clusters,
         call'.at # "unlink",
         FileOK(fp, call', call.f, chain[call.f]),
         OpenOK(View(volume'), fp, call'), TransferOK(fp, call'),
         ChainOK(View(volume'), Roots(View(volume'), handle, call'), fp, call', chain)
  PROVE  Linked(View(volume'), handle', call')
<1>1. call.f \in Files
  BY DEF Calls
<1>2. Root(View(volume'), handle, call', call.f)
        \in {Root(View(volume), handle, call, call.f), StartOf(View(volume), call.f)}
  BY <1>1 DEF Root, SameDir
<1>3. QED
  BY <1>1, <1>2, QuietStep DEF fp

LEMMA SureType ==
  ASSUME sure \in [Files -> BOOLEAN], NEW file, Failed(file)
  PROVE  sure' \in [Files -> BOOLEAN] /\ Done(file)
BY Zenon DEF Failed

LEMMA OpenFailed ==
  ASSUME FatInv, call.at \in Opening, VolumeOK(volume'),
         SameFat(View(volume), View(volume')), SameDir(View(volume), View(volume')),
         Failed(Closed), UNCHANGED <<held, gen, misread>>, faults' \in 0..MaxFaults
  PROVE  FatInv'
<1>1. TypeOK /\ call \in Calls /\ handle \in [Files -> FILs]
  BY DEF FatInv, TypeOK
<1>2. PICK chain \in [Files -> Chains] : Links(View(volume), handle, call, chain)
  BY DEF FatInv, Linked
<1>3. Done(Closed) /\ sure' \in [Files -> BOOLEAN]
  BY <1>1, SureType DEF TypeOK
<1>4. /\ call' \in Calls /\ handle' \in [Files -> FILs]
      /\ handle'[call.f] = Closed /\ \A g \in Files \ {call.f} : handle'[g] = handle[g]
      /\ WindowAt(volume', call') /\ Linked(View(volume'), handle', call')
  BY <1>1, <1>2, <1>3, ClosedOK, DoneStep
<1>5. \A f \in Files : handle'[f].cur = LastLink => handle'[f].error
  BY <1>1, <1>4, ClosedOK DEF TypeOK
<1>6. TypeOK'
  BY <1>1, <1>3, <1>4, <1>5 DEF TypeOK, VolumeOK
<1>7. QED
  BY <1>4, <1>6 DEF FatInv

LEMMA FollowPathInv ==
  ASSUME "torn" \notin Kinds, FatInv, FollowPath
  PROVE  FatInv'
<1>1. /\ TypeOK /\ VolumeOK(volume) /\ call \in Calls /\ handle \in [Files -> FILs]
      /\ call.at = "follow" /\ Good(View(volume)) /\ call.f \in Files
  BY LinkedGood DEF FatInv, FollowPath, TypeOK, Calls
<1>2. PICK chain \in [Files -> Chains] : Links(View(volume), handle, call, chain)
  BY DEF FatInv, Linked
<1>3. /\ call.c \in DirSector(0)..DirSector(call.f) /\ fp.mode = "closed"
      /\ call.op \in {"create", "update", "read"}
  BY <1>1, <1>2 DEF Links, OpenOK, Opening, fp
<1>4. call.c \in Sectors /\ call.c # 0
  BY <1>1, <1>3, Layout, DirAt DEF Sectors
<1>5. ASSUME volume' = Moved(volume, call.c), Right, UNCHANGED <<handle, sure, held, gen, misread>>,
             \/ call.c < DirSector(call.f) /\ GotoWith("follow", call.c + 1)
             \/ call.c = DirSector(call.f) /\ Goto(IF call.op = "create" THEN "empty" ELSE "opened")
      PROVE  FatInv'
  <2>1. VolumeOK(volume') /\ View(volume') = View(volume) /\ volume'.winsect = call.c
    BY <1>1, <1>4, <1>5, VolumeMoved
  <2>2. /\ call' \in Calls /\ call'.f = call.f /\ call'.op = call.op
        /\ \/ call'.at = "follow" /\ call'.c \in DirSector(0)..DirSector(call.f)
           \/ call'.at = "empty" /\ call.op = "create" /\ call.c = DirSector(call.f)
           \/ call'.at = "opened" /\ call.op # "create" /\ call.c = DirSector(call.f)
    <3>1. DirSector(0) \in Nat /\ DirSector(call.f) \in Nat /\ call.c \in Nat
      BY <1>1, <1>3, Layout, DirAt DEF Meta
    <3>2. CASE call.c < DirSector(call.f) /\ GotoWith("follow", call.c + 1)
      <4>1. call.c + 1 \in DirSector(0)..DirSector(call.f) /\ call.c + 1 \in Nat
        BY <1>3, <3>1, <3>2
      <4>2. call' = [call EXCEPT !.at = "follow", !.c = call.c + 1]
        BY <3>2 DEF GotoWith
      <4>3. QED
        BY <1>1, <4>1, <4>2 DEF Calls
    <3>3. CASE call.c = DirSector(call.f) /\ Goto(IF call.op = "create" THEN "empty" ELSE "opened")
      <4>1. CASE call.op = "create"
        BY <1>1, <3>3, <4>1 DEF Goto, Calls
      <4>2. CASE call.op # "create"
        BY <1>1, <3>3, <4>2 DEF Goto, Calls
      <4>3. QED
        BY <4>1, <4>2
    <3>4. QED
      BY <1>5, <3>2, <3>3
  <2>3. FileOK(fp, call', call.f, chain[call.f])
    BY <1>1, <1>2, <1>3, <2>2 DEF Links, FileOK, WritesOn, fp
  <2>4. OpenOK(View(volume'), fp, call')
    BY <1>3, <2>2 DEF OpenOK, Opening
  <2>5. TransferOK(fp, call')
    BY <2>2 DEF TransferOK, Transferring, InSector
  <2>6. ChainOK(View(volume'), Roots(View(volume'), handle, call'), fp, call', chain)
    BY <2>2 DEF ChainOK, InSector
  <2>7. Linked(View(volume'), handle', call')
    BY <1>1, <1>2, <1>5, <2>1, <2>2, <2>3, <2>4, <2>5, <2>6, SameView, OnStep
  <2>8. WindowAt(volume', call')
    BY <2>1, <2>2 DEF WindowAt
  <2>9. TypeOK'
    BY <1>1, <1>5, <2>1, <2>2 DEF TypeOK, VolumeOK, Right
  <2>10. QED
    BY <2>1, <2>7, <2>8, <2>9 DEF FatInv
<1>6. ASSUME volume' \in Unmoved(volume, call.c), Wrong, Failed(Closed), UNCHANGED <<held, gen, misread>>
      PROVE  FatInv'
  <2>1. VolumeOK(volume') /\ View(volume') = View(volume)
    BY <1>1, <1>4, <1>6, VolumeUnmoved
  <2>2. faults' \in 0..MaxFaults
    BY <1>1, <1>6 DEF TypeOK, Wrong
  <2>3. QED
    BY <1>1, <1>6, <2>1, <2>2, OpenFailed, SameView DEF Opening
<1>7. QED
  BY <1>5, <1>6 DEF FollowPath

\* A step that changes the FAT, or the entry of f in the directory: ichain are the
\* chains then, and r is where they begin.
LEMMA MetaStep ==
  ASSUME NEW V, NEW h, NEW c, NEW chain, Links(V, h, c, chain),
         NEW f \in Files, c.f = f \/ c.at = "idle",
         NEW W, NEW i, NEW d, NEW ichain \in [Files -> Chains], d.f = f \/ d.at = "idle",
         \A g \in Files \ {f} : i[g] = h[g] /\ ichain[g] = chain[g] /\ StartOf(W, g) = StartOf(V, g),
         NEW r, FsOK(W, r, ichain), \A g \in Files \ {f} : r[g] = Root(V, h, c, g),
         Root(W, i, d, f) \in Clusters => Root(W, i, d, f) = r[f],
         StartOf(W, f) \in Clusters => Root(W, i, d, f) = StartOf(W, f),
         FileOK(i[f], d, f, ichain[f]),
         OpenOK(W, i[d.f], d), TransferOK(i[d.f], d),
         ChainOK(W, Roots(W, i, d), i[d.f], d, ichain)
  PROVE  Linked(W, i, d)
<1>1. ASSUME NEW g \in Files \ {f}
      PROVE  FileOK(i[g], d, g, ichain[g]) /\ Root(W, i, d, g) = Root(V, h, c, g)
  <2>1. /\ g # f /\ g \in Files /\ i[g] = h[g] /\ ichain[g] = chain[g]
        /\ StartOf(W, g) = StartOf(V, g)
    OBVIOUS
  <2>2. FileOK(h[g], c, g, chain[g])
    BY DEF Links
  <2>3. FileOK(h[g], d, g, chain[g])
    BY <2>1, <2>2, OtherKept
  <2>4. Root(W, i, d, g) = Root(V, h, c, g)
    BY <2>1 DEF Root
  <2>5. QED
    BY <2>1, <2>3, <2>4
<1>2. \A g \in Files : StartOf(W, g) \in Clusters => StartOf(W, g) = r[g]
  BY DEF FsOK, DirOK
<1>3. \A g \in Files : Roots(W, i, d)[g] \in Clusters => Roots(W, i, d)[g] = r[g]
  BY <1>1 DEF Roots
<1>4. \A g \in Files : StartOf(W, g) \in Clusters => Roots(W, i, d)[g] = StartOf(W, g)
  BY <1>1, <1>2 DEF Roots
<1>5. FsOK(W, Roots(W, i, d), ichain)
  BY <1>3, <1>4, FsDrop
<1>6. QED
  BY <1>1, <1>5 DEF Linked, Links

LEMMA WindowShows ==
  ASSUME NEW v, VolumeOK(v), v.winsect \in Meta
  PROVE  View(v)[v.winsect] = v.win
BY Layout DEF VolumeOK, View, WindowOn, Volumes

LEMMA TruncateInv ==
  ASSUME FatInv, Truncate
  PROVE  FatInv'
<1> DEFINE f == call.f
           V == View(volume)
           W == View(volume')
           cl == volume.win[ClustAt(f)]
<1>1. /\ TypeOK /\ VolumeOK(volume) /\ call \in Calls /\ handle \in [Files -> FILs]
      /\ call.at = "empty" /\ f \in Files /\ volume.winsect = DirSector(f)
      /\ volume' = Poke(Poke(volume, SizeAt(f), 0), ClustAt(f), 0)
      /\ UNCHANGED <<held, gen, misread, faults>>
  BY DEF FatInv, Truncate, TypeOK, Calls, WindowAt, Emptied
<1>2. PICK chain \in [Files -> Chains] : Links(V, handle, call, chain)
  BY DEF FatInv, Linked
<1>3. handle[f].mode = "closed" /\ call.op = "create"
  BY <1>1, <1>2 DEF Links, OpenOK, Opening
<1>4. /\ VolumeOK(volume') /\ volume'.winsect = DirSector(f)
      /\ SizeOf(W, f) = 0 /\ StartOf(W, f) = 0
      /\ \A g \in Files \ {f} : SizeOf(W, g) = SizeOf(V, g) /\ StartOf(W, g) = StartOf(V, g)
      /\ SameFat(V, W)
  BY <1>1, VolumeDir
<1>5. cl = StartOf(V, f) /\ cl = Root(V, handle, call, f)
  BY <1>1, <1>3, DirAt, WindowShows DEF StartOf, Root, WritesOn
<1> HIDE DEF V, W, cl
<1>6. 0 \in Starts /\ 0 \notin Clusters /\ 0 \in 0..MaxSize
  BY DEF Starts, Clusters
<1>7. FsOK(W, Roots(V, handle, call), chain)
  BY <1>1, <1>2, <1>4, <1>6, FsRecord DEF Links
<1>8. \A g \in Files : Roots(V, handle, call)[g] = Root(V, handle, call, g)
  BY DEF Roots
<1>9. ASSUME NEW i \in [Files -> FILs], NEW d \in Calls, i[f].mode = "closed",
             \A g \in Files \ {f} : i[g] = handle[g],
             d.f = f \/ d.at = "idle", d.at = "unlink" => d.c = cl,
             FileOK(i[f], d, f, chain[f]), OpenOK(W, i[d.f], d), TransferOK(i[d.f], d),
             ChainOK(W, Roots(W, i, d), i[d.f], d, chain)
      PROVE  Linked(W, i, d)
  <2>1. Root(W, i, d, f) \in {0, cl}
    BY <1>1, <1>4, <1>9 DEF Root, WritesOn
  <2>2. StartOf(W, f) \notin Clusters
    BY <1>4, <1>6
  <2>3. QED
    BY <1>1, <1>2, <1>4, <1>5, <1>6, <1>7, <1>8, <1>9, <2>1, <2>2, MetaStep
<1>10. ASSUME call' \in Calls, call'.f = f, call'.op = call.op, handle' = handle, sure' = sure,
              \/ call'.at = "opened"
              \/ call'.at = "unlink" /\ call'.c = cl /\ call'.scl = cl /\ cl \in Clusters
       PROVE  FatInv'
  <2>1. FileOK(handle[f], call', f, chain[f])
    BY <1>1, <1>2, <1>3, <1>10 DEF Links, FileOK, WritesOn
  <2>2. OpenOK(W, handle[f], call')
    BY <1>3, <1>4, <1>10 DEF OpenOK, Opening
  <2>3. TransferOK(handle[f], call')
    BY <1>10 DEF TransferOK, Transferring, InSector
  <2>4. ChainOK(W, Roots(W, handle, call'), handle[f], call', chain)
    BY <1>10 DEF ChainOK, InSector
  <2>5. Linked(W, handle, call')
    BY <1>1, <1>3, <1>9, <1>10, <2>1, <2>2, <2>3, <2>4
  <2>6. WindowAt(volume', call')
    BY <1>4, <1>10 DEF WindowAt
  <2>7. TypeOK'
    BY <1>1, <1>4, <1>10 DEF TypeOK, VolumeOK
  <2>8. QED
    BY <1>4, <1>10, <2>5, <2>6, <2>7 DEF FatInv, W
<1>11. ASSUME Failed(Closed)
       PROVE  FatInv'
  <2>1. Done(Closed) /\ sure' \in [Files -> BOOLEAN]
    BY <1>1, <1>11, SureType DEF TypeOK
  <2>2. /\ call' = Idle /\ handle' \in [Files -> FILs]
        /\ handle'[f] = Closed /\ \A g \in Files \ {f} : handle'[g] = handle[g]
    BY <1>1, <2>1, ClosedOK DEF Done
  <2>3. Idle \in Calls /\ Idle.at = "idle" /\ Closed.mode = "closed"
    BY DEF Idle, Calls, Files, Closed
  <2>4. Linked(W, handle', call')
    BY <1>9, <2>2, <2>3, IdleOK, ClosedOK
  <2>5. \A g \in Files : handle'[g].cur = LastLink => handle'[g].error
    BY <1>1, <2>2, ClosedOK DEF TypeOK
  <2>6. TypeOK'
    BY <1>1, <1>4, <2>1, <2>2, <2>3, <2>5 DEF TypeOK, VolumeOK
  <2>7. WindowAt(volume', call')
    BY <2>2, <2>3 DEF WindowAt
  <2>8. QED
    BY <1>4, <2>4, <2>6, <2>7 DEF FatInv, W
<1>12. /\ \/ cl = 0 /\ Goto("opened") /\ UNCHANGED <<handle, sure>>
          \/ /\ cl \in Clusters /\ call' = [call EXCEPT !.at = "unlink", !.c = cl, !.scl = cl]
             /\ UNCHANGED <<handle, sure>>
          \/ Failed(Closed)
  BY DEF Truncate, cl
<1>13. CASE cl = 0 /\ Goto("opened") /\ UNCHANGED <<handle, sure>>
  BY <1>1, <1>10, <1>13 DEF Goto, Calls
<1>14. CASE /\ cl \in Clusters /\ call' = [call EXCEPT !.at = "unlink", !.c = cl, !.scl = cl]
            /\ UNCHANGED <<handle, sure>>
  <2>1. cl \in Nat
    BY <1>14 DEF Clusters
  <2>2. /\ call' \in Calls /\ call'.f = f /\ call'.op = call.op /\ call'.at = "unlink"
        /\ call'.c = cl /\ call'.scl = cl
    BY <1>1, <1>14, <2>1 DEF Calls
  <2>3. QED
    BY <1>10, <1>14, <2>2
<1>15. QED
  BY <1>11, <1>12, <1>13, <1>14

LEMMA RootsType ==
  ASSUME NEW V, NEW h \in [Files -> FILs], NEW c \in Calls, NEW chain, Links(V, h, c, chain)
  PROVE  Roots(V, h, c) \in [Files -> Nat]
<1>1. Starts \subseteq Nat
  BY Layout DEF Starts, DiskErr, Clusters
<1>2. ASSUME NEW f \in Files
      PROVE  Root(V, h, c, f) \in Nat
  <2>1. h[f].org \in Starts
    BY DEF FILs, Starts
  <2>2. StartOf(V, f) \in Starts
    BY DEF Links, FsOK, DirOK
  <2>3. c.c \in Nat
    BY DEF Calls
  <2>4. QED
    BY <1>1, <2>1, <2>2, <2>3 DEF Root
<1>3. QED
  BY <1>2 DEF Roots

\* What move_window shows of the FAT.
LEMMA EntrySeen ==
  ASSUME NEW v, VolumeOK(v), Good(View(v)), NEW c \in Clusters
  PROVE  LET w == Moved(v, FatSector(c))
         IN  /\ VolumeOK(w) /\ View(w) = View(v) /\ w.winsect = FatSector(c) /\ w.last = v.last
             /\ w.win[c % SS] = Entry(View(v), c)
             /\ w.win[c % SS] \in {0, LastLink} \cup Clusters
<1> DEFINE w == Moved(v, FatSector(c))
<1>1. FatSector(c) \in Meta /\ FatSector(c) \in Sectors \cup {0} /\ FatSector(c) # 0
  BY EntryAt, Layout DEF Meta
<1>2. /\ VolumeOK(w) /\ View(w) = View(v) /\ w.winsect = FatSector(c) /\ w.last = v.last
      /\ w.win = View(v)[FatSector(c)]
  BY <1>1, VolumeMoved
<1>3. QED
  BY <1>2 DEF Entry, Good, FatTyped

LEMMA RemoveChainInv ==
  ASSUME "torn" \notin Kinds, FatInv, RemoveChain
  PROVE  FatInv'
<1> DEFINE f == call.f
           c == call.c
           V == View(volume)
           v == Moved(volume, FatSector(c))
           nxt == v.win[c % SS]
<1>1. /\ TypeOK /\ VolumeOK(volume) /\ call \in Calls /\ handle \in [Files -> FILs]
      /\ call.at = "unlink" /\ f \in Files /\ Good(V)
      /\ UNCHANGED <<held, gen, misread>>
  BY LinkedGood DEF FatInv, RemoveChain, TypeOK, Calls
<1>2. PICK chain \in [Files -> Chains] : Links(V, handle, call, chain)
  BY DEF FatInv, Linked
<1>3. /\ handle[f].mode = "closed" /\ call.op = "create" /\ StartOf(V, f) = 0
      /\ c \in Clusters /\ call.scl \in Clusters
  BY <1>1, <1>2 DEF Links, OpenOK, Opening
<1>4. Root(V, handle, call, f) = c /\ Roots(V, handle, call)[f] = c
  BY <1>1, <1>3 DEF Root, Roots, WritesOn
<1>5. /\ VolumeOK(v) /\ View(v) = V /\ v.winsect = FatSector(c) /\ nxt = Entry(V, c)
  BY <1>1, <1>3, EntrySeen
<1> DEFINE W == View(volume')
           root == Roots(V, handle, call)
<1>6. root \in [Files -> Nat] /\ FsOK(V, root, chain) /\ root[f] = c
  BY <1>1, <1>2, <1>4, RootsType DEF Links
<1>7. FatSector(c) \in Sectors \cup {0}
  BY <1>3, EntryAt
<1>8. 0 \notin Clusters /\ LastLink \notin Clusters
  BY Layout DEF Clusters, LastLink
<1> HIDE DEF V, v, nxt, W, root, f, c
<1>9. ASSUME volume' = IF nxt < 2 THEN v ELSE Poke(v, c % SS, 0), Right,
             IF nxt = 1 THEN Failed(Closed)
             ELSE /\ GotoWith(IF nxt \in Clusters THEN "unlink" ELSE "reuse", nxt)
                  /\ UNCHANGED <<handle, sure>>
      PROVE  FatInv'
  <2>1. nxt \in Clusters \cup {LastLink}
    <3>1. OnlyEntry(V, V, c)
      BY DEF OnlyEntry, SameDir
    <3>2. QED
      BY <1>1, <1>3, <1>5, <1>6, <3>1, FsUnlink
  <2>2. nxt \in Nat /\ ~(nxt < 2)
    BY <2>1, Layout DEF Clusters, LastLink
  <2>3. volume' = Poke(v, c % SS, 0)
    BY <1>9, <2>2
  <2>4. VolumeOK(volume') /\ OnlyEntry(V, W, c)
    <3>1. 0 \in {0, LastLink} \cup Clusters
      OBVIOUS
    <3>2. QED
      BY <1>3, <1>5, <2>3, <3>1, VolumeEntry DEF W
  <2>5. /\ call' \in Calls /\ call'.f = f /\ call'.op = call.op /\ handle' = handle /\ sure' = sure
        /\ call'.c = nxt /\ call'.scl = call.scl
        /\ call'.at = IF nxt \in Clusters THEN "unlink" ELSE "reuse"
    <3>1. ~(nxt = 1)
      BY <2>2
    <3>2. /\ call' = [call EXCEPT !.at = IF nxt \in Clusters THEN "unlink" ELSE "reuse", !.c = nxt]
          /\ handle' = handle /\ sure' = sure
      BY <1>9, <3>1 DEF GotoWith
    <3>3. CASE nxt \in Clusters
      BY <1>1, <2>2, <3>2, <3>3 DEF Calls, f
    <3>4. CASE nxt \notin Clusters
      BY <1>1, <2>2, <3>2, <3>4 DEF Calls, f
    <3>5. QED
      BY <3>3, <3>4
  <2>6. \A g \in Files : StartOf(W, g) = StartOf(V, g)
    BY <2>4 DEF OnlyEntry, SameDir
  <2>7. FileOK(handle[f], call', f, chain[f])
    BY <1>1, <1>2, <1>3 DEF Links, FileOK, WritesOn
  <2>8. OpenOK(W, handle[f], call')
    BY <1>3, <2>5, <2>6, <1>1 DEF OpenOK, Opening
  <2>9. TransferOK(handle[f], call')
    BY <2>5 DEF TransferOK, Transferring, InSector
  <2>10. \A ich : ChainOK(W, Roots(W, handle, call'), handle[f], call', ich)
    BY <2>5 DEF ChainOK, InSector
  <2>11. Linked(W, handle, call')
    <3>1. CASE nxt \in Clusters
      <4> DEFINE ichain == [chain EXCEPT ![f] = Tail(chain[f])]
                 r == [root EXCEPT ![f] = nxt]
      <4>1. ichain \in [Files -> Chains] /\ FsOK(W, r, ichain)
        BY <1>1, <1>3, <1>5, <1>6, <2>4, <3>1, FsUnlink
      <4>2. /\ r[f] = nxt /\ \A g \in Files \ {f} : r[g] = Root(V, handle, call, g)
            /\ \A g \in Files \ {f} : ichain[g] = chain[g]
        BY <1>1 DEF root, Roots
      <4> HIDE DEF ichain, r
      <4>3. Root(W, handle, call', f) = nxt
        BY <1>3, <2>5, <3>1 DEF Root, WritesOn
      <4>4. FileOK(handle[f], call', f, ichain[f])
        BY <1>2, <1>3, <1>1 DEF Links, FileOK, WritesOn
      <4>5. StartOf(W, f) \notin Clusters
        BY <1>1, <1>3, <1>8, <2>6
      <4>6. QED
        BY <1>1, <1>2, <2>5, <2>6, <2>8, <2>9, <2>10, <4>1, <4>2, <4>3, <4>4, <4>5, MetaStep DEF f
    <3>2. CASE nxt \notin Clusters
      <4> DEFINE r == [root EXCEPT ![f] = 0]
      <4>1. FsOK(W, r, chain)
        BY <1>1, <1>3, <1>5, <1>6, <2>4, FsUnlink
      <4>2. r[f] = 0 /\ \A g \in Files \ {f} : r[g] = Root(V, handle, call, g)
        BY <1>1, <1>6 DEF root, Roots
      <4> HIDE DEF r
      <4>3. Root(W, handle, call', f) = 0
        BY <1>1, <1>3, <2>5, <2>6, <3>2 DEF Root, WritesOn
      <4>4. StartOf(W, f) \notin Clusters
        BY <1>1, <1>3, <1>8, <2>6
      <4>5. QED
        BY <1>1, <1>2, <1>8, <2>5, <2>6, <2>7, <2>8, <2>9, <2>10, <4>1, <4>2, <4>3, <4>4, MetaStep DEF f
    <3>3. QED
      BY <3>1, <3>2
  <2>12. TypeOK'
    BY <1>1, <1>9, <2>4, <2>5 DEF TypeOK, VolumeOK, Right
  <2>13. WindowAt(volume', call')
    BY <2>5 DEF WindowAt
  <2>14. QED
    BY <2>4, <2>5, <2>11, <2>12, <2>13 DEF FatInv, W
<1>10. ASSUME volume' \in Unmoved(volume, FatSector(c)), Wrong, Failed(Closed)
       PROVE  FatInv'
  <2>1. VolumeOK(volume') /\ View(volume') = View(volume)
    BY <1>1, <1>7, <1>10, VolumeUnmoved DEF V
  <2>2. faults' \in 0..MaxFaults
    BY <1>1, <1>10 DEF TypeOK, Wrong
  <2>3. QED
    BY <1>1, <1>10, <2>1, <2>2, OpenFailed, SameView DEF Opening
<1>11. QED
  BY <1>9, <1>10 DEF RemoveChain, v, nxt, c

LEMMA ReuseInv ==
  ASSUME "torn" \notin Kinds, FatInv, Reuse
  PROVE  FatInv'
<1> DEFINE v == [volume EXCEPT !.last = call.scl - 1]
<1>1. /\ TypeOK /\ VolumeOK(volume) /\ call \in Calls /\ handle \in [Files -> FILs]
      /\ call.at = "reuse" /\ Good(View(volume)) /\ call.f \in Files
      /\ UNCHANGED <<held, gen, misread>>
  BY LinkedGood DEF FatInv, Reuse, TypeOK, Calls
<1>2. PICK chain \in [Files -> Chains] : Links(View(volume), handle, call, chain)
  BY DEF FatInv, Linked
<1>3. /\ call.scl \in Clusters /\ fp.mode = "closed" /\ call.op = "create"
      /\ StartOf(View(volume), call.f) = 0
  BY <1>1, <1>2 DEF Links, OpenOK, Opening, fp
<1>4. VolumeOK(v) /\ View(v) = View(volume)
  <2>1. call.scl - 1 \in 0..n_fatent
    BY <1>3, Layout DEF Clusters
  <2>2. QED
    BY <1>1, <2>1, VolumeLast
<1>5. DirSector(call.f) \in Sectors /\ DirSector(call.f) # 0
  BY <1>1, DirAt, Layout DEF Meta
<1> HIDE DEF v
<1>6. ASSUME volume' = Moved(v, DirSector(call.f)), Right, Goto("opened"), UNCHANGED <<handle, sure>>
      PROVE  FatInv'
  <2>1. VolumeOK(volume') /\ View(volume') = View(volume) /\ volume'.winsect = DirSector(call.f)
    BY <1>1, <1>4, <1>5, <1>6, VolumeMoved
  <2>2. call' \in Calls /\ call'.f = call.f /\ call'.op = call.op /\ call'.at = "opened"
    BY <1>1, <1>6 DEF Goto, Calls
  <2>3. FileOK(fp, call', call.f, chain[call.f])
    BY <1>1, <1>2, <1>3 DEF Links, FileOK, WritesOn, fp
  <2>4. OpenOK(View(volume'), fp, call')
    BY <1>3, <2>1, <2>2 DEF OpenOK, Opening
  <2>5. TransferOK(fp, call')
    BY <2>2 DEF TransferOK, Transferring, InSector
  <2>6. ChainOK(View(volume'), Roots(View(volume'), handle, call'), fp, call', chain)
    BY <2>2 DEF ChainOK, InSector
  <2>7. Linked(View(volume'), handle', call')
    BY <1>1, <1>2, <1>6, <2>1, <2>2, <2>3, <2>4, <2>5, <2>6, SameView, OnStep
  <2>8. WindowAt(volume', call')
    BY <2>1, <2>2 DEF WindowAt
  <2>9. TypeOK'
    BY <1>1, <1>6, <2>1, <2>2 DEF TypeOK, VolumeOK, Right
  <2>10. QED
    BY <2>1, <2>7, <2>8, <2>9 DEF FatInv
<1>7. ASSUME volume' \in Unmoved(v, DirSector(call.f)), Wrong, Failed(Closed)
      PROVE  FatInv'
  <2>1. VolumeOK(volume') /\ View(volume') = View(volume)
    BY <1>1, <1>4, <1>5, <1>7, VolumeUnmoved
  <2>2. faults' \in 0..MaxFaults
    BY <1>1, <1>7 DEF TypeOK, Wrong
  <2>3. QED
    BY <1>1, <1>7, <2>1, <2>2, OpenFailed, SameView DEF Opening
<1>8. QED
  BY <1>6, <1>7 DEF Reuse, v

\* A chain has room for a cluster.
LEMMA Room ==
  ASSUME NEW ch \in Chains
  PROVE  SSC \in Nat \ {0} /\ Len(ch) * SSC \in Nat /\ Len(ch) * SSC >= SSC
<1>1. Len(ch) \in Nat /\ Len(ch) >= 1
  BY ChainType
<1>2. SSC \in Nat \ {0}
  BY DEF SSC
<1>3. QED
  BY <1>1, <1>2

LEMMA OpenedInv ==
  ASSUME FatInv, Opened
  PROVE  FatInv'
<1> DEFINE f == call.f
           V == View(volume)
           file == [Closed EXCEPT !.mode = call.op, !.written = (call.op = "create"),
                      !.org = volume.win[ClustAt(f)], !.size = volume.win[SizeAt(f)]]
<1>1. /\ TypeOK /\ VolumeOK(volume) /\ call \in Calls /\ handle \in [Files -> FILs]
      /\ call.at = "opened" /\ f \in Files /\ volume.winsect = DirSector(f)
      /\ Done(file) /\ sure' = [sure EXCEPT ![f] = TRUE]
      /\ UNCHANGED <<volume, held, gen, misread, faults>>
  BY DEF FatInv, Opened, TypeOK, Calls, WindowAt
<1>2. PICK chain \in [Files -> Chains] : Links(V, handle, call, chain)
  BY DEF FatInv, Linked
<1>3. /\ call.op \in {"create", "update", "read"}
      /\ call.op = "create" => StartOf(V, f) = 0
  BY <1>1, <1>2 DEF Links, OpenOK, Opening
<1>4. volume.win[ClustAt(f)] = StartOf(V, f) /\ volume.win[SizeAt(f)] = SizeOf(V, f)
  BY <1>1, DirAt, WindowShows DEF StartOf, SizeOf
<1>5. /\ file.mode = call.op /\ file.written = (call.op = "create") /\ file.error = FALSE
      /\ file.org = StartOf(V, f) /\ file.size = SizeOf(V, f)
      /\ file.ptr = 0 /\ file.cur = 0 /\ file.dsect = 0
  BY <1>4 DEF Closed
<1>6. /\ StartOf(V, f) \in Starts /\ SizeOf(V, f) \in 0..MaxSize
      /\ SizeOf(V, f) > 0 => StartOf(V, f) \in Clusters
      /\ StartOf(V, f) \in Clusters => Len(chain[f]) * SSC >= SizeOf(V, f)
  BY <1>1, <1>2 DEF Links, FsOK, DirOK
<1>7. file \in FILs
  <2> DEFINE e(w, o, s) == [Closed EXCEPT !.mode = call.op, !.written = w, !.org = o, !.size = s]
  <2>1. ASSUME NEW w \in BOOLEAN, NEW o \in Starts, NEW s \in 0..MaxSize
        PROVE  e(w, o, s) \in FILs
    BY <1>3, ClosedOK DEF FILs, Starts
  <2>2. file = e(call.op = "create", volume.win[ClustAt(f)], volume.win[SizeAt(f)])
    OBVIOUS
  <2>3. (call.op = "create") \in BOOLEAN
    OBVIOUS
  <2> HIDE DEF file, e
  <2>4. QED
    BY <1>4, <1>6, <2>1, <2>2, <2>3
<1> HIDE DEF file, V
<1>8. 0 % SS = 0 /\ 0 \notin Clusters
  BY DivModUnique DEF Clusters
<1>9. Len(chain[f]) * SSC >= 0
  BY <1>1, Room
<1>10. FileOK(file, Idle, f, chain[f])
  <2>1. file.written => WritesOn(file)
    BY <1>5 DEF WritesOn
  <2>2. StartOf(V, f) \notin Clusters => SizeOf(V, f) = 0
    BY <1>6
  <2>3. QED
    BY <1>3, <1>5, <1>6, <1>8, <1>9, <2>1, <2>2 DEF FileOK
<1>11. /\ call' \in Calls /\ handle' \in [Files -> FILs]
       /\ handle'[f] = file /\ \A g \in Files \ {f} : handle'[g] = handle[g]
       /\ WindowAt(volume', call') /\ Linked(View(volume'), handle', call')
  BY <1>1, <1>2, <1>5, <1>7, <1>10, SameView, DoneStep DEF V
<1>12. \A g \in Files : handle'[g].cur = LastLink => handle'[g].error
  <2>1. file.cur # LastLink
    BY <1>5, Layout DEF LastLink
  <2>2. QED
    BY <1>1, <1>11, <2>1 DEF TypeOK
<1>13. TypeOK'
  BY <1>1, <1>11, <1>12 DEF TypeOK
<1>14. QED
  BY <1>1, <1>11, <1>13 DEF FatInv

-----------------------------------------------------------------------------
(***************************************************************************)
(* f_read and f_write: how they begin, and come to a cluster.              *)
(***************************************************************************)
LEMMA BeginStep ==
  ASSUME call \in Calls, call.at = "idle",
         NEW chain \in [Files -> Chains], Links(View(volume), handle, call, chain),
         NEW f \in Files, call' \in Calls, call'.f = f, call'.at \in {"loop", "record"},
         handle' = handle, volume' = volume,
         TransferOK(handle[f], call')
  PROVE  Linked(View(volume'), handle', call') /\ WindowAt(volume', call')
<1>1. FileOK(handle[f], call, f, chain[f])
  BY DEF Links
<1>2. FileOK(handle[f], call', f, chain[f])
  BY <1>1 DEF FileOK, Joining, Filling, InSector
<1>3. OpenOK(View(volume), handle[f], call')
  BY DEF OpenOK, Opening
<1>4. ChainOK(View(volume), Roots(View(volume), handle, call'), handle[f], call', chain)
  BY DEF ChainOK, InSector
<1>5. Root(View(volume), handle, call', f) = Root(View(volume), handle, call, f)
  BY DEF Root
<1>6. Linked(View(volume), handle, call')
  BY <1>2, <1>3, <1>4, <1>5, SameView, QuietStep
<1>7. QED
  BY <1>6 DEF WindowAt

LEMMA ReadInv ==
  ASSUME FatInv, NEW f \in Files, Read(f)
  PROVE  FatInv'
<1>1. /\ TypeOK /\ VolumeOK(volume) /\ call \in Calls /\ handle \in [Files -> FILs]
      /\ call.at = "idle" /\ handle[f].mode \in {"read", "update"} /\ ~handle[f].error
      /\ UNCHANGED <<volume, handle, held, gen, sure, misread, faults>>
  BY DEF FatInv, Read, TypeOK
<1>2. PICK chain \in [Files -> Chains] : Links(View(volume), handle, call, chain)
  BY DEF FatInv, Linked
<1>3. handle[f].size \in 0..MaxSize /\ handle[f].ptr \in 0..MaxSize
  BY <1>1 DEF FILs
<1>4. PICK m \in Nat : /\ call' = [Idle EXCEPT !.at = "loop", !.op = "get", !.f = f, !.n = m]
                       /\ m > 0 /\ handle[f].ptr + m <= handle[f].size
  <2> DEFINE remain == handle[f].size - handle[f].ptr
             btr(n) == IF n > remain THEN remain ELSE n
  <2>1. PICK n \in Requests :
          btr(n) > 0 /\ call' = [Idle EXCEPT !.at = "loop", !.op = "get", !.f = f, !.n = btr(n)]
    BY DEF Read
  <2>2. n \in Nat /\ remain \in Int
    BY <1>3
  <2>3. btr(n) \in Nat /\ handle[f].ptr + btr(n) <= handle[f].size
    BY <1>3, <2>1, <2>2
  <2> HIDE DEF btr
  <2>4. QED
    BY <2>1, <2>3
<1>5. /\ call' \in Calls /\ call'.at = "loop" /\ call'.f = f /\ call'.op = "get" /\ call'.n = m
  <2>1. call' = [at |-> "loop", op |-> "get", f |-> f, n |-> m, c |-> 0, scl |-> 0]
    BY <1>4 DEF Idle
  <2>2. m \in 0..MaxSize
    BY <1>3, <1>4
  <2>3. QED
    BY <2>1, <2>2 DEF Calls
<1>6. TransferOK(handle[f], call')
  BY <1>1, <1>4, <1>5 DEF TransferOK, Transferring, InSector
<1>7. Linked(View(volume'), handle', call') /\ WindowAt(volume', call')
  BY <1>1, <1>2, <1>5, <1>6, BeginStep
<1>8. TypeOK'
  BY <1>1, <1>5 DEF TypeOK
<1>9. QED
  BY <1>1, <1>7, <1>8 DEF FatInv

LEMMA WriteInv ==
  ASSUME FatInv, NEW f \in Files, Write(f)
  PROVE  FatInv'
<1>1. /\ TypeOK /\ VolumeOK(volume) /\ call \in Calls /\ handle \in [Files -> FILs]
      /\ call.at = "idle" /\ WritesOn(handle[f]) /\ ~handle[f].error
      /\ UNCHANGED <<volume, handle, held, gen, sure, misread, faults>>
  BY DEF FatInv, Write, TypeOK, Writing, WritesOn
<1>2. PICK chain \in [Files -> Chains] : Links(View(volume), handle, call, chain)
  BY DEF FatInv, Linked
<1>3. handle[f].ptr \in 0..MaxSize
  BY <1>1 DEF FILs
<1>4. PICK m \in Nat \ {0} : /\ call' = [Idle EXCEPT !.at = "loop", !.op = "put", !.f = f, !.n = m]
                             /\ handle[f].ptr + m <= IF handle[f].mode = "update" THEN UpdateSize ELSE MaxSize
  BY DEF Write
<1>5. /\ call' \in Calls /\ call'.at = "loop" /\ call'.f = f /\ call'.op = "put" /\ call'.n = m
  <2>1. call' = [at |-> "loop", op |-> "put", f |-> f, n |-> m, c |-> 0, scl |-> 0]
    BY <1>4 DEF Idle
  <2>2. m \in 0..MaxSize
    BY <1>3, <1>4
  <2>3. QED
    BY <2>1, <2>2 DEF Calls
<1>6. TransferOK(handle[f], call')
  BY <1>1, <1>4, <1>5 DEF TransferOK, Transferring, InSector
<1>7. Linked(View(volume'), handle', call') /\ WindowAt(volume', call')
  BY <1>1, <1>2, <1>5, <1>6, BeginStep
<1>8. TypeOK'
  BY <1>1, <1>5 DEF TypeOK
<1>9. QED
  BY <1>1, <1>7, <1>8 DEF FatInv

LEMMA GotoFact ==
  ASSUME call \in Calls, NEW at \in Opening \cup Transferring \cup {"sync"}, Goto(at)
  PROVE  /\ call' \in Calls /\ call'.at = at /\ call'.f = call.f /\ call'.op = call.op
         /\ call'.n = call.n /\ call'.c = call.c /\ call'.scl = call.scl
BY DEF Goto, Calls, Opening, Transferring

LEMMA GotoWithFact ==
  ASSUME call \in Calls, NEW at \in Opening \cup Transferring, NEW c \in Nat, GotoWith(at, c)
  PROVE  /\ call' \in Calls /\ call'.at = at /\ call'.f = call.f /\ call'.op = call.op
         /\ call'.n = call.n /\ call'.c = c /\ call'.scl = call.scl
BY DEF GotoWith, Calls, Opening, Transferring

\* A file that ends with its chain is at the beginning of a sector, and of a cluster.
LEMMA Multiple ==
  ASSUME NEW k \in Nat
  PROVE  (k * SSC) % SSC = 0 /\ (k * SSC) % SS = 0
<1> DEFINE p == k * SSC
           q == CSize * k
<1>1. SSC \in Nat \ {0} /\ p \in Nat /\ q \in Nat
  BY DEF SSC
<1>2. p = SSC * k + 0 /\ p = SS * q + 0
  BY DEF SSC
<1> HIDE DEF p, q
<1>3. p % SSC = 0
  <2>1. 0 \in 0..SSC - 1
    BY <1>1
  <2>2. QED
    BY <1>1, <1>2, <2>1, DivModUnique
<1>4. p % SS = 0
  <2>1. 0 \in 0..SS - 1 /\ SS \in Nat \ {0}
    OBVIOUS
  <2>2. QED
    BY <1>1, <1>2, <2>1, DivModUnique, Zenon
<1>5. QED
  BY <1>3, <1>4 DEF p

LEMMA ClusterStart ==
  ASSUME NEW p \in Nat, p % SSC = 0
  PROVE  p % SS = 0
<1>1. SSC \in Nat \ {0}
  BY DEF SSC
<1>2. PICK k \in Nat : p = SSC * k + 0
  BY <1>1, DivMod
<1>3. p = k * SSC
  BY <1>1, <1>2
<1>4. QED
  BY <1>3, Multiple

\* A file that is written, and not at the beginning of a cluster, is before the end of
\* its chain.
LEMMA Inside ==
  ASSUME NEW file \in FILs, NEW c, NEW f, NEW ch \in Chains, FileOK(file, c, f, ch),
         file.ptr % SSC # 0, WritesOn(file)
  PROVE  file.org \in Clusters /\ file.ptr < Len(ch) * SSC
<1>1. 0 % SSC = 0 /\ (Len(ch) * SSC) % SSC = 0
  BY Multiple, ChainType, DivModUnique, Room
<1>2. file.ptr \in Nat /\ Len(ch) * SSC \in Nat
  BY Room DEF FILs
<1>3. file.org \in Clusters /\ Len(ch) * SSC >= file.ptr
  BY <1>1 DEF FileOK
<1>4. QED
  BY <1>1, <1>2, <1>3

LEMMA IterateInv ==
  ASSUME FatInv, Iterate
  PROVE  FatInv'
<1>1. /\ TypeOK /\ VolumeOK(volume) /\ call \in Calls /\ handle \in [Files -> FILs]
      /\ call.at = "loop" /\ call.n > 0 /\ call.f \in Files /\ fp \in FILs
      /\ UNCHANGED <<volume, handle, held, gen, sure, misread, faults>>
  BY DEF FatInv, Iterate, TypeOK, Calls, fp
<1>2. PICK chain \in [Files -> Chains] : Links(View(volume), handle, call, chain)
  BY DEF FatInv, Linked
<1>3. FileOK(fp, call, call.f, chain[call.f]) /\ TransferOK(fp, call)
  BY <1>1, <1>2 DEF Links, fp
<1>4. /\ ~fp.error /\ (call.op = "put" => WritesOn(fp)) /\ call.op \in {"get", "put"}
      /\ fp.ptr \in Nat /\ fp.org \in Starts
  BY <1>1, <1>3 DEF TransferOK, Transferring, FILs, Starts
<1>5. Starts \subseteq Nat
  BY Layout DEF Starts, DiskErr, Clusters
<1>6. ASSUME call' \in Calls, call'.f = call.f, call'.op = call.op, call'.n = call.n,
             call'.at \in {"next", "find", "join"} \cup InSector,
             TransferOK(fp, call'),
             ChainOK(View(volume), Roots(View(volume), handle, call'), fp, call', chain)
      PROVE  FatInv'
  <2>1. FileOK(fp, call', call.f, chain[call.f])
    BY <1>1, <1>3 DEF FileOK, Joining, Filling, InSector
  <2>2. OpenOK(View(volume), fp, call')
    BY <1>6 DEF OpenOK, Opening, InSector
  <2>3. Linked(View(volume'), handle', call')
    BY <1>1, <1>2, <1>6, <2>1, <2>2, SameView, OnStep DEF InSector
  <2>4. WindowAt(volume', call')
    BY <1>6 DEF WindowAt, InSector
  <2>5. TypeOK'
    BY <1>1, <1>6 DEF TypeOK
  <2>6. QED
    BY <1>1, <2>3, <2>4, <2>5 DEF FatInv
<1>7. 0 % SSC = 0 /\ 0 % SS = 0
  BY DivModUnique, Room, OneIsChain DEF SSC
<1>8. ASSUME NEW at \in {"part", "sector"}, Goto(at), fp.ptr % SSC # 0, fp.ptr % SS = 0 <=> at = "sector"
      PROVE  FatInv'
  <2>1. /\ call' \in Calls /\ call'.at = at /\ call'.f = call.f /\ call'.op = call.op
        /\ call'.n = call.n /\ call'.c = call.c
    BY <1>1, <1>8, GotoFact DEF Transferring
  <2>2. fp.ptr > 0 /\ fp.cur \in Clusters
    BY <1>3, <1>4, <1>7, <1>8 DEF FileOK
  <2>3. at = "part" => fp.dsect \in Data
    BY <1>3, <1>8 DEF FileOK
  <2>4. TransferOK(fp, call')
    BY <1>1, <1>3, <1>8, <2>1, <2>2, <2>3 DEF TransferOK, Transferring, InSector
  <2>5. call.op = "put" => fp.org \in Clusters /\ fp.ptr < Len(chain[call.f]) * SSC
    BY <1>1, <1>3, <1>4, <1>8, Inside
  <2>6. ChainOK(View(volume), Roots(View(volume), handle, call'), fp, call', chain)
    BY <2>1, <2>5 DEF ChainOK, InSector
  <2>7. QED
    BY <1>6, <2>1, <2>4, <2>6 DEF InSector
<1>9. CASE fp.ptr % SS # 0 /\ Goto("part")
  <2>1. fp.ptr % SSC # 0
    BY <1>4, <1>9, ClusterStart
  <2>2. QED
    BY <1>8, <1>9, <2>1
<1>10. CASE fp.ptr % SS = 0 /\ ~OnCluster /\ Goto("sector")
  BY <1>8, <1>10 DEF OnCluster, SSC
<1>11. CASE OnCluster /\ fp.ptr # 0 /\ Goto("next")
  <2>1. /\ call' \in Calls /\ call'.at = "next" /\ call'.f = call.f /\ call'.op = call.op
        /\ call'.n = call.n
    BY <1>1, <1>11, GotoFact DEF Transferring
  <2>2. TransferOK(fp, call')
    BY <1>1, <1>3, <1>4, <1>11, <2>1 DEF TransferOK, Transferring, InSector, OnCluster, SSC
  <2>3. ChainOK(View(volume), Roots(View(volume), handle, call'), fp, call', chain)
    BY <2>1 DEF ChainOK, InSector
  <2>4. QED
    BY <1>6, <2>1, <2>2, <2>3
<1>12. CASE fp.ptr = 0 /\ GotoWith("join", fp.org)
  <2>1. /\ call' \in Calls /\ call'.at = "join" /\ call'.f = call.f /\ call'.op = call.op
        /\ call'.n = call.n /\ call'.c = fp.org
    BY <1>1, <1>4, <1>5, <1>12, GotoWithFact DEF Transferring
  <2>2. TransferOK(fp, call')
    BY <1>1, <1>3, <1>7, <1>12, <2>1 DEF TransferOK, Transferring, InSector
  <2>3. fp.org # LastLink
    BY <1>4, Layout DEF Starts, LastLink, DiskErr, Clusters
  <2>4. ChainOK(View(volume), Roots(View(volume), handle, call'), fp, call', chain)
    BY <1>4, <1>12, <2>1, <2>3 DEF ChainOK, InSector, Starts
  <2>5. QED
    BY <1>6, <2>1, <2>2, <2>4
<1>13. CASE /\ fp.ptr = 0 /\ fp.org = 0 /\ call.op = "put"
            /\ call' = [call EXCEPT !.at = "find", !.c = Suggested, !.scl = Suggested]
  <2>1. Suggested \in 1..n_fatent - 1 /\ Suggested \in Nat
    BY Layout DEF Suggested
  <2>2. /\ call' \in Calls /\ call'.at = "find" /\ call'.f = call.f /\ call'.op = call.op
        /\ call'.n = call.n /\ call'.c = Suggested /\ call'.scl = Suggested
    BY <1>1, <1>13, <2>1 DEF Calls
  <2>3. TransferOK(fp, call')
    BY <1>1, <1>3, <1>13, <2>2 DEF TransferOK, Transferring, InSector
  <2>4. ChainOK(View(volume), Roots(View(volume), handle, call'), fp, call', chain)
    BY <1>13, <2>1, <2>2 DEF ChainOK, InSector
  <2>5. QED
    BY <1>6, <2>2, <2>3, <2>4
<1>14. QED
  BY <1>9, <1>10, <1>11, <1>12, <1>13 DEF Iterate

\* A step within f_read or f_write after which the calls see what they saw before.
LEMMA OnTransfer ==
  ASSUME FatInv, call.at \in Transferring,
         NEW chain \in [Files -> Chains], Links(View(volume), handle, call, chain),
         VolumeOK(volume'), View(volume') = View(volume),
         UNCHANGED <<handle, held, gen, sure, misread>>, faults' \in 0..MaxFaults,
         call' \in Calls, call'.f = call.f, call'.at \in Transferring \ {"link"},
         FileOK(fp, call', call.f, chain[call.f]), TransferOK(fp, call'),
         ChainOK(View(volume), Roots(View(volume), handle, call'), fp, call', chain)
  PROVE  FatInv'
<1>1. TypeOK /\ call \in Calls /\ handle \in [Files -> FILs] /\ handle' = handle
  BY DEF FatInv, TypeOK
<1>2. call.at # "unlink" /\ call'.at # "unlink" /\ call'.at \notin {"empty", "opened", "link"}
      /\ call'.at \notin Opening
  BY DEF Transferring, Opening
<1>3. OpenOK(View(volume'), fp, call')
  BY <1>2 DEF OpenOK, Opening
<1>4. ChainOK(View(volume'), Roots(View(volume'), handle, call'), fp, call', chain)
  OBVIOUS
<1>5. Linked(View(volume'), handle', call')
  BY <1>1, <1>2, <1>3, <1>4, SameView, OnStep
<1>6. WindowAt(volume', call')
  BY <1>2 DEF WindowAt
<1>7. TypeOK'
  BY <1>1 DEF TypeOK, VolumeOK
<1>8. QED
  BY <1>5, <1>6, <1>7 DEF FatInv

\* The last cluster of a chain.
LEMMA EndSays ==
  ASSUME NEW V, NEW c, NEW ch \in Chains, IsChain(V, c, ch)
  PROVE  EndOf(ch) \in Clusters /\ EndOf(ch) \in Range(ch) /\ Entry(V, EndOf(ch)) = LastLink
<1>1. Len(ch) \in DOMAIN ch /\ Len(ch) \in 1..Len(ch)
  BY ChainType
<1>2. QED
  BY <1>1, ChainType, RangeOf DEF EndOf, IsChain

\* f_write asks for the cluster after the last one of a file that is created: an update
\* is not longer than the first cluster.
LEMMA AtEnd ==
  ASSUME UpdateSize <= SSC, NEW V, NEW h \in [Files -> FILs], NEW c \in Calls,
         NEW chain \in [Files -> Chains], Links(V, h, c, chain),
         c.at = "next", c.op = "put"
  PROVE  /\ h[c.f].mode = "create" /\ h[c.f].org \in Clusters
         /\ h[c.f].cur = EndOf(chain[c.f]) /\ Entry(V, h[c.f].cur) = LastLink
<1> DEFINE f == c.f
           file == h[f]
<1>1. f \in Files /\ file \in FILs /\ FileOK(file, c, f, chain[f]) /\ TransferOK(file, c)
  BY DEF Links, Calls
<1>2. /\ ~file.error /\ WritesOn(file) /\ file.ptr > 0 /\ file.ptr % SSC = 0 /\ c.n > 0
      /\ file.ptr + c.n <= IF file.mode = "update" THEN UpdateSize ELSE MaxSize
  BY <1>1 DEF TransferOK, Transferring
<1>3. file.ptr \in Nat /\ c.n \in Nat /\ SSC \in Nat \ {0} /\ UpdateSize \in Nat
  BY <1>1, Room, OneIsChain DEF FILs, Calls, SSC
<1>4. file.ptr >= SSC
  <2> DEFINE p == file.ptr
             k == p \div SSC
  <2>1. p = SSC * k + 0 /\ k \in Nat /\ p > 0
    BY <1>2, <1>3, DivMod
  <2> HIDE DEF p, k
  <2>2. k >= 1
    BY <1>3, <2>1
  <2>3. SSC * k >= SSC
    BY <1>3, <2>1, <2>2
  <2>4. QED
    BY <1>3, <2>1, <2>3 DEF p
<1>5. file.mode = "create"
  BY <1>2, <1>3, <1>4 DEF WritesOn
<1>6. file.org \in Clusters /\ file.cur = EndOf(chain[f])
  BY <1>1, <1>2, <1>5 DEF FileOK, Joining
<1>7. IsChain(V, file.org, chain[f])
  BY <1>1, <1>2, <1>6 DEF Links, FsOK, ChainsOK, Roots, Root
<1>8. QED
  BY <1>1, <1>5, <1>6, <1>7, EndSays

LEMMA AdvanceInv ==
  ASSUME "torn" \notin Kinds, UpdateSize <= SSC, FatInv, Advance
  PROVE  FatInv'
<1>1. /\ TypeOK /\ VolumeOK(volume) /\ call \in Calls /\ handle \in [Files -> FILs]
      /\ call.at = "next" /\ call.f \in Files /\ fp \in FILs /\ Good(View(volume))
      /\ UNCHANGED <<handle, held, gen, sure, misread>>
  BY LinkedGood DEF FatInv, Advance, TypeOK, Calls, fp
<1>2. PICK chain \in [Files -> Chains] : Links(View(volume), handle, call, chain)
  BY DEF FatInv, Linked
<1>3. FileOK(fp, call, call.f, chain[call.f]) /\ TransferOK(fp, call)
  BY <1>1, <1>2 DEF Links, fp
<1>4. /\ ~fp.error /\ fp.ptr > 0 /\ fp.ptr % SSC = 0 /\ fp.ptr \in Nat /\ call.n > 0
      /\ fp.cur \in Clusters
  BY <1>1, <1>3 DEF TransferOK, Transferring, FILs, FileOK
<1>5. fp.ptr % SS = 0
  BY <1>4, ClusterStart
<1>6. call.op = "put" => fp.mode = "create" /\ Entry(View(volume), fp.cur) = LastLink
  BY <1>1, <1>2, AtEnd DEF fp
<1>7. ASSUME VolumeOK(volume'), View(volume') = View(volume), faults' \in 0..MaxFaults,
             NEW cs \in {0, LastLink} \cup Clusters \cup {DiskErr}, Answered(cs),
             cs \in {Entry(View(volume), fp.cur), DiskErr}
      PROVE  FatInv'
  <2>1. ASSUME call' \in Calls, call'.f = call.f, call'.op = call.op, call'.n = call.n,
               call'.at \in {"join", "find"}, ~Joining(call', call.f),
               ChainOK(View(volume), Roots(View(volume), handle, call'), fp, call', chain),
               call'.at = "find" => call.op = "put"
        PROVE  FatInv'
    <3>1. FileOK(fp, call', call.f, chain[call.f])
      BY <1>1, <1>3, <1>4, <2>1 DEF FileOK, Joining, Filling, InSector
    <3>2. TransferOK(fp, call')
      BY <1>1, <1>3, <1>4, <1>5, <2>1 DEF TransferOK, Transferring, InSector
    <3>3. QED
      BY <1>1, <1>2, <1>7, <2>1, <3>1, <3>2, OnTransfer DEF Transferring
  <2>2. CASE call.op = "get"
    <3>1. GotoWith("join", cs) /\ cs \in Nat
      BY <1>7, <2>2, Layout DEF Answered, LastLink, DiskErr, Clusters
    <3>2. /\ call' \in Calls /\ call'.f = call.f /\ call'.op = call.op /\ call'.n = call.n
          /\ call'.at = "join" /\ call'.c = cs
      BY <1>1, <3>1, GotoWithFact DEF Transferring
    <3>3. ChainOK(View(volume), Roots(View(volume), handle, call'), fp, call', chain)
      BY <1>7, <2>2, <3>2 DEF ChainOK, InSector
    <3>4. QED
      BY <2>1, <2>2, <3>2, <3>3 DEF Joining
  <2>3. CASE call.op = "put"
    <3>1. cs >= n_fatent /\ ~(cs < n_fatent)
      BY <1>6, <1>7, <2>3, Layout DEF LastLink, DiskErr
    <3>2. call' = [call EXCEPT !.at = "find", !.c = fp.cur, !.scl = fp.cur]
      BY <1>7, <2>3, <3>1 DEF Answered
    <3>3. fp.cur \in Nat /\ fp.cur \in 1..n_fatent - 1
      BY <1>4, Layout DEF Clusters
    <3>4. /\ call' \in Calls /\ call'.f = call.f /\ call'.op = call.op /\ call'.n = call.n
          /\ call'.at = "find" /\ call'.c = fp.cur /\ call'.scl = fp.cur
      BY <1>1, <3>2, <3>3 DEF Calls
    <3>5. ChainOK(View(volume), Roots(View(volume), handle, call'), fp, call', chain)
      BY <1>4, <1>6, <2>3, <3>3, <3>4 DEF ChainOK, InSector
    <3>6. QED
      BY <2>1, <2>3, <3>4, <3>5 DEF Joining
  <2>4. QED
    BY <1>1, <1>3, <2>2, <2>3 DEF TransferOK, Transferring
<1>8. CASE volume' = Moved(volume, FatSector(fp.cur)) /\ Right /\ Answered(volume'.win[fp.cur % SS])
  <2>1. /\ VolumeOK(volume') /\ View(volume') = View(volume)
        /\ volume'.win[fp.cur % SS] = Entry(View(volume), fp.cur)
        /\ volume'.win[fp.cur % SS] \in {0, LastLink} \cup Clusters
    BY <1>1, <1>4, <1>8, EntrySeen
  <2>2. faults' \in 0..MaxFaults
    BY <1>1, <1>8 DEF TypeOK, Right
  <2>3. QED
    BY <1>7, <1>8, <2>1, <2>2
<1>9. CASE volume' \in Unmoved(volume, FatSector(fp.cur)) /\ Wrong /\ Answered(DiskErr)
  <2>1. FatSector(fp.cur) \in Sectors \cup {0}
    BY <1>4, EntryAt
  <2>2. VolumeOK(volume') /\ View(volume') = View(volume)
    BY <1>1, <1>9, <2>1, VolumeUnmoved
  <2>3. faults' \in 0..MaxFaults
    BY <1>1, <1>9 DEF TypeOK, Wrong
  <2>4. QED
    BY <1>7, <1>9, <2>2, <2>3
<1>10. QED
  BY <1>8, <1>9 DEF Advance

LEMMA FindFreeInv ==
  ASSUME "torn" \notin Kinds, FatInv, FindFree
  PROVE  FatInv'
<1> DEFINE f == call.f
           V == View(volume)
           W == View(volume')
           ncl == NextOf(call.c)
           v == Moved(volume, FatSector(ncl))
           cs == v.win[ncl % SS]
<1>1. /\ TypeOK /\ VolumeOK(volume) /\ call \in Calls /\ handle \in [Files -> FILs]
      /\ call.at = "find" /\ f \in Files /\ fp \in FILs /\ Good(V)
      /\ UNCHANGED <<handle, held, gen, sure, misread>>
  BY LinkedGood DEF FatInv, FindFree, TypeOK, Calls, fp
<1>2. PICK chain \in [Files -> Chains] : Links(V, handle, call, chain)
  BY DEF FatInv, Linked
<1>3. /\ FileOK(fp, call, f, chain[f]) /\ TransferOK(fp, call)
      /\ ChainOK(V, Roots(V, handle, call), fp, call, chain)
  BY <1>1, <1>2 DEF Links, fp
<1>4. /\ ~fp.error /\ call.op = "put" /\ WritesOn(fp) /\ call.n > 0 /\ fp.ptr \in Nat
      /\ fp.ptr % SS = 0 /\ call.c \in 1..n_fatent - 1
      /\ IF fp.ptr = 0 THEN fp.org = 0 ELSE fp.mode = "create"
  BY <1>1, <1>3 DEF TransferOK, Transferring, ChainOK, FILs
<1>5. ncl \in Clusters
  BY <1>4, Layout DEF NextOf, Clusters
<1>6. /\ VolumeOK(v) /\ View(v) = V /\ v.winsect = FatSector(ncl)
      /\ cs = Entry(V, ncl) /\ cs \in {0, LastLink} \cup Clusters
  BY <1>1, <1>5, EntrySeen
<1>7. FatSector(ncl) \in Sectors \cup {0}
  BY <1>5, EntryAt
<1>8. /\ Clusters \subseteq Nat /\ DiskErr \in Nat /\ DiskErr \notin Clusters
      /\ 0 \notin Clusters /\ 1 \notin Clusters /\ LastLink \in Nat
      /\ DiskErr # LastLink /\ LastLink \notin {0, 1} \cup Clusters
  BY Layout DEF Clusters, DiskErr, LastLink
<1> HIDE DEF V, W, ncl, v, cs, f
<1>9. \A d : d.at = "find" \/ d.at = "link" \/ d.at = "join" => ~Filling(d, f)
  BY DEF Filling, InSector
<1>10. ASSUME NEW at \in {"find", "join", "link"}, NEW c \in Nat, GotoWith(at, c)
       PROVE  /\ call' \in Calls /\ call'.at = at /\ call'.f = f /\ call'.op = "put"
              /\ call'.n = call.n /\ call'.c = c /\ call'.scl = call.scl
              /\ TransferOK(fp, call') /\ FileOK(fp, call', f, chain[f])
  <2>1. /\ call' \in Calls /\ call'.at = at /\ call'.f = f /\ call'.op = "put"
        /\ call'.n = call.n /\ call'.c = c /\ call'.scl = call.scl
    BY <1>1, <1>4, <1>10, GotoWithFact DEF Transferring, f
  <2>2. TransferOK(fp, call')
    BY <1>1, <1>3, <1>4, <2>1 DEF TransferOK, Transferring, InSector
  <2>3. ~Joining(call, f) /\ ~Filling(call, f) /\ ~Filling(call', f)
    BY <1>1, <2>1 DEF Joining, Filling, InSector
  <2>4. FileOK(fp, call', f, chain[f])
    BY <1>3, <2>3 DEF FileOK
  <2>5. QED
    BY <2>1, <2>2, <2>4
<1>11. ASSUME VolumeOK(volume'), View(volume') = V, faults' \in 0..MaxFaults,
              \/ \E c \in {0, 1, DiskErr} : GotoWith("join", c)
              \/ GotoWith("find", ncl)
       PROVE  FatInv'
  <2>1. CASE \E c \in {0, 1, DiskErr} : GotoWith("join", c)
    <3>1. PICK c \in {0, 1, DiskErr} : GotoWith("join", c)
      BY <2>1
    <3>2. c \in Nat /\ c \notin Clusters
      BY <1>8
    <3>3. ChainOK(V, Roots(V, handle, call'), fp, call', chain)
      BY <1>4, <1>8, <1>10, <3>1, <3>2 DEF ChainOK, InSector
    <3>4. QED
      BY <1>1, <1>2, <1>10, <1>11, <3>1, <3>2, <3>3, OnTransfer DEF Transferring, V, f
  <2>2. CASE GotoWith("find", ncl)
    <3>1. ncl \in Nat /\ ncl \in 1..n_fatent - 1 /\ call.scl \in 1..n_fatent - 1
      BY <1>1, <1>3, <1>5, <1>8, Layout DEF Clusters, ChainOK
    <3>2. ChainOK(V, Roots(V, handle, call'), fp, call', chain)
      BY <1>4, <1>10, <2>2, <3>1 DEF ChainOK, InSector
    <3>3. QED
      BY <1>1, <1>2, <1>10, <1>11, <2>2, <3>1, <3>2, OnTransfer DEF Transferring, V, f
  <2>3. QED
    BY <1>11, <2>1, <2>2
<1>12. ASSUME cs = 0, Right,
              volume' = IF Stretches THEN Marked(v, ncl) ELSE [Marked(v, ncl) EXCEPT !.last = ncl],
              GotoWith(IF Stretches THEN "link" ELSE "join", ncl)
       PROVE  FatInv'
  <2> DEFINE m == Marked(v, ncl)
             at == IF Stretches THEN "link" ELSE "join"
  <2>1. /\ VolumeOK(m) /\ m.winsect = FatSector(ncl)
        /\ OnlyEntry(V, View(m), ncl) /\ Entry(View(m), ncl) = LastLink
    <3>1. m = Poke(v, ncl % SS, LastLink) /\ LastLink \in {0, LastLink} \cup Clusters
      BY DEF Marked
    <3> HIDE DEF m
    <3>2. QED
      BY <1>5, <1>6, <3>1, VolumeEntry, ZenonT(30)
  <2> HIDE DEF m
  <2>2. /\ VolumeOK(volume') /\ volume'.winsect = FatSector(ncl)
        /\ OnlyEntry(V, W, ncl) /\ Entry(W, ncl) = LastLink
    <3>1. CASE Stretches
      BY <1>12, <2>1, <3>1 DEF W, m
    <3>2. CASE ~Stretches
      <4>1. volume' = [m EXCEPT !.last = ncl]
        BY <1>12, <3>2 DEF m
      <4>2. ncl \in 0..n_fatent
        BY <1>5, Layout DEF Clusters
      <4>3. QED
        BY <2>1, <4>1, <4>2, VolumeLast DEF W
    <3>3. QED
      BY <3>1, <3>2
  <2>3. /\ call' \in Calls /\ call'.at = at /\ call'.f = f /\ call'.op = "put" /\ call'.c = ncl
        /\ TransferOK(fp, call') /\ FileOK(fp, call', f, chain[f])
    <3>1. at \in {"find", "join", "link"} /\ ncl \in Nat /\ GotoWith(at, ncl)
      BY <1>5, <1>8, <1>12
    <3> HIDE DEF at
    <3>2. QED
      BY <1>10, <3>1
  <2>4. \A g \in Files : StartOf(W, g) = StartOf(V, g)
    BY <2>2 DEF OnlyEntry, SameDir
  <2>5. Root(W, handle, call', f) = Root(V, handle, call, f)
    BY <1>1, <2>3, <2>4 DEF Root
  <2>6. Roots(W, handle, call') = Roots(V, handle, call)
    BY <1>1, <1>2, <2>2, <2>3, <2>5, SameRoots DEF OnlyEntry, f
  <2>7. FsOK(V, Roots(V, handle, call), chain) /\ Unowned(Roots(V, handle, call), chain, ncl)
    BY <1>2, <1>5, <1>6, <1>12, FreeUnowned DEF Links
  <2>8. FsOK(W, Roots(V, handle, call), chain)
    BY <1>5, <2>2, <2>7, FsFree
  <2>9. ChainOK(W, Roots(W, handle, call'), fp, call', chain)
    <3>1. CASE Stretches
      BY <1>4, <1>5, <2>2, <2>3, <2>6, <2>7, <3>1 DEF ChainOK, InSector, Stretches
    <3>2. CASE ~Stretches
      <4>1. call'.at = "join" /\ fp.ptr = 0 /\ fp.org = 0
        BY <1>4, <2>3, <3>2 DEF Stretches
      <4>2. QED
        BY <1>5, <1>8, <2>2, <2>3, <2>6, <2>7, <4>1 DEF ChainOK, InSector
    <3>3. QED
      BY <3>1, <3>2
  <2>10. OpenOK(W, fp, call')
    BY <2>3 DEF OpenOK, Opening
  <2>11. \A g \in Files : Roots(V, handle, call)[g] = Root(V, handle, call, g)
    BY DEF Roots
  <2>12. StartOf(W, f) \in Clusters => StartOf(W, f) = Roots(V, handle, call)[f]
    BY <1>1, <2>8 DEF FsOK, DirOK
  <2>13. Linked(W, handle, call')
    BY <1>1, <1>2, <2>3, <2>4, <2>5, <2>8, <2>9, <2>10, <2>11, <2>12, MetaStep DEF f, fp
  <2>14. WindowAt(volume', call')
    BY <1>12, <2>2, <2>3 DEF WindowAt
  <2>15. TypeOK'
    BY <1>1, <1>12, <2>2, <2>3 DEF TypeOK, VolumeOK, Right
  <2>16. QED
    BY <1>1, <2>2, <2>13, <2>14, <2>15 DEF FatInv, W
<1>13. CASE NoneLeft /\ GotoWith("join", 0) /\ UNCHANGED volume /\ Right
  <2>1. faults' \in 0..MaxFaults
    BY <1>1, <1>13 DEF TypeOK, Right
  <2>2. QED
    BY <1>1, <1>11, <1>13, <2>1 DEF V
<1>14. CASE /\ ~NoneLeft /\ cs # 0 /\ Right /\ volume' = v
            /\ IF cs = 1 \/ ncl = call.scl THEN GotoWith("join", IF cs = 1 THEN 1 ELSE 0)
               ELSE GotoWith("find", ncl)
  <2>1. faults' \in 0..MaxFaults
    BY <1>1, <1>14 DEF TypeOK, Right
  <2>2. cs # 1
    BY <1>6, <1>8, Layout DEF LastLink
  <2>3. QED
    BY <1>6, <1>11, <1>14, <2>1, <2>2
<1>15. CASE volume' \in Unmoved(volume, FatSector(ncl)) /\ Wrong /\ GotoWith("join", DiskErr)
  <2>1. VolumeOK(volume') /\ View(volume') = V
    BY <1>1, <1>7, <1>15, VolumeUnmoved DEF V
  <2>2. faults' \in 0..MaxFaults
    BY <1>1, <1>15 DEF TypeOK, Wrong
  <2>3. QED
    BY <1>11, <1>15, <2>1, <2>2
<1>16. QED
  BY <1>12, <1>13, <1>14, <1>15 DEF FindFree, ncl, v, cs

\* One that changes the FIL, but not where its chain begins.
LEMMA FileStep ==
  ASSUME FatInv, call.at \in Transferring,
         NEW chain \in [Files -> Chains], Links(View(volume), handle, call, chain),
         VolumeOK(volume'),
         SameFat(View(volume), View(volume')), SameDir(View(volume), View(volume')),
         NEW file \in FILs, handle' = [handle EXCEPT ![call.f] = file],
         file.mode = fp.mode, file.org = fp.org, file.cur # LastLink,
         held' \in [Files -> Seq(Nat)], misread' \in BOOLEAN,
         UNCHANGED <<gen, sure>>, faults' \in 0..MaxFaults,
         call' \in Calls, call'.f = call.f, call'.at \in Transferring \ {"link"},
         FileOK(file, call', call.f, chain[call.f]), TransferOK(file, call'),
         ChainOK(View(volume'), Roots(View(volume'), handle', call'), file, call', chain)
  PROVE  FatInv'
<1>1. TypeOK /\ call \in Calls /\ handle \in [Files -> FILs] /\ call.f \in Files
  BY DEF FatInv, TypeOK, Calls
<1>2. call.at # "unlink" /\ call'.at # "unlink" /\ call'.at \notin {"empty", "opened", "link"}
      /\ call'.at \notin Opening
  BY DEF Transferring, Opening
<1>3. /\ handle' \in [Files -> FILs] /\ handle'[call.f] = file
      /\ \A g \in Files \ {call.f} : handle'[g] = handle[g]
  BY <1>1
<1>4. OpenOK(View(volume'), file, call')
  BY <1>2 DEF OpenOK, Opening
<1>5. Root(View(volume'), handle', call', call.f) = Root(View(volume), handle, call, call.f)
  BY <1>1, <1>2, <1>3 DEF Root, WritesOn, SameDir, fp
<1>6. Linked(View(volume'), handle', call')
  <2>1. /\ FileOK(handle'[call.f], call', call.f, chain[call.f])
        /\ OpenOK(View(volume'), handle'[call'.f], call') /\ TransferOK(handle'[call'.f], call')
        /\ ChainOK(View(volume'), Roots(View(volume'), handle', call'), handle'[call'.f], call', chain)
    BY <1>3, <1>4
  <2>2. Root(View(volume'), handle', call', call.f)
          \in {Root(View(volume), handle, call, call.f), StartOf(View(volume), call.f)}
    BY <1>5
  <2>3. QED
    BY <1>1, <1>3, <2>1, <2>2, QuietStep
<1>7. WindowAt(volume', call')
  BY <1>2 DEF WindowAt
<1>8. \A g \in Files : handle'[g].cur = LastLink => handle'[g].error
  BY <1>1, <1>3 DEF TypeOK
<1>9. TypeOK'
  BY <1>1, <1>3, <1>8 DEF TypeOK, VolumeOK
<1>10. QED
  BY <1>6, <1>7, <1>9 DEF FatInv

LEMMA VolumeDirty ==
  ASSUME NEW v, VolumeOK(v), v.winsect \in Meta
  PROVE  LET w == [v EXCEPT !.wflag = TRUE]
         IN  VolumeOK(w) /\ View(w) = View(v)
<1> DEFINE w == [v EXCEPT !.wflag = TRUE]
<1>1. v \in Volumes /\ WindowOn(v, Meta) /\ v.winsect \in Sectors
  BY Layout DEF VolumeOK
<1>2. w \in Volumes /\ WindowOn(w, Meta) /\ View(w) = View(v) /\ w.disk = v.disk
  BY <1>1, DirtyView
<1> HIDE DEF w
<1>3. QED
  BY <1>2 DEF VolumeOK, w

LEMMA LinkInv ==
  ASSUME "torn" \notin Kinds, FatInv, Link
  PROVE  FatInv'
<1> DEFINE f == call.f
           V == View(volume)
           W == View(volume')
           c == call.c
           e == fp.cur
           v == Moved(volume, FatSector(e))
<1>1. /\ TypeOK /\ VolumeOK(volume) /\ call \in Calls /\ handle \in [Files -> FILs]
      /\ call.at = "link" /\ f \in Files /\ fp \in FILs /\ Good(V)
      /\ volume.winsect = FatSector(c)
      /\ UNCHANGED <<handle, held, gen, sure, misread>>
  BY LinkedGood DEF FatInv, Link, TypeOK, Calls, fp, WindowAt
<1>2. PICK chain \in [Files -> Chains] : Links(V, handle, call, chain)
  BY DEF FatInv, Linked
<1>3. /\ FileOK(fp, call, f, chain[f]) /\ TransferOK(fp, call)
      /\ ChainOK(V, Roots(V, handle, call), fp, call, chain)
  BY <1>1, <1>2 DEF Links, fp
<1>4. /\ ~fp.error /\ call.op = "put" /\ fp.mode = "create" /\ call.n > 0
      /\ fp.ptr \in Nat \ {0} /\ fp.ptr % SS = 0
      /\ c \in Clusters /\ Entry(V, c) = LastLink /\ Unowned(Roots(V, handle, call), chain, c)
  BY <1>1, <1>3 DEF TransferOK, Transferring, ChainOK, FILs
<1>5. ~Joining(call, f) /\ ~Filling(call, f) /\ WritesOn(fp)
  BY <1>1, <1>4 DEF Joining, Filling, InSector, WritesOn
<1>6. fp.org \in Clusters /\ e = EndOf(chain[f]) /\ Len(chain[f]) * SSC >= fp.ptr
  BY <1>3, <1>4, <1>5 DEF FileOK
<1>7. FsOK(V, Roots(V, handle, call), chain) /\ Roots(V, handle, call)[f] = fp.org
  BY <1>1, <1>2, <1>5 DEF Links, Roots, Root, fp
<1>8. e \in Clusters
  BY <1>1, <1>6, <1>7, EndSays DEF FsOK, ChainsOK
<1>9. /\ VolumeOK(v) /\ View(v) = V /\ v.winsect = FatSector(e)
  BY <1>1, <1>8, EntrySeen
<1>10. c \in Nat /\ DiskErr \in Nat /\ DiskErr \notin Clusters /\ LastLink \notin Clusters
       /\ DiskErr # LastLink
  BY <1>4, Layout DEF Clusters, DiskErr, LastLink
<1> HIDE DEF V, W, v, c, e, f
<1>11. ASSUME NEW d \in Nat, d = c \/ d = DiskErr, GotoWith("join", d)
       PROVE  /\ call' \in Calls /\ call'.at = "join" /\ call'.f = f /\ call'.op = "put"
              /\ call'.n = call.n /\ call'.c = d /\ TransferOK(fp, call')
  <2>1. /\ call' \in Calls /\ call'.at = "join" /\ call'.f = f /\ call'.op = "put"
        /\ call'.n = call.n /\ call'.c = d
    BY <1>1, <1>4, <1>11, GotoWithFact DEF Transferring, f
  <2>2. TransferOK(fp, call')
    BY <1>1, <1>3, <1>4, <2>1 DEF TransferOK, Transferring, InSector
  <2>3. QED
    BY <2>1, <2>2
<1>12. ASSUME volume' = [Poke(v, e % SS, c) EXCEPT !.last = c], Goto("join"), Right
       PROVE  FatInv'
  <2> DEFINE m == Poke(v, e % SS, c)
             ichain == [chain EXCEPT ![f] = Append(chain[f], c)]
  <2>1. VolumeOK(m) /\ OnlyEntry(V, View(m), e) /\ Entry(View(m), e) = c
    <3>1. c \in {0, LastLink} \cup Clusters
      BY <1>4
    <3>2. QED
      BY <1>8, <1>9, <3>1, VolumeEntry
  <2> HIDE DEF m
  <2>2. VolumeOK(volume') /\ OnlyEntry(V, W, e) /\ Entry(W, e) = c
    <3>1. volume' = [m EXCEPT !.last = c]
      BY <1>12 DEF m
    <3>2. c \in 0..n_fatent
      BY <1>4, Layout DEF Clusters
    <3>3. QED
      BY <2>1, <3>1, <3>2, VolumeLast DEF W
  <2>3. GotoWith("join", c)
    BY <1>1, <1>12 DEF Goto, GotoWith, Calls, c
  <2>4. /\ call' \in Calls /\ call'.at = "join" /\ call'.f = f /\ call'.op = "put"
        /\ call'.c = c /\ TransferOK(fp, call')
    BY <1>10, <1>11, <2>3
  <2>5. FsOK(W, Roots(V, handle, call), ichain)
    BY <1>1, <1>4, <1>6, <1>7, <2>2, FsLink DEF EndOf
  <2>6. /\ ichain \in [Files -> Chains] /\ \A g \in Files \ {f} : ichain[g] = chain[g]
        /\ Len(ichain[f]) = Len(chain[f]) + 1 /\ EndOf(ichain[f]) = c
    <3>1. c \notin Range(chain[f])
      BY <1>1, <1>4, <1>6, <1>7 DEF Unowned
    <3>2. /\ Append(chain[f], c) \in Chains /\ Len(Append(chain[f], c)) = Len(chain[f]) + 1
          /\ Append(chain[f], c)[Len(chain[f]) + 1] = c
      BY <1>1, <1>4, <3>1, AppendIsChain
    <3>3. QED
      BY <1>1, <3>2 DEF EndOf
  <2> HIDE DEF ichain
  <2>7. fp.ptr < Len(ichain[f]) * SSC /\ fp.size \in Nat
        /\ (Len(chain[f]) * SSC >= fp.size => Len(ichain[f]) * SSC >= fp.size)
    <3>1. Len(chain[f]) \in Nat /\ SSC \in Nat \ {0} /\ fp.ptr \in Nat /\ fp.size \in Nat
      BY <1>1, ChainType, Room DEF FILs
    <3>2. Len(ichain[f]) * SSC = Len(chain[f]) * SSC + SSC /\ Len(chain[f]) * SSC \in Nat
      BY <2>6, <3>1
    <3>3. QED
      BY <1>6, <3>1, <3>2
  <2>8. FileOK(fp, call', f, ichain[f])
    <3>1. Joining(call', f)
      BY <1>4, <2>4 DEF Joining
    <3>2. fp.ptr # 0 /\ Len(ichain[f]) * SSC >= fp.ptr
      BY <1>1, <1>4, <2>6, <2>7, Room
    <3>3. QED
      BY <1>3, <1>6, <2>7, <3>1, <3>2 DEF FileOK
  <2>9. \A g \in Files : StartOf(W, g) = StartOf(V, g)
    BY <2>2 DEF OnlyEntry, SameDir
  <2>10. Root(W, handle, call', f) = fp.org
    BY <1>5 DEF Root, fp, f
  <2>11. ChainOK(W, Roots(W, handle, call'), fp, call', ichain)
    BY <1>4, <1>6, <1>10, <2>4, <2>6, <2>7 DEF ChainOK, InSector
  <2>12. OpenOK(W, fp, call')
    BY <2>4 DEF OpenOK, Opening
  <2>13. StartOf(W, f) \in Clusters => StartOf(W, f) = Roots(V, handle, call)[f]
    BY <1>1, <2>5 DEF FsOK, DirOK
  <2>14. \A g \in Files : Roots(V, handle, call)[g] = Root(V, handle, call, g)
    BY DEF Roots
  <2>15. Linked(W, handle, call')
    BY <1>1, <1>2, <1>7, <2>4, <2>5, <2>6, <2>8, <2>9, <2>10, <2>11, <2>12, <2>13, <2>14, MetaStep DEF f, fp
  <2>16. WindowAt(volume', call')
    BY <2>4 DEF WindowAt
  <2>17. TypeOK'
    BY <1>1, <1>12, <2>2, <2>4 DEF TypeOK, VolumeOK, Right
  <2>18. QED
    BY <1>1, <2>2, <2>15, <2>16, <2>17 DEF FatInv, W
<1>13. ASSUME NEW w \in Unmoved(volume, FatSector(e)), volume' = [w EXCEPT !.wflag = TRUE],
              GotoWith("join", DiskErr), Wrong
       PROVE  FatInv'
  <2>1. FatSector(e) \in Sectors \cup {0} /\ FatSector(c) \in Meta
    BY <1>4, <1>8, EntryAt
  <2>2. VolumeOK(w) /\ View(w) = V /\ w.winsect = volume.winsect
    BY <1>1, <2>1, VolumeUnmoved DEF V
  <2>3. VolumeOK(volume') /\ View(volume') = V
    BY <1>1, <1>13, <2>1, <2>2, VolumeDirty
  <2>4. faults' \in 0..MaxFaults
    BY <1>1, <1>13 DEF TypeOK, Wrong
  <2>5. /\ call' \in Calls /\ call'.at = "join" /\ call'.f = f /\ call'.op = "put"
        /\ call'.c = DiskErr /\ TransferOK(fp, call')
    BY <1>10, <1>11, <1>13
  <2>6. FileOK(fp, call', f, chain[f])
    BY <1>3, <1>4, <1>5, <2>5 DEF FileOK
  <2>7. ChainOK(V, Roots(V, handle, call'), fp, call', chain)
    BY <1>4, <1>10, <2>5 DEF ChainOK, InSector
  <2>8. QED
    BY <1>1, <1>2, <2>3, <2>4, <2>5, <2>6, <2>7, OnTransfer DEF Transferring, V, f
<1>14. QED
  BY <1>12, <1>13 DEF Link, v, e, c

LEMMA JoinInv ==
  ASSUME FatInv, Join
  PROVE  FatInv'
<1> DEFINE f == call.f
           V == View(volume)
           c == call.c
           root == Roots(V, handle, call)
           first == IF call.op = "put" /\ fp.ptr = 0 THEN [fp EXCEPT !.org = c] ELSE fp
           file == Follows(first, c)
<1>1. /\ TypeOK /\ VolumeOK(volume) /\ call \in Calls /\ handle \in [Files -> FILs]
      /\ call.at = "join" /\ f \in Files /\ fp \in FILs
      /\ UNCHANGED <<volume, held, gen, misread, faults>>
  BY DEF FatInv, Join, TypeOK, Calls, fp
<1>2. PICK chain \in [Files -> Chains] : Links(V, handle, call, chain)
  BY DEF FatInv, Linked
<1>3. /\ FileOK(fp, call, f, chain[f]) /\ TransferOK(fp, call) /\ ChainOK(V, root, fp, call, chain)
  BY <1>1, <1>2 DEF Links, fp
<1>4. /\ ~fp.error /\ call.op \in {"get", "put"} /\ (call.op = "put" => WritesOn(fp)) /\ call.n > 0
      /\ call.op = "get" => fp.mode # "create"
      /\ fp.ptr \in Nat /\ fp.ptr % SS = 0
      /\ c \in {0, 1, DiskErr, LastLink} \cup Clusters /\ (call.op = "put" => c # LastLink)
      /\ call.op = "put" /\ fp.ptr = 0 => fp.org \in {0, c}
  BY <1>1, <1>3 DEF TransferOK, Transferring, ChainOK, FILs
<1>5. /\ 0 \notin Clusters /\ 1 \notin Clusters /\ DiskErr \notin Clusters /\ LastLink \notin Clusters
      /\ LastLink \notin {0, 1, DiskErr}
  BY Layout DEF Clusters, DiskErr, LastLink
<1>6. FsOK(V, root, chain) /\ \A g \in Files : root[g] = Root(V, handle, call, g)
  BY <1>2 DEF Links, Roots
<1> HIDE DEF V, root, c
<1>7. /\ first \in FILs /\ first.mode = fp.mode /\ first.written = fp.written
      /\ first.error = fp.error /\ first.size = fp.size /\ first.ptr = fp.ptr
      /\ first.cur = fp.cur /\ first.dsect = fp.dsect
      /\ first.org = IF call.op = "put" /\ fp.ptr = 0 THEN c ELSE fp.org
  <2>1. CASE call.op = "put" /\ fp.ptr = 0
    <3>1. c \in {0, 1, DiskErr} \cup Clusters
      BY <1>4, <2>1
    <3>2. first = [fp EXCEPT !.org = c]
      BY <2>1
    <3>3. QED
      BY <1>1, <2>1, <3>1, <3>2 DEF FILs
  <2>2. CASE ~(call.op = "put" /\ fp.ptr = 0)
    BY <1>1, <2>2
  <2>3. QED
    BY <2>1, <2>2
<1> HIDE DEF first
<1>8. /\ file \in FILs /\ file.mode = fp.mode /\ file.written = fp.written
      /\ file.error = fp.error /\ file.size = fp.size /\ file.ptr = fp.ptr
      /\ file.dsect = fp.dsect /\ file.org = first.org
      /\ file.cur = IF c \in {0, 1, DiskErr} THEN fp.cur ELSE c
  <2>1. CASE c \in {0, 1, DiskErr}
    <3>1. file = [first EXCEPT !.cur = first.cur]
      BY <2>1 DEF Follows
    <3>2. QED
      BY <1>7, <2>1, <3>1 DEF FILs
  <2>2. CASE c \notin {0, 1, DiskErr}
    <3>1. file = [first EXCEPT !.cur = c]
      BY <2>2 DEF Follows
    <3>2. c \in {0, LastLink} \cup Clusters
      BY <1>4, <2>2
    <3>3. QED
      BY <1>7, <2>2, <3>1, <3>2 DEF FILs
  <2>3. QED
    BY <2>1, <2>2
<1> HIDE DEF file
<1>9. ASSUME c \in Clusters, Goto("sector"), handle' = [handle EXCEPT ![f] = file], sure' = sure
      PROVE  FatInv'
  <2>1. /\ call' \in Calls /\ call'.at = "sector" /\ call'.f = f /\ call'.op = call.op
        /\ call'.n = call.n
    BY <1>1, <1>9, GotoFact DEF Transferring
  <2>2. file.cur = c
    BY <1>5, <1>8, <1>9
  <2>3. TransferOK(file, call')
    BY <1>1, <1>3, <1>4, <1>8, <1>9, <2>1, <2>2 DEF TransferOK, Transferring, InSector, WritesOn
  <2>4. Filling(call', f) /\ ~Joining(call', f)
    BY <2>1 DEF Filling, Joining, InSector
  <2>5. CASE call.op = "get" \/ fp.org = file.org
    <3>1. file.org = fp.org
      BY <1>7, <1>8, <2>5
    <3>2. fp.mode = "create" => fp.ptr # 0
      <4>1. ASSUME fp.mode = "create", fp.ptr = 0
            PROVE  FALSE
        <5>1. call.op = "put"
          BY <1>4, <4>1
        <5>2. ~Filling(call, f)
          BY <1>1 DEF Filling, InSector
        <5>3. fp.org = 0 /\ fp.org = c
          BY <1>3, <1>4, <1>7, <3>1, <1>8, <4>1, <5>1, <5>2 DEF FileOK
        <5>4. QED
          BY <1>5, <1>9, <5>3
      <4>2. QED
        BY <4>1
    <3>3. call.op = "put" /\ fp.ptr # 0 => c = EndOf(chain[f]) /\ fp.ptr < Len(chain[f]) * SSC /\ fp.org \in Clusters
      BY <1>1, <1>3, <1>9 DEF ChainOK, c
    <3>4. fp.mode = "create" => c = EndOf(chain[f])
      BY <1>4, <3>2, <3>3
    <3>5. FileOK(file, call', f, chain[f])
      BY <1>3, <1>8, <1>9, <2>2, <2>4, <3>1, <3>4 DEF FileOK, WritesOn
    <3>6. call.op = "put" => file.org \in Clusters /\ file.ptr < Len(chain[f]) * SSC
      <4>1. CASE fp.ptr = 0
        <5>1. 0 < Len(chain[f]) * SSC
          BY <1>1, Room
        <5>2. QED
          BY <1>7, <1>8, <1>9, <4>1, <5>1
      <4>2. CASE fp.ptr # 0
        BY <1>8, <3>1, <3>3, <4>2
      <4>3. QED
        BY <4>1, <4>2
    <3>7. ChainOK(V, Roots(V, handle', call'), file, call', chain)
      BY <2>1, <3>6 DEF ChainOK, InSector
    <3>8. file.cur # LastLink
      BY <1>5, <1>9, <2>2
    <3>9. faults' \in 0..MaxFaults /\ held' \in [Files -> Seq(Nat)] /\ misread' \in BOOLEAN
      BY <1>1 DEF TypeOK
    <3>10. QED
      BY <1>1, <1>2, <1>8, <1>9, <2>1, <2>3, <3>1, <3>5, <3>7, <3>8, <3>9, SameView, FileStep DEF Transferring, V
  <2>6. CASE call.op # "get" /\ fp.org # file.org
    <3> DEFINE ichain == [chain EXCEPT ![f] = <<c>>]
               r == [root EXCEPT ![f] = c]
    <3>1. call.op = "put" /\ fp.ptr = 0 /\ fp.org = 0 /\ file.org = c /\ WritesOn(fp)
      BY <1>4, <1>7, <1>8, <2>6
    <3>2. Entry(V, c) = LastLink /\ Unowned(root, chain, c)
      BY <1>1, <1>3, <1>5, <1>9, <3>1 DEF ChainOK, c
    <3>3. root[f] \notin Clusters /\ root \in [Files -> Nat]
      BY <1>1, <1>2, <1>5, <1>6, <3>1, RootsType DEF Root, root, fp, WritesOn
    <3>4. FsOK(V, r, ichain)
      BY <1>1, <1>6, <1>9, <3>2, <3>3, FsFirst
    <3>5. /\ ichain \in [Files -> Chains] /\ ichain[f] = <<c>> /\ EndOf(ichain[f]) = c
          /\ \A g \in Files \ {f} : ichain[g] = chain[g]
          /\ r[f] = c /\ \A g \in Files \ {f} : r[g] = Root(V, handle, call, g)
      BY <1>1, <1>6, <1>9, <3>3, OneIsChain, ZenonT(30) DEF EndOf
    <3> HIDE DEF ichain, r
    <3>6. /\ handle' \in [Files -> FILs] /\ handle'[f] = file
          /\ \A g \in Files \ {f} : handle'[g] = handle[g]
      BY <1>1, <1>8, <1>9
    <3>7. Root(V, handle', call', f) = c
      BY <1>8, <3>1, <3>6 DEF Root, WritesOn
    <3>8. fp.size = 0
      BY <1>3, <1>5, <3>1 DEF FileOK
    <3>9. Len(ichain[f]) * SSC >= 0 /\ 0 < Len(ichain[f]) * SSC
      BY <1>1, <3>5, Room
    <3>10. FileOK(file, call', f, ichain[f])
      BY <1>3, <1>8, <1>9, <2>2, <2>4, <3>1, <3>5, <3>8, <3>9 DEF FileOK, WritesOn
    <3>11. ChainOK(V, Roots(V, handle', call'), file, call', ichain)
      BY <1>8, <1>9, <2>1, <3>1, <3>9 DEF ChainOK, InSector
    <3>12. OpenOK(V, file, call')
      BY <2>1 DEF OpenOK, Opening
    <3>13. StartOf(V, f) \in Clusters => c = StartOf(V, f)
      BY <1>1, <1>6, <3>3 DEF FsOK, DirOK
    <3>14. Linked(V, handle', call')
      <4>1. /\ FileOK(handle'[f], call', f, ichain[f])
            /\ OpenOK(V, handle'[call'.f], call') /\ TransferOK(handle'[call'.f], call')
            /\ ChainOK(V, Roots(V, handle', call'), handle'[call'.f], call', ichain)
        BY <2>1, <2>3, <3>6, <3>10, <3>11, <3>12
      <4>2. /\ Root(V, handle', call', f) \in Clusters => Root(V, handle', call', f) = r[f]
            /\ StartOf(V, f) \in Clusters => Root(V, handle', call', f) = StartOf(V, f)
        BY <3>5, <3>7, <3>13
      <4>3. QED
        BY <1>1, <1>2, <2>1, <3>4, <3>5, <3>6, <4>1, <4>2, MetaStep
    <3>15. WindowAt(volume', call')
      BY <2>1 DEF WindowAt
    <3>16. \A g \in Files : handle'[g].cur = LastLink => handle'[g].error
      BY <1>1, <1>5, <1>9, <2>2, <3>6 DEF TypeOK
    <3>17. TypeOK'
      BY <1>1, <1>9, <2>1, <3>6, <3>16 DEF TypeOK
    <3>18. QED
      BY <1>1, <3>14, <3>15, <3>17 DEF FatInv, V
  <2>7. QED
    BY <2>5, <2>6
<1>10. ASSUME c = 0, call.op = "put", call' = [call EXCEPT !.at = "loop", !.n = 0], UNCHANGED <<handle, sure>>
       PROVE  FatInv'
  <2>1. /\ call' \in Calls /\ call'.at = "loop" /\ call'.f = f /\ call'.op = "put" /\ call'.n = 0
    <3>1. call' = [call EXCEPT !.at = "loop", !.n = 0] /\ 0 \in 0..MaxSize
      BY <1>10
    <3>2. QED
      BY <1>1, <1>10, <3>1 DEF Calls
  <2>2. call.n \in Nat /\ UpdateSize \in Nat /\ MaxSize \in Nat
    BY <1>1 DEF Calls
  <2>3. TransferOK(fp, call')
    <3>1. WritesOn(fp) /\ fp.ptr + call.n <= IF fp.mode = "update" THEN UpdateSize ELSE MaxSize
      BY <1>1, <1>3, <1>10 DEF TransferOK, Transferring
    <3>2. fp.ptr + 0 <= IF fp.mode = "update" THEN UpdateSize ELSE MaxSize
      <4>1. fp.ptr \in Nat
        BY <1>1 DEF FILs, fp, Calls
      <4>2. CASE fp.mode = "update"
        BY <2>2, <3>1, <4>1, <4>2
      <4>3. CASE fp.mode # "update"
        BY <2>2, <3>1, <4>1, <4>3
      <4>4. QED
        BY <4>2, <4>3
    <3>3. QED
      BY <1>4, <2>1, <3>1, <3>2 DEF TransferOK, Transferring, InSector
  <2>4. ~Joining(call, f) /\ ~Filling(call, f)
    BY <1>1, <1>5, <1>10 DEF Joining, Filling, InSector, c
  <2>5. FileOK(fp, call', f, chain[f])
    BY <1>3, <2>4 DEF FileOK
  <2>6. ChainOK(V, Roots(V, handle, call'), fp, call', chain)
    BY <2>1 DEF ChainOK, InSector
  <2>7. faults' \in 0..MaxFaults
    BY <1>1 DEF TypeOK
  <2>8. QED
    BY <1>1, <1>2, <1>10, <2>1, <2>3, <2>5, <2>6, <2>7, OnTransfer DEF Transferring, V
<1>11. ASSUME c \notin Clusters, Failed([file EXCEPT !.error = TRUE])
       PROVE  FatInv'
  <2> DEFINE bad == [file EXCEPT !.error = TRUE]
  <2>1. /\ bad \in FILs /\ bad.mode = fp.mode /\ bad.written = fp.written /\ bad.error = TRUE
        /\ bad.size = fp.size /\ bad.ptr = fp.ptr /\ bad.dsect = fp.dsect /\ bad.org = first.org
    BY <1>8 DEF FILs
  <2> HIDE DEF bad
  <2>2. Done(bad) /\ sure' \in [Files -> BOOLEAN]
    BY <1>1, <1>11, SureType DEF TypeOK, bad
  <2>3. /\ call' = Idle /\ handle' \in [Files -> FILs] /\ handle'[f] = bad
        /\ \A g \in Files \ {f} : handle'[g] = handle[g]
    BY <1>1, <2>1, <2>2 DEF Done
  <2>4. Idle \in Calls /\ Idle.at = "idle"
    BY DEF Idle, Calls, Files
  <2>5. bad.org = fp.org \/ (bad.org \notin Clusters /\ fp.org \notin Clusters)
    BY <1>4, <1>5, <1>7, <1>11, <2>1
  <2>6. FileOK(bad, Idle, f, chain[f])
    BY <1>3, <2>1, <2>5 DEF FileOK, WritesOn
  <2>7. Root(V, handle', Idle, f) = IF WritesOn(fp) THEN bad.org ELSE StartOf(V, f)
    BY <2>1, <2>3, <2>4 DEF Root, WritesOn
  <2>8. root[f] = IF WritesOn(fp) THEN fp.org ELSE StartOf(V, f)
    BY <1>1, <1>6 DEF Root, fp
  <2>9. StartOf(V, f) \in Clusters => StartOf(V, f) = root[f]
    BY <1>1, <1>6 DEF FsOK, DirOK
  <2>10. /\ Root(V, handle', Idle, f) \in Clusters => Root(V, handle', Idle, f) = root[f]
         /\ StartOf(V, f) \in Clusters => Root(V, handle', Idle, f) = StartOf(V, f)
    BY <2>5, <2>7, <2>8, <2>9
  <2>11. Linked(V, handle', Idle)
    <3>1. FileOK(handle'[f], Idle, f, chain[f])
      BY <2>3, <2>6
    <3>2. QED
      BY <1>1, <1>2, <1>6, <2>3, <2>4, <2>10, <3>1, IdleOK, MetaStep
  <2>12. WindowAt(volume', Idle)
    BY <2>4 DEF WindowAt
  <2>13. \A g \in Files : handle'[g].cur = LastLink => handle'[g].error
    BY <1>1, <2>1, <2>3 DEF TypeOK
  <2>14. TypeOK'
    BY <1>1, <2>2, <2>3, <2>4, <2>13 DEF TypeOK
  <2>15. QED
    BY <1>1, <2>3, <2>11, <2>12, <2>14 DEF FatInv, V
<1>12. QED
  BY <1>9, <1>10, <1>11 DEF Join, file, first, c

-----------------------------------------------------------------------------
(***************************************************************************)
(* The transfer.                                                           *)
(***************************************************************************)
\* What is before a multiple of b stays before it, up to the next one.
LEMMA NextMultiple ==
  ASSUME NEW q \in Nat, NEW b \in Nat \ {0}, NEW k \in Nat, q < b * k, NEW r, r = q % b
  PROVE  q + (b - r) <= b * k
<1> DEFINE d == q \div b
<1>1. d \in Nat /\ r \in 0..b - 1 /\ q = b * d + r
  <2>1. d \in Nat /\ q % b \in 0..b - 1 /\ q = b * d + (q % b)
    BY DivMod, Zenon
  <2> HIDE DEF d
  <2>2. QED
    BY <2>1, Zenon
<1> HIDE DEF d
<1>2. CASE d >= k
  <2>1. b * d >= b * k
    BY <1>1, <1>2
  <2>2. QED
    BY <1>1, <2>1
<1>3. CASE d < k
  <2>1. b * (d + 1) <= b * k
    BY <1>1, <1>3
  <2>2. b * (d + 1) = b * d + b
    BY <1>1
  <2>3. q + (b - r) = b * d + b
    BY <1>1
  <2>4. QED
    BY <2>1, <2>2, <2>3
<1>4. QED
  BY <1>1, <1>2, <1>3

\* A part of a sector.
LEMMA PartFits ==
  ASSUME call \in Calls, fp \in FILs, call.n > 0
  PROVE  /\ Partial \in 1..call.n /\ Partial <= SS - (fp.ptr % SS)
         /\ \A k \in Nat : fp.ptr < k * SSC => fp.ptr + Partial <= k * SSC
<1>1. fp.ptr \in Nat /\ call.n \in Nat /\ SS \in Nat \ {0}
  BY DEF FILs, Calls
<1>2. PICK r \in 0..SS - 1 : r = fp.ptr % SS
  BY <1>1, DivMod, Zenon
<1>3. Partial = IF call.n < SS - r THEN call.n ELSE SS - r
  BY <1>2, Zenon DEF Partial
<1>4. ASSUME NEW k \in Nat, fp.ptr < k * SSC
      PROVE  fp.ptr + (SS - r) <= k * SSC
  <2>1. PICK m \in Nat : k * SSC = SS * m
    BY DEF SSC
  <2>2. fp.ptr < SS * m
    BY <1>4, <2>1
  <2>3. QED
    BY <1>1, <1>2, <2>1, <2>2, NextMultiple, Zenon
<1>5. Partial \in 1..call.n /\ Partial <= SS - r
  BY <1>1, <1>3
<1>6. \A k \in Nat : fp.ptr < k * SSC => fp.ptr + Partial <= k * SSC
  <2> TAKE k \in Nat
  <2> HAVE fp.ptr < k * SSC
  <2>1. fp.ptr + (SS - r) <= k * SSC /\ k * SSC \in Int
    BY <1>4 DEF SSC
  <2>2. QED
    BY <1>1, <1>5, <2>1
<1>7. QED
  BY <1>2, <1>5, <1>6, Zenon

\* The sector where the file pointer is, and those that follow in the cluster.
LEMMA SectAt ==
  ASSUME fp \in FILs, fp.cur \in Clusters,
         NEW k \in Nat, k < CSize - ((fp.ptr \div SS) % CSize)
  PROVE  Sect + k \in Data /\ Sect \in Data
<1> DEFINE j == (fp.ptr \div SS) % CSize
<1>1. fp.ptr \in Nat
  BY DEF FILs
<1>2. fp.ptr \div SS \in Nat
  <2>1. SS \in Nat \ {0}
    OBVIOUS
  <2>2. QED
    BY <1>1, <2>1, DivMod, Zenon
<1>3. j \in 0..CSize - 1
  <2>1. CSize \in Nat \ {0}
    OBVIOUS
  <2>2. QED
    BY <1>2, <2>1, DivMod, Zenon
<1> HIDE DEF j
<1>4. j + k \in 0..CSize - 1
  BY <1>3 DEF j
<1>5. clust2sect(fp.cur) + j \in Data /\ clust2sect(fp.cur) + (j + k) \in Data
  BY <1>3, <1>4, SectorOf
<1>6. Sect = clust2sect(fp.cur) + j
  BY DEF Sect, j
<1>7. clust2sect(fp.cur) \in Int
  BY Layout DEF clust2sect, Clusters
<1>8. Sect + k = clust2sect(fp.cur) + (j + k)
  BY <1>3, <1>6, <1>7
<1>9. QED
  BY <1>5, <1>6, <1>8

LEMMA SectHere ==
  ASSUME fp \in FILs, fp.cur \in Clusters
  PROVE  Sect \in Data
<1>1. fp.ptr \in Nat /\ SS \in Nat \ {0} /\ CSize \in Nat \ {0}
  BY DEF FILs
<1>2. fp.ptr \div SS \in Nat
  BY <1>1, DivMod, Zenon
<1>3. (fp.ptr \div SS) % CSize \in 0..CSize - 1
  BY <1>1, <1>2, DivMod, Zenon
<1>4. QED
  BY <1>3, SectorOf, Zenon DEF Sect

\* Whole sectors, within the cluster.
LEMMA WholeFits ==
  ASSUME call \in Calls, fp \in FILs, call.n >= SS, fp.ptr % SS = 0
  PROVE  /\ Whole \in Nat \ {0} /\ Whole <= CSize - ((fp.ptr \div SS) % CSize)
         /\ SS * Whole \in 1..call.n /\ (fp.ptr + SS * Whole) % SS = 0
         /\ \A k \in Nat : fp.ptr < k * SSC => fp.ptr + SS * Whole <= k * SSC
<1> DEFINE q == fp.ptr \div SS
           left == CSize - (q % CSize)
           w == call.n \div SS
<1>1. fp.ptr \in Nat /\ call.n \in Nat /\ SS \in Nat \ {0}
  BY DEF FILs, Calls
<1>2. q \in Nat /\ fp.ptr = SS * q + 0
  BY <1>1, DivMod
<1>3. left \in 1..CSize
  <2>1. CSize \in Nat \ {0}
    OBVIOUS
  <2>2. q % CSize \in 0..CSize - 1
    BY <1>2, <2>1, DivMod, Zenon
  <2> DEFINE r == q % CSize
  <2> HIDE DEF r
  <2>3. CSize - r \in 1..CSize
    BY <2>1, <2>2 DEF r
  <2>4. QED
    BY <2>3 DEF r
<1>4. w \in Nat \ {0} /\ SS * w <= call.n
  <2>1. w \in Nat /\ call.n % SS \in 0..SS - 1 /\ call.n = SS * w + (call.n % SS)
    BY <1>1, DivMod, Zenon
  <2> HIDE DEF w
  <2>2. w # 0
    BY <1>1, <2>1
  <2>3. SS * w \in Nat
    BY <1>1, <2>1
  <2>4. QED
    BY <1>1, <2>1, <2>2, <2>3
<1>5. Whole = IF w > left THEN left ELSE w
  BY DEF Whole
<1>6. ASSUME NEW k \in Nat, fp.ptr < k * SSC
      PROVE  q + left <= k * CSize
  <2>1. k * SSC = SS * (k * CSize) /\ k * CSize \in Nat /\ k * CSize = CSize * k
    BY DEF SSC
  <2> DEFINE c == k * CSize
  <2> HIDE DEF c, q
  <2>2. q < c
    <3>1. SUFFICES ASSUME q >= c
                   PROVE  FALSE
      BY <1>2, <2>1 DEF c
    <3>2. SS * q >= SS * c
      BY <1>1, <1>2, <2>1, <3>1 DEF c
    <3>3. QED
      BY <1>1, <1>2, <1>6, <2>1, <3>2 DEF c
  <2>3. q < CSize * k /\ q \in Nat /\ CSize \in Nat \ {0}
    BY <1>2, <2>1, <2>2 DEF c
  <2>4. PICK r : r = q % CSize
    OBVIOUS
  <2>5. q + (CSize - r) <= CSize * k
    BY <2>3, <2>4, NextMultiple, Zenon
  <2>6. q + left <= CSize * k
    BY <2>4, <2>5, Zenon
  <2>7. QED
    BY <2>1, <2>6
<1> HIDE DEF q, left, w
<1>7. Whole \in Nat \ {0} /\ Whole <= left /\ Whole <= w
  BY <1>3, <1>4, <1>5
<1>8. SS * Whole \in 1..call.n
  <2>1. SS * Whole <= SS * w /\ SS * Whole \in Nat \ {0}
    BY <1>1, <1>4, <1>7
  <2>2. QED
    BY <1>1, <1>4, <2>1
<1>9. fp.ptr + SS * Whole = SS * (q + Whole) /\ q + Whole \in Nat
  BY <1>1, <1>2, <1>7
<1>10. (fp.ptr + SS * Whole) % SS = 0
  <2>1. fp.ptr + SS * Whole = SS * (q + Whole) + 0 /\ 0 \in 0..SS - 1 /\ fp.ptr + SS * Whole \in Nat
    BY <1>1, <1>8, <1>9
  <2> DEFINE p == fp.ptr + SS * Whole
             n == q + Whole
  <2>2. p \in Nat /\ n \in Nat /\ p = SS * n + 0
    BY <1>9, <2>1
  <2> HIDE DEF p, n
  <2>3. p % SS = 0
    BY <1>1, <2>1, <2>2, DivModUnique, ZenonT(40)
  <2>4. QED
    BY <2>3 DEF p
<1>11. ASSUME NEW k \in Nat, fp.ptr < k * SSC
       PROVE  fp.ptr + SS * Whole <= k * SSC
  <2>1. q + Whole <= k * CSize /\ k * CSize \in Nat
    BY <1>2, <1>3, <1>6, <1>7, <1>11
  <2>2. SS * (q + Whole) <= SS * (k * CSize)
    BY <1>1, <1>9, <2>1
  <2>3. SS * (k * CSize) = k * SSC
    BY DEF SSC
  <2>4. QED
    BY <1>9, <2>2, <2>3
<1>12. QED
  BY <1>7, <1>8, <1>10, <1>11 DEF left, q

\* A step that stores into the sectors of the clusters, or the window when it shows one.
LEMMA VolumeData ==
  ASSUME NEW v, VolumeOK(v), NEW w \in Volumes,
         \A s \in Meta : w.disk[s] = v.disk[s],
         w.wflag => w.winsect # 0,
         \/ w.win = v.win /\ w.winsect = v.winsect /\ w.wflag = v.wflag
         \/ w.winsect \in Data /\ (v.winsect \in Data \/ ~v.wflag)
  PROVE  VolumeOK(w) /\ SameFat(View(v), View(w)) /\ SameDir(View(v), View(w))
<1>1. SameMeta(v.disk, w.disk)
  BY DEF SameMeta
<1>2. v \in Volumes /\ WindowOn(v, Meta) /\ Data \cap Meta = {} /\ Meta \subseteq Sectors
  BY Layout DEF VolumeOK, Data
<1>3. WindowOn(w, Meta)
  BY <1>2 DEF WindowOn
<1>4. SameMeta(View(v), View(w))
  <2>1. v.disk \in [Sectors -> [Units -> Nat]] /\ w.disk \in [Sectors -> [Units -> Nat]]
    BY <1>2 DEF Volumes
  <2>2. CASE w.win = v.win /\ w.winsect = v.winsect /\ w.wflag = v.wflag
    BY <1>1, <1>2, <2>1, <2>2 DEF SameMeta, View
  <2>3. CASE w.winsect \in Data /\ (v.winsect \in Data \/ ~v.wflag)
    <3>1. \A s \in Meta : View(w)[s] = w.disk[s]
      BY <1>2, <2>1, <2>3 DEF View
    <3>2. \A s \in Meta : View(v)[s] = v.disk[s]
      BY <1>2, <2>1, <2>3 DEF View
    <3>3. QED
      BY <3>1, <3>2 DEF SameMeta
  <2>4. QED
    BY <2>2, <2>3
<1>5. QED
  BY <1>1, <1>3, <1>4, VolumeStored, MetaSame

\* An error while something is transferred.
LEMMA AbortInv ==
  ASSUME FatInv, call.at \in Transferring, VolumeOK(volume'),
         SameFat(View(volume), View(volume')), SameDir(View(volume), View(volume')),
         Abort, UNCHANGED <<held, gen, misread>>, faults' \in 0..MaxFaults
  PROVE  FatInv'
<1> DEFINE bad == [fp EXCEPT !.error = TRUE]
<1>1. TypeOK /\ call \in Calls /\ handle \in [Files -> FILs] /\ call.f \in Files /\ fp \in FILs
  BY DEF FatInv, TypeOK, Calls, fp
<1>2. PICK chain \in [Files -> Chains] : Links(View(volume), handle, call, chain)
  BY DEF FatInv, Linked
<1>3. Done(bad) /\ sure' \in [Files -> BOOLEAN]
  BY <1>1, SureType DEF TypeOK, Abort
<1>4. FileOK(fp, call, call.f, chain[call.f])
  BY <1>1, <1>2 DEF Links, fp
<1>5. FileOK(bad, Idle, call.f, chain[call.f]) /\ bad \in FILs /\ (WritesOn(bad) <=> WritesOn(fp))
      /\ bad.org = fp.org
  BY <1>1, <1>4, AbortOK
<1>6. bad.error = TRUE
  BY <1>1 DEF FILs
<1> HIDE DEF bad
<1>7. WritesOn(bad) => bad.org = Root(View(volume), handle, call, call.f)
  BY <1>5 DEF Root, fp
<1>8. /\ call' \in Calls /\ handle' \in [Files -> FILs]
      /\ handle'[call.f] = bad /\ \A g \in Files \ {call.f} : handle'[g] = handle[g]
      /\ WindowAt(volume', call') /\ Linked(View(volume'), handle', call')
  BY <1>1, <1>2, <1>3, <1>5, <1>7, DoneStep
<1>9. \A f \in Files : handle'[f].cur = LastLink => handle'[f].error
  BY <1>1, <1>6, <1>8 DEF TypeOK
<1>10. TypeOK'
  BY <1>1, <1>3, <1>8, <1>9 DEF TypeOK, VolumeOK
<1>11. QED
  BY <1>8, <1>10 DEF FatInv

LEMMA Step ==
  ASSUME NEW p \in Nat, NEW n \in Nat, NEW m \in Nat, m > 0, m <= n,
         NEW most \in Nat, p + n <= most
  PROVE  /\ p + m \in 0..most /\ p + m > 0 /\ p + m \in Nat /\ n - m \in 0..most
         /\ (p + m) + (n - m) = p + n /\ p + m <= p + n /\ p + m <= most /\ most > 0
OBVIOUS

LEMMA AtLeast ==
  ASSUME NEW a \in Nat, NEW b \in Nat, NEW c \in Nat, a >= b, b >= c
  PROVE  a >= c
OBVIOUS

LEMMA TransferSizes ==
  ASSUME NEW file \in FILs, NEW c \in Calls, NEW m \in 1..c.n
  PROVE  /\ file.ptr \in Nat /\ file.size \in Nat /\ file.size <= MaxSize /\ c.n \in Nat
         /\ UpdateSize \in Nat /\ UpdateSize <= MaxSize /\ MaxSize \in Nat
         /\ m \in Nat /\ m > 0 /\ m <= c.n
         /\ (file.ptr + c.n <= file.size \/ file.ptr + c.n <= UpdateSize) => file.ptr + c.n <= MaxSize
<1>1. file.ptr \in 0..MaxSize /\ file.size \in 0..MaxSize
  BY DEF FILs
<1>2. c.n \in 0..MaxSize
  BY DEF Calls
<1>3. QED
  BY <1>1, <1>2

LEMMA NoCluster ==
  /\ 0 \notin Clusters /\ 1 \notin Clusters /\ LastLink \notin Clusters /\ DiskErr \notin Clusters
  /\ LastLink # 0 /\ LastLink # 1 /\ DiskErr # 0 /\ DiskErr # 1 /\ DiskErr # LastLink
BY Layout DEF Clusters, LastLink, DiskErr

\* What is transferred moves the file pointer, within the chain if the file is written.
LEMMA TransferInv ==
  ASSUME FatInv, call.at \in InSector,
         NEW chain \in [Files -> Chains], Links(View(volume), handle, call, chain),
         VolumeOK(volume'),
         SameFat(View(volume), View(volume')), SameDir(View(volume), View(volume')),
         NEW sect \in Sectors \cup {0}, NEW m \in 1..call.n,
         Transfer([fp EXCEPT !.dsect = sect], m),
         (fp.ptr + m) % SS # 0 => sect \in Data,
         call.op = "put" => fp.ptr + m <= Len(chain[call.f]) * SSC,
         held' \in [Files -> Seq(Nat)], misread' \in BOOLEAN,
         UNCHANGED <<gen, sure>>, faults' \in 0..MaxFaults
  PROVE  FatInv'
<1> DEFINE file == [fp EXCEPT !.dsect = sect, !.ptr = @ + m]
<1>1. TypeOK /\ call \in Calls /\ handle \in [Files -> FILs] /\ call.f \in Files /\ fp \in FILs
      /\ call.at \in Transferring
  BY DEF FatInv, TypeOK, Calls, fp, InSector, Transferring
<1>2. FileOK(fp, call, call.f, chain[call.f]) /\ TransferOK(fp, call)
  BY <1>1 DEF Links, fp
<1>3. /\ ~fp.error /\ fp.cur \in Clusters
      /\ \/ call.op = "get" /\ fp.mode \in {"read", "update"} /\ fp.ptr + call.n <= fp.size
         \/ /\ call.op = "put" /\ WritesOn(fp)
            /\ fp.ptr + call.n <= IF fp.mode = "update" THEN UpdateSize ELSE MaxSize
  BY <1>1, <1>2 DEF TransferOK
<1>4. /\ fp.ptr \in Nat /\ fp.size \in Nat /\ fp.size <= MaxSize /\ call.n \in Nat
      /\ UpdateSize \in Nat /\ UpdateSize <= MaxSize /\ MaxSize \in Nat
      /\ m \in Nat /\ m > 0 /\ m <= call.n
  BY <1>1, TransferSizes, Zenon
<1>5. fp.ptr + call.n <= MaxSize
  <2>1. fp.ptr + call.n <= fp.size \/ fp.ptr + call.n <= UpdateSize \/ fp.ptr + call.n <= MaxSize
    BY <1>3, Zenon
  <2>2. QED
    BY <1>1, <2>1, TransferSizes, Zenon
<1>6. /\ fp.ptr + m \in 0..MaxSize /\ fp.ptr + m > 0 /\ fp.ptr + m \in Nat /\ call.n - m \in 0..MaxSize
      /\ (fp.ptr + m) + (call.n - m) = fp.ptr + call.n /\ fp.ptr + m <= fp.ptr + call.n
  BY <1>4, <1>5, Step, Zenon
<1>7. handle' = [handle EXCEPT ![call.f] = file]
  BY DEF Transfer
<1>8. /\ file \in FILs /\ file.mode = fp.mode /\ file.org = fp.org /\ file.cur = fp.cur
      /\ file.size = fp.size /\ file.ptr = fp.ptr + m /\ file.dsect = sect
  BY <1>1, <1>6 DEF FILs
<1>9. file.written = fp.written /\ file.error = fp.error
  BY <1>1 DEF FILs
<1> HIDE DEF file
<1>10. /\ call' \in Calls /\ call'.at = "loop" /\ call'.f = call.f /\ call'.op = call.op
       /\ call'.n = call.n - m
  <2>1. call' = [call EXCEPT !.at = "loop", !.n = call.n - m]
    BY DEF Transfer
  <2>2. QED
    BY <1>1, <1>6, <2>1 DEF Calls
<1>11. ~Joining(call, call.f) /\ Filling(call, call.f)
  BY DEF Joining, Filling, InSector
<1>12. FileOK(file, call', call.f, chain[call.f])
  <2>1. /\ fp.written => WritesOn(fp)
        /\ WritesOn(fp) =>
             /\ fp.org \notin Clusters => fp.ptr = 0 /\ fp.size = 0
             /\ fp.org \in Clusters => Len(chain[call.f]) * SSC >= fp.size
        /\ fp.mode = "create" /\ fp.org \in Clusters => fp.cur = EndOf(chain[call.f])
    BY <1>2, <1>3, <1>11 DEF FileOK
  <2>2. WritesOn(file) <=> WritesOn(fp)
    BY <1>8 DEF WritesOn
  <2>3. file.ptr > 0
    BY <1>6, <1>8
  <2>4. file.ptr % SS # 0 => file.dsect \in Data
    BY <1>8
  <2>5. call.op = "put" => fp.org \in Clusters
    BY <1>1 DEF Links, ChainOK, fp
  <2>6. /\ WritesOn(file) => file.org \in Clusters
        /\ WritesOn(file) => Len(chain[call.f]) * SSC >= file.ptr
    <3>1. CASE call.op = "put"
      <4>1. Len(chain[call.f]) * SSC >= fp.ptr + m
        BY <1>1, <1>4, <3>1, Room
      <4>2. QED
        BY <1>8, <2>5, <3>1, <4>1
    <3>2. CASE call.op # "put"
      <4>1. fp.size > 0 /\ fp.size >= fp.ptr + m
        <5>1. fp.ptr + call.n <= fp.size
          BY <1>3, <3>2
        <5>2. fp.size > 0 /\ fp.ptr + m <= fp.size
          BY <1>4, <5>1, Step, Zenon
        <5>3. QED
          BY <5>2
      <4>2. WritesOn(fp) => fp.org \in Clusters
        BY <1>4, <2>1, <4>1, SMTT(30)
      <4>3. Len(chain[call.f]) * SSC \in Nat
        BY <1>1, Room
      <4>4. WritesOn(fp) => Len(chain[call.f]) * SSC >= fp.ptr + m
        <5>1. WritesOn(fp) => Len(chain[call.f]) * SSC >= fp.size
          BY <2>1, <4>2
        <5>2. QED
          BY <1>4, <1>6, <4>1, <4>3, <5>1, AtLeast, Zenon
      <4>5. QED
        BY <1>8, <2>2, <4>2, <4>4
    <3>3. QED
      BY <3>1, <3>2
  <2>7. QED
    BY <1>3, <1>8, <1>9, <2>1, <2>2, <2>3, <2>4, <2>6 DEF FileOK
<1>13. TransferOK(file, call')
  <2>1. \/ call.op = "get" /\ file.mode \in {"read", "update"} /\ file.ptr + call'.n <= file.size
        \/ /\ call.op = "put" /\ WritesOn(file)
           /\ file.ptr + call'.n <= IF file.mode = "update" THEN UpdateSize ELSE MaxSize
    BY <1>3, <1>6, <1>8, <1>10 DEF WritesOn
  <2>2. QED
    BY <1>3, <1>9, <1>10, <2>1 DEF TransferOK, Transferring, InSector
<1>14. ChainOK(View(volume'), Roots(View(volume'), handle', call'), file, call', chain)
  BY <1>10 DEF ChainOK, InSector
<1>15. file.cur # LastLink
  <2>1. file.cur \in Clusters
    BY <1>3, <1>8
  <2>2. QED
    BY <2>1, NoCluster, Zenon
<1>16. call'.at \in Transferring \ {"link"}
  BY <1>10 DEF Transferring
<1>17. QED
  BY <1>1, <1>7, <1>8, <1>10, <1>12, <1>13, <1>14, <1>15, <1>16, FileStep

\* What holds while a call is in a sector.
LEMMA InSectorFacts ==
  ASSUME FatInv, call.at \in InSector,
         NEW chain \in [Files -> Chains], Links(View(volume), handle, call, chain)
  PROVE  /\ TypeOK /\ VolumeOK(volume) /\ Good(View(volume)) /\ call.at \in Transferring
         /\ call \in Calls /\ handle \in [Files -> FILs] /\ call.f \in Files /\ fp \in FILs
         /\ FileOK(fp, call, call.f, chain[call.f]) /\ TransferOK(fp, call)
         /\ fp.cur \in Clusters /\ fp.cur # LastLink /\ call.n > 0 /\ ~fp.error
         /\ fp.dsect \in Sectors \cup {0}
         /\ call.at # "part" => fp.ptr % SS = 0
         /\ chain[call.f] \in Chains /\ Len(chain[call.f]) \in Nat
         /\ call.op = "put" => WritesOn(fp) /\ fp.org \in Clusters /\ fp.ptr < Len(chain[call.f]) * SSC
<1>1. /\ TypeOK /\ VolumeOK(volume) /\ Good(View(volume)) /\ call.at \in Transferring
      /\ call \in Calls /\ handle \in [Files -> FILs] /\ call.f \in Files /\ fp \in FILs
  BY LinkedGood DEF FatInv, TypeOK, Calls, fp, InSector, Transferring
<1>2. FileOK(fp, call, call.f, chain[call.f]) /\ TransferOK(fp, call)
      /\ ChainOK(View(volume), Roots(View(volume), handle, call), fp, call, chain)
  BY <1>1 DEF Links, fp
<1>3. /\ fp.cur \in Clusters /\ ~fp.error
      /\ call.at # "part" => fp.ptr % SS = 0
      /\ call.op = "put" => WritesOn(fp)
  BY <1>1, <1>2 DEF TransferOK, InSector
<1>4. call.n > 0
  BY <1>2 DEF TransferOK, InSector, Transferring
<1>5. call.op = "put" => fp.org \in Clusters /\ fp.ptr < Len(chain[call.f]) * SSC
  BY <1>2 DEF ChainOK
<1>6. fp.cur # LastLink
  BY <1>3, Layout DEF LastLink, Clusters
<1>7. fp.dsect \in Sectors \cup {0}
  BY <1>1 DEF FILs
<1>8. chain[call.f] \in Chains /\ Len(chain[call.f]) \in Nat
  BY <1>1, ChainType
<1>9. QED
  BY <1>1, <1>2, <1>3, <1>4, <1>5, <1>6, <1>7, <1>8, Zenon

\* A step that stays in the sector.
LEMMA InSectorStep ==
  ASSUME FatInv, call.at \in InSector,
         NEW chain \in [Files -> Chains], Links(View(volume), handle, call, chain),
         VolumeOK(volume'), View(volume') = View(volume),
         NEW at \in {"whole", "edge", "part"}, Goto(at),
         NEW sect \in Sectors \cup {0},
         handle' = [handle EXCEPT ![call.f] = [fp EXCEPT !.dsect = sect]],
         sect \in Data \/ (sect = fp.dsect /\ at # "part"),
         at = "whole" => call.op = "put" /\ call.n >= SS /\ fp.ptr % SS = 0,
         at = "edge" => call.op = "put" /\ fp.ptr % SS = 0,
         UNCHANGED <<held, gen, sure, misread>>, faults' \in 0..MaxFaults
  PROVE  FatInv'
<1> DEFINE file == [fp EXCEPT !.dsect = sect]
<1>1. /\ TypeOK /\ call.at \in Transferring
      /\ call \in Calls /\ handle \in [Files -> FILs] /\ call.f \in Files /\ fp \in FILs
      /\ FileOK(fp, call, call.f, chain[call.f]) /\ TransferOK(fp, call)
      /\ fp.cur \in Clusters /\ fp.cur # LastLink /\ call.n > 0 /\ ~fp.error
  BY InSectorFacts
<1>2. /\ file \in FILs /\ file.mode = fp.mode /\ file.org = fp.org /\ file.cur = fp.cur
      /\ file.size = fp.size /\ file.ptr = fp.ptr /\ file.dsect = sect
  BY <1>1 DEF FILs
<1>3. file.written = fp.written /\ file.error = fp.error
  BY <1>1 DEF FILs
<1>4. handle' = [handle EXCEPT ![call.f] = file]
  OBVIOUS
<1> HIDE DEF file
<1>5. at \in Opening \cup Transferring \cup {"sync"} /\ at \in InSector /\ at \in Transferring \ {"link", "loop"}
  BY DEF Transferring, InSector
<1>6. /\ call' \in Calls /\ call'.at = at /\ call'.f = call.f /\ call'.op = call.op
      /\ call'.n = call.n
  BY <1>1, <1>5, GotoFact
<1>7. ~Joining(call, call.f) /\ Filling(call, call.f) /\ ~Joining(call', call.f) /\ Filling(call', call.f)
  BY <1>5, <1>6 DEF Joining, Filling, InSector
<1>8. FileOK(file, call', call.f, chain[call.f])
  BY <1>1, <1>2, <1>3, <1>7 DEF FileOK, WritesOn
<1>9. TransferOK(file, call')
  <2>1. \/ call.op = "get" /\ file.mode \in {"read", "update"} /\ file.ptr + call.n <= file.size
        \/ /\ call.op = "put" /\ WritesOn(file)
           /\ file.ptr + call.n <= IF file.mode = "update" THEN UpdateSize ELSE MaxSize
    BY <1>1, <1>2 DEF TransferOK, WritesOn
  <2>2. at \notin {"loop", "next", "find", "link", "join", "sector", "record"}
    OBVIOUS
  <2>3. at = "part" => file.dsect \in Data
    BY <1>2
  <2>4. at \in {"whole", "edge"} => file.ptr % SS = 0 /\ call.op = "put"
    BY <1>2
  <2>5. QED
    BY <1>1, <1>2, <1>3, <1>5, <1>6, <2>1, <2>2, <2>3, <2>4 DEF TransferOK
<1>10. ChainOK(View(volume'), Roots(View(volume'), handle', call'), file, call', chain)
  <2>1. call.op = "put" => fp.org \in Clusters /\ fp.ptr < Len(chain[call.f]) * SSC
    BY InSectorFacts
  <2>2. at \notin {"find", "link", "join"}
    OBVIOUS
  <2>3. QED
    BY <1>2, <1>6, <2>1, <2>2 DEF ChainOK
<1>11. SameFat(View(volume), View(volume')) /\ SameDir(View(volume), View(volume'))
  BY SameView
<1>12. held' \in [Files -> Seq(Nat)] /\ misread' \in BOOLEAN /\ UNCHANGED <<gen, sure>>
  BY <1>1 DEF TypeOK
<1>13. QED
  BY <1>1, <1>2, <1>4, <1>5, <1>6, <1>8, <1>9, <1>10, <1>11, <1>12, FileStep

LEMMA OwnSector ==
  ASSUME NEW file \in FILs
  PROVE  file = [file EXCEPT !.dsect = file.dsect]
BY DEF FILs

LEMMA GetWholeInv ==
  ASSUME FatInv, GetWhole
  PROVE  FatInv'
<1>1. /\ call.at \in InSector /\ call.at = "sector" /\ call.op = "get" /\ call.n >= SS
      /\ UNCHANGED <<volume, held, gen>>
  BY DEF GetWhole, InSector
<1>2. PICK chain \in [Files -> Chains] : Links(View(volume), handle, call, chain)
  BY DEF FatInv, Linked
<1>3. /\ TypeOK /\ VolumeOK(volume) /\ call.at \in Transferring /\ call \in Calls /\ fp \in FILs
      /\ fp.ptr % SS = 0 /\ fp.dsect \in Sectors \cup {0}
  BY <1>1, <1>2, InSectorFacts
<1>4. VolumeOK(volume') /\ SameFat(View(volume), View(volume')) /\ SameDir(View(volume), View(volume'))
  BY <1>1, <1>3, SameView
<1>5. ASSUME misread' \in BOOLEAN, Transfer(fp, SS * Whole), Right, UNCHANGED sure
      PROVE  FatInv'
  <2>1. SS * Whole \in 1..call.n /\ (fp.ptr + SS * Whole) % SS = 0
    BY <1>1, <1>3, WholeFits
  <2>2. PICK m \in 1..call.n : m = SS * Whole
    BY <2>1, Zenon
  <2>3. (fp.ptr + m) % SS = 0
    BY <2>1, <2>2, Zenon
  <2>4. Transfer([fp EXCEPT !.dsect = fp.dsect], m)
    BY <1>3, <1>5, <2>2, OwnSector, Zenon
  <2>5. held' \in [Files -> Seq(Nat)] /\ faults' \in 0..MaxFaults /\ UNCHANGED <<gen, sure>>
    BY <1>1, <1>3, <1>5 DEF TypeOK, Right
  <2>6. PICK s \in Sectors \cup {0} : s = fp.dsect
    BY <1>3, Zenon
  <2>7. Transfer([fp EXCEPT !.dsect = s], m) /\ ((fp.ptr + m) % SS # 0 => s \in Data)
        /\ (call.op = "put" => fp.ptr + m <= Len(chain[call.f]) * SSC)
    BY <1>1, <2>3, <2>4, <2>6, Zenon
  <2>8. QED
    BY <1>1, <1>2, <1>4, <1>5, <2>5, <2>7, TransferInv, Zenon
<1>6. ASSUME Wrong, Abort, UNCHANGED misread
      PROVE  FatInv'
  <2>1. faults' \in 0..MaxFaults
    BY <1>3, <1>6 DEF TypeOK, Wrong
  <2>2. QED
    BY <1>1, <1>3, <1>4, <1>6, <2>1, AbortInv
<1>7. \/ misread' \in BOOLEAN /\ Transfer(fp, SS * Whole) /\ Right /\ UNCHANGED sure
      \/ Wrong /\ Abort /\ UNCHANGED misread
  BY Zenon DEF GetWhole, Delivers
<1>8. QED
  BY <1>5, <1>6, <1>7

LEMMA GetSectorInv ==
  ASSUME FatInv, GetSector
  PROVE  FatInv'
<1>1. /\ call.at \in InSector /\ call.at = "sector" /\ call.op = "get"
      /\ handle' = [handle EXCEPT ![call.f].dsect = Sect] /\ Goto("part")
      /\ UNCHANGED <<volume, held, gen, sure, misread, faults>>
  BY DEF GetSector, InSector
<1>2. PICK chain \in [Files -> Chains] : Links(View(volume), handle, call, chain)
  BY DEF FatInv, Linked
<1>3. /\ TypeOK /\ VolumeOK(volume) /\ call \in Calls /\ fp \in FILs /\ fp.cur \in Clusters
      /\ handle \in [Files -> FILs] /\ call.f \in Files
  BY <1>1, <1>2, InSectorFacts
<1>4. Sect \in Data
  BY <1>3, SectHere
<1>5. handle' = [handle EXCEPT ![call.f] = [fp EXCEPT !.dsect = Sect]]
  BY <1>1, <1>3 DEF fp
<1>6. PICK sect \in Sectors \cup {0} : sect = Sect /\ sect \in Data
  BY <1>4, Zenon DEF Data
<1>7. faults' \in 0..MaxFaults /\ VolumeOK(volume') /\ View(volume') = View(volume)
  BY <1>1, <1>3 DEF TypeOK
<1>8. QED
  BY <1>1, <1>2, <1>5, <1>6, <1>7, InSectorStep

LEMMA GetPartInv ==
  ASSUME "torn" \notin Kinds, FatInv, GetPart
  PROVE  FatInv'
<1>1. /\ call.at \in InSector /\ call.at = "part" /\ call.op = "get"
      /\ UNCHANGED <<held, gen>>
  BY DEF GetPart, InSector
<1>2. PICK chain \in [Files -> Chains] : Links(View(volume), handle, call, chain)
  BY DEF FatInv, Linked
<1>3. /\ TypeOK /\ VolumeOK(volume) /\ Good(View(volume)) /\ call.at \in Transferring
      /\ call \in Calls /\ fp \in FILs /\ call.n > 0 /\ TransferOK(fp, call)
      /\ fp.dsect \in Sectors \cup {0}
  BY <1>1, <1>2, InSectorFacts
<1>4. fp.dsect \in Data
  BY <1>1, <1>3 DEF TransferOK
<1>5. ASSUME volume' = Moved(volume, fp.dsect), Right, misread' \in BOOLEAN,
             Transfer(fp, Partial), UNCHANGED sure
      PROVE  FatInv'
  <2>1. VolumeOK(volume') /\ View(volume') = View(volume)
    BY <1>3, <1>5, VolumeMoved
  <2>2. PICK m \in 1..call.n : m = Partial
    BY <1>3, PartFits
  <2>3. PICK s \in Sectors \cup {0} : s = fp.dsect
    BY <1>3, Zenon
  <2>4. Transfer([fp EXCEPT !.dsect = s], m)
    BY <1>3, <1>5, <2>2, <2>3, OwnSector, Zenon
  <2>5. held' \in [Files -> Seq(Nat)] /\ faults' \in 0..MaxFaults /\ UNCHANGED <<gen, sure>>
    BY <1>1, <1>3, <1>5 DEF TypeOK, Right
  <2>6. ((fp.ptr + m) % SS # 0 => s \in Data)
        /\ (call.op = "put" => fp.ptr + m <= Len(chain[call.f]) * SSC)
    BY <1>1, <1>4, <2>3, Zenon
  <2>7. SameFat(View(volume), View(volume')) /\ SameDir(View(volume), View(volume'))
    BY <2>1, SameView
  <2>8. QED
    BY <1>1, <1>2, <1>5, <2>1, <2>4, <2>5, <2>6, <2>7, TransferInv, Zenon
<1>6. ASSUME volume' \in Unmoved(volume, fp.dsect), Wrong, Abort, UNCHANGED misread
      PROVE  FatInv'
  <2>1. faults' \in 0..MaxFaults
    BY <1>3, <1>6 DEF TypeOK, Wrong
  <2>2. VolumeOK(volume') /\ View(volume') = View(volume)
    BY <1>3, <1>6, VolumeUnmoved
  <2>3. QED
    BY <1>1, <1>3, <1>6, <2>1, <2>2, SameView, AbortInv
<1>7. \/ /\ volume' = Moved(volume, fp.dsect) /\ Right /\ misread' \in BOOLEAN
         /\ Transfer(fp, Partial) /\ UNCHANGED sure
      \/ volume' \in Unmoved(volume, fp.dsect) /\ Wrong /\ Abort /\ UNCHANGED misread
  BY Zenon DEF GetPart, Delivers
<1>8. QED
  BY <1>5, <1>6, <1>7

\* The end of a call, with what it leaves.
LEMMA FinishInv ==
  ASSUME FatInv, NEW chain \in [Files -> Chains], Links(View(volume), handle, call, chain),
         NEW file \in FILs, Done(file), file.cur = LastLink => file.error,
         VolumeOK(volume'),
         SameFat(View(volume), View(volume')), SameDir(View(volume), View(volume')),
         WritesOn(file) => file.org \in {Root(View(volume), handle, call, call.f),
                                         StartOf(View(volume), call.f)},
         FileOK(file, Idle, call.f, chain[call.f]),
         sure' \in [Files -> BOOLEAN], UNCHANGED <<held, gen, misread>>, faults' \in 0..MaxFaults
  PROVE  FatInv'
<1>1. TypeOK /\ call \in Calls /\ handle \in [Files -> FILs] /\ call.f \in Files
  BY DEF FatInv, TypeOK, Calls
<1>2. /\ call' \in Calls /\ handle' \in [Files -> FILs]
      /\ handle'[call.f] = file /\ \A g \in Files \ {call.f} : handle'[g] = handle[g]
      /\ WindowAt(volume', call') /\ Linked(View(volume'), handle', call')
  BY <1>1, DoneStep
<1>3. \A f \in Files : handle'[f].cur = LastLink => handle'[f].error
  BY <1>1, <1>2 DEF TypeOK
<1>4. TypeOK'
  BY <1>1, <1>2, <1>3 DEF TypeOK, VolumeOK
<1>5. QED
  BY <1>2, <1>4 DEF FatInv

\* FR_OK of f_read.
LEMMA GetDoneInv ==
  ASSUME FatInv, GetDone
  PROVE  FatInv'
<1>1. /\ TypeOK /\ VolumeOK(volume) /\ call \in Calls /\ handle \in [Files -> FILs]
      /\ call.f \in Files /\ fp \in FILs /\ call.at = "loop"
      /\ Done(fp) /\ UNCHANGED <<volume, held, gen, sure, misread, faults>>
  BY DEF FatInv, GetDone, TypeOK, Calls, fp
<1>2. PICK chain \in [Files -> Chains] : Links(View(volume), handle, call, chain)
  BY DEF FatInv, Linked
<1>3. FileOK(fp, call, call.f, chain[call.f]) /\ (fp.cur = LastLink => fp.error)
  BY <1>1, <1>2 DEF Links, fp, TypeOK
<1>4. FileOK(fp, Idle, call.f, chain[call.f])
  BY <1>1, <1>3 DEF FileOK, Joining, Filling, InSector, Idle
<1>5. WritesOn(fp) => fp.org = Root(View(volume), handle, call, call.f)
  BY DEF Root, fp
<1>6. sure' \in [Files -> BOOLEAN] /\ faults' \in 0..MaxFaults /\ VolumeOK(volume')
  BY <1>1 DEF TypeOK
<1>7. SameFat(View(volume), View(volume')) /\ SameDir(View(volume), View(volume'))
  BY <1>1, SameView
<1>8. QED
  BY <1>1, <1>2, <1>3, <1>4, <1>5, <1>6, <1>7, FinishInv

-----------------------------------------------------------------------------
(***************************************************************************)
(* f_write.                                                                *)
(***************************************************************************)
LEMMA DatumType ==
  ASSUME TypeOK, NEW p \in Nat
  PROVE  Datum(p) \in Nat
  BY SMTT(30) DEF TypeOK, Calls, Files, Datum

LEMMA HoldsType ==
  ASSUME TypeOK, NEW m \in Nat, Holds(m)
  PROVE  held' \in [Files -> Seq(Nat)]
<1> DEFINE old == held[call.f]
           all == IF fp.ptr + m > Len(old) THEN fp.ptr + m ELSE Len(old)
           new == [p \in 1..all |->
                     IF p \in fp.ptr + 1 .. fp.ptr + m THEN Datum(p - 1)
                     ELSE IF p \in DOMAIN old THEN old[p] ELSE 0]
<1>1. call.f \in Files /\ held \in [Files -> Seq(Nat)] /\ handle \in [Files -> FILs]
  BY DEF TypeOK, Calls
<1>2. old \in Seq(Nat) /\ fp.ptr \in Nat
  BY <1>1 DEF FILs, fp
<1>3. all \in Nat
  BY <1>2
<1>4. held' = [held EXCEPT ![call.f] = new]
  BY <1>1 DEF Holds
<1>5. ASSUME NEW p \in 1..all
      PROVE  new[p] \in Nat
  <2>1. CASE p \in fp.ptr + 1 .. fp.ptr + m
    <3>1. p - 1 \in Nat
      BY <1>3
    <3>2. Datum(p - 1) \in Nat
      BY <3>1, DatumType
    <3>3. QED
      BY <2>1, <3>2
  <2>2. CASE p \notin fp.ptr + 1 .. fp.ptr + m
    BY <1>2, <1>3, <2>2
  <2>3. QED
    BY <2>1, <2>2
<1> HIDE DEF all
<1>6. new \in [1..all -> Nat]
  BY <1>5
<1>7. new \in Seq(Nat)
  BY <1>3, <1>6
<1>8. QED
  BY <1>1, <1>4, <1>7

LEMMA PutSectorInv ==
  ASSUME "torn" \notin Kinds, FatInv, PutSector
  PROVE  FatInv'
<1>1. /\ call.at \in InSector /\ call.at = "sector" /\ call.op = "put"
      /\ UNCHANGED <<held, gen, misread>>
  BY DEF PutSector, InSector
<1>2. PICK chain \in [Files -> Chains] : Links(View(volume), handle, call, chain)
  BY DEF FatInv, Linked
<1>3. /\ TypeOK /\ VolumeOK(volume) /\ Good(View(volume)) /\ call \in Calls /\ fp \in FILs
      /\ fp.cur \in Clusters /\ call.at \in Transferring /\ fp.ptr % SS = 0
      /\ fp.dsect \in Sectors \cup {0}
      /\ handle \in [Files -> FILs] /\ call.f \in Files
  BY <1>1, <1>2, InSectorFacts
<1>4. Sect \in Data
  BY <1>3, SectHere
<1>5. ASSUME volume' = IF volume.winsect = fp.dsect THEN Moved(volume, 0) ELSE volume, Right,
             UNCHANGED sure,
             \/ call.n >= SS /\ Goto("whole") /\ UNCHANGED handle
             \/ call.n < SS /\ fp.ptr >= fp.size /\ Goto("edge") /\ UNCHANGED handle
             \/ /\ call.n < SS /\ fp.ptr < fp.size /\ Goto("part")
                /\ handle' = [handle EXCEPT ![call.f].dsect = Sect]
      PROVE  FatInv'
  <2>1. VolumeOK(volume') /\ View(volume') = View(volume)
    BY <1>3, <1>5, VolumeMoved
  <2>2. faults' \in 0..MaxFaults
    BY <1>3, <1>5 DEF TypeOK, Right
  <2>3. PICK own \in Sectors \cup {0} : own = fp.dsect
    BY <1>3, Zenon
  <2>4. ASSUME UNCHANGED handle
        PROVE  handle' = [handle EXCEPT ![call.f] = [fp EXCEPT !.dsect = own]]
    <3>1. fp = [fp EXCEPT !.dsect = own]
      BY <1>3, <2>3, OwnSector, Zenon
    <3>2. handle = [handle EXCEPT ![call.f] = fp]
      BY <1>3 DEF fp
    <3>3. QED
      BY <2>4, <3>1, <3>2, Zenon
  <2>5. CASE call.n >= SS /\ Goto("whole") /\ UNCHANGED handle
    BY <1>1, <1>2, <1>3, <1>5, <2>1, <2>2, <2>3, <2>4, <2>5, InSectorStep
  <2>6. CASE Goto("edge") /\ UNCHANGED handle
    BY <1>1, <1>2, <1>3, <1>5, <2>1, <2>2, <2>3, <2>4, <2>6, InSectorStep
  <2>7. CASE Goto("part") /\ handle' = [handle EXCEPT ![call.f].dsect = Sect]
    <3>1. PICK sect \in Sectors \cup {0} : sect = Sect /\ sect \in Data
      BY <1>4, Zenon DEF Data
    <3>2. handle' = [handle EXCEPT ![call.f] = [fp EXCEPT !.dsect = sect]]
      BY <1>3, <2>7, <3>1 DEF fp
    <3>3. QED
      BY <1>1, <1>2, <1>5, <2>1, <2>2, <2>7, <3>1, <3>2, InSectorStep
  <2>8. QED
    BY <1>5, <2>5, <2>6, <2>7
<1>6. ASSUME volume' \in Unmoved(volume, 0), Wrong, Abort
      PROVE  FatInv'
  <2>1. faults' \in 0..MaxFaults
    BY <1>3, <1>6 DEF TypeOK, Wrong
  <2>2. VolumeOK(volume') /\ View(volume') = View(volume)
    BY <1>3, <1>6, VolumeUnmoved
  <2>3. QED
    BY <1>1, <1>3, <1>6, <2>1, <2>2, SameView, AbortInv
<1>7. QED
  BY <1>5, <1>6 DEF PutSector

\* The volume with data in the sector of the call.
Over(data) == [volume EXCEPT !.disk[Sect] = data]

\* Whole sectors change no entry of the FAT and of the directory.
LEMMA WholeStored ==
  ASSUME FatInv, call.at = "whole", NEW data \in [Units -> Nat], volume' = Past(Over(data))
  PROVE  VolumeOK(volume') /\ SameFat(View(volume), View(volume')) /\ SameDir(View(volume), View(volume'))
<1> DEFINE W == Over(data)
<1>1. call.at \in InSector
  BY DEF InSector
<1>2. PICK chain \in [Files -> Chains] : Links(View(volume), handle, call, chain)
  BY DEF FatInv, Linked
<1>3. /\ TypeOK /\ VolumeOK(volume) /\ call.at \in Transferring /\ call \in Calls /\ fp \in FILs
      /\ TransferOK(fp, call) /\ fp.cur \in Clusters /\ fp.ptr % SS = 0
  BY <1>1, <1>2, InSectorFacts
<1>4. call.n >= SS
  BY <1>1, <1>3 DEF TransferOK
<1>5. Sect \in Data /\ Sect \in Sectors /\ Sect \notin Meta
  BY <1>3, SectHere DEF Data
<1>6. fp.ptr \in Nat /\ volume \in Volumes
  BY <1>3 DEF FILs, VolumeOK
<1>7. Whole \in Nat \ {0} /\ Whole <= CSize - ((fp.ptr \div SS) % CSize)
  BY <1>3, <1>4, WholeFits
<1>8. /\ W \in Volumes /\ W.win = volume.win /\ W.winsect = volume.winsect /\ W.wflag = volume.wflag
      /\ W.disk = [volume.disk EXCEPT ![Sect] = data] /\ W.last = volume.last
      /\ \A s \in Meta : W.disk[s] = volume.disk[s]
  <2>1. /\ W \in Volumes /\ W.win = volume.win /\ W.winsect = volume.winsect /\ W.wflag = volume.wflag
        /\ W.disk = [volume.disk EXCEPT ![Sect] = data] /\ W.last = volume.last
    BY <1>5, <1>6 DEF Volumes, Over
  <2>2. \A s \in Meta : W.disk[s] = volume.disk[s]
    BY <1>5, <1>6, <2>1, Layout DEF Volumes
  <2>3. QED
    BY <2>1, <2>2
<1>9. volume' = Past(W)
  BY DEF W
<1> HIDE DEF W
<1>10. volume.wflag => volume.winsect # 0
  BY <1>3 DEF VolumeOK, WindowOn
<1>11. QED
  <2> DEFINE k == W.winsect - Sect
  <2>1. CASE k \in 0..Whole - 1
    <3> DEFINE new == [u \in Units |-> Datum(fp.ptr + k * SS + u)]
    <3>1. Sect + k \in Data
      <4>1. PICK left : left = CSize - ((fp.ptr \div SS) % CSize)
        OBVIOUS
      <4>2. left \in Int
        <5>1. SS \in Nat \ {0} /\ CSize \in Nat \ {0}
          OBVIOUS
        <5>2. fp.ptr \div SS \in Nat
          BY <1>6, <5>1, DivMod, Zenon
        <5>3. PICK r \in 0..CSize - 1 : r = (fp.ptr \div SS) % CSize
          BY <5>1, <5>2, DivMod, Zenon
        <5>4. left = CSize - r
          BY <4>1, <5>3, Zenon
        <5>5. QED
          BY <5>1, <5>3, <5>4
      <4>3. Whole <= left /\ Whole \in Nat
        BY <1>7, <4>1, Zenon
      <4>4. PICK w \in Nat : w = Whole
        BY <4>3, Zenon
      <4>5. k \in 0..w - 1 /\ w <= left
        BY <2>1, <4>3, <4>4, Zenon
      <4> HIDE DEF k
      <4>6. k \in Nat /\ k < left
        BY <4>2, <4>5
      <4>7. QED
        BY <1>3, <4>1, <4>6, SectAt, Zenon
    <3>2. W.winsect = Sect + k /\ k \in Nat
      BY <1>5, <1>8, <1>6, <2>1, Layout DEF Volumes, Sectors
    <3>3. new \in [Units -> Nat]
      <4>1. ASSUME NEW u \in Units
            PROVE  Datum(fp.ptr + k * SS + u) \in Nat
        <5>1. k * SS \in Nat
          BY <3>2
        <5>2. fp.ptr + k * SS + u \in Nat
          BY <1>6, <5>1 DEF Units
        <5>3. QED
          BY <1>3, <5>2, DatumType
      <4>2. QED
        BY <4>1
    <3>4. volume' = [W EXCEPT !.win = new, !.wflag = FALSE]
      BY <1>9, <2>1 DEF Past
    <3> HIDE DEF new, k
    <3>5. /\ volume' \in Volumes /\ volume'.disk = W.disk /\ volume'.winsect = W.winsect
          /\ volume'.wflag = FALSE
      BY <1>8, <3>3, <3>4 DEF Volumes
    <3>6. volume'.winsect \in Data /\ volume.winsect \in Data
      BY <1>8, <3>1, <3>2, <3>5
    <3>7. QED
      BY <1>3, <1>8, <3>5, <3>6, VolumeData
  <2>2. CASE k \notin 0..Whole - 1
    <3>1. volume' = W
      BY <1>9, <2>2 DEF Past
    <3>2. QED
      BY <1>3, <1>8, <1>10, <3>1, VolumeData, ZenonT(30)
  <2>3. QED
    BY <2>1, <2>2

\* Whole sectors; the first of them is stored.
LEMMA PutWholeInv ==
  ASSUME FatInv, PutWhole
  PROVE  FatInv'
<1> DEFINE data == [u \in Units |-> Datum(fp.ptr + u)]
           W    == [volume EXCEPT !.disk[Sect] = data]
<1>1. call.at \in InSector /\ call.at = "whole" /\ UNCHANGED <<gen, misread>>
  BY DEF PutWhole, InSector
<1>2. PICK chain \in [Files -> Chains] : Links(View(volume), handle, call, chain)
  BY DEF FatInv, Linked
<1>3. /\ TypeOK /\ VolumeOK(volume) /\ call.at \in Transferring /\ call \in Calls /\ fp \in FILs
      /\ TransferOK(fp, call) /\ fp.cur \in Clusters
      /\ fp.ptr % SS = 0 /\ fp.dsect \in Sectors \cup {0} /\ Len(chain[call.f]) \in Nat
      /\ call.op = "put" => fp.ptr < Len(chain[call.f]) * SSC
  BY <1>1, <1>2, InSectorFacts
<1>4. call.op = "put" /\ call.n >= SS
  BY <1>1, <1>3 DEF TransferOK
<1>5. Sect \in Data /\ Sect \in Sectors /\ Sect \notin Meta
  BY <1>3, SectHere DEF Data
<1>6. fp.ptr \in Nat /\ volume \in Volumes
  BY <1>3 DEF FILs, VolumeOK
<1>7. data \in [Units -> Nat]
  <2>1. ASSUME NEW u \in Units
        PROVE  Datum(fp.ptr + u) \in Nat
    <3>1. fp.ptr + u \in Nat
      BY <1>6 DEF Units
    <3>2. QED
      BY <1>3, <3>1, DatumType
  <2>2. QED
    BY <2>1
<1>8. Whole \in Nat \ {0} /\ Whole <= CSize - ((fp.ptr \div SS) % CSize)
      /\ SS * Whole \in 1..call.n /\ (fp.ptr + SS * Whole) % SS = 0
      /\ fp.ptr + SS * Whole <= Len(chain[call.f]) * SSC
  BY <1>3, <1>4, WholeFits
<1> HIDE DEF data
<1>9. /\ W \in Volumes /\ W.win = volume.win /\ W.winsect = volume.winsect /\ W.wflag = volume.wflag
      /\ W.disk = [volume.disk EXCEPT ![Sect] = data] /\ W.last = volume.last
      /\ \A s \in Meta : W.disk[s] = volume.disk[s]
  <2>1. /\ W \in Volumes /\ W.win = volume.win /\ W.winsect = volume.winsect /\ W.wflag = volume.wflag
        /\ W.disk = [volume.disk EXCEPT ![Sect] = data] /\ W.last = volume.last
    BY <1>5, <1>6, <1>7 DEF Volumes
  <2>2. \A s \in Meta : W.disk[s] = volume.disk[s]
    BY <1>5, <1>6, <2>1, Layout DEF Volumes
  <2>3. QED
    BY <2>1, <2>2
<1> HIDE DEF W
<1>10. volume.wflag => volume.winsect # 0
  BY <1>3 DEF VolumeOK, WindowOn
<1>11. ASSUME volume' = Past(W)
       PROVE  VolumeOK(volume') /\ SameFat(View(volume), View(volume')) /\ SameDir(View(volume), View(volume'))
  BY <1>1, <1>7, <1>11, WholeStored DEF W, Over
<1>12. ASSUME volume' = Past(W), Right, Holds(SS * Whole), Transfer(fp, SS * Whole), UNCHANGED sure
       PROVE  FatInv'
  <2>1. PICK m \in 1..call.n : m = SS * Whole
    BY <1>8, Zenon
  <2>2. PICK s \in Sectors \cup {0} : s = fp.dsect
    BY <1>3, Zenon
  <2>3. Transfer([fp EXCEPT !.dsect = s], m)
    BY <1>3, <1>12, <2>1, <2>2, OwnSector, Zenon
  <2>4. Holds(m) /\ (fp.ptr + m) % SS = 0 /\ fp.ptr + m <= Len(chain[call.f]) * SSC
    BY <1>8, <1>12, <2>1, Zenon
  <2>5. held' \in [Files -> Seq(Nat)]
    BY <1>3, <2>4, HoldsType
  <2>6. misread' \in BOOLEAN /\ faults' \in 0..MaxFaults /\ UNCHANGED <<gen, sure>>
    BY <1>1, <1>3, <1>12 DEF TypeOK, Right
  <2>7. (fp.ptr + m) % SS # 0 => s \in Data
    BY <2>4
  <2>8. QED
    BY <1>1, <1>2, <1>11, <1>12, <2>3, <2>4, <2>5, <2>6, <2>7, TransferInv, Zenon
<1>13. ASSUME volume' \in BadWrite(volume, Sect, data), Wrong, Abort, UNCHANGED held
       PROVE  FatInv'
  <2>1. volume' = volume \/ volume' = W
    BY <1>13 DEF BadWrite, W
  <2>2. VolumeOK(volume') /\ SameFat(View(volume), View(volume')) /\ SameDir(View(volume), View(volume'))
    <3>1. CASE volume' = volume
      BY <1>3, <3>1, SameView
    <3>2. CASE volume' = W
      BY <1>3, <1>9, <1>10, <3>2, VolumeData
    <3>3. QED
      BY <2>1, <3>1, <3>2
  <2>3. faults' \in 0..MaxFaults
    BY <1>3, <1>13 DEF TypeOK, Wrong
  <2>4. QED
    BY <1>1, <1>3, <1>13, <2>2, <2>3, AbortInv
<1>14. \/ /\ volume' = Past(W) /\ Right /\ Holds(SS * Whole) /\ Transfer(fp, SS * Whole)
          /\ UNCHANGED sure
       \/ volume' \in BadWrite(volume, Sect, data) /\ Wrong /\ Abort /\ UNCHANGED held
  BY DEF PutWhole, W, data
<1>15. QED
  BY <1>12, <1>13, <1>14

\* A part of a sector that is stored into the window.
LEMMA FitType ==
  ASSUME TypeOK, fp \in FILs, NEW v \in Volumes
  PROVE  LET w == Fit(v)
         IN  /\ w \in Volumes /\ w.disk = v.disk /\ w.winsect = v.winsect /\ w.last = v.last
             /\ w.wflag = TRUE
<1> DEFINE w == Fit(v)
<1>1. SS \in Nat \ {0} /\ fp.ptr \in Nat
  BY DEF FILs
<1>2. PICK from \in 0..SS - 1 : from = fp.ptr % SS
  BY <1>1, DivMod, Zenon
<1>3. PICK part : part = Partial
  OBVIOUS
<1> DEFINE new == [u \in Units |-> IF u - from \in 0..part - 1
                                   THEN Datum(fp.ptr - from + u) ELSE v.win[u]]
<1>4. w = [v EXCEPT !.win = new, !.wflag = TRUE]
  BY <1>2, <1>3 DEF Fit
<1>5. v.win \in [Units -> Nat]
  BY DEF Volumes
<1>6. ASSUME NEW u \in Units
      PROVE  new[u] \in Nat
  <2>1. CASE u - from \in 0..part - 1
    <3>1. fp.ptr - from + u \in Nat
      BY <1>1, <1>2, <2>1 DEF Units
    <3>2. Datum(fp.ptr - from + u) \in Nat
      BY <3>1, DatumType
    <3>3. QED
      BY <2>1, <3>2
  <2>2. CASE ~(u - from \in 0..part - 1)
    BY <1>5, <2>2
  <2>3. QED
    BY <2>1, <2>2
<1>7. new \in [Units -> Nat]
  BY <1>6
<1> HIDE DEF new, w
<1>8. QED
  BY <1>4, <1>7 DEF Volumes, w

\* Neither does the growing edge of a file,
LEMMA EdgeStored ==
  ASSUME FatInv, call.at = "edge", volume' = Fit([Moved(volume, 0) EXCEPT !.winsect = Sect])
  PROVE  VolumeOK(volume') /\ SameFat(View(volume), View(volume')) /\ SameDir(View(volume), View(volume'))
<1> DEFINE x == Moved(volume, 0)
           y == [x EXCEPT !.winsect = Sect]
<1>1. call.at \in InSector
  BY DEF InSector
<1>2. PICK chain \in [Files -> Chains] : Links(View(volume), handle, call, chain)
  BY DEF FatInv, Linked
<1>3. TypeOK /\ VolumeOK(volume) /\ Good(View(volume)) /\ fp \in FILs /\ fp.cur \in Clusters
  BY <1>1, <1>2, InSectorFacts
<1>4. volume' = Fit(y)
  OBVIOUS
<1>5. Sect \in Data /\ Sect \in Sectors
  BY <1>3, SectHere DEF Data
<1>6. /\ x \in Volumes /\ VolumeOK(x) /\ View(x) = View(volume) /\ ~x.wflag
  <2>1. VolumeOK(x) /\ View(x) = View(volume)
    BY <1>3, VolumeMoved
  <2>2. WindowOn(volume, Meta) /\ volume \in Volumes
    BY <1>3 DEF VolumeOK
  <2>3. volume.winsect # 0 => ~x.wflag
    BY <2>2, MovedView
  <2>4. volume.winsect = 0 => x = volume /\ ~volume.wflag
    BY <2>2 DEF Moved, WindowOn
  <2>5. QED
    BY <2>1, <2>3, <2>4 DEF VolumeOK
<1> HIDE DEF x
<1>7. y \in Volumes /\ y.disk = x.disk /\ y.winsect = Sect
  BY <1>5, <1>6 DEF Volumes
<1> HIDE DEF y
<1>8. volume' \in Volumes /\ volume'.disk = x.disk /\ volume'.winsect = Sect
  BY <1>3, <1>4, <1>7, FitType
<1>9. 0 \notin Data
  BY Layout DEF Data, Sectors
<1>10. VolumeOK(volume') /\ SameFat(View(x), View(volume')) /\ SameDir(View(x), View(volume'))
  BY <1>5, <1>6, <1>8, <1>9, VolumeData
<1>11. QED
  BY <1>6, <1>10

\* or a part of a sector within it.
LEMMA PartStored ==
  ASSUME FatInv, call.at = "part", volume' = Fit(Moved(volume, fp.dsect))
  PROVE  VolumeOK(volume') /\ SameFat(View(volume), View(volume')) /\ SameDir(View(volume), View(volume'))
<1> DEFINE x == Moved(volume, fp.dsect)
<1>1. call.at \in InSector
  BY DEF InSector
<1>2. PICK chain \in [Files -> Chains] : Links(View(volume), handle, call, chain)
  BY DEF FatInv, Linked
<1>3. /\ TypeOK /\ VolumeOK(volume) /\ Good(View(volume)) /\ fp \in FILs
      /\ TransferOK(fp, call) /\ fp.dsect \in Sectors \cup {0}
  BY <1>1, <1>2, InSectorFacts
<1>4. fp.dsect \in Data
  BY <1>1, <1>3 DEF TransferOK
<1>5. 0 \notin Data
  BY Layout DEF Data, Sectors
<1>6. x \in Volumes /\ VolumeOK(x) /\ View(x) = View(volume) /\ x.winsect = fp.dsect
  BY <1>3, <1>4, <1>5, VolumeMoved DEF VolumeOK
<1>7. volume' = Fit(x)
  OBVIOUS
<1> HIDE DEF x
<1>8. volume' \in Volumes /\ volume'.disk = x.disk /\ volume'.winsect = fp.dsect
  BY <1>3, <1>6, <1>7, FitType
<1>9. VolumeOK(volume') /\ SameFat(View(x), View(volume')) /\ SameDir(View(x), View(volume'))
  BY <1>4, <1>5, <1>6, <1>8, VolumeData
<1>10. QED
  BY <1>6, <1>9

\* At the growing edge.
LEMMA PutEdgeInv ==
  ASSUME "torn" \notin Kinds, FatInv, PutEdge
  PROVE  FatInv'
<1> DEFINE y == [Moved(volume, 0) EXCEPT !.winsect = Sect]
<1>1. call.at \in InSector /\ call.at = "edge" /\ UNCHANGED <<gen, misread>>
  BY DEF PutEdge, InSector
<1>2. PICK chain \in [Files -> Chains] : Links(View(volume), handle, call, chain)
  BY DEF FatInv, Linked
<1>3. /\ TypeOK /\ VolumeOK(volume) /\ Good(View(volume)) /\ call.at \in Transferring
      /\ call \in Calls /\ fp \in FILs
      /\ TransferOK(fp, call) /\ fp.cur \in Clusters /\ call.n > 0 /\ Len(chain[call.f]) \in Nat
      /\ call.op = "put" => fp.ptr < Len(chain[call.f]) * SSC
  BY <1>1, <1>2, InSectorFacts
<1>4. call.op = "put"
  BY <1>1, <1>3 DEF TransferOK
<1>5. Sect \in Data /\ Sect \in Sectors
  BY <1>3, SectHere DEF Data
<1>8. ASSUME volume' = Fit(y), Right, Holds(Partial),
             Transfer([fp EXCEPT !.dsect = Sect], Partial), UNCHANGED sure
      PROVE  FatInv'
  <2>3. VolumeOK(volume') /\ SameFat(View(volume), View(volume')) /\ SameDir(View(volume), View(volume'))
    BY <1>1, <1>8, EdgeStored
  <2>4. PICK m \in 1..call.n : m = Partial
    BY <1>3, PartFits
  <2>5. PICK s \in Sectors \cup {0} : s = Sect /\ s \in Data
    BY <1>5, Zenon
  <2>6. Holds(m) /\ Transfer([fp EXCEPT !.dsect = s], m)
    BY <1>8, <2>4, <2>5, Zenon
  <2>7. fp.ptr + Partial <= Len(chain[call.f]) * SSC
    BY <1>3, <1>4, PartFits, Zenon
  <2>8. fp.ptr + m <= Len(chain[call.f]) * SSC /\ m \in Nat
    BY <2>4, <2>7
  <2>9. held' \in [Files -> Seq(Nat)]
    BY <1>3, <2>6, <2>8, HoldsType
  <2>10. misread' \in BOOLEAN /\ faults' \in 0..MaxFaults /\ UNCHANGED <<gen, sure>>
    BY <1>1, <1>3, <1>8 DEF TypeOK, Right
  <2>11. QED
    BY <1>1, <1>2, <2>3, <2>5, <2>6, <2>8, <2>9, <2>10, TransferInv, Zenon
<1>9. ASSUME volume' \in Unmoved(volume, 0), Wrong, Abort, UNCHANGED held
      PROVE  FatInv'
  <2>1. faults' \in 0..MaxFaults
    BY <1>3, <1>9 DEF TypeOK, Wrong
  <2>2. VolumeOK(volume') /\ View(volume') = View(volume)
    BY <1>3, <1>9, VolumeUnmoved
  <2>3. QED
    BY <1>1, <1>3, <1>9, <2>1, <2>2, SameView, AbortInv
<1>10. \/ /\ volume' = Fit(y) /\ Right
          /\ Holds(Partial) /\ Transfer([fp EXCEPT !.dsect = Sect], Partial) /\ UNCHANGED sure
       \/ volume' \in Unmoved(volume, 0) /\ Wrong /\ Abort /\ UNCHANGED held
  BY Zenon DEF PutEdge, y
<1>11. QED
  BY <1>8, <1>9, <1>10

\* Within the file.
LEMMA PutPartInv ==
  ASSUME "torn" \notin Kinds, FatInv, PutPart
  PROVE  FatInv'
<1> DEFINE x == Moved(volume, fp.dsect)
<1>1. call.at \in InSector /\ call.at = "part" /\ call.op = "put" /\ UNCHANGED <<gen, misread>>
  BY DEF PutPart, InSector
<1>2. PICK chain \in [Files -> Chains] : Links(View(volume), handle, call, chain)
  BY DEF FatInv, Linked
<1>3. /\ TypeOK /\ VolumeOK(volume) /\ Good(View(volume)) /\ call.at \in Transferring
      /\ call \in Calls /\ fp \in FILs
      /\ TransferOK(fp, call) /\ call.n > 0 /\ Len(chain[call.f]) \in Nat
      /\ fp.dsect \in Sectors \cup {0}
      /\ fp.ptr < Len(chain[call.f]) * SSC
  BY <1>1, <1>2, InSectorFacts
<1>4. fp.dsect \in Data
  BY <1>1, <1>3 DEF TransferOK
<1>7. ASSUME volume' = Fit(x), Right, Holds(Partial), Transfer(fp, Partial), UNCHANGED sure
      PROVE  FatInv'
  <2>2. VolumeOK(volume') /\ SameFat(View(volume), View(volume')) /\ SameDir(View(volume), View(volume'))
    BY <1>1, <1>7, PartStored DEF x
  <2>3. PICK m \in 1..call.n : m = Partial
    BY <1>3, PartFits
  <2>4. PICK s \in Sectors \cup {0} : s = fp.dsect /\ s \in Data
    BY <1>3, <1>4, Zenon
  <2>5. Holds(m) /\ Transfer([fp EXCEPT !.dsect = s], m)
    BY <1>3, <1>7, <2>3, <2>4, OwnSector, Zenon
  <2>6. fp.ptr + Partial <= Len(chain[call.f]) * SSC
    BY <1>3, PartFits, Zenon
  <2>7. fp.ptr + m <= Len(chain[call.f]) * SSC /\ m \in Nat
    BY <2>3, <2>6
  <2>8. held' \in [Files -> Seq(Nat)]
    BY <1>3, <2>5, <2>7, HoldsType
  <2>9. misread' \in BOOLEAN /\ faults' \in 0..MaxFaults /\ UNCHANGED <<gen, sure>>
    BY <1>1, <1>3, <1>7 DEF TypeOK, Right
  <2>10. QED
    BY <1>1, <1>2, <2>2, <2>4, <2>5, <2>7, <2>8, <2>9, TransferInv, Zenon
<1>8. ASSUME volume' \in Unmoved(volume, fp.dsect), Wrong, Abort, UNCHANGED held
      PROVE  FatInv'
  <2>1. faults' \in 0..MaxFaults
    BY <1>3, <1>8 DEF TypeOK, Wrong
  <2>2. VolumeOK(volume') /\ View(volume') = View(volume)
    BY <1>3, <1>8, VolumeUnmoved
  <2>3. QED
    BY <1>1, <1>3, <1>8, <2>1, <2>2, SameView, AbortInv
<1>9. \/ /\ volume' = Fit(x) /\ Right
         /\ Holds(Partial) /\ Transfer(fp, Partial) /\ UNCHANGED sure
      \/ volume' \in Unmoved(volume, fp.dsect) /\ Wrong /\ Abort /\ UNCHANGED held
  BY Zenon DEF PutPart, x
<1>10. QED
  BY <1>7, <1>8, <1>9

\* The end of f_write, which is FR_OK.
LEMMA PutDoneInv ==
  ASSUME FatInv, PutDone
  PROVE  FatInv'
<1> DEFINE file == [fp EXCEPT !.size = IF fp.ptr > @ THEN fp.ptr ELSE @, !.written = TRUE]
<1>1. /\ TypeOK /\ VolumeOK(volume) /\ call \in Calls /\ handle \in [Files -> FILs]
      /\ call.f \in Files /\ fp \in FILs /\ call.at = "loop" /\ call.op = "put"
      /\ Done(file) /\ UNCHANGED <<volume, held, gen, sure, misread, faults>>
  BY DEF FatInv, PutDone, TypeOK, Calls, fp
<1>2. PICK chain \in [Files -> Chains] : Links(View(volume), handle, call, chain)
  BY DEF FatInv, Linked
<1>3. FileOK(fp, call, call.f, chain[call.f]) /\ TransferOK(fp, call) /\ (fp.cur = LastLink => fp.error)
  BY <1>1, <1>2 DEF Links, fp, TypeOK
<1>4. WritesOn(fp) /\ ~fp.error
  BY <1>1, <1>3 DEF TransferOK, Transferring
<1>5. fp.ptr \in 0..MaxSize /\ fp.size \in 0..MaxSize
  BY <1>1 DEF FILs
<1>6. PICK size \in 0..MaxSize : size = (IF fp.ptr > fp.size THEN fp.ptr ELSE fp.size)
  BY <1>5
<1>7. /\ file \in FILs /\ file.mode = fp.mode /\ file.org = fp.org /\ file.cur = fp.cur
      /\ file.size = size /\ file.ptr = fp.ptr /\ file.dsect = fp.dsect
  BY <1>1, <1>6 DEF FILs
<1>8. file.written = TRUE /\ file.error = fp.error
  BY <1>1 DEF FILs
<1> HIDE DEF file
<1>9. Len(chain[call.f]) * SSC \in Nat
  BY <1>1, Room
<1>10. FileOK(file, Idle, call.f, chain[call.f])
  <2>1. ~Joining(call, call.f) /\ ~Filling(call, call.f) /\ ~Joining(Idle, call.f) /\ ~Filling(Idle, call.f)
    BY <1>1 DEF Joining, Filling, InSector, Idle
  <2>2. fp.org \notin Clusters => fp.ptr = 0 /\ size = 0
    BY <1>3, <1>4, <1>6 DEF FileOK
  <2>3. fp.org \in Clusters => Len(chain[call.f]) * SSC >= fp.ptr /\ Len(chain[call.f]) * SSC >= size
    BY <1>3, <1>4, <1>6 DEF FileOK
  <2>4. WritesOn(file)
    BY <1>4, <1>7 DEF WritesOn
  <2>5. QED
    BY <1>3, <1>4, <1>7, <1>8, <2>1, <2>2, <2>3, <2>4 DEF FileOK
<1>11. file.org = Root(View(volume), handle, call, call.f)
  BY <1>4, <1>7 DEF Root, fp
<1>12. sure' \in [Files -> BOOLEAN] /\ faults' \in 0..MaxFaults /\ VolumeOK(volume')
  BY <1>1 DEF TypeOK
<1>13. SameFat(View(volume), View(volume')) /\ SameDir(View(volume), View(volume'))
  BY <1>1, SameView
<1>14. file.cur = LastLink => file.error
  BY <1>3, <1>7, <1>8
<1>15. QED
  BY <1>1, <1>2, <1>7, <1>10, <1>11, <1>12, <1>13, <1>14, FinishInv

-----------------------------------------------------------------------------
(***************************************************************************)
(* f_lseek to the start, f_close and f_mount.                              *)
(***************************************************************************)
LEMMA RewindInv ==
  ASSUME FatInv, NEW f \in Files, Rewind(f)
  PROVE  FatInv'
<1> DEFINE file == [handle[f] EXCEPT !.ptr = 0]
<1>1. /\ TypeOK /\ VolumeOK(volume) /\ call \in Calls /\ handle \in [Files -> FILs]
      /\ call.at = "idle" /\ handle[f].mode = "update" /\ handle[f] \in FILs
      /\ handle' = [handle EXCEPT ![f].ptr = 0]
      /\ UNCHANGED <<volume, call, held, gen, sure, misread, faults>>
  BY DEF FatInv, Rewind, TypeOK
<1>2. PICK chain \in [Files -> Chains] : Links(View(volume), handle, call, chain)
  BY DEF FatInv, Linked
<1>3. FileOK(handle[f], call, f, chain[f])
  BY <1>2 DEF Links
<1>4. /\ handle' \in [Files -> FILs] /\ handle'[f] = file
      /\ \A g \in Files \ {f} : handle'[g] = handle[g]
  <2>1. file \in FILs
    BY <1>1 DEF FILs
  <2>2. QED
    BY <1>1, <2>1
<1>5. /\ file.mode = "update" /\ file.org = handle[f].org /\ file.cur = handle[f].cur
      /\ file.size = handle[f].size /\ file.ptr = 0 /\ file.dsect = handle[f].dsect
  BY <1>1 DEF FILs
<1>6. file.written = handle[f].written /\ file.error = handle[f].error
  BY <1>1 DEF FILs
<1> HIDE DEF file
<1>7. FileOK(file, call, f, chain[f])
  <2>1. 0 % SS = 0
    BY DivModUnique
  <2>2. WritesOn(file) /\ WritesOn(handle[f])
    BY <1>1, <1>5 DEF WritesOn
  <2>3. Len(chain[f]) * SSC >= 0
    BY Room
  <2>4. QED
    BY <1>1, <1>3, <1>5, <1>6, <2>1, <2>2, <2>3 DEF FileOK
<1>8. Linked(View(volume'), handle', call')
  <2>1. Root(View(volume'), handle', call', f) = Root(View(volume), handle, call, f)
    BY <1>1, <1>4, <1>5 DEF Root, WritesOn
  <2>2. /\ OpenOK(View(volume'), handle'[call'.f], call') /\ TransferOK(handle'[call'.f], call')
        /\ ChainOK(View(volume'), Roots(View(volume'), handle', call'), handle'[call'.f], call', chain)
    BY <1>1 DEF OpenOK, TransferOK, ChainOK, Opening, Transferring, InSector
  <2>3. FileOK(handle'[f], call', f, chain[f]) /\ call'.at = "idle" /\ call.at = "idle"
    BY <1>1, <1>4, <1>7
  <2>4. SameFat(View(volume), View(volume')) /\ SameDir(View(volume), View(volume'))
    BY <1>1, SameView
  <2>5. QED
    BY <1>2, <1>4, <2>1, <2>2, <2>3, <2>4, QuietStep
<1>9. \A g \in Files : handle'[g].cur = LastLink => handle'[g].error
  BY <1>1, <1>4, <1>5, <1>6 DEF TypeOK
<1>10. TypeOK'
  BY <1>1, <1>4, <1>9 DEF TypeOK
<1>11. QED
  BY <1>1, <1>8, <1>10 DEF FatInv, WindowAt

LEMMA CloseInv ==
  ASSUME FatInv, NEW f \in Files, Close(f)
  PROVE  FatInv'
<1>1. /\ TypeOK /\ VolumeOK(volume) /\ call \in Calls /\ handle \in [Files -> FILs]
      /\ call.at = "idle" /\ UNCHANGED <<volume, held, gen, sure, misread, faults>>
  BY DEF FatInv, Close, TypeOK
<1>2. PICK chain \in [Files -> Chains] : Links(View(volume), handle, call, chain)
  BY DEF FatInv, Linked
<1>3. ASSUME handle[f].written, UNCHANGED handle,
             call' = [Idle EXCEPT !.at = "record", !.op = "close", !.f = f]
      PROVE  FatInv'
  <2>1. call' \in Calls /\ call'.at = "record" /\ call'.f = f
    <3>1. call' = [at |-> "record", op |-> "close", f |-> f, n |-> 0, c |-> 0, scl |-> 0]
      BY <1>3 DEF Idle
    <3>2. 0 \in 0..MaxSize
      OBVIOUS
    <3>3. QED
      BY <3>1, <3>2 DEF Calls
  <2>2. TransferOK(handle[f], call')
    BY <1>3, <2>1 DEF TransferOK, Transferring, InSector
  <2>3. Linked(View(volume'), handle', call') /\ WindowAt(volume', call')
    BY <1>1, <1>2, <1>3, <2>1, <2>2, BeginStep
  <2>4. TypeOK'
    BY <1>1, <1>3, <2>1 DEF TypeOK
  <2>5. QED
    BY <1>1, <2>3, <2>4 DEF FatInv
<1>4. ASSUME ~handle[f].written, handle' = [handle EXCEPT ![f] = Closed], UNCHANGED call
      PROVE  FatInv'
  <2>1. /\ handle' \in [Files -> FILs] /\ handle'[f] = Closed
        /\ \A g \in Files \ {f} : handle'[g] = handle[g]
    BY <1>1, <1>4, ClosedOK
  <2>2. Root(View(volume'), handle', call', f) = StartOf(View(volume), f)
    BY <1>1, <1>4, <2>1, ClosedOK DEF Root
  <2>3. /\ OpenOK(View(volume'), handle'[call'.f], call') /\ TransferOK(handle'[call'.f], call')
        /\ ChainOK(View(volume'), Roots(View(volume'), handle', call'), handle'[call'.f], call', chain)
    BY <1>1, <1>4 DEF OpenOK, TransferOK, ChainOK, Opening, Transferring, InSector
  <2>4. SameFat(View(volume), View(volume')) /\ SameDir(View(volume), View(volume'))
    BY <1>1, SameView
  <2>5. FileOK(handle'[f], call', f, chain[f]) /\ call'.at = "idle"
    BY <1>1, <1>4, <2>1, ClosedOK
  <2>6. Linked(View(volume'), handle', call')
    BY <1>1, <1>2, <2>1, <2>2, <2>3, <2>4, <2>5, QuietStep
  <2>7. \A g \in Files : handle'[g].cur = LastLink => handle'[g].error
    BY <1>1, <2>1, ClosedOK DEF TypeOK
  <2>8. TypeOK'
    BY <1>1, <1>4, <2>1, <2>7 DEF TypeOK
  <2>9. QED
    BY <1>1, <1>4, <2>6, <2>8 DEF FatInv, WindowAt
<1>5. QED
  BY <1>3, <1>4 DEF Close

\* f_sync ends with an error, and the FIL as it is.
LEMMA SyncFailed ==
  ASSUME FatInv, call.at \in {"record", "sync"}, VolumeOK(volume'), View(volume') = View(volume),
         Wrong, Failed(fp), UNCHANGED <<held, gen, misread>>
  PROVE  FatInv'
<1>1. /\ TypeOK /\ call \in Calls /\ handle \in [Files -> FILs] /\ call.f \in Files /\ fp \in FILs
  BY DEF FatInv, TypeOK, Calls, fp
<1>2. PICK chain \in [Files -> Chains] : Links(View(volume), handle, call, chain)
  BY DEF FatInv, Linked
<1>3. FileOK(fp, call, call.f, chain[call.f]) /\ (fp.cur = LastLink => fp.error)
  BY <1>1, <1>2 DEF Links, fp, TypeOK
<1>4. FileOK(fp, Idle, call.f, chain[call.f])
  BY <1>1, <1>3 DEF FileOK, Joining, Filling, InSector, Idle
<1>5. WritesOn(fp) => fp.org = Root(View(volume), handle, call, call.f)
  BY DEF Root, fp
<1>6. Done(fp) /\ sure' \in [Files -> BOOLEAN] /\ faults' \in 0..MaxFaults
  BY <1>1, SureType DEF TypeOK, Wrong
<1>7. QED
  BY <1>1, <1>2, <1>3, <1>4, <1>5, <1>6, SameView, FinishInv

\* The directory entry is stored into the window.
LEMMA RecordInv ==
  ASSUME "torn" \notin Kinds, FatInv, Record
  PROVE  FatInv'
<1> DEFINE f == call.f
           V == View(volume)
           W == View(volume')
           x == Moved(volume, DirSector(f))
           file == [fp EXCEPT !.written = FALSE]
<1>1. /\ TypeOK /\ VolumeOK(volume) /\ Good(V) /\ call \in Calls /\ handle \in [Files -> FILs]
      /\ f \in Files /\ fp \in FILs /\ call.at = "record" /\ UNCHANGED <<held, gen, misread>>
  BY LinkedGood DEF FatInv, Record, TypeOK, Calls, fp
<1>2. PICK chain \in [Files -> Chains] : Links(V, handle, call, chain)
  BY DEF FatInv, Linked
<1>3. FileOK(fp, call, f, chain[f]) /\ TransferOK(fp, call) /\ (fp.cur = LastLink => fp.error)
  BY <1>1, <1>2 DEF Links, fp, TypeOK
<1>4. WritesOn(fp)
  BY <1>1, <1>3 DEF FileOK, TransferOK
<1>5. DirSector(f) \in Sectors \cup {0} /\ DirSector(f) # 0
  BY <1>1, DirAt, Layout DEF Meta
<1>6. fp.size \in Nat /\ fp.size \in 0..MaxSize /\ fp.org \in Starts /\ fp.org \in Nat
  <2>1. fp.size \in 0..MaxSize /\ fp.org \in Starts
    BY <1>1 DEF FILs, Starts
  <2>2. Starts \subseteq Nat
    BY Layout DEF Starts, DiskErr, Clusters
  <2>3. fp.size \in Nat
    BY <2>1
  <2>4. fp.org \in Nat
    BY <2>1, <2>2
  <2>5. QED
    BY <2>1, <2>3, <2>4
<1>7. ASSUME volume' = Recorded(x), Right, handle' = [handle EXCEPT ![f].written = FALSE],
             Goto("sync"), UNCHANGED sure
      PROVE  FatInv'
  <2>1. VolumeOK(x) /\ View(x) = V /\ x.winsect = DirSector(f)
    BY <1>1, <1>5, VolumeMoved
  <2> HIDE DEF x, V
  <2>2. volume' = Poke(Poke(x, SizeAt(f), fp.size), ClustAt(f), fp.org)
    BY <1>7 DEF Recorded
  <2>3. /\ VolumeOK(volume') /\ SizeOf(W, f) = fp.size /\ StartOf(W, f) = fp.org
        /\ \A g \in Files \ {f} : SizeOf(W, g) = SizeOf(V, g) /\ StartOf(W, g) = StartOf(V, g)
        /\ SameFat(V, W)
    BY <1>1, <1>6, <2>1, <2>2, VolumeDir
  <2> HIDE DEF W
  <2>4. Roots(V, handle, call)[f] = fp.org /\ \A g \in Files : Roots(V, handle, call)[g] = Root(V, handle, call, g)
    BY <1>1, <1>4 DEF Roots, Root, fp
  <2>5. FsOK(V, Roots(V, handle, call), chain)
    BY <1>2 DEF Links
  <2>6. /\ fp.size > 0 => fp.org \in Clusters
        /\ fp.org \in Clusters => Len(chain[f]) * SSC >= fp.size
    BY <1>3, <1>4, <1>6 DEF FileOK
  <2>7. FsOK(W, Roots(V, handle, call), chain)
    BY <1>1, <1>6, <2>3, <2>4, <2>5, <2>6, FsRecord
  <2>8. /\ file \in FILs /\ file.mode = fp.mode /\ file.org = fp.org /\ file.cur = fp.cur
        /\ file.size = fp.size /\ file.ptr = fp.ptr /\ file.dsect = fp.dsect
    BY <1>1 DEF FILs
  <2>9. file.written = FALSE /\ file.error = fp.error
    BY <1>1 DEF FILs
  <2>10. /\ handle' \in [Files -> FILs] /\ handle'[f] = file
         /\ \A g \in Files \ {f} : handle'[g] = handle[g]
    BY <1>1, <1>7, <2>8 DEF fp
  <2> HIDE DEF file
  <2>11. call' \in Calls /\ call'.at = "sync" /\ call'.f = f
    BY <1>1, <1>7, GotoFact
  <2>12. FileOK(file, call', f, chain[f])
    <3>1. ~Joining(call, f) /\ ~Filling(call, f) /\ ~Joining(call', f) /\ ~Filling(call', f)
      BY <1>1, <2>11 DEF Joining, Filling, InSector
    <3>2. QED
      BY <1>3, <1>4, <2>8, <2>9, <3>1 DEF FileOK, WritesOn
  <2>13. /\ OpenOK(W, handle'[call'.f], call') /\ TransferOK(handle'[call'.f], call')
         /\ ChainOK(W, Roots(W, handle', call'), handle'[call'.f], call', chain)
    BY <2>11 DEF OpenOK, TransferOK, ChainOK, Opening, Transferring, InSector
  <2>14. Root(W, handle', call', f) = fp.org
    BY <1>4, <2>8, <2>10 DEF Root, WritesOn
  <2>15. Linked(W, handle', call')
    <3>1. FileOK(handle'[f], call', f, chain[f])
      BY <2>10, <2>12
    <3>2. QED
      BY <1>1, <1>2, <2>3, <2>4, <2>7, <2>10, <2>11, <2>13, <2>14, <3>1, MetaStep
  <2>16. \A g \in Files : handle'[g].cur = LastLink => handle'[g].error
    BY <1>1, <1>3, <2>8, <2>9, <2>10 DEF TypeOK
  <2>17. TypeOK'
    BY <1>1, <1>7, <2>3, <2>10, <2>11, <2>16 DEF TypeOK, VolumeOK, Right
  <2>18. WindowAt(volume', call')
    BY <2>11 DEF WindowAt
  <2>19. QED
    BY <2>3, <2>15, <2>17, <2>18 DEF FatInv, W
<1>8. ASSUME volume' \in Unmoved(volume, DirSector(f)), Wrong, Failed(fp)
      PROVE  FatInv'
  <2>1. VolumeOK(volume') /\ View(volume') = View(volume)
    BY <1>1, <1>5, <1>8, VolumeUnmoved
  <2>2. QED
    BY <1>1, <1>8, <2>1, SyncFailed
<1>9. QED
  BY <1>7, <1>8 DEF Record

\* It is written back.
LEMMA SyncInv ==
  ASSUME "torn" \notin Kinds, FatInv, Sync
  PROVE  FatInv'
<1>1. /\ TypeOK /\ VolumeOK(volume) /\ Good(View(volume)) /\ call \in Calls
      /\ call.at = "sync" /\ UNCHANGED <<held, gen, misread>>
  BY LinkedGood DEF FatInv, Sync, TypeOK
<1>2. PICK chain \in [Files -> Chains] : Links(View(volume), handle, call, chain)
  BY DEF FatInv, Linked
<1>3. ASSUME volume' = Moved(volume, 0), Right, Done(Closed), UNCHANGED sure
      PROVE  FatInv'
  <2>1. VolumeOK(volume') /\ View(volume') = View(volume)
    BY <1>1, <1>3, VolumeMoved
  <2>2. sure' \in [Files -> BOOLEAN] /\ faults' \in 0..MaxFaults
    BY <1>1, <1>3 DEF TypeOK, Right
  <2>3. QED
    BY <1>1, <1>2, <1>3, <2>1, <2>2, ClosedOK, SameView, FinishInv
<1>4. ASSUME volume' \in Unmoved(volume, 0), Wrong, Failed(fp)
      PROVE  FatInv'
  <2>1. VolumeOK(volume') /\ View(volume') = View(volume)
    BY <1>1, <1>4, VolumeUnmoved
  <2>2. QED
    BY <1>1, <1>4, <2>1, SyncFailed
<1>5. QED
  BY <1>3, <1>4 DEF Sync, Synced

\* Whatever was open, what is on the card is a file system.
LEMMA MountedLinked ==
  ASSUME NEW disk, Good(disk), NEW h, \A f \in Files : h[f] = Closed
  PROVE  Linked(disk, h, Idle)
<1>1. PICK chain \in [Files -> Chains] : FsOK(disk, [f \in Files |-> StartOf(disk, f)], chain)
  BY DEF Good, Consistent
<1>2. Idle.f \in Files /\ Idle.at = "idle"
  BY DEF Idle, Files
<1>3. Roots(disk, h, Idle) = [f \in Files |-> StartOf(disk, f)]
  <2>1. \A f \in Files : Root(disk, h, Idle, f) = StartOf(disk, f)
    BY <1>2, ClosedOK DEF Root
  <2>2. QED
    BY <2>1 DEF Roots
<1>4. \A f \in Files : FileOK(h[f], Idle, f, chain[f])
  BY ClosedOK
<1>5. QED
  BY <1>1, <1>3, <1>4, IdleOK DEF Linked, Links

LEMMA RemountInv ==
  ASSUME FatInv, Remount
  PROVE  FatInv'
<1>1. /\ TypeOK /\ VolumeOK(volume)
      /\ volume' = Mounted(volume.disk) /\ handle' = [f \in Files |-> Closed] /\ call' = Idle
      /\ sure' = [f \in Files |-> sure[f] /\ ~Writing(f)]
      /\ UNCHANGED <<held, gen, misread>>
  BY DEF FatInv, Remount
<1>2. volume.disk \in Images /\ Good(volume.disk)
  BY <1>1 DEF VolumeOK, Volumes, Images
<1>3. VolumeOK(volume') /\ View(volume') = volume.disk
  BY <1>1, <1>2, VolumeMounted
<1>4. handle' \in [Files -> FILs] /\ \A f \in Files : handle'[f] = Closed
  BY <1>1, ClosedOK
<1>5. Linked(View(volume'), handle', call')
  BY <1>1, <1>2, <1>3, <1>4, MountedLinked
<1>6. call' \in Calls /\ call'.at = "idle"
  BY <1>1 DEF Idle, Calls, Files
<1>7. faults' \in 0..MaxFaults
  <2>1. Right \/ Wrong
    BY DEF Remount
  <2>2. QED
    BY <1>1, <2>1 DEF Right, Wrong, TypeOK
<1>8. sure' \in [Files -> BOOLEAN]
  BY <1>1, Zenon DEF TypeOK, Writing
<1>9. \A f \in Files : handle'[f].cur = LastLink => handle'[f].error
  BY <1>4, ClosedOK
<1>10. TypeOK'
  BY <1>1, <1>3, <1>4, <1>6, <1>7, <1>8, <1>9 DEF TypeOK, VolumeOK
<1>11. QED
  BY <1>3, <1>5, <1>6, <1>10 DEF FatInv, WindowAt

-----------------------------------------------------------------------------
(***************************************************************************)
(* The invariant.                                                          *)
(***************************************************************************)
LEMMA FatInit ==
  ASSUME Init
  PROVE  FatInv
<1> DEFINE disk == [s \in Sectors |-> Blank]
<1>1. Blank \in [Units -> Nat] /\ \A u \in Units : Blank[u] = 0
  BY DEF Blank
<1>2. disk \in Images /\ \A s \in Sectors : disk[s] = Blank
  BY <1>1 DEF Images
<1> HIDE DEF disk
<1>3. \A c \in Clusters : Entry(disk, c) = 0
  BY <1>1, <1>2, EntryAt DEF Entry
<1>4. \A f \in Files : SizeOf(disk, f) = 0 /\ StartOf(disk, f) = 0
  BY <1>1, <1>2, DirAt DEF SizeOf, StartOf
<1>5. Good(disk)
  <2>1. 2 \in Clusters
    BY Layout DEF Clusters
  <2>2. <<2>> \in Chains
    BY <2>1, OneIsChain
  <2> DEFINE chain == [f \in Files |-> <<2>>]
  <2>3. chain \in [Files -> Chains]
    BY <2>2
  <2>4. FsOK(disk, [f \in Files |-> StartOf(disk, f)], chain)
    BY <1>4 DEF FsOK, ChainsOK, DirOK, Clusters, Starts
  <2>5. QED
    BY <1>3, <2>3, <2>4 DEF Good, Consistent, FatTyped
<1>6. /\ volume = Mounted(disk) /\ handle = [f \in Files |-> Closed] /\ call = Idle
      /\ held = [f \in Files |-> <<>>] /\ sure = [f \in Files |-> TRUE]
      /\ gen = 0 /\ misread = FALSE /\ faults = 0
  BY DEF Init, disk
<1>7. VolumeOK(volume) /\ View(volume) = disk
  BY <1>2, <1>5, <1>6, VolumeMounted
<1>8. handle \in [Files -> FILs] /\ \A f \in Files : handle[f] = Closed
  BY <1>6, ClosedOK
<1>9. Linked(View(volume), handle, call)
  BY <1>5, <1>6, <1>7, <1>8, MountedLinked
<1>10. call \in Calls /\ call.at = "idle"
  BY <1>6 DEF Idle, Calls, Files
<1>11. \A f \in Files : handle[f].cur = LastLink => handle[f].error
  BY <1>8, ClosedOK
<1>12. held \in [Files -> Seq(Nat)] /\ sure \in [Files -> BOOLEAN]
  BY <1>6
<1>13. TypeOK
  <2>1. volume \in Volumes
    BY <1>7 DEF VolumeOK
  <2>2. gen \in 0..MaxOpens /\ faults \in 0..MaxFaults
    BY <1>6
  <2>3. misread \in BOOLEAN
    BY <1>6, Zenon
  <2>4. QED
    BY <1>8, <1>10, <1>11, <1>12, <2>1, <2>2, <2>3 DEF TypeOK
<1>14. QED
  BY <1>7, <1>9, <1>10, <1>13 DEF FatInv, WindowAt

LEMMA FatStep ==
  ASSUME "torn" \notin Kinds, UpdateSize <= SSC, FatInv, [Next]_vars
  PROVE  FatInv'
<1>1. CASE Begins
  BY <1>1, OpenInv, ReadInv, WriteInv, RewindInv, CloseInv DEF Begins
<1>2. CASE Remount
  BY <1>2, RemountInv
<1>3. CASE FollowPath \/ Truncate \/ RemoveChain \/ Reuse \/ Opened
  BY <1>3, FollowPathInv, TruncateInv, RemoveChainInv, ReuseInv, OpenedInv
<1>4. CASE Iterate \/ Advance \/ FindFree \/ Link \/ Join
  BY <1>4, IterateInv, AdvanceInv, FindFreeInv, LinkInv, JoinInv
<1>5. CASE GetWhole \/ GetSector \/ GetPart \/ GetDone
  BY <1>5, GetWholeInv, GetSectorInv, GetPartInv, GetDoneInv
<1>6. CASE PutSector \/ PutWhole \/ PutEdge \/ PutPart \/ PutDone
  BY <1>6, PutSectorInv, PutWholeInv, PutEdgeInv, PutPartInv, PutDoneInv
<1>7. CASE Record \/ Sync
  BY <1>7, RecordInv, SyncInv
<1>8. CASE UNCHANGED vars
  BY <1>8 DEF vars, FatInv, TypeOK, WindowAt, fp
<1>9. QED
  BY <1>1, <1>2, <1>3, <1>4, <1>5, <1>6, <1>7, <1>8 DEF Next

LEMMA FatSafe ==
  ASSUME "torn" \notin Kinds, UpdateSize <= SSC
  PROVE  Spec => []FatInv
<1>1. Init => FatInv
  BY FatInit
<1>2. FatInv /\ [Next]_vars => FatInv'
  BY FatStep
<1>3. QED
  BY <1>1, <1>2, PTL DEF Spec

LEMMA GoodSound ==
  ASSUME Good(volume.disk)
  PROVE  Sound
<1> DEFINE disk == volume.disk
<1>1. PICK chain \in [Files -> Chains] : FsOK(disk, [f \in Files |-> StartOf(disk, f)], chain)
  BY DEF Good, Consistent
<1> HIDE DEF disk
<1>2. ASSUME NEW f \in Files, SizeOf(disk, f) > 0
      PROVE  /\ StartOf(disk, f) \in Clusters
             /\ chain[f] \in ChainOf(disk, f) /\ Len(chain[f]) * SSC >= SizeOf(disk, f)
  BY <1>1, <1>2 DEF FsOK, ChainsOK, DirOK, ChainOf
<1>3. ASSUME NEW f \in Files, SizeOf(disk, f) > 0
      PROVE  \E ch \in ChainOf(disk, f) :
               /\ Len(ch) * SS * CSize >= SizeOf(disk, f)
               /\ \A g \in Files \ {f} :
                    SizeOf(disk, g) > 0 => \E d \in ChainOf(disk, g) : Disjoint(ch, d)
  <2>1. Len(chain[f]) \in Nat
    BY ChainType
  <2>2. Len(chain[f]) * SS * CSize = Len(chain[f]) * SSC
    BY <2>1 DEF SSC
  <2>3. Len(chain[f]) * SS * CSize >= SizeOf(disk, f)
    BY <1>2, <1>3, <2>2, Zenon
  <2>4. ASSUME NEW g \in Files \ {f}, SizeOf(disk, g) > 0
        PROVE  \E d \in ChainOf(disk, g) : Disjoint(chain[f], d)
    <3>1. chain[g] \in ChainOf(disk, g) /\ StartOf(disk, g) \in Clusters /\ StartOf(disk, f) \in Clusters
      BY <1>2, <1>3, <2>4
    <3>2. Disjoint(chain[f], chain[g])
      BY <1>1, <3>1 DEF FsOK, ChainsOK
    <3>3. QED
      BY <3>1, <3>2
  <2>5. chain[f] \in ChainOf(disk, f)
    BY <1>2, <1>3
  <2>6. QED
    BY <2>3, <2>4, <2>5, Zenon
<1>4. QED
  BY <1>3, Zenon DEF Sound, disk

\* Every file has at most the sizes and clusters that there are, the window shows a
\* sector that exists, and a file is past the end of its chain only with its error flag
\* set (ff.c:505-820, 2010-2410).  UpdateSize is at most a cluster: the settings and the
\* picture counter are, and DiskErrorSeen says what happens to a longer file.
THEOREM FatTypeCorrect ==
  ASSUME "torn" \notin Kinds, UpdateSize <= SS * CSize
  PROVE  Spec => []TypeOK
<1>1. Spec => []FatInv
  BY FatSafe DEF SSC
<1>2. FatInv => TypeOK
  BY DEF FatInv
<1>3. QED
  BY <1>1, <1>2, PTL

\* Whenever the supply fails, or a sector cannot be transferred, the card keeps a file
\* system: the recorded chains are complete, long enough and disjoint (ff.c:649-815,
\* 2340-2376).  A read that fails half-way is not among the faults: the window would
\* show what no sector holds, which is what WindowTrue says of ff.h:299.
THEOREM FatSound ==
  ASSUME "torn" \notin Kinds, UpdateSize <= SS * CSize
  PROVE  Spec => []Sound
<1>1. Spec => []FatInv
  BY FatSafe DEF SSC
<1>2. FatInv => Sound
  BY GoodSound DEF FatInv, VolumeOK
<1>3. QED
  BY <1>1, <1>2, PTL

-----------------------------------------------------------------------------
(***************************************************************************)
(* No cluster is lost: as long as no use of the card goes wrong, a cluster *)
(* that is not free is in a chain, or is the one that create_chain has     *)
(* just marked.                                                            *)
(***************************************************************************)
Lone(file, c, d) ==
  /\ d = c.c
  /\ c.at = "link" \/ (c.at = "join" /\ c.op = "put" /\ file.ptr = 0 /\ file.org = 0)

Owned(V, r, d) ==
  \E f \in Files : \E ch \in Chains : IsChain(V, r[f], ch) /\ d \in Range(ch)

Used(V, h, c) ==
  \A d \in Clusters : Entry(V, d) # 0 => Owned(V, Roots(V, h, c), d) \/ Lone(h[c.f], c, d)

Putting(c, f)  == c.f = f /\ c.at \in Transferring /\ c.op = "put"
Creating(c, f) == c.f = f /\ c.at \in Opening /\ c.op = "create"

\* The file f has something that f_close has yet to bring to the card.
Unsynced(file, c, f) ==
  file.written \/ Putting(c, f) \/ Creating(c, f) \/ (c.f = f /\ c.at = "sync")

\* A start that is not recorded is one that f_close will record.
StartsOK(V, h, c) ==
  \A f \in Files :
    /\ h[f].org \in {0} \cup Clusters /\ StartOf(V, f) \in {0} \cup Clusters
    /\ WritesOn(h[f]) /\ ~h[f].written /\ ~Putting(c, f) => h[f].org = StartOf(V, f)

LeakFree(v, h, c) ==
  /\ Used(View(v), h, c)
  /\ StartsOK(View(v), h, c)
  /\ v.wflag => \E f \in Files : Unsynced(h[f], c, f)
  /\ c.at = "join" => c.c \notin {1, DiskErr}

LeakInv ==
  /\ call.at = "sync" => WritesOn(fp) /\ ~fp.written
  /\ call.at \in Opening /\ call.op = "create" => ~sure[call.f]
  /\ faults = 0 => LeakFree(volume, handle, call)

\* A set of numbers that has 1, and the successor of each of its members, has them all:
\* if not, the successors would be as many as the members, and 1 is none.
LEMMA Successors ==
  ASSUME NEW n \in Nat \ {0}, NEW A \in SUBSET (1..n), 1 \in A,
         \A i \in A : i < n => i + 1 \in A
  PROVE  n \in A
<1> SUFFICES ASSUME n \notin A
             PROVE  FALSE
  OBVIOUS
<1> DEFINE B == A \ {1}
           s == [i \in A |-> i + 1]
<1>1. IsFiniteSet(A)
  <2>1. IsFiniteSet(1..n)
    BY FS_Interval
  <2>2. QED
    BY <2>1, FS_Subset, Zenon
<1>2. IsFiniteSet(B) /\ Cardinality(B) = Cardinality(A) - 1
  BY <1>1, FS_RemoveElement
<1>3. Cardinality(A) \in Nat
  BY <1>1, FS_CardinalityType
<1>4. s \in [A -> B]
  BY SMT
<1>5. s \in Injection(A, B)
  BY <1>4 DEF Injection, IsInjective
<1> HIDE DEF B, s
<1>6. Cardinality(A) <= Cardinality(B)
  BY <1>2, <1>5, FS_Injection, Zenon
<1>7. QED
  BY <1>2, <1>3, <1>6

\* The entries determine the chain that begins at a cluster.
LEMMA ChainPrefix ==
  ASSUME NEW V, NEW c, NEW ch \in Chains, NEW d \in Chains, IsChain(V, c, ch), IsChain(V, c, d),
         NEW n \in Nat \ {0}, n <= Len(ch), n <= Len(d)
  PROVE  ch[n] = d[n]
<1> DEFINE A == {i \in 1..n : ch[i] = d[i]}
<1>1. A \in SUBSET (1..n) /\ 1 \in A
  BY DEF IsChain
<1>2. ASSUME NEW i \in A, i < n
      PROVE  i + 1 \in A
  <2>1. i \in Nat /\ i \in 1..Len(ch) /\ i \in 1..Len(d) /\ i < Len(ch) /\ i < Len(d) /\ ch[i] = d[i]
    BY <1>2, ChainType
  <2>2. Entry(V, ch[i]) = ch[i + 1] /\ Entry(V, d[i]) = d[i + 1]
    BY <2>1, ChainType DEF IsChain
  <2>3. QED
    BY <1>2, <2>1, <2>2
<1> HIDE DEF A
<1>3. n \in A
  BY <1>1, <1>2, Successors
<1>4. QED
  BY <1>3 DEF A

\* A disk and a root determine the chain.
LEMMA ChainUnique ==
  ASSUME NEW V, NEW c, NEW ch \in Chains, NEW d \in Chains, IsChain(V, c, ch), IsChain(V, c, d)
  PROVE  ch = d
<1>1. ASSUME NEW a \in Chains, NEW b \in Chains, IsChain(V, c, a), IsChain(V, c, b), Len(a) < Len(b)
      PROVE  FALSE
  <2>1. Len(a) \in Nat \ {0} /\ Len(a) \in 1..Len(a) /\ Len(a) \in 1..Len(b) /\ Len(a) + 1 \in 1..Len(b)
    BY <1>1, ChainType
  <2>2. a[Len(a)] = b[Len(a)]
    BY <1>1, <2>1, ChainPrefix
  <2>3. Entry(V, a[Len(a)]) = LastLink /\ Entry(V, b[Len(a)]) = b[Len(a) + 1]
    BY <1>1, <2>1, ChainType DEF IsChain
  <2>4. b[Len(a) + 1] \in Clusters
    BY <2>1, ChainType
  <2>5. QED
    BY <2>2, <2>3, <2>4, Layout DEF Clusters, LastLink
<1>2. Len(ch) \in Nat /\ Len(d) \in Nat
  BY ChainType
<1>3. Len(ch) = Len(d)
  BY <1>1, <1>2
<1>4. \A n \in 1..Len(ch) : ch[n] = d[n]
  BY <1>2, <1>3, ChainPrefix
<1>5. ch \in [1..Len(ch) -> Clusters] /\ d \in [1..Len(ch) -> Clusters]
  BY <1>3, ChainType DEF Injection
<1>6. QED
  BY <1>4, <1>5

\* Chains and lone clusters stay when the FAT does, and the roots.
LEMMA UsedSame ==
  ASSUME NEW V, NEW h, NEW c, Used(V, h, c), NEW W, NEW i, NEW d, SameFat(V, W),
         \A g \in Files : Root(V, h, c, g) \in Clusters => Root(W, i, d, g) = Root(V, h, c, g),
         \A e \in Clusters : Lone(h[c.f], c, e) => Lone(i[d.f], d, e)
  PROVE  Used(W, i, d)
<1> SUFFICES ASSUME NEW e \in Clusters, Entry(W, e) # 0
             PROVE  Owned(W, Roots(W, i, d), e) \/ Lone(i[d.f], d, e)
  BY DEF Used
<1>1. Owned(V, Roots(V, h, c), e) \/ Lone(h[c.f], c, e)
  BY DEF Used, SameFat
<1>2. ASSUME Owned(V, Roots(V, h, c), e)
      PROVE  Owned(W, Roots(W, i, d), e)
  <2>1. PICK g \in Files, ch \in Chains : IsChain(V, Root(V, h, c, g), ch) /\ e \in Range(ch)
    BY <1>2 DEF Owned, Roots
  <2>2. Root(V, h, c, g) \in Clusters
    <3>1. 1 \in 1..Len(ch)
      BY ChainType
    <3>2. QED
      BY <2>1, <3>1, ChainType DEF IsChain
  <2>3. \A x \in Range(ch) : Entry(W, x) = Entry(V, x)
    BY RangeOf, ChainType DEF SameFat
  <2>4. IsChain(W, Root(W, i, d, g), ch)
    BY <2>1, <2>2, <2>3, ChainKept
  <2>5. QED
    BY <2>1, <2>4 DEF Owned, Roots
<1>3. QED
  BY <1>1, <1>2

\* A step within f_read or f_write, or the end of one, that leaves the chains alone.
LEMMA LeakTransfer ==
  ASSUME call \in Calls, handle \in [Files -> FILs], LeakFree(volume, handle, call),
         call.at \in Transferring, \A e \in Clusters : ~Lone(fp, call, e),
         SameFat(View(volume), View(volume')), SameDir(View(volume), View(volume')),
         NEW file, handle' = [handle EXCEPT ![call.f] = file],
         file.mode = fp.mode, file.org = fp.org,
         \/ /\ call'.at \in Transferring /\ call'.f = call.f /\ call'.op = call.op
            /\ file.written = fp.written
         \/ call'.at = "idle" /\ IF call.op = "put" THEN file.written ELSE file.written = fp.written,
         volume'.wflag => volume.wflag \/ call.op = "put",
         call'.at = "join" => call'.c \notin {1, DiskErr}
  PROVE  LeakFree(volume', handle', call')
<1>1. /\ call.f \in Files /\ handle'[call.f] = file
      /\ \A g \in Files \ {call.f} : handle'[g] = handle[g]
  BY DEF Calls
<1>2. /\ call.at \notin {"idle", "unlink", "sync"} /\ call.at \notin Opening
      /\ call'.at \notin {"unlink", "sync"} /\ call'.at \notin Opening
  BY DEF Transferring, Opening
<1>3. \A g \in Files : Root(View(volume'), handle', call', g) = Root(View(volume), handle, call, g)
  BY <1>1, <1>2 DEF Root, WritesOn, SameDir, fp
<1>4. Used(View(volume'), handle', call')
  BY <1>3, UsedSame DEF LeakFree, fp
<1>5. ASSUME NEW g \in Files
      PROVE  /\ handle'[g].org \in {0} \cup Clusters /\ StartOf(View(volume'), g) \in {0} \cup Clusters
             /\ WritesOn(handle'[g]) /\ ~handle'[g].written /\ ~Putting(call', g)
                  => handle'[g].org = StartOf(View(volume'), g)
             /\ Unsynced(handle[g], call, g) => Unsynced(handle'[g], call', g)
  <2>1. /\ handle[g].org \in {0} \cup Clusters /\ StartOf(View(volume), g) \in {0} \cup Clusters
        /\ StartOf(View(volume'), g) = StartOf(View(volume), g)
        /\ WritesOn(handle[g]) /\ ~handle[g].written /\ ~Putting(call, g)
             => handle[g].org = StartOf(View(volume), g)
    BY DEF LeakFree, StartsOK, SameDir
  <2>2. CASE g # call.f
    <3>1. handle'[g] = handle[g] /\ ~Putting(call, g) /\ ~Creating(call, g)
      BY <1>1, <2>2 DEF Putting, Creating
    <3>2. QED
      BY <1>2, <2>1, <2>2, <3>1 DEF Unsynced
  <2>3. CASE g = call.f
    <3>1. handle'[g] = file /\ file.org = handle[g].org /\ (WritesOn(file) <=> WritesOn(handle[g]))
      BY <1>1, <2>3 DEF fp, WritesOn
    <3>2. \/ file.written = handle[g].written /\ (Putting(call', g) <=> Putting(call, g))
          \/ file.written
      BY <1>1, <2>3, Zenon DEF Putting, Transferring, fp
    <3>3. QED
      BY <1>2, <2>1, <3>1, <3>2 DEF Unsynced, Creating
  <2>4. QED
    BY <2>2, <2>3
<1>6. volume'.wflag => \E g \in Files : Unsynced(handle'[g], call', g)
  <2>1. CASE volume.wflag
    BY <1>5, <2>1 DEF LeakFree
  <2>2. CASE call.op = "put"
    <3>1. Unsynced(handle'[call.f], call', call.f)
      BY <1>1, <2>2 DEF Unsynced, Putting
    <3>2. QED
      BY <1>1, <3>1
  <2>3. QED
    BY <2>1, <2>2
<1>7. QED
  BY <1>4, <1>5, <1>6 DEF LeakFree, StartsOK

\* A step of f_open that leaves the FAT alone.
LEMMA UsedOpening ==
  ASSUME LeakFree(volume, handle, call), call.at \in Opening, handle' = handle, call'.f = call.f,
         SameFat(View(volume), View(volume')),
         \A g \in Files \ {call.f} : StartOf(View(volume'), g) = StartOf(View(volume), g),
         LET r == Root(View(volume), handle, call, call.f)
         IN  r \in Clusters => Root(View(volume'), handle, call', call.f) = r
  PROVE  Used(View(volume'), handle, call')
<1>1. ASSUME NEW g \in Files, Root(View(volume), handle, call, g) \in Clusters
      PROVE  Root(View(volume'), handle, call', g) = Root(View(volume), handle, call, g)
  BY <1>1 DEF Root
<1>2. \A e \in Clusters : ~Lone(handle[call.f], call, e)
  BY DEF Lone, Opening
<1>3. QED
  BY <1>1, <1>2, UsedSame DEF LeakFree

\* A step of f_open.
LEMMA LeakOpening ==
  ASSUME call \in Calls, LeakFree(volume, handle, call), ~WritesOn(fp),
         call.at \in Opening, call'.at \in Opening, call'.f = call.f, call'.op = call.op,
         handle' = handle, Used(View(volume'), handle, call'),
         \A g \in Files \ {call.f} : StartOf(View(volume'), g) = StartOf(View(volume), g),
         StartOf(View(volume'), call.f) \in {0, StartOf(View(volume), call.f)},
         volume'.wflag => volume.wflag \/ call.op = "create"
  PROVE  LeakFree(volume', handle', call')
<1>1. call.f \in Files /\ handle' = handle
  BY DEF Calls
<1>2. call.at \notin Transferring /\ call'.at \notin Transferring /\ call'.at \notin {"sync", "link", "join"}
      /\ call.at \notin {"sync", "link", "join"}
  BY DEF Transferring, Opening
<1>3. ASSUME NEW g \in Files
      PROVE  /\ handle[g].org \in {0} \cup Clusters /\ StartOf(View(volume'), g) \in {0} \cup Clusters
             /\ WritesOn(handle[g]) /\ ~handle[g].written /\ ~Putting(call', g)
                  => handle[g].org = StartOf(View(volume'), g)
             /\ Unsynced(handle[g], call, g) => Unsynced(handle[g], call', g)
  <2>1. ~Putting(call, g) /\ ~Putting(call', g) /\ (Creating(call, g) <=> Creating(call', g))
    BY <1>2 DEF Putting, Creating
  <2>2. /\ handle[g].org \in {0} \cup Clusters /\ StartOf(View(volume), g) \in {0} \cup Clusters
        /\ WritesOn(handle[g]) /\ ~handle[g].written => handle[g].org = StartOf(View(volume), g)
    BY <2>1 DEF LeakFree, StartsOK
  <2>3. CASE g = call.f
    BY <1>2, <2>1, <2>2, <2>3 DEF Unsynced, fp
  <2>4. CASE g # call.f
    BY <1>2, <2>1, <2>2, <2>4 DEF Unsynced
  <2>5. QED
    BY <2>3, <2>4
<1>4. volume'.wflag => \E g \in Files : Unsynced(handle[g], call', g)
  <2>1. CASE volume.wflag
    BY <1>3, <2>1 DEF LeakFree
  <2>2. CASE call.op = "create"
    <3>1. Unsynced(handle[call.f], call', call.f)
      BY <2>2 DEF Unsynced, Creating
    <3>2. QED
      BY <1>1, <3>1
  <2>3. QED
    BY <2>1, <2>2
<1>5. QED
  BY <1>1, <1>2, <1>3, <1>4 DEF LeakFree, StartsOK

\* The beginning of a call, and what is done without the card.
LEMMA LeakBegin ==
  ASSUME LeakFree(volume, handle, call), call.at = "idle", volume' = volume,
         call'.at \in {"idle", "follow", "loop", "record"},
         \A g \in Files :
           \/ /\ handle'[g].mode = handle[g].mode /\ handle'[g].org = handle[g].org
              /\ handle'[g].written = handle[g].written
           \/ ~handle[g].written /\ handle'[g] = Closed
  PROVE  LeakFree(volume', handle', call')
<1> DEFINE V == View(volume)
<1>1. ASSUME NEW g \in Files
      PROVE  /\ handle[g].org \in {0} \cup Clusters /\ StartOf(V, g) \in {0} \cup Clusters
             /\ WritesOn(handle[g]) /\ ~handle[g].written => handle[g].org = StartOf(V, g)
  BY DEF LeakFree, StartsOK, Putting, Transferring
<1> HIDE DEF V
<1>2. ~WritesOn(Closed) /\ Closed.org = 0 /\ ~Closed.written
  BY DEF WritesOn, Closed
<1>3. ASSUME NEW g \in Files
      PROVE  /\ Root(V, handle', call', g) = Root(V, handle, call, g)
             /\ handle'[g].org \in {0} \cup Clusters
             /\ WritesOn(handle'[g]) /\ ~handle'[g].written => handle'[g].org = StartOf(V, g)
             /\ Unsynced(handle[g], call, g) => Unsynced(handle'[g], call', g)
  <2>1. call.at \notin Transferring /\ call.at \notin Opening /\ call.at # "unlink" /\ call'.at # "unlink"
        /\ call.at # "sync"
    BY DEF Transferring, Opening
  <2>2. CASE /\ handle'[g].mode = handle[g].mode /\ handle'[g].org = handle[g].org
             /\ handle'[g].written = handle[g].written
    BY <1>1, <2>1, <2>2 DEF Root, WritesOn, Unsynced, Putting, Creating
  <2>3. CASE ~handle[g].written /\ handle'[g] = Closed
    BY <1>1, <1>2, <2>1, <2>3 DEF Root, Unsynced, Putting, Creating
  <2>4. QED
    BY <2>2, <2>3
<1>4. Used(V, handle', call')
  <2>1. \A e \in Clusters : ~Lone(handle[call.f], call, e)
    BY DEF Lone
  <2>2. SameFat(V, V)
    BY DEF SameFat
  <2>3. Used(V, handle, call)
    BY DEF LeakFree, V
  <2>4. QED
    BY <1>3, <2>1, <2>2, <2>3, UsedSame
<1>5. volume.wflag => \E g \in Files : Unsynced(handle'[g], call', g)
  BY <1>3 DEF LeakFree
<1>6. QED
  BY <1>1, <1>3, <1>4, <1>5 DEF LeakFree, StartsOK, V

\* Without faults a step goes right.
LEMMA NoWrong ==
  ASSUME TypeOK, faults' = 0, Right \/ Wrong
  PROVE  Right /\ ~Wrong /\ faults = 0
  BY DEF TypeOK, Right, Wrong

\* move_window leaves no window dirty that was not,
LEMMA MovedFlag ==
  ASSUME NEW v \in Volumes, NEW s, Moved(v, s).wflag
  PROVE  v.wflag
<1>1. CASE v.winsect = s
  BY <1>1 DEF Moved
<1>2. CASE v.winsect # s
  <2>1. Back(v) \in [disk : {Back(v).disk}, win : [Units -> Nat], winsect : Sectors \cup {0}, wflag : {FALSE}, last : 0..n_fatent]
    BY DEF Back, Volumes
  <2>2. ~Filled(Back(v), s).wflag
    BY <2>1 DEF Filled
  <2>3. QED
    BY <1>2, <2>2 DEF Moved
<1>3. QED
  BY <1>1, <1>2

\* and none at all if that is all it has to do.
LEMMA SyncedClean ==
  ASSUME NEW v \in Volumes, NEW S, WindowOn(v, S)
  PROVE  ~Moved(v, 0).wflag
<1>1. v.winsect # 0 => ~Moved(v, 0).wflag
  BY MovedView
<1>2. v.winsect = 0 => Moved(v, 0) = v /\ ~v.wflag
  BY DEF Moved, WindowOn
<1>3. QED
  BY <1>1, <1>2

\* What the lemmas below need of the state within f_read and f_write.
LEMMA LeakContext ==
  ASSUME FatInv, LeakInv, faults = 0
  PROVE  /\ TypeOK /\ VolumeOK(volume) /\ Good(View(volume)) /\ volume \in Volumes
         /\ call \in Calls /\ handle \in [Files -> FILs] /\ call.f \in Files /\ fp \in FILs
         /\ LeakFree(volume, handle, call) /\ (fp.org \in {0} \cup Clusters)
         /\ TransferOK(fp, call) /\ OpenOK(View(volume), fp, call)
<1>1. /\ TypeOK /\ VolumeOK(volume) /\ Good(View(volume)) /\ volume \in Volumes
      /\ call \in Calls /\ handle \in [Files -> FILs] /\ call.f \in Files /\ fp \in FILs
  BY LinkedGood DEF FatInv, TypeOK, Calls, fp
<1>2. LeakFree(volume, handle, call) /\ fp.org \in {0} \cup Clusters
  BY <1>1 DEF LeakInv, LeakFree, StartsOK, fp
<1>3. TransferOK(fp, call) /\ OpenOK(View(volume), fp, call)
  BY DEF FatInv, Linked, Links, fp
<1>4. QED
  BY <1>1, <1>2, <1>3

\* A step that goes on with the call, the FIL as it is or in another sector.
LEMMA LeakOn ==
  ASSUME FatInv, LeakInv, faults = 0, call.at \in Transferring, \A e \in Clusters : ~Lone(fp, call, e),
         SameFat(View(volume), View(volume')), SameDir(View(volume), View(volume')),
         NEW file, handle' = [handle EXCEPT ![call.f] = file],
         file.mode = fp.mode, file.org = fp.org, file.written = fp.written,
         call'.at \in Transferring, call'.f = call.f, call'.op = call.op,
         volume'.wflag => volume.wflag \/ call.op = "put",
         call'.at = "join" => call'.c \notin {1, DiskErr}
  PROVE  LeakFree(volume', handle', call')
<1>1. LeakFree(volume, handle, call) /\ call \in Calls /\ handle \in [Files -> FILs]
  BY LeakContext
<1>2. QED
  BY <1>1, LeakTransfer

\* FILs that do not change are those with the FIL of the call put back.
LEMMA SameHandle ==
  ASSUME handle \in [Files -> FILs], handle' = handle
  PROVE  handle' = [handle EXCEPT ![call.f] = fp]
  BY DEF fp

\* No action loses a cluster.  Those of f_read and f_write that change no entry of the FAT
\* and of the directory:
LEMMA IterateLeak ==
  ASSUME FatInv, LeakInv, faults = 0, Iterate
  PROVE  LeakFree(volume', handle', call')
<1>1. /\ call \in Calls /\ handle \in [Files -> FILs] /\ fp.org \in {0} \cup Clusters
      /\ call.at = "loop" /\ volume' = volume /\ handle' = handle /\ fp \in FILs
  BY LeakContext DEF Iterate
<1>2. /\ call'.f = call.f /\ call'.op = call.op /\ call'.at \in {"part", "sector", "next", "join", "find"}
      /\ call'.at = "join" => call'.c = fp.org
  BY <1>1 DEF Iterate, Goto, GotoWith, Calls
<1>3. call'.at = "join" => call'.c \notin {1, DiskErr}
  BY <1>1, <1>2, NoCluster, Layout DEF DiskErr
<1>4. \A e \in Clusters : ~Lone(fp, call, e)
  BY <1>1 DEF Lone
<1>5. QED
  BY <1>1, <1>2, <1>3, <1>4, SameView, SameHandle, LeakOn DEF Transferring

LEMMA AdvanceLeak ==
  ASSUME UpdateSize <= SSC, FatInv, LeakInv, faults' = 0, Advance
  PROVE  LeakFree(volume', handle', call')
<1>1. /\ Right /\ ~Wrong /\ faults = 0
      /\ call.at = "next" /\ handle' = handle
  BY NoWrong DEF Advance, FatInv
<1>2. /\ call \in Calls /\ handle \in [Files -> FILs] /\ volume \in Volumes /\ VolumeOK(volume)
      /\ Good(View(volume)) /\ call.f \in Files /\ fp \in FILs /\ TransferOK(fp, call)
  BY <1>1, LeakContext
<1>3. PICK chain \in [Files -> Chains] : Links(View(volume), handle, call, chain)
  BY DEF FatInv, Linked
<1>4. fp.cur \in Clusters
  <2>1. FileOK(fp, call, call.f, chain[call.f])
    BY <1>2, <1>3 DEF Links, fp
  <2>2. QED
    BY <1>1, <1>2, <2>1 DEF FileOK, TransferOK, Transferring
<1>5. /\ volume' = Moved(volume, FatSector(fp.cur)) /\ Answered(volume'.win[fp.cur % SS])
  BY <1>1 DEF Advance
<1> DEFINE cs == volume'.win[fp.cur % SS]
<1>6. View(volume') = View(volume) /\ cs = Entry(View(volume), fp.cur) /\ cs \in {0, LastLink} \cup Clusters
  BY <1>2, <1>4, <1>5, EntrySeen
<1>7. call.op = "put" => cs = LastLink
  BY <1>1, <1>2, <1>3, <1>6, AtEnd DEF fp
<1>8. volume'.wflag => volume.wflag
  BY <1>2, <1>5, MovedFlag
<1> HIDE DEF cs
<1>9. Answered(cs)
  BY <1>5 DEF cs
<1>10. /\ call'.f = call.f /\ call'.op = call.op /\ call'.at \in {"join", "find"}
       /\ call'.at = "join" => call'.c \notin {1, DiskErr}
  <2>1. cs \notin {1, DiskErr}
    BY <1>6, NoCluster, Layout DEF LastLink, DiskErr
  <2>2. CASE call.op = "get" /\ GotoWith("join", cs)
    BY <1>2, <2>1, <2>2 DEF GotoWith, Calls
  <2>3. CASE call.op = "put"
    <3>1. call' = [call EXCEPT !.at = "find", !.c = fp.cur, !.scl = fp.cur]
      BY <1>7, <1>9, <2>3, Layout DEF Answered, LastLink
    <3>2. QED
      BY <1>2, <3>1 DEF Calls
  <2>4. QED
    BY <1>9, <2>2, <2>3 DEF Answered
<1>11. \A e \in Clusters : ~Lone(fp, call, e)
  BY <1>1 DEF Lone
<1>12. QED
  BY <1>1, <1>2, <1>6, <1>8, <1>10, <1>11, SameView, SameHandle, LeakOn DEF Transferring

\* The file pointer moves on.
LEMMA LeakMoves ==
  ASSUME FatInv, LeakInv, faults = 0, call.at \in InSector,
         SameFat(View(volume), View(volume')), SameDir(View(volume), View(volume')),
         NEW sect, NEW m, Transfer([fp EXCEPT !.dsect = sect], m) \/ Transfer(fp, m),
         volume'.wflag => volume.wflag \/ call.op = "put"
  PROVE  LeakFree(volume', handle', call')
<1>1. call \in Calls /\ handle \in [Files -> FILs] /\ fp \in FILs
  BY LeakContext
<1>2. call'.f = call.f /\ call'.op = call.op /\ call'.at = "loop"
  BY <1>1 DEF Transfer, Calls
<1>3. \A e \in Clusters : ~Lone(fp, call, e)
  BY DEF Lone, InSector
<1>4. call.at \in Transferring /\ call'.at \in Transferring /\ call'.at # "join"
  BY <1>2 DEF InSector, Transferring
<1>5. CASE Transfer(fp, m)
  <2> DEFINE file == [fp EXCEPT !.ptr = @ + m]
  <2>1. handle' = [handle EXCEPT ![call.f] = file]
    BY <1>5 DEF Transfer
  <2>2. file.mode = fp.mode /\ file.org = fp.org /\ file.written = fp.written
    BY <1>1 DEF FILs
  <2> HIDE DEF file
  <2>3. QED
    BY <1>2, <1>3, <1>4, <2>1, <2>2, LeakOn
<1>6. CASE Transfer([fp EXCEPT !.dsect = sect], m)
  <2> DEFINE file == [[fp EXCEPT !.dsect = sect] EXCEPT !.ptr = @ + m]
  <2>1. handle' = [handle EXCEPT ![call.f] = file]
    BY <1>6 DEF Transfer
  <2>2. file.mode = fp.mode /\ file.org = fp.org /\ file.written = fp.written
    BY <1>1 DEF FILs
  <2> HIDE DEF file
  <2>3. QED
    BY <1>2, <1>3, <1>4, <2>1, <2>2, LeakOn
<1>7. QED
  BY <1>5, <1>6

LEMMA GetWholeLeak ==
  ASSUME FatInv, LeakInv, faults' = 0, GetWhole
  PROVE  LeakFree(volume', handle', call')
<1>1. Right /\ faults = 0 /\ volume' = volume /\ call.at \in InSector /\ Transfer(fp, SS * Whole)
  BY NoWrong DEF GetWhole, FatInv, InSector
<1>2. PICK m : m = SS * Whole
  OBVIOUS
<1>3. Transfer(fp, m)
  BY <1>1, <1>2, Zenon
<1>4. QED
  BY <1>1, <1>3, SameView, LeakMoves

\* The first part of a sector: where it is becomes dsect.
LEMMA LeakInto ==
  ASSUME FatInv, LeakInv, faults = 0, call.at \in InSector,
         View(volume') = View(volume), volume'.wflag => volume.wflag,
         NEW at \in {"whole", "edge", "part"}, Goto(at), NEW sect,
         handle' = handle \/ handle' = [handle EXCEPT ![call.f].dsect = sect]
  PROVE  LeakFree(volume', handle', call')
<1>1. call \in Calls /\ handle \in [Files -> FILs] /\ fp \in FILs
  BY LeakContext
<1>2. call'.f = call.f /\ call'.op = call.op /\ call'.at = at
  BY <1>1, GotoFact DEF Transferring
<1>3. \A e \in Clusters : ~Lone(fp, call, e)
  BY DEF Lone, InSector
<1>4. call.at \in Transferring /\ call'.at \in Transferring /\ call'.at # "join"
  BY <1>2 DEF InSector, Transferring
<1>5. PICK file : /\ handle' = [handle EXCEPT ![call.f] = file] /\ file.mode = fp.mode
                  /\ file.org = fp.org /\ file.written = fp.written
  <2>1. CASE handle' = handle
    BY <1>1, <2>1, SameHandle
  <2>2. CASE handle' = [handle EXCEPT ![call.f].dsect = sect]
    <3> DEFINE file == [fp EXCEPT !.dsect = sect]
    <3>1. handle' = [handle EXCEPT ![call.f] = file]
      BY <2>2 DEF fp
    <3>2. file.mode = fp.mode /\ file.org = fp.org /\ file.written = fp.written
      BY <1>1 DEF FILs
    <3>3. QED
      BY <3>1, <3>2
  <2>3. QED
    BY <2>1, <2>2
<1>6. QED
  BY <1>2, <1>3, <1>4, <1>5, SameView, LeakOn

LEMMA GetSectorLeak ==
  ASSUME FatInv, LeakInv, faults' = 0, GetSector
  PROVE  LeakFree(volume', handle', call')
<1>1. /\ faults = 0 /\ volume' = volume /\ call.at \in InSector /\ Goto("part")
      /\ handle' = [handle EXCEPT ![call.f].dsect = Sect]
  BY DEF GetSector, InSector
<1>2. QED
  BY <1>1, LeakInto, Zenon

LEMMA GetPartLeak ==
  ASSUME FatInv, LeakInv, faults' = 0, GetPart
  PROVE  LeakFree(volume', handle', call')
<1>1. /\ Right /\ faults = 0 /\ call.at \in InSector /\ call.at = "part"
      /\ volume' = Moved(volume, fp.dsect) /\ Transfer(fp, Partial)
  BY NoWrong DEF GetPart, FatInv, InSector
<1>2. VolumeOK(volume) /\ Good(View(volume)) /\ volume \in Volumes /\ fp.dsect \in Sectors \cup {0}
  BY <1>1, LeakContext DEF FILs
<1>3. View(volume') = View(volume)
  BY <1>1, <1>2, VolumeMoved
<1>4. volume'.wflag => volume.wflag
  BY <1>1, <1>2, MovedFlag
<1>5. PICK m : m = Partial
  OBVIOUS
<1>6. Transfer(fp, m)
  BY <1>1, <1>5, Zenon
<1>7. QED
  BY <1>1, <1>3, <1>4, <1>6, SameView, LeakMoves

LEMMA PutSectorLeak ==
  ASSUME FatInv, LeakInv, faults' = 0, PutSector
  PROVE  LeakFree(volume', handle', call')
<1>1. /\ Right /\ faults = 0 /\ call.at \in InSector
      /\ volume' = volume \/ volume' = Moved(volume, 0)
      /\ \/ Goto("whole") /\ handle' = handle
         \/ Goto("edge") /\ handle' = handle
         \/ Goto("part") /\ handle' = [handle EXCEPT ![call.f].dsect = Sect]
  BY NoWrong DEF PutSector, FatInv, InSector
<1>2. VolumeOK(volume) /\ Good(View(volume)) /\ volume \in Volumes
  BY <1>1, LeakContext
<1>3. View(volume') = View(volume)
  BY <1>1, <1>2, VolumeMoved
<1>4. volume'.wflag => volume.wflag
  BY <1>1, <1>2, MovedFlag
<1>5. QED
  BY <1>1, <1>3, <1>4, LeakInto, Zenon

LEMMA PutWholeLeak ==
  ASSUME FatInv, LeakInv, faults' = 0, PutWhole
  PROVE  LeakFree(volume', handle', call')
<1> DEFINE data == [u \in Units |-> Datum(fp.ptr + u)]
<1>1. /\ Right /\ faults = 0 /\ call.at = "whole" /\ call.at \in InSector
      /\ volume' = Past(Over(data)) /\ Transfer(fp, SS * Whole)
  BY NoWrong DEF PutWhole, FatInv, InSector, Over
<1>2. TypeOK /\ fp \in FILs /\ TransferOK(fp, call)
  BY <1>1, LeakContext
<1>3. data \in [Units -> Nat]
  <2>1. ASSUME NEW u \in Units
        PROVE  Datum(fp.ptr + u) \in Nat
    <3>1. fp.ptr + u \in Nat
      BY <1>2 DEF FILs, Units
    <3>2. QED
      BY <1>2, <3>1, DatumType
  <2>2. QED
    BY <2>1
<1> HIDE DEF data
<1>4. SameFat(View(volume), View(volume')) /\ SameDir(View(volume), View(volume'))
  BY <1>1, <1>3, WholeStored
<1>5. call.op = "put"
  BY <1>1, <1>2 DEF TransferOK
<1>6. PICK m : m = SS * Whole
  OBVIOUS
<1>7. Transfer(fp, m)
  BY <1>1, <1>6, Zenon
<1>8. QED
  BY <1>1, <1>4, <1>5, <1>7, LeakMoves

LEMMA PutEdgeLeak ==
  ASSUME FatInv, LeakInv, faults' = 0, PutEdge
  PROVE  LeakFree(volume', handle', call')
<1>1. /\ Right /\ faults = 0 /\ call.at = "edge" /\ call.at \in InSector
      /\ volume' = Fit([Moved(volume, 0) EXCEPT !.winsect = Sect])
      /\ Transfer([fp EXCEPT !.dsect = Sect], Partial)
  BY NoWrong DEF PutEdge, FatInv, InSector
<1>2. TransferOK(fp, call)
  BY <1>1, LeakContext
<1>3. SameFat(View(volume), View(volume')) /\ SameDir(View(volume), View(volume'))
  BY <1>1, EdgeStored, Zenon
<1>4. call.op = "put"
  BY <1>1, <1>2 DEF TransferOK
<1>5. PICK m, s : m = Partial /\ s = Sect
  OBVIOUS
<1>6. Transfer([fp EXCEPT !.dsect = s], m)
  BY <1>1, <1>5, Zenon
<1>7. QED
  BY <1>1, <1>3, <1>4, <1>6, LeakMoves, Zenon

LEMMA PutPartLeak ==
  ASSUME FatInv, LeakInv, faults' = 0, PutPart
  PROVE  LeakFree(volume', handle', call')
<1>1. /\ Right /\ faults = 0 /\ call.at = "part" /\ call.op = "put" /\ call.at \in InSector
      /\ volume' = Fit(Moved(volume, fp.dsect)) /\ Transfer(fp, Partial)
  BY NoWrong DEF PutPart, FatInv, InSector
<1>2. SameFat(View(volume), View(volume')) /\ SameDir(View(volume), View(volume'))
  BY <1>1, PartStored, Zenon
<1>3. PICK m : m = Partial
  OBVIOUS
<1>4. Transfer(fp, m)
  BY <1>1, <1>3, Zenon
<1>5. QED
  BY <1>1, <1>2, <1>4, LeakMoves, Zenon

\* The ends of f_read and f_write.
LEMMA GetDoneLeak ==
  ASSUME FatInv, LeakInv, faults' = 0, GetDone
  PROVE  LeakFree(volume', handle', call')
<1>1. faults = 0 /\ volume' = volume /\ call.at = "loop" /\ call.op = "get" /\ Done(fp)
  BY DEF GetDone
<1>2. LeakFree(volume, handle, call) /\ call \in Calls /\ handle \in [Files -> FILs]
  BY <1>1, LeakContext
<1>3. call'.at = "idle" /\ handle' = [handle EXCEPT ![call.f] = fp]
  BY <1>1 DEF Done, Idle
<1>4. \A e \in Clusters : ~Lone(fp, call, e)
  BY <1>1 DEF Lone
<1>5. QED
  BY <1>1, <1>2, <1>3, <1>4, SameView, LeakTransfer DEF Transferring

LEMMA PutDoneLeak ==
  ASSUME FatInv, LeakInv, faults' = 0, PutDone
  PROVE  LeakFree(volume', handle', call')
<1> DEFINE file == [fp EXCEPT !.size = IF fp.ptr > @ THEN fp.ptr ELSE @, !.written = TRUE]
<1>1. faults = 0 /\ volume' = volume /\ call.at = "loop" /\ call.op = "put" /\ Done(file)
  BY DEF PutDone
<1>2. LeakFree(volume, handle, call) /\ call \in Calls /\ handle \in [Files -> FILs] /\ fp \in FILs
  BY <1>1, LeakContext
<1>3. file.mode = fp.mode /\ file.org = fp.org /\ file.written = TRUE
  BY <1>2 DEF FILs
<1> HIDE DEF file
<1>4. call'.at = "idle" /\ handle' = [handle EXCEPT ![call.f] = file]
  BY <1>1 DEF Done, Idle
<1>5. \A e \in Clusters : ~Lone(fp, call, e)
  BY <1>1 DEF Lone
<1>6. QED
  BY <1>1, <1>2, <1>3, <1>4, <1>5, SameView, LeakTransfer DEF Transferring

\* Those of f_open:
LEMMA FollowPathLeak ==
  ASSUME FatInv, LeakInv, faults' = 0, FollowPath
  PROVE  LeakFree(volume', handle', call')
<1>1. /\ Right /\ faults = 0 /\ call.at = "follow" /\ handle' = handle
      /\ volume' = Moved(volume, call.c)
      /\ \/ GotoWith("follow", call.c + 1)
         \/ Goto(IF call.op = "create" THEN "empty" ELSE "opened")
  BY NoWrong DEF FollowPath, FatInv
<1>2. /\ VolumeOK(volume) /\ Good(View(volume)) /\ volume \in Volumes /\ call \in Calls /\ call.f \in Files
      /\ LeakFree(volume, handle, call) /\ OpenOK(View(volume), fp, call)
  BY <1>1, LeakContext
<1>3. call.c \in DirSector(0)..DirSector(call.f) /\ ~WritesOn(fp)
  BY <1>1, <1>2 DEF OpenOK, Opening, WritesOn
<1>4. call.c \in Sectors
  BY <1>2, <1>3, Layout, DirAt DEF Sectors
<1>5. View(volume') = View(volume)
  BY <1>1, <1>2, <1>4, VolumeMoved
<1>6. volume'.wflag => volume.wflag
  BY <1>1, <1>2, MovedFlag
<1>7. call'.f = call.f /\ call'.op = call.op /\ call'.at \in {"follow", "empty", "opened"}
  <2>1. CASE GotoWith("follow", call.c + 1)
    BY <1>2, <2>1 DEF GotoWith, Calls
  <2>2. CASE Goto(IF call.op = "create" THEN "empty" ELSE "opened")
    BY <1>2, <2>2 DEF Goto, Calls
  <2>3. QED
    BY <1>1, <2>1, <2>2
<1>8. Root(View(volume'), handle, call', call.f) = Root(View(volume), handle, call, call.f)
  BY <1>1, <1>5, <1>7 DEF Root
<1>9. Used(View(volume'), handle, call')
  BY <1>1, <1>2, <1>5, <1>7, <1>8, SameView, UsedOpening DEF Opening
<1>10. QED
  BY <1>1, <1>2, <1>3, <1>5, <1>6, <1>7, <1>9, LeakOpening DEF Opening

LEMMA TruncateLeak ==
  ASSUME FatInv, LeakInv, faults' = 0, Truncate
  PROVE  LeakFree(volume', handle', call')
<1> DEFINE f == call.f
           V == View(volume)
           W == View(volume')
           cl == volume.win[ClustAt(f)]
<1>1. /\ faults = 0 /\ call.at = "empty" /\ volume.winsect = DirSector(f)
      /\ volume' = Poke(Poke(volume, SizeAt(f), 0), ClustAt(f), 0)
  BY DEF FatInv, Truncate, WindowAt, Emptied
<1>2. /\ VolumeOK(volume) /\ volume \in Volumes /\ call \in Calls /\ f \in Files
      /\ LeakFree(volume, handle, call) /\ OpenOK(V, fp, call)
  BY <1>1, LeakContext
<1>3. ~WritesOn(fp) /\ call.op = "create"
  BY <1>1, <1>2 DEF OpenOK, Opening, WritesOn
<1>4. /\ StartOf(W, f) = 0 /\ SameFat(V, W)
      /\ \A g \in Files \ {f} : StartOf(W, g) = StartOf(V, g)
  BY <1>1, <1>2, VolumeDir
<1>5. cl = StartOf(V, f) /\ cl = Root(V, handle, call, f)
  BY <1>1, <1>2, <1>3, DirAt, WindowShows DEF StartOf, Root, fp
<1> HIDE DEF V, W, cl
<1>6. cl \in {0} \cup Clusters
  BY <1>2, <1>5 DEF LeakFree, StartsOK, V
<1>7. /\ handle' = handle
      /\ \/ cl = 0 /\ Goto("opened")
         \/ cl \in Clusters /\ call' = [call EXCEPT !.at = "unlink", !.c = cl, !.scl = cl]
  BY <1>6 DEF Truncate, cl
<1>8. /\ call'.f = call.f /\ call'.op = call.op
      /\ \/ cl = 0 /\ call'.at = "opened"
         \/ cl \in Clusters /\ call'.at = "unlink" /\ call'.c = cl
  <2>1. CASE cl = 0 /\ Goto("opened")
    BY <1>2, <2>1 DEF Goto, Calls
  <2>2. CASE cl \in Clusters /\ call' = [call EXCEPT !.at = "unlink", !.c = cl, !.scl = cl]
    BY <1>2, <2>2 DEF Calls
  <2>3. QED
    BY <1>7, <2>1, <2>2
<1>9. cl \in Clusters => Root(W, handle, call', f) = cl
  BY <1>3, <1>8, NoCluster DEF Root, fp
<1>10. Used(W, handle, call')
  BY <1>1, <1>2, <1>4, <1>5, <1>7, <1>8, <1>9, UsedOpening DEF Opening, V, W
<1>11. QED
  BY <1>1, <1>2, <1>3, <1>4, <1>5, <1>7, <1>8, <1>10, LeakOpening DEF Opening, V, W

LEMMA ReuseLeak ==
  ASSUME FatInv, LeakInv, faults' = 0, Reuse
  PROVE  LeakFree(volume', handle', call')
<1> DEFINE v == [volume EXCEPT !.last = call.scl - 1]
<1>1. /\ Right /\ faults = 0 /\ call.at = "reuse" /\ handle' = handle
      /\ volume' = Moved(v, DirSector(call.f)) /\ Goto("opened")
  BY NoWrong DEF Reuse, FatInv
<1>2. /\ VolumeOK(volume) /\ Good(View(volume)) /\ volume \in Volumes /\ call \in Calls /\ call.f \in Files
      /\ LeakFree(volume, handle, call) /\ OpenOK(View(volume), fp, call)
  BY <1>1, LeakContext
<1>3. ~WritesOn(fp) /\ call.op = "create" /\ call.scl \in Clusters
  BY <1>1, <1>2 DEF OpenOK, Opening, WritesOn
<1>4. VolumeOK(v) /\ View(v) = View(volume)
  <2>1. call.scl - 1 \in 0..n_fatent
    BY <1>3, Layout DEF Clusters
  <2>2. QED
    BY <1>2, <2>1, VolumeLast
<1> HIDE DEF v
<1>5. View(volume') = View(volume)
  BY <1>1, <1>2, <1>4, DirAt, VolumeMoved
<1>6. call'.f = call.f /\ call'.op = call.op /\ call'.at = "opened"
  BY <1>1, <1>2, GotoFact DEF Opening
<1>7. Root(View(volume), handle, call, call.f) = Root(View(volume'), handle, call', call.f)
  BY <1>1, <1>5, <1>6 DEF Root
<1>8. Used(View(volume'), handle, call')
  BY <1>1, <1>2, <1>5, <1>6, <1>7, SameView, UsedOpening DEF Opening
<1>9. QED
  BY <1>1, <1>2, <1>3, <1>5, <1>6, <1>8, LeakOpening DEF Opening

LEMMA RemoveChainLeak ==
  ASSUME FatInv, LeakInv, faults' = 0, RemoveChain
  PROVE  LeakFree(volume', handle', call')
<1> DEFINE f == call.f
           c == call.c
           V == View(volume)
           v == Moved(volume, FatSector(c))
           nxt == v.win[c % SS]
           W == View(volume')
           root == Roots(V, handle, call)
<1>1. faults = 0 /\ call.at = "unlink" /\ Right /\ ~Wrong
  BY NoWrong DEF RemoveChain, FatInv
<1>2. /\ VolumeOK(volume) /\ Good(V) /\ volume \in Volumes /\ call \in Calls /\ f \in Files
      /\ handle \in [Files -> FILs] /\ LeakFree(volume, handle, call) /\ OpenOK(V, fp, call)
  BY <1>1, LeakContext
<1>3. PICK chain \in [Files -> Chains] : Links(V, handle, call, chain)
  BY DEF FatInv, Linked
<1>4. ~WritesOn(fp) /\ call.op = "create" /\ StartOf(V, f) = 0 /\ c \in Clusters
  BY <1>1, <1>2 DEF OpenOK, Opening, WritesOn
<1>5. root \in [Files -> Nat] /\ FsOK(V, root, chain) /\ root[f] = c /\ chain[f] \in Chains
  <2>1. Root(V, handle, call, f) = c
    BY <1>1, <1>4 DEF Root, fp
  <2>2. root[f] = c
    BY <1>2, <2>1 DEF Roots
  <2>3. FsOK(V, root, chain)
    BY <1>3 DEF Links
  <2>4. root \in [Files -> Nat]
    BY <1>2, <1>3, RootsType
  <2>5. QED
    BY <1>2, <2>2, <2>3, <2>4
<1>6. VolumeOK(v) /\ View(v) = V /\ v.winsect = FatSector(c) /\ nxt = Entry(V, c)
  BY <1>2, <1>4, EntrySeen
<1> HIDE DEF V, v, nxt, W, root, f, c
<1>7. nxt \in Clusters \cup {LastLink}
  <2>1. OnlyEntry(V, V, c)
    BY DEF OnlyEntry, SameDir
  <2>2. QED
    BY <1>2, <1>4, <1>5, <1>6, <2>1, FsUnlink
<1>8. nxt \in Nat /\ ~(nxt < 2) /\ nxt # 1
  BY <1>7, Layout DEF Clusters, LastLink
<1>9. /\ volume' = Poke(v, c % SS, 0) /\ handle' = handle
      /\ GotoWith(IF nxt \in Clusters THEN "unlink" ELSE "reuse", nxt)
  BY <1>1, <1>8 DEF RemoveChain, v, nxt, c
<1>10. OnlyEntry(V, W, c) /\ Entry(W, c) = 0
  <2>1. 0 \in {0, LastLink} \cup Clusters
    OBVIOUS
  <2>2. QED
    BY <1>4, <1>6, <1>9, <2>1, VolumeEntry DEF W
<1>11. /\ call'.f = f /\ call'.op = call.op /\ call'.c = nxt
       /\ call'.at = IF nxt \in Clusters THEN "unlink" ELSE "reuse"
  <2>1. CASE nxt \in Clusters
    BY <1>2, <1>9, <2>1 DEF GotoWith, Calls, f
  <2>2. CASE nxt \notin Clusters
    BY <1>2, <1>9, <2>2 DEF GotoWith, Calls, f
  <2>3. QED
    BY <2>1, <2>2
<1>12. \A g \in Files : StartOf(W, g) = StartOf(V, g)
  BY <1>10 DEF OnlyEntry, SameDir
<1>13. \A g \in Files \ {f} : Root(W, handle, call', g) = root[g]
  BY <1>11, <1>12 DEF Root, root, Roots, f
<1>14. nxt \in Clusters => Root(W, handle, call', f) = nxt
  BY <1>4, <1>11 DEF Root, fp, f
<1>15. c = chain[f][1] /\ c \in Range(chain[f]) /\ IsChain(V, c, chain[f])
  <2>1. IsChain(V, c, chain[f]) /\ chain[f] \in Chains
    BY <1>2, <1>4, <1>5 DEF FsOK, ChainsOK
  <2>2. 1 \in 1..Len(chain[f])
    BY <2>1, ChainType
  <2>3. QED
    BY <2>1, <2>2, RangeOf DEF IsChain
<1>16. ASSUME NEW d \in Clusters, Entry(W, d) # 0
       PROVE  Owned(W, Roots(W, handle, call'), d)
  <2>1. d # c /\ Entry(V, d) # 0
    BY <1>10, <1>16 DEF OnlyEntry
  <2>2. Owned(V, root, d)
    <3>1. ~Lone(handle[call.f], call, d)
      BY <1>1 DEF Lone
    <3>2. QED
      BY <1>2, <2>1, <3>1 DEF LeakFree, Used, V, root
  <2>3. PICK g \in Files, ch \in Chains : IsChain(V, root[g], ch) /\ d \in Range(ch)
    BY <2>2 DEF Owned
  <2>4. root[g] \in Clusters
    <3>1. 1 \in 1..Len(ch)
      BY ChainType
    <3>2. QED
      BY <2>3, <3>1, ChainType DEF IsChain
  <2>5. IsChain(V, root[g], chain[g]) /\ chain[g] \in Chains
    BY <1>5, <2>4 DEF FsOK, ChainsOK
  <2>6. ch = chain[g]
    BY <2>3, <2>5, ChainUnique
  <2>7. CASE g # f
    <3>1. c \notin Range(ch)
      BY <1>2, <1>4, <1>5, <1>15, <2>4, <2>6, <2>7 DEF FsOK, ChainsOK, Disjoint
    <3>2. \A e \in Range(ch) : Entry(W, e) = Entry(V, e)
      BY <1>10, <3>1, RangeOf, ChainType DEF OnlyEntry
    <3>3. IsChain(W, Root(W, handle, call', g), ch)
      BY <1>13, <2>3, <2>7, <3>2, ChainKept
    <3>4. QED
      BY <2>3, <3>3 DEF Owned, Roots
  <2>8. CASE g = f
    <3>1. PICK i \in 1..Len(ch) : ch[i] = d
      BY <2>3, RangeOf
    <3>2. Len(ch) \in Nat /\ i > 1 /\ Len(ch) > 1 /\ 1 \in DOMAIN ch
      BY <1>15, <2>1, <2>6, <2>8, <3>1, ChainType
    <3>3. nxt = ch[2] /\ nxt \in Clusters
      <4>1. Entry(V, ch[1]) = ch[2]
        BY <2>3, <3>2 DEF IsChain
      <4>2. 2 \in 1..Len(ch)
        BY <3>2
      <4>3. QED
        BY <1>6, <1>15, <2>6, <2>8, <4>1, <4>2, ChainType
    <3>4. FsOK(W, [root EXCEPT ![f] = nxt], [chain EXCEPT ![f] = Tail(chain[f])])
      BY <1>2, <1>4, <1>5, <1>6, <1>10, <3>3, FsUnlink
    <3>5. IsChain(W, nxt, Tail(ch))
      BY <1>2, <1>5, <2>6, <2>8, <3>3, <3>4 DEF FsOK, ChainsOK
    <3>6. Tail(ch) \in Chains /\ d \in Range(Tail(ch))
      <4>1. /\ Tail(ch) \in Chains /\ Len(Tail(ch)) = Len(ch) - 1
            /\ \A j \in 1..Len(ch) - 1 : Tail(ch)[j] = ch[j + 1]
        BY <3>2, TailIsChain
      <4>2. i - 1 \in 1..Len(ch) - 1 /\ i - 1 \in 1..Len(Tail(ch)) /\ (i - 1) + 1 = i
        BY <3>1, <3>2, <4>1
      <4>3. Tail(ch)[i - 1] = d
        BY <3>1, <4>1, <4>2
      <4>4. QED
        BY <4>1, <4>2, <4>3, RangeOf
    <3>7. QED
      BY <1>2, <1>14, <3>3, <3>5, <3>6 DEF Owned, Roots
  <2>9. QED
    BY <2>7, <2>8
<1>17. Used(W, handle, call')
  BY <1>16 DEF Used
<1>18. call'.at \in Opening /\ call.at \in Opening
  BY <1>1, <1>11 DEF Opening
<1>19. QED
  BY <1>2, <1>4, <1>9, <1>11, <1>12, <1>17, <1>18, LeakOpening DEF V, W, f

LEMMA OpenedLeak ==
  ASSUME FatInv, LeakInv, faults' = 0, Opened
  PROVE  LeakFree(volume', handle', call')
<1> DEFINE f == call.f
           V == View(volume)
           file == [Closed EXCEPT !.mode = call.op, !.written = (call.op = "create"),
                      !.org = volume.win[ClustAt(f)], !.size = volume.win[SizeAt(f)]]
<1>1. faults = 0 /\ call.at = "opened" /\ volume.winsect = DirSector(f) /\ Done(file) /\ volume' = volume
  BY DEF FatInv, Opened, WindowAt
<1>2. /\ VolumeOK(volume) /\ call \in Calls /\ f \in Files /\ handle \in [Files -> FILs]
      /\ LeakFree(volume, handle, call) /\ OpenOK(V, fp, call)
  BY <1>1, LeakContext
<1>3. ~WritesOn(fp) /\ call.op \in {"create", "update", "read"}
  BY <1>1, <1>2 DEF OpenOK, Opening, WritesOn
<1>4. ~fp.written
  BY <1>2, <1>3 DEF FatInv, Linked, Links, FileOK, fp
<1>5. volume.win[ClustAt(f)] = StartOf(V, f)
  BY <1>1, <1>2, DirAt, WindowShows DEF StartOf
<1>6. /\ file.mode = call.op /\ file.written = (call.op = "create") /\ file.org = StartOf(V, f)
  BY <1>5 DEF Closed
<1> HIDE DEF file
<1>7. /\ call' = Idle /\ handle'[f] = file /\ \A g \in Files \ {f} : handle'[g] = handle[g]
  BY <1>1, <1>2 DEF Done
<1>8. call'.at = "idle"
  BY <1>7 DEF Idle
<1>9. /\ Used(V, handle, call) /\ StartsOK(V, handle, call)
      /\ volume.wflag => \E g \in Files : Unsynced(handle[g], call, g)
  BY <1>2 DEF LeakFree
<1> HIDE DEF V, f
<1>10. \A g \in Files : Root(V, handle', call', g) = Root(V, handle, call, g)
  BY <1>1, <1>3, <1>6, <1>7, <1>8 DEF Root, fp, f
<1>11. Used(V, handle', call')
  <2>1. \A e \in Clusters : ~Lone(handle[call.f], call, e)
    BY <1>1 DEF Lone
  <2>2. QED
    BY <1>9, <1>10, <2>1, SameView, UsedSame
<1>12. ASSUME NEW g \in Files
       PROVE  /\ handle'[g].org \in {0} \cup Clusters /\ StartOf(V, g) \in {0} \cup Clusters
              /\ WritesOn(handle'[g]) /\ ~handle'[g].written /\ ~Putting(call', g) => handle'[g].org = StartOf(V, g)
              /\ Unsynced(handle[g], call, g) => Unsynced(handle'[g], call', g)
  <2>1. /\ handle[g].org \in {0} \cup Clusters /\ StartOf(V, g) \in {0} \cup Clusters
        /\ WritesOn(handle[g]) /\ ~handle[g].written => handle[g].org = StartOf(V, g)
        /\ ~Putting(call, g)
    BY <1>1, <1>9 DEF StartsOK, Putting, Transferring
  <2>2. CASE g = f
    BY <1>1, <1>4, <1>6, <1>7, <2>1, <2>2 DEF Unsynced, Creating, Putting, fp, f
  <2>3. CASE g # f
    BY <1>1, <1>7, <2>1, <2>3 DEF Unsynced, Creating, Putting, f
  <2>4. QED
    BY <2>2, <2>3
<1>13. volume.wflag => \E g \in Files : Unsynced(handle'[g], call', g)
  BY <1>9, <1>12
<1>14. QED
  BY <1>1, <1>8, <1>11, <1>12, <1>13 DEF LeakFree, StartsOK, V

\* Those of f_close:
LEMMA RecordLeak ==
  ASSUME FatInv, LeakInv, faults' = 0, Record
  PROVE  LeakFree(volume', handle', call')
<1> DEFINE f == call.f
           V == View(volume)
           W == View(volume')
           x == Moved(volume, DirSector(f))
           file == [fp EXCEPT !.written = FALSE]
<1>1. /\ Right /\ faults = 0 /\ call.at = "record" /\ volume' = Recorded(x)
      /\ handle' = [handle EXCEPT ![f].written = FALSE] /\ Goto("sync")
  BY NoWrong DEF Record, FatInv
<1>2. /\ VolumeOK(volume) /\ Good(V) /\ call \in Calls /\ f \in Files /\ handle \in [Files -> FILs]
      /\ fp \in FILs /\ LeakFree(volume, handle, call) /\ fp.org \in {0} \cup Clusters
  BY <1>1, LeakContext
<1>3. WritesOn(fp)
  <2>1. TransferOK(fp, call)
    BY <1>1, LeakContext
  <2>2. fp.written
    BY <1>1, <2>1 DEF TransferOK
  <2>3. QED
    BY <1>2, <2>2 DEF FatInv, Linked, Links, FileOK, fp
<1>4. VolumeOK(x) /\ View(x) = V /\ x.winsect = DirSector(f)
  <2>1. DirSector(f) \in Sectors \cup {0} /\ DirSector(f) # 0
    BY <1>2, DirAt, Layout DEF Meta
  <2>2. QED
    BY <1>2, <2>1, VolumeMoved
<1>5. fp.size \in Nat /\ fp.org \in Nat
  BY <1>2, Layout DEF FILs, Clusters
<1> HIDE DEF V, W, x
<1>6. /\ StartOf(W, f) = fp.org /\ SameFat(V, W)
      /\ \A g \in Files \ {f} : StartOf(W, g) = StartOf(V, g)
  <2>1. volume' = Poke(Poke(x, SizeAt(f), fp.size), ClustAt(f), fp.org)
    BY <1>1 DEF Recorded
  <2>2. QED
    BY <1>2, <1>4, <1>5, <2>1, VolumeDir DEF W
<1>7. file.mode = fp.mode /\ file.org = fp.org /\ file.written = FALSE
  BY <1>2 DEF FILs
<1>8. handle'[f] = file /\ \A g \in Files \ {f} : handle'[g] = handle[g]
  BY <1>1, <1>2 DEF fp
<1> HIDE DEF file
<1>9. call'.at = "sync" /\ call'.f = f
  BY <1>1, <1>2, GotoFact
<1>10. /\ Used(V, handle, call) /\ StartsOK(V, handle, call)
  BY <1>2 DEF LeakFree, V
<1> HIDE DEF f
<1>11. \A g \in Files : Root(W, handle', call', g) = Root(V, handle, call, g)
  BY <1>1, <1>3, <1>6, <1>7, <1>8, <1>9 DEF Root, WritesOn, fp, f
<1>12. Used(W, handle', call')
  <2>1. \A e \in Clusters : ~Lone(handle[call.f], call, e)
    BY <1>1 DEF Lone
  <2>2. QED
    BY <1>6, <1>10, <1>11, <2>1, UsedSame
<1>13. ASSUME NEW g \in Files
       PROVE  /\ handle'[g].org \in {0} \cup Clusters /\ StartOf(W, g) \in {0} \cup Clusters
              /\ WritesOn(handle'[g]) /\ ~handle'[g].written => handle'[g].org = StartOf(W, g)
  <2>1. CASE g = f
    BY <1>2, <1>6, <1>7, <1>8, <2>1
  <2>2. CASE g # f
    BY <1>1, <1>6, <1>8, <1>10, <2>2 DEF StartsOK, Putting, Transferring
  <2>3. QED
    BY <2>1, <2>2
<1>14. Unsynced(handle'[f], call', f)
  BY <1>9 DEF Unsynced
<1>15. QED
  BY <1>2, <1>9, <1>12, <1>13, <1>14 DEF LeakFree, StartsOK, W

LEMMA SyncLeak ==
  ASSUME FatInv, LeakInv, faults' = 0, Sync
  PROVE  LeakFree(volume', handle', call')
<1> DEFINE f == call.f
           V == View(volume)
<1>1. /\ Right /\ faults = 0 /\ call.at = "sync" /\ volume' = Moved(volume, 0) /\ Done(Closed)
  BY NoWrong DEF Sync, Synced, FatInv
<1>2. /\ VolumeOK(volume) /\ volume \in Volumes /\ Good(V) /\ call \in Calls /\ f \in Files
      /\ handle \in [Files -> FILs] /\ LeakFree(volume, handle, call)
  BY <1>1, LeakContext
<1>3. WritesOn(fp) /\ ~fp.written
  BY <1>1 DEF LeakInv
<1>4. View(volume') = V
  BY <1>1, <1>2, VolumeMoved
<1>5. ~volume'.wflag
  BY <1>1, <1>2, SyncedClean DEF VolumeOK
<1>6. /\ call' = Idle /\ handle'[f] = Closed /\ \A g \in Files \ {f} : handle'[g] = handle[g]
  BY <1>1, <1>2 DEF Done
<1>7. call'.at = "idle" /\ ~WritesOn(Closed) /\ Closed.org = 0
  BY <1>6 DEF Idle, Closed, WritesOn
<1>8. /\ Used(V, handle, call) /\ StartsOK(V, handle, call)
  BY <1>2 DEF LeakFree
<1>9. fp.org = StartOf(V, f)
  BY <1>1, <1>2, <1>3, <1>8 DEF StartsOK, Putting, Transferring, fp
<1> HIDE DEF V, f
<1>10. \A g \in Files : Root(V, handle', call', g) = Root(V, handle, call, g)
  BY <1>1, <1>3, <1>6, <1>7, <1>9 DEF Root, fp, f
<1>11. Used(V, handle', call')
  <2>1. \A e \in Clusters : ~Lone(handle[call.f], call, e)
    BY <1>1 DEF Lone
  <2>2. QED
    BY <1>8, <1>10, <2>1, SameView, UsedSame
<1>12. StartsOK(V, handle', call')
  <2>1. ASSUME NEW g \in Files
        PROVE  /\ handle'[g].org \in {0} \cup Clusters /\ StartOf(V, g) \in {0} \cup Clusters
               /\ WritesOn(handle'[g]) /\ ~handle'[g].written => handle'[g].org = StartOf(V, g)
    <3>1. CASE g = f
      BY <1>6, <1>7, <1>8, <3>1 DEF StartsOK
    <3>2. CASE g # f
      BY <1>1, <1>6, <1>8, <3>2 DEF StartsOK, Putting, Transferring
    <3>3. QED
      BY <3>1, <3>2
  <2>2. QED
    BY <2>1 DEF StartsOK
<1>13. QED
  BY <1>4, <1>5, <1>7, <1>11, <1>12 DEF LeakFree

\* f_mount between two calls while no file is being written: the window is clean.
LEMMA RemountLeak ==
  ASSUME FatInv, LeakInv, faults' = 0, Remount
  PROVE  LeakFree(volume', handle', call')
<1> DEFINE V == View(volume)
<1>1. /\ faults = 0 /\ call.at = "idle" /\ \A f \in Files : ~Writing(f)
      /\ volume' = Mounted(volume.disk) /\ handle' = [f \in Files |-> Closed] /\ call' = Idle
  BY NoWrong DEF Remount, FatInv
<1>2. /\ VolumeOK(volume) /\ volume \in Volumes /\ handle \in [Files -> FILs] /\ LeakFree(volume, handle, call)
  BY <1>1, LeakContext
<1>3. \A f \in Files : ~WritesOn(handle[f])
  BY <1>1 DEF Writing, WritesOn
<1>4. ~volume.wflag
  <2>1. ASSUME NEW f \in Files
        PROVE  ~Unsynced(handle[f], call, f)
    <3>1. ~handle[f].written
      BY <1>3 DEF FatInv, Linked, Links, FileOK
    <3>2. QED
      BY <1>1, <3>1 DEF Unsynced, Putting, Creating, Transferring, Opening
  <2>2. QED
    BY <1>2, <2>1 DEF LeakFree
<1>5. volume.disk = V
  BY <1>4 DEF View
<1>6. View(volume') = V /\ ~volume'.wflag
  <2>1. volume.disk \in Images /\ Good(volume.disk)
    BY <1>2 DEF VolumeOK, Volumes, Images
  <2>2. View(volume') = volume.disk
    BY <1>1, <2>1, VolumeMounted
  <2>3. ~volume'.wflag
    BY <1>1 DEF Mounted
  <2>4. QED
    BY <1>5, <2>2, <2>3
<1>7. call'.at = "idle" /\ ~WritesOn(Closed) /\ Closed.org = 0
  BY <1>1 DEF Idle, Closed, WritesOn
<1>8. /\ Used(V, handle, call) /\ StartsOK(V, handle, call)
  BY <1>2 DEF LeakFree
<1> HIDE DEF V
<1>9. \A g \in Files : Root(V, handle', call', g) = Root(V, handle, call, g)
  BY <1>1, <1>3, <1>7 DEF Root
<1>10. Used(V, handle', call')
  <2>1. \A e \in Clusters : ~Lone(handle[call.f], call, e)
    BY <1>1 DEF Lone
  <2>2. QED
    BY <1>8, <1>9, <2>1, SameView, UsedSame
<1>11. StartsOK(V, handle', call')
  BY <1>1, <1>7, <1>8 DEF StartsOK
<1>12. QED
  BY <1>6, <1>7, <1>10, <1>11 DEF LeakFree

LEMMA BeginsLeak ==
  ASSUME FatInv, LeakInv, faults' = 0, Begins
  PROVE  LeakFree(volume', handle', call')
<1>1. PICK f \in Files : \/ \E mode \in {"create", "read", "update"} : Open(f, mode)
                         \/ Read(f) \/ Write(f) \/ Rewind(f) \/ Close(f)
  BY DEF Begins
<1>2. faults = 0 /\ call.at = "idle" /\ volume' = volume
  BY <1>1 DEF Open, Read, Write, Rewind, Close
<1>3. handle \in [Files -> FILs] /\ LeakFree(volume, handle, call)
  BY <1>2, LeakContext
<1>4. CASE \E mode \in {"create", "read", "update"} : Open(f, mode)
  <2>1. handle' = handle /\ call'.at = "follow"
    BY <1>4 DEF Open, Idle
  <2>2. QED
    BY <1>2, <1>3, <2>1, LeakBegin
<1>5. CASE Read(f) \/ Write(f)
  <2>1. handle' = handle /\ call'.at = "loop"
    BY <1>5 DEF Read, Write, Idle
  <2>2. QED
    BY <1>2, <1>3, <2>1, LeakBegin
<1>6. CASE Rewind(f)
  <2>1. handle' = [handle EXCEPT ![f].ptr = 0] /\ call' = call
    BY <1>6 DEF Rewind
  <2>2. \A g \in Files : /\ handle'[g].mode = handle[g].mode /\ handle'[g].org = handle[g].org
                         /\ handle'[g].written = handle[g].written
    BY <1>3, <2>1 DEF FILs
  <2>3. QED
    BY <1>2, <1>3, <2>1, <2>2, LeakBegin
<1>7. CASE Close(f)
  <2>1. \/ handle' = handle /\ call'.at = "record"
        \/ ~handle[f].written /\ handle' = [handle EXCEPT ![f] = Closed] /\ call' = call
    BY <1>7 DEF Close, Idle
  <2>2. CASE handle' = handle /\ call'.at = "record"
    BY <1>2, <1>3, <2>2, LeakBegin
  <2>3. CASE ~handle[f].written /\ handle' = [handle EXCEPT ![f] = Closed] /\ call' = call
    <3>1. \A g \in Files : (g = f /\ handle'[g] = Closed) \/ handle'[g] = handle[g]
      BY <1>3, <2>3
    <3>2. QED
      BY <1>2, <1>3, <2>3, <3>1, LeakBegin
  <2>4. QED
    BY <2>1, <2>2, <2>3
<1>8. QED
  BY <1>1, <1>4, <1>5, <1>6, <1>7

\* A step of create_chain, or the end of one: the FAT changes, and with it what is in use.
LEMMA LeakPutting ==
  ASSUME call \in Calls, handle \in [Files -> FILs], LeakFree(volume, handle, call),
         call.at \in Transferring, call.op = "put",
         call'.at \in Transferring, call'.f = call.f, call'.op = call.op,
         NEW file, handle' = [handle EXCEPT ![call.f] = file],
         file.org \in {0} \cup Clusters,
         \A g \in Files : StartOf(View(volume'), g) = StartOf(View(volume), g),
         Used(View(volume'), handle', call'),
         call'.at = "join" => call'.c \notin {1, DiskErr}
  PROVE  LeakFree(volume', handle', call')
<1>1. /\ call.f \in Files /\ handle'[call.f] = file
      /\ \A g \in Files \ {call.f} : handle'[g] = handle[g]
  BY DEF Calls
<1>2. Putting(call', call.f) /\ \A g \in Files \ {call.f} : ~Putting(call, g) /\ ~Putting(call', g)
  BY DEF Putting
<1>3. StartsOK(View(volume), handle, call)
  BY DEF LeakFree
<1>4. StartsOK(View(volume'), handle', call')
  <2>1. ASSUME NEW g \in Files
        PROVE  /\ handle'[g].org \in {0} \cup Clusters /\ StartOf(View(volume'), g) \in {0} \cup Clusters
               /\ WritesOn(handle'[g]) /\ ~handle'[g].written /\ ~Putting(call', g)
                    => handle'[g].org = StartOf(View(volume'), g)
    <3>1. CASE g = call.f
      BY <1>1, <1>2, <1>3, <3>1 DEF StartsOK
    <3>2. CASE g # call.f
      BY <1>1, <1>2, <1>3, <3>2 DEF StartsOK
    <3>3. QED
      BY <3>1, <3>2
  <2>2. QED
    BY <2>1 DEF StartsOK
<1>5. Unsynced(handle'[call.f], call', call.f)
  BY <1>2 DEF Unsynced
<1>6. QED
  BY <1>1, <1>4, <1>5 DEF LeakFree

\* No chain passes through a free cluster.
LEMMA FreeNotIn ==
  ASSUME NEW V, NEW c, NEW ch \in Chains, IsChain(V, c, ch), NEW d \in Clusters, Entry(V, d) = 0
  PROVE  d \notin Range(ch)
<1> SUFFICES ASSUME d \in Range(ch)
             PROVE  FALSE
  OBVIOUS
<1>1. PICK i \in 1..Len(ch) : ch[i] = d
  BY RangeOf
<1>2. Entry(V, d) = IF i < Len(ch) THEN ch[i + 1] ELSE LastLink
  BY <1>1, ChainType DEF IsChain
<1>3. i < Len(ch) => ch[i + 1] \in Clusters
  BY <1>1, ChainType
<1>4. QED
  BY <1>2, <1>3, NoCluster

\* The chains of the invariant are the ones that own clusters.
LEMMA OwnedBy ==
  ASSUME NEW V, NEW root, NEW chain \in [Files -> Chains], FsOK(V, root, chain), NEW d, Owned(V, root, d)
  PROVE  \E g \in Files : root[g] \in Clusters /\ IsChain(V, root[g], chain[g]) /\ d \in Range(chain[g])
<1>1. PICK g \in Files, ch \in Chains : IsChain(V, root[g], ch) /\ d \in Range(ch)
  BY DEF Owned
<1>2. root[g] \in Clusters
  <2>1. 1 \in 1..Len(ch)
    BY ChainType
  <2>2. QED
    BY <1>1, <2>1, ChainType DEF IsChain
<1>3. IsChain(V, root[g], chain[g])
  BY <1>2 DEF FsOK, ChainsOK
<1>4. ch = chain[g]
  BY <1>1, <1>3, ChainUnique
<1>5. QED
  BY <1>1, <1>2, <1>3, <1>4

\* Marking a free cluster.
LEMMA UsedMarked ==
  ASSUME NEW V, NEW h, NEW c, Used(V, h, c), \A e \in Clusters : ~Lone(h[c.f], c, e),
         NEW W, NEW d, NEW ncl \in Clusters, Entry(V, ncl) = 0, OnlyEntry(V, W, ncl),
         \A g \in Files : Root(W, h, d, g) = Root(V, h, c, g), Lone(h[d.f], d, ncl)
  PROVE  Used(W, h, d)
<1> SUFFICES ASSUME NEW e \in Clusters, Entry(W, e) # 0, e # ncl
             PROVE  Owned(W, Roots(W, h, d), e)
  BY DEF Used
<1>1. Owned(V, Roots(V, h, c), e)
  BY DEF Used, OnlyEntry
<1>2. PICK g \in Files, ch \in Chains : IsChain(V, Root(V, h, c, g), ch) /\ e \in Range(ch)
  BY <1>1 DEF Owned, Roots
<1>3. ncl \notin Range(ch)
  BY <1>2, FreeNotIn
<1>4. \A x \in Range(ch) : Entry(W, x) = Entry(V, x)
  BY <1>3, RangeOf, ChainType DEF OnlyEntry
<1>5. IsChain(W, Root(W, h, d, g), ch)
  BY <1>2, <1>4, ChainKept
<1>6. QED
  BY <1>2, <1>5 DEF Owned, Roots

\* create_chain marks a cluster, which is no file's until it is linked.
LEMMA FindFreeLeak ==
  ASSUME FatInv, LeakInv, faults' = 0, FindFree
  PROVE  LeakFree(volume', handle', call')
<1> DEFINE f == call.f
           V == View(volume)
           W == View(volume')
           ncl == NextOf(call.c)
           v == Moved(volume, FatSector(ncl))
           cs == v.win[ncl % SS]
<1>1. Right /\ ~Wrong /\ faults = 0 /\ call.at = "find" /\ handle' = handle
  BY NoWrong DEF FindFree, FatInv
<1>2. /\ VolumeOK(volume) /\ volume \in Volumes /\ Good(V) /\ call \in Calls /\ f \in Files
      /\ handle \in [Files -> FILs] /\ fp.org \in {0} \cup Clusters /\ LeakFree(volume, handle, call)
      /\ TransferOK(fp, call)
  BY <1>1, LeakContext
<1>3. PICK chain \in [Files -> Chains] : Links(V, handle, call, chain)
  BY DEF FatInv, Linked
<1>4. call.op = "put" /\ call.c \in 1..n_fatent - 1 /\ (IF fp.ptr = 0 THEN fp.org = 0 ELSE fp.mode = "create")
  BY <1>1, <1>2, <1>3 DEF TransferOK, Links, ChainOK, fp
<1>5. ncl \in Clusters
  BY <1>4, Layout DEF NextOf, Clusters
<1>6. /\ VolumeOK(v) /\ View(v) = V /\ v.winsect = FatSector(ncl)
      /\ cs = Entry(V, ncl) /\ cs \in {0, LastLink} \cup Clusters
  BY <1>2, <1>5, EntrySeen
<1>7. ncl \in Nat /\ ncl \notin {0, 1, DiskErr} /\ cs # 1 /\ 0 \notin {1, DiskErr}
  BY <1>5, <1>6, NoCluster, Layout DEF Clusters, DiskErr
<1>8. \A e \in Clusters : ~Lone(fp, call, e)
  BY <1>1 DEF Lone
<1>9. v.wflag => volume.wflag
  BY <1>2, MovedFlag
<1> HIDE DEF V, W, ncl, v, cs, f
<1>10. ASSUME NEW at \in {"find", "join", "link"}, NEW c \in Nat, GotoWith(at, c)
       PROVE  call'.at = at /\ call'.f = f /\ call'.op = "put" /\ call'.c = c
  BY <1>2, <1>4, <1>10, GotoWithFact DEF Transferring, f
<1>11. ASSUME View(volume') = V, NEW at \in {"find", "join"}, NEW c \in Nat, c \notin {1, DiskErr},
              GotoWith(at, c)
       PROVE  LeakFree(volume', handle', call')
  <2>1. call'.at = at /\ call'.f = call.f /\ call'.op = call.op /\ call'.c = c
    BY <1>4, <1>10, <1>11 DEF f
  <2>2. QED
    BY <1>1, <1>2, <1>4, <1>8, <1>11, <2>1, SameView, SameHandle, LeakOn DEF Transferring, V
<1>12. CASE NoneLeft /\ GotoWith("join", 0) /\ UNCHANGED volume
  BY <1>7, <1>11, <1>12 DEF V
<1>13. CASE /\ cs # 0 /\ volume' = v
            /\ IF cs = 1 \/ ncl = call.scl THEN GotoWith("join", IF cs = 1 THEN 1 ELSE 0)
               ELSE GotoWith("find", ncl)
  <2>1. GotoWith("join", 0) \/ GotoWith("find", ncl)
    BY <1>7, <1>13
  <2>2. View(volume') = V
    BY <1>6, <1>13
  <2>3. QED
    BY <1>7, <1>11, <2>1, <2>2
<1>14. CASE /\ cs = 0
            /\ volume' = IF Stretches THEN Marked(v, ncl) ELSE [Marked(v, ncl) EXCEPT !.last = ncl]
            /\ GotoWith(IF Stretches THEN "link" ELSE "join", ncl)
  <2> DEFINE m == Marked(v, ncl)
             at == IF Stretches THEN "link" ELSE "join"
  <2>1. VolumeOK(m) /\ OnlyEntry(V, View(m), ncl) /\ Entry(View(m), ncl) = LastLink
    <3>1. m = Poke(v, ncl % SS, LastLink) /\ LastLink \in {0, LastLink} \cup Clusters
      BY DEF Marked
    <3> HIDE DEF m
    <3>2. QED
      BY <1>5, <1>6, <3>1, VolumeEntry, ZenonT(30)
  <2> HIDE DEF m
  <2>2. OnlyEntry(V, W, ncl) /\ Entry(W, ncl) = LastLink
    <3>1. CASE Stretches
      BY <1>14, <2>1, <3>1 DEF W, m
    <3>2. CASE ~Stretches
      <4>1. volume' = [m EXCEPT !.last = ncl]
        BY <1>14, <3>2 DEF m
      <4>2. ncl \in 0..n_fatent
        BY <1>5, Layout DEF Clusters
      <4>3. QED
        BY <2>1, <4>1, <4>2, VolumeLast DEF W
    <3>3. QED
      BY <3>1, <3>2
  <2>3. call'.at = at /\ call'.f = f /\ call'.op = "put" /\ call'.c = ncl
    <3>1. at \in {"find", "join", "link"} /\ GotoWith(at, ncl)
      BY <1>14
    <3> HIDE DEF at
    <3>2. QED
      BY <1>7, <1>10, <3>1
  <2>4. Lone(fp, call', ncl)
    <3>1. CASE Stretches
      BY <2>3, <3>1 DEF Lone
    <3>2. CASE ~Stretches
      BY <1>4, <2>3, <3>2 DEF Lone, Stretches
    <3>3. QED
      BY <3>1, <3>2
  <2>5. \A g \in Files : StartOf(W, g) = StartOf(V, g)
    BY <2>2 DEF OnlyEntry, SameDir
  <2>6. call'.at \in {"link", "join"}
    BY <2>3
  <2>7. \A g \in Files : Root(W, handle, call', g) = Root(V, handle, call, g)
    BY <1>1, <2>5, <2>6 DEF Root
  <2>8. Used(W, handle, call')
    <3>1. Used(V, handle, call)
      BY <1>2 DEF LeakFree, V
    <3>2. Lone(handle[call'.f], call', ncl) /\ \A e \in Clusters : ~Lone(handle[call.f], call, e)
      BY <1>8, <2>3, <2>4 DEF fp, f
    <3>3. QED
      BY <1>5, <1>6, <1>14, <2>2, <2>7, <3>1, <3>2, UsedMarked
  <2>9. call'.at \in Transferring /\ call.at \in Transferring
    BY <1>1, <2>6 DEF Transferring
  <2>10. QED
    BY <1>1, <1>2, <1>4, <1>7, <2>3, <2>5, <2>8, <2>9, SameHandle, LeakPutting DEF V, W, f
<1>15. QED
  BY <1>1, <1>12, <1>13, <1>14 DEF FindFree, ncl, v, cs

\* The marked cluster is linked to the end of the chain, which then has it.
LEMMA LinkLeak ==
  ASSUME FatInv, LeakInv, faults' = 0, Link
  PROVE  LeakFree(volume', handle', call')
<1> DEFINE f == call.f
           V == View(volume)
           W == View(volume')
           c == call.c
           e == fp.cur
           v == Moved(volume, FatSector(e))
           root == Roots(V, handle, call)
<1>1. /\ Right /\ ~Wrong /\ faults = 0 /\ call.at = "link" /\ handle' = handle
      /\ volume' = [Poke(v, e % SS, c) EXCEPT !.last = c] /\ Goto("join")
  BY NoWrong DEF Link, FatInv
<1>2. /\ VolumeOK(volume) /\ Good(V) /\ call \in Calls /\ f \in Files /\ handle \in [Files -> FILs]
      /\ fp \in FILs /\ fp.org \in {0} \cup Clusters /\ LeakFree(volume, handle, call) /\ TransferOK(fp, call)
  BY <1>1, LeakContext
<1>3. PICK chain \in [Files -> Chains] : Links(V, handle, call, chain)
  BY DEF FatInv, Linked
<1>4. FileOK(fp, call, f, chain[f]) /\ ChainOK(V, root, fp, call, chain) /\ FsOK(V, root, chain)
  BY <1>2, <1>3 DEF Links, fp
<1>5. /\ call.op = "put" /\ fp.mode = "create" /\ ~fp.error /\ fp.ptr > 0
      /\ c \in Clusters /\ Entry(V, c) = LastLink /\ Unowned(root, chain, c)
  BY <1>1, <1>2, <1>4 DEF TransferOK, Transferring, ChainOK
<1>6. WritesOn(fp) /\ ~Joining(call, f)
  BY <1>1, <1>5 DEF WritesOn, Joining
<1>7. fp.org \in Clusters /\ e = EndOf(chain[f])
  <2>1. fp.ptr # 0
    BY <1>2, <1>5 DEF FILs
  <2>2. QED
    BY <1>2, <1>4, <1>5, <1>6, <2>1 DEF FileOK
<1>8. root[f] = fp.org
  BY <1>2, <1>6 DEF Roots, Root, fp
<1>9. IsChain(V, root[f], chain[f]) /\ chain[f] \in Chains
  BY <1>2, <1>4, <1>7, <1>8 DEF FsOK, ChainsOK
<1>10. e \in Clusters /\ Entry(V, e) = LastLink
  BY <1>7, <1>9, EndSays
<1>11. VolumeOK(v) /\ View(v) = V /\ v.winsect = FatSector(e)
  BY <1>2, <1>10, EntrySeen
<1> HIDE DEF V, W, v, c, e, f, root
<1>12. OnlyEntry(V, W, e) /\ Entry(W, e) = c
  <2> DEFINE m == Poke(v, e % SS, c)
  <2>1. VolumeOK(m) /\ OnlyEntry(V, View(m), e) /\ Entry(View(m), e) = c
    <3>1. c \in {0, LastLink} \cup Clusters
      BY <1>5
    <3>2. QED
      BY <1>10, <1>11, <3>1, VolumeEntry
  <2> HIDE DEF m
  <2>2. volume' = [m EXCEPT !.last = c]
    BY <1>1 DEF m
  <2>3. c \in 0..n_fatent
    BY <1>5, Layout DEF Clusters
  <2>4. QED
    BY <2>1, <2>2, <2>3, VolumeLast DEF W
<1>13. call'.at = "join" /\ call'.f = call.f /\ call'.op = call.op /\ call'.c = c
  BY <1>1, <1>2, GotoFact DEF Transferring, c
<1>14. \A g \in Files : StartOf(W, g) = StartOf(V, g)
  BY <1>12 DEF OnlyEntry, SameDir
<1>15. \A g \in Files : Root(W, handle, call', g) = root[g]
  BY <1>1, <1>13, <1>14 DEF root, Roots, Root
<1> DEFINE ichain == [chain EXCEPT ![f] = Append(chain[f], c)]
<1>16. FsOK(W, root, ichain)
  BY <1>2, <1>4, <1>5, <1>7, <1>8, <1>12, FsLink DEF EndOf
<1>17. /\ Append(chain[f], c) \in Chains /\ Range(Append(chain[f], c)) = Range(chain[f]) \cup {c}
  <2>1. c \notin Range(chain[f])
    BY <1>2, <1>5, <1>7, <1>8 DEF Unowned
  <2>2. QED
    BY <1>5, <1>9, <2>1, AppendIsChain
<1>18. /\ ichain[f] \in Chains /\ Range(ichain[f]) = Range(chain[f]) \cup {c}
       /\ \A g \in Files \ {f} : ichain[g] = chain[g]
       /\ \A g \in Files : ichain[g] \in Chains
  BY <1>2, <1>17
<1> HIDE DEF ichain
<1>19. \A g \in Files : root[g] \in Clusters => IsChain(W, Root(W, handle, call', g), ichain[g])
  BY <1>15, <1>16 DEF FsOK, ChainsOK
<1>20. ASSUME NEW d \in Clusters, Entry(W, d) # 0
       PROVE  Owned(W, Roots(W, handle, call'), d)
  <2>1. Entry(V, d) # 0
    BY <1>10, <1>12, <1>20, NoCluster DEF OnlyEntry
  <2>2. Owned(V, root, d) \/ d = c
    BY <1>2, <2>1 DEF LeakFree, Used, Lone, V, root, c
  <2>3. PICK g \in Files : root[g] \in Clusters /\ d \in Range(ichain[g])
    <3>1. CASE d = c
      BY <1>2, <1>7, <1>8, <1>18, <3>1
    <3>2. CASE Owned(V, root, d)
      <4>1. PICK g \in Files : root[g] \in Clusters /\ d \in Range(chain[g])
        BY <1>4, <3>2, OwnedBy
      <4>2. d \in Range(ichain[g])
        BY <1>18, <4>1
      <4>3. QED
        BY <4>1, <4>2
    <3>3. QED
      BY <2>2, <3>1, <3>2
  <2>4. QED
    BY <1>18, <1>19, <2>3 DEF Owned, Roots
<1>21. Used(W, handle, call')
  BY <1>20 DEF Used
<1>22. c \notin {1, DiskErr}
  BY <1>5, NoCluster
<1>23. QED
  BY <1>1, <1>2, <1>5, <1>13, <1>14, <1>21, <1>22, SameHandle, LeakPutting DEF Transferring, V, W

\* The first cluster of a file becomes its start.
LEMMA UsedFirst ==
  ASSUME NEW V, NEW h, NEW c, Used(V, h, c), NEW f \in Files, Root(V, h, c, f) \notin Clusters,
         NEW i, NEW d, NEW e \in Clusters, Entry(V, e) = LastLink,
         \A x \in Clusters : Lone(h[c.f], c, x) => x = e,
         \A g \in Files \ {f} : Root(V, i, d, g) = Root(V, h, c, g), Root(V, i, d, f) = e
  PROVE  Used(V, i, d)
<1> SUFFICES ASSUME NEW x \in Clusters, Entry(V, x) # 0
             PROVE  Owned(V, Roots(V, i, d), x)
  BY DEF Used
<1>1. CASE x = e
  <2>1. <<e>> \in Chains /\ Len(<<e>>) = 1 /\ <<e>>[1] = e /\ Range(<<e>>) = {e} /\ DOMAIN <<e>> = 1..1
    BY OneIsChain, ChainType
  <2>2. IsChain(V, e, <<e>>)
    BY <2>1 DEF IsChain
  <2>3. QED
    BY <1>1, <2>1, <2>2 DEF Owned, Roots
<1>2. CASE x # e
  <2>1. Owned(V, Roots(V, h, c), x)
    BY <1>2 DEF Used
  <2>2. PICK g \in Files, ch \in Chains : IsChain(V, Root(V, h, c, g), ch) /\ x \in Range(ch)
    BY <2>1 DEF Owned, Roots
  <2>3. g # f
    <3>1. 1 \in 1..Len(ch)
      BY ChainType
    <3>2. QED
      BY <2>2, <3>1, ChainType DEF IsChain
  <2>4. QED
    BY <2>2, <2>3 DEF Owned, Roots
<1>3. QED
  BY <1>1, <1>2

\* The new cluster joins the chain of the file.
LEMMA JoinLeak ==
  ASSUME FatInv, LeakInv, faults' = 0, Join
  PROVE  LeakFree(volume', handle', call')
<1> DEFINE V == View(volume)
           first == IF call.op = "put" /\ fp.ptr = 0 THEN [fp EXCEPT !.org = call.c] ELSE fp
           file == Follows(first, call.c)
<1>1. faults = 0 /\ call.at = "join" /\ volume' = volume
  BY DEF Join
<1>2. /\ call \in Calls /\ call.f \in Files /\ handle \in [Files -> FILs]
      /\ fp \in FILs /\ fp.org \in {0} \cup Clusters /\ LeakFree(volume, handle, call) /\ TransferOK(fp, call)
  BY <1>1, LeakContext
<1>3. PICK chain \in [Files -> Chains] : Links(V, handle, call, chain)
  BY DEF FatInv, Linked
<1>4. ChainOK(V, Roots(V, handle, call), fp, call, chain)
  BY <1>3 DEF Links, fp
<1>5. /\ call.c \in {0, LastLink} \cup Clusters /\ (call.op = "put" => call.c # LastLink)
      /\ call.op \in {"get", "put"} /\ (call.op = "put" => WritesOn(fp))
      /\ call.op = "put" /\ fp.ptr = 0 => fp.org \in {0, call.c}
  BY <1>1, <1>2, <1>4 DEF ChainOK, LeakFree, TransferOK, Transferring
<1>6. /\ first \in FILs /\ first.mode = fp.mode /\ first.written = fp.written
      /\ first.org = IF call.op = "put" /\ fp.ptr = 0 THEN call.c ELSE fp.org
  BY <1>2, <1>5 DEF FILs
<1>7. /\ file \in FILs /\ file.mode = fp.mode /\ file.written = fp.written
      /\ file.org = first.org
  <2> HIDE DEF first
  <2>1. CASE call.c \in {0, 1, DiskErr}
    <3>1. file = [first EXCEPT !.cur = first.cur]
      BY <2>1 DEF Follows
    <3>2. QED
      BY <1>6, <3>1 DEF FILs
  <2>2. CASE call.c \notin {0, 1, DiskErr}
    <3>1. file = [first EXCEPT !.cur = call.c]
      BY <2>2 DEF Follows
    <3>2. QED
      BY <1>5, <1>6, <3>1 DEF FILs
  <2>3. QED
    BY <2>1, <2>2
<1> HIDE DEF V, first, file
<1>8. ASSUME call.c \in Clusters, Goto("sector"), handle' = [handle EXCEPT ![call.f] = file]
      PROVE  LeakFree(volume', handle', call')
  <2>1. call'.at = "sector" /\ call'.f = call.f /\ call'.op = call.op
    BY <1>2, <1>8, GotoFact DEF Transferring
  <2>2. CASE file.org = fp.org
    <3>1. \A e \in Clusters : ~Lone(fp, call, e)
      BY <1>1, <1>6, <1>7, <1>8, <2>2, NoCluster DEF Lone
    <3>2. QED
      BY <1>1, <1>2, <1>7, <1>8, <2>1, <2>2, <3>1, SameView, LeakOn DEF Transferring
  <2>3. CASE file.org # fp.org
    <3>1. call.op = "put" /\ fp.ptr = 0 /\ fp.org = 0 /\ file.org = call.c /\ WritesOn(fp)
      BY <1>5, <1>6, <1>7, <2>3
    <3>2. Entry(V, call.c) = LastLink
      BY <1>1, <1>4, <1>8, <3>1, NoCluster DEF ChainOK
    <3>3. handle'[call.f] = file /\ \A g \in Files \ {call.f} : handle'[g] = handle[g]
      BY <1>2, <1>8
    <3>4. /\ Root(V, handle, call, call.f) \notin Clusters
          /\ Root(V, handle', call', call.f) = call.c
          /\ \A g \in Files \ {call.f} : Root(V, handle', call', g) = Root(V, handle, call, g)
      BY <1>1, <1>7, <2>1, <3>1, <3>3, NoCluster DEF Root, WritesOn, fp
    <3>5. \A x \in Clusters : Lone(handle[call.f], call, x) => x = call.c
      BY DEF Lone
    <3>6. Used(V, handle', call')
      BY <1>2, <1>8, <3>2, <3>4, <3>5, UsedFirst DEF LeakFree, V
    <3>7. call.at \in Transferring /\ call'.at \in Transferring /\ call'.at # "join"
      BY <1>1, <2>1 DEF Transferring
    <3>8. QED
      BY <1>1, <1>2, <1>8, <2>1, <3>1, <3>6, <3>7, LeakPutting DEF V
  <2>4. QED
    BY <2>2, <2>3
<1>9. ASSUME call.c = 0, call.op = "put", call' = [call EXCEPT !.at = "loop", !.n = 0], handle' = handle
      PROVE  LeakFree(volume', handle', call')
  <2>1. call'.at = "loop" /\ call'.f = call.f /\ call'.op = call.op
    BY <1>2, <1>9 DEF Calls
  <2>2. \A e \in Clusters : ~Lone(fp, call, e)
    BY <1>9, NoCluster DEF Lone
  <2>3. QED
    BY <1>1, <1>2, <1>9, <2>1, <2>2, SameView, SameHandle, LeakOn DEF Transferring
<1>10. ASSUME call.c \notin Clusters, ~(call.c = 0 /\ call.op = "put"), Failed([file EXCEPT !.error = TRUE])
       PROVE  LeakFree(volume', handle', call')
  <2> DEFINE bad == [file EXCEPT !.error = TRUE]
  <2>1. call.op = "get"
    BY <1>5, <1>10
  <2>2. bad.mode = fp.mode /\ bad.org = fp.org /\ bad.written = fp.written
    BY <1>6, <1>7, <2>1 DEF FILs
  <2>3. call' = Idle /\ handle' = [handle EXCEPT ![call.f] = bad]
    BY <1>10 DEF Failed, Done
  <2> HIDE DEF bad
  <2>4. call'.at = "idle"
    BY <2>3 DEF Idle
  <2>5. \A e \in Clusters : ~Lone(fp, call, e)
    BY <1>1, <2>1 DEF Lone
  <2>6. QED
    BY <1>1, <1>2, <2>1, <2>2, <2>3, <2>4, <2>5, SameView, LeakTransfer DEF Transferring
<1>11. QED
  BY <1>8, <1>9, <1>10 DEF Join, first, file

-----------------------------------------------------------------------------
\* Where a step leads: f_close to its end, f_open on or into its first step.
LEMMA Heading ==
  ASSUME FatInv, Next
  PROVE  \/ call'.at \notin Opening \cup {"sync"}
         \/ Record /\ call'.at = "sync" /\ call'.f = call.f /\ handle' = [handle EXCEPT ![call.f].written = FALSE]
         \/ /\ call.at \in Opening /\ call'.at \in Opening
            /\ call'.f = call.f /\ call'.op = call.op /\ sure' = sure
         \/ call'.at = "follow" /\ call'.f \in Files /\ (call'.op = "create" => ~sure'[call'.f])
<1>1. /\ call \in Calls /\ sure \in [Files -> BOOLEAN] /\ Idle.at = "idle"
      /\ "idle" \notin Opening \cup {"sync"}
  BY DEF FatInv, TypeOK, Idle, Opening
<1>2. ASSUME NEW file, Failed(file) \/ Done(file)
      PROVE  call'.at \notin Opening \cup {"sync"}
  BY <1>1, <1>2 DEF Failed, Done
<1>3. CASE Begins
  <2>1. PICK f \in Files : \/ \E mode \in {"create", "read", "update"} : Open(f, mode)
                           \/ Read(f) \/ Write(f) \/ Rewind(f) \/ Close(f)
    BY <1>3 DEF Begins
  <2>2. ASSUME NEW mode \in {"create", "read", "update"}, Open(f, mode)
        PROVE  call'.at = "follow" /\ call'.f \in Files /\ (call'.op = "create" => ~sure'[call'.f])
    <3>1. call'.at = "follow" /\ call'.op = mode /\ call'.f = f
      BY <2>2 DEF Open, Idle
    <3>2. sure' = [sure EXCEPT ![f] = sure[f] /\ mode # "create"]
      BY <2>2 DEF Open
    <3>3. sure'[f] = (sure[f] /\ mode # "create")
      BY <1>1, <3>2, Zenon
    <3>4. QED
      BY <3>1, <3>3
  <2>3. CASE Read(f) \/ Write(f) \/ Rewind(f) \/ Close(f)
    BY <1>1, <2>3, ZenonT(30) DEF Read, Write, Rewind, Close, Idle, Opening
  <2>4. QED
    BY <2>1, <2>2, <2>3
<1>4. CASE FollowPath \/ Reuse
  <2>1. CASE \E file : Failed(file)
    BY <1>2, <2>1
  <2>2. CASE /\ call.at \in Opening /\ sure' = sure
             /\ \E at \in {"opened", "empty", "follow"} : \E c : Goto(at) \/ GotoWith(at, c)
    BY <1>1, <2>2 DEF Goto, GotoWith, Calls, Opening
  <2>3. QED
    BY <1>4, <2>1, <2>2 DEF FollowPath, Reuse, Opening
<1>5. CASE Truncate
  <2>1. CASE \E file : Failed(file)
    BY <1>2, <2>1
  <2>2. CASE /\ sure' = sure /\ call.at \in Opening
             /\ Goto("opened") \/ \E c : call' = [call EXCEPT !.at = "unlink", !.c = c, !.scl = c]
    BY <1>1, <2>2, ZenonT(30) DEF Goto, Calls, Opening
  <2>3. QED
    BY <1>5, <2>1, <2>2 DEF Truncate, Opening
<1>6. CASE RemoveChain
  <2>1. CASE \E file : Failed(file)
    BY <1>2, <2>1
  <2>2. CASE /\ call.at \in Opening /\ sure' = sure
             /\ \E at \in {"unlink", "reuse"} : \E c : GotoWith(at, c)
    BY <1>1, <2>2 DEF GotoWith, Calls, Opening
  <2>3. QED
    BY <1>6, <2>1, <2>2 DEF RemoveChain, Opening
<1>7. CASE Record
  <2>1. CASE Failed(fp)
    BY <1>2, <2>1
  <2>2. CASE handle' = [handle EXCEPT ![call.f].written = FALSE] /\ Goto("sync")
    BY <1>1, <1>7, <2>2, GotoFact
  <2>3. QED
    BY <1>7, <2>1, <2>2 DEF Record
<1>8. CASE Remount \/ Opened \/ Sync \/ GetDone \/ PutDone
  BY <1>1, <1>2, <1>8 DEF Remount, Opened, Sync, GetDone, PutDone
<1>9. CASE Iterate \/ Advance \/ FindFree \/ Link
  <2>1. CASE \E at \in Transferring : \E c : Goto(at) \/ GotoWith(at, c)
    BY <1>1, <2>1 DEF Goto, GotoWith, Calls, Opening, Transferring
  <2>2. CASE \E c : call' = [call EXCEPT !.at = "find", !.c = c, !.scl = c]
    BY <1>1, <2>2 DEF Calls, Opening
  <2>3. QED
    BY <1>9, <2>1, <2>2 DEF Iterate, Advance, Answered, FindFree, Link, Transferring
<1>10. CASE Join
  <2>1. CASE \E file : Failed(file)
    BY <1>2, <2>1
  <2>2. CASE Goto("sector") \/ call' = [call EXCEPT !.at = "loop", !.n = 0]
    BY <1>1, <2>2 DEF Goto, Calls, Opening
  <2>3. QED
    BY <1>10, <2>1, <2>2 DEF Join
<1>11. CASE GetWhole \/ GetSector \/ GetPart \/ PutSector \/ PutWhole \/ PutEdge \/ PutPart
  <2>1. CASE \E file : Failed(file)
    BY <1>2, <2>1
  <2>2. CASE \E at \in Transferring : Goto(at)
    BY <1>1, <2>2 DEF Goto, Calls, Opening, Transferring
  <2>3. CASE \E file, m : Transfer(file, m)
    BY <1>1, <2>3 DEF Transfer, Calls, Opening
  <2>4. QED
    BY <1>11, <2>1, <2>2, <2>3 DEF GetWhole, GetSector, GetPart, PutSector, PutWhole, PutEdge, PutPart,
                                    Abort, Transferring
<1>12. QED
  BY <1>3, <1>4, <1>5, <1>6, <1>7, <1>8, <1>9, <1>10, <1>11 DEF Next

\* Every step keeps what the proof of NoLeak needs; so does the first state have it.
LEMMA LeakStep ==
  ASSUME "torn" \notin Kinds, UpdateSize <= SSC, FatInv, LeakInv, [Next]_vars
  PROVE  LeakInv'
<1>1. CASE UNCHANGED vars
  BY <1>1 DEF vars, LeakInv, LeakFree, Used, Owned, Roots, Root, Lone, StartsOK, Unsynced, Putting,
              Creating, View, fp
<1>2. CASE Next
  <2>1. /\ call.at = "sync" => WritesOn(fp) /\ ~fp.written
        /\ call.at \in Opening /\ call.op = "create" => ~sure[call.f]
    BY DEF LeakInv
  <2>2. call'.at = "sync" => WritesOn(fp)' /\ ~(fp.written)'
    <3>1. SUFFICES ASSUME call'.at = "sync"
                   PROVE  WritesOn(fp)' /\ ~(fp.written)'
      OBVIOUS
    <3>2. Record /\ call'.f = call.f /\ handle' = [handle EXCEPT ![call.f].written = FALSE]
      BY <1>2, <3>1, Heading DEF Opening
    <3>3. TransferOK(fp, call) /\ call.f \in Files /\ handle \in [Files -> FILs] /\ fp \in FILs
      BY DEF FatInv, Linked, Links, TypeOK, Calls, fp
    <3>4. WritesOn(fp)
      <4>1. fp.written
        BY <3>2, <3>3 DEF Record, TransferOK
      <4>2. QED
        BY <3>3, <4>1 DEF FatInv, Linked, Links, FileOK, fp
    <3>5. handle'[call'.f] = [fp EXCEPT !.written = FALSE]
      BY <3>2, <3>3 DEF fp
    <3>6. QED
      BY <3>3, <3>4, <3>5 DEF fp, WritesOn, FILs
  <2>3. call'.at \in Opening /\ call'.op = "create" => ~sure'[call'.f]
    BY <1>2, <2>1, Heading DEF Opening
  <2>4. ASSUME faults' = 0
        PROVE  LeakFree(volume', handle', call')
    <3>1. CASE Begins \/ Remount
      BY <2>4, <3>1, BeginsLeak, RemountLeak
    <3>2. CASE FollowPath \/ Truncate \/ RemoveChain \/ Reuse \/ Opened
      BY <2>4, <3>2, FollowPathLeak, TruncateLeak, RemoveChainLeak, ReuseLeak, OpenedLeak
    <3>3. CASE Iterate \/ Advance \/ FindFree \/ Link \/ Join
      <4>1. CASE Iterate
        <5>1. faults = 0
          BY <2>4, <4>1 DEF Iterate
        <5>2. QED
          BY <4>1, <5>1, IterateLeak
      <4>2. CASE Advance
        BY <2>4, <4>2, AdvanceLeak
      <4>3. CASE FindFree \/ Link \/ Join
        BY <2>4, <4>3, FindFreeLeak, LinkLeak, JoinLeak
      <4>4. QED
        BY <3>3, <4>1, <4>2, <4>3
    <3>4. CASE GetWhole \/ GetSector \/ GetPart \/ GetDone
      BY <2>4, <3>4, GetWholeLeak, GetSectorLeak, GetPartLeak, GetDoneLeak
    <3>5. CASE PutSector \/ PutWhole \/ PutEdge \/ PutPart \/ PutDone
      BY <2>4, <3>5, PutSectorLeak, PutWholeLeak, PutEdgeLeak, PutPartLeak, PutDoneLeak
    <3>6. CASE Record \/ Sync
      BY <2>4, <3>6, RecordLeak, SyncLeak
    <3>7. QED
      BY <1>2, <3>1, <3>2, <3>3, <3>4, <3>5, <3>6 DEF Next
  <2>5. QED
    BY <2>2, <2>3, <2>4 DEF LeakInv
<1>3. QED
  BY <1>1, <1>2

LEMMA LeakInit ==
  ASSUME Init
  PROVE  LeakInv
<1>1. FatInv
  BY FatInit
<1>2. /\ volume = Mounted([s \in Sectors |-> Blank]) /\ call = Idle
      /\ handle = [f \in Files |-> Closed]
  BY DEF Init
<1> DEFINE disk == [s \in Sectors |-> Blank]
<1>3. disk \in Images /\ (\A s \in Sectors, u \in Units : disk[s][u] = 0)
  BY DEF Images, Blank
<1>4. View(volume) = disk /\ ~volume.wflag
  BY <1>2 DEF View, Mounted
<1> HIDE DEF disk
<1>5. \A c \in Clusters : Entry(disk, c) = 0
  BY <1>3, EntryAt DEF Entry
<1>6. \A f \in Files : StartOf(disk, f) = 0
  BY <1>3, DirAt DEF StartOf
<1>7. call.at = "idle" /\ \A f \in Files : handle[f].org = 0 /\ ~WritesOn(handle[f])
  BY <1>2 DEF Idle, Closed, WritesOn
<1>8. LeakFree(volume, handle, call)
  BY <1>4, <1>5, <1>6, <1>7 DEF LeakFree, Used, StartsOK
<1>9. QED
  BY <1>7, <1>8 DEF LeakInv, Opening

\* When every file is closed nothing is left in the window.
LEMMA LeakNone ==
  ASSUME FatInv, LeakInv
  PROVE  NoLeak
<1> SUFFICES ASSUME \A f \in Files : sure[f] /\ handle[f].mode = "closed", faults = 0
             PROVE  \A c \in Allocated(volume.disk) :
                      \E f \in Files : \E ch \in ChainOf(volume.disk, f) : c \in Range(ch)
  BY DEF NoLeak
<1> DEFINE V == View(volume)
<1>1. /\ LeakFree(volume, handle, call) /\ call.f \in Files /\ TransferOK(fp, call)
      /\ OpenOK(V, fp, call)
  BY LeakContext
<1>2. \A f \in Files : ~WritesOn(handle[f]) /\ ~handle[f].written /\ sure[f] /\ handle[f].mode = "closed"
  BY DEF WritesOn, FatInv, Linked, Links, FileOK
<1>3. ~WritesOn(fp) /\ sure[call.f] /\ ~fp.written /\ fp.mode = "closed"
  BY <1>1, <1>2 DEF fp
<1>4. call.at \notin Transferring \cup {"record", "sync"}
  BY <1>1, <1>3 DEF TransferOK, LeakInv, WritesOn
<1>5. ~(call.at \in Opening /\ call.op = "create")
  BY <1>3 DEF LeakInv
<1>6. ~volume.wflag
  <2>1. \A f \in Files : ~Unsynced(handle[f], call, f)
    BY <1>2, <1>4, <1>5 DEF Unsynced, Putting, Creating
  <2>2. QED
    BY <1>1, <2>1 DEF LeakFree
<1>7. volume.disk = V
  BY <1>6 DEF View
<1>8. call.at # "unlink"
  BY <1>1, <1>5 DEF OpenOK, Opening
<1> HIDE DEF V
<1>9. \A f \in Files : Root(V, handle, call, f) = StartOf(V, f)
  BY <1>2, <1>8 DEF Root
<1>10. SUFFICES ASSUME NEW c \in Clusters, Entry(V, c) # 0
                PROVE  \E f \in Files : \E ch \in ChainOf(V, f) : c \in Range(ch)
  BY <1>7 DEF Allocated
<1>11. Owned(V, Roots(V, handle, call), c)
  <2>1. ~Lone(handle[call.f], call, c)
    BY <1>4 DEF Lone, Transferring
  <2>2. QED
    BY <1>1, <1>10, <2>1 DEF LeakFree, Used, V
<1>12. PICK f \in Files, ch \in Chains : IsChain(V, StartOf(V, f), ch) /\ c \in Range(ch)
  BY <1>9, <1>11 DEF Owned, Roots
<1>13. QED
  BY <1>12 DEF ChainOf

\* Without faults no cluster of the card is lost: when no file is open, the clusters
\* that are not free are those of the chains that the directory names.  So every cluster
\* that create_chain takes (ff.c:766-815) is in a chain or comes into one, f_close
\* records where the chain of a file begins (ff.c:2340-2376), and remove_chain frees the
\* chain of a file that FA_CREATE_ALWAYS empties (ff.c:649-760).
THEOREM FatNoLeak ==
  ASSUME "torn" \notin Kinds, UpdateSize <= SS * CSize
  PROVE  Spec => []NoLeak
<1>1. UpdateSize <= SSC
  BY DEF SSC
<1>2. Spec => []FatInv
  BY <1>1, FatSafe
<1>3. Init => LeakInv
  BY LeakInit
<1>4. FatInv /\ LeakInv /\ [Next]_vars => LeakInv'
  BY <1>1, LeakStep
<1>5. FatInv /\ LeakInv => NoLeak
  BY LeakNone
<1>6. QED
  BY <1>2, <1>3, <1>4, <1>5, PTL DEF Spec
=============================================================================
