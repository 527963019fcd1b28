--------------------------- MODULE FatFileProofs ---------------------------
(***************************************************************************)
(* A file of FatFile has the contents that the calls have given it: on the *)
(* card when it is closed, and in the answers of f_read.                   *)
(*                                                                         *)
(* The contents are said of what the calls see, along the chain that       *)
(* FatVolumeProofs gives a file; of the card as well when no call is to    *)
(* bring the file there any more.                                          *)
(***************************************************************************)
EXTENDS FatVolumeProofs

USE FatAssumption

\* Where the unit q of a file is, and the sectors of its chain.
SectorAt(ch, q) == clust2sect(ch[q \div SSC + 1]) + ((q \div SS) % CSize)

On(ch, s) == \E i \in 1..Len(ch), j \in 0..CSize - 1 : s = clust2sect(ch[i]) + j

Contents(V, ch, data) ==
  /\ Len(data) <= Len(ch) * SSC
  /\ \A p \in 1..Len(data) : V[SectorAt(ch, p - 1)][(p - 1) % SS] = data[p]

\* W has the chain, and its sectors, as V does.
Kept(V, W, ch) ==
  /\ \A d \in Range(ch) : Entry(W, d) = Entry(V, d)
  /\ \A s \in Sectors : On(ch, s) => W[s] = V[s]

SameRecord(V, W, f) == SizeOf(W, f) = SizeOf(V, f) /\ StartOf(W, f) = StartOf(V, f)

\* A clean window shows what is on the card.
Shown(v, ch) == ~v.wflag /\ On(ch, v.winsect) => v.win = v.disk[v.winsect]

\* Nothing of the file has yet to come to the card.
Settled(file, c, f) ==
  ~WritesOn(file) \/ (~file.written /\ ~Putting(c, f) /\ ~(c.f = f /\ c.at = "sync"))

\* How long the file is.
Extent(V, file, c, f, data) ==
  /\ Len(data) = IF file.mode = "closed" THEN SizeOf(V, f)
                 ELSE IF file.ptr > file.size THEN file.ptr ELSE file.size
  /\ ~Putting(c, f) => file.ptr <= file.size
  /\ file.mode # "closed" /\ ~file.written /\ ~Putting(c, f) =>
       file.org = StartOf(V, f) /\ file.size = SizeOf(V, f)

\* The first cluster of a file has been found, and not moved to.
Pending(file, c) == c.at = "join" /\ c.op = "put" /\ file.ptr = 0 /\ file.org = 0 /\ c.c \in Clusters

\* The cluster and the sector that the file pointer has come to.
Position(file, c, f, ch) ==
  file.mode # "closed" /\ ~file.error =>
    /\ file.ptr > 0 /\ ~Filling(c, f) => file.cur = ch[(file.ptr - 1) \div SSC + 1]
    /\ Filling(c, f) => file.ptr < Len(ch) * SSC /\ file.cur = ch[file.ptr \div SSC + 1]
    /\ file.ptr % SS # 0 \/ (c.f = f /\ c.at = "part") => file.dsect = SectorAt(ch, file.ptr)
    /\ c.f = f /\ c.at = "join" /\ c.c \in Clusters =>
         file.ptr < Len(ch) * SSC /\ c.c = ch[file.ptr \div SSC + 1]

FileTrue(v, file, c, f, r, data) ==
  /\ data # <<>> => r \in Clusters
  /\ Extent(View(v), file, c, f, data)
  /\ c.f = f /\ c.at \in InSector => r \in Clusters
  /\ Settled(file, c, f) => SameRecord(View(v), v.disk, f)
  /\ \A ch \in Chains : IsChain(View(v), r, ch) =>
       /\ Contents(View(v), ch, data)
       /\ Shown(v, ch)
       /\ Position(file, c, f, ch)
       /\ Settled(file, c, f) => Kept(View(v), v.disk, ch)

\* A request is for less than two sectors, or a cluster has only one.
Single(n) == CSize = 1 \/ n < 2 * SS

CallTrue ==
  /\ call.at \in Transferring => sure[call.f] /\ Single(call.n)
  /\ call.at \in Opening => IF call.op = "create" THEN ~sure[call.f] /\ held[call.f] = <<>> ELSE sure[call.f]
  /\ call.at = "sync" => volume.winsect # 0 /\ ~fp.written /\ WritesOn(fp)
  /\ Pending(fp, call) => volume.winsect \in Meta
  /\ call.at \in {"find", "link", "join"} => fp.ptr % SSC = 0
  /\ call.at = "edge" => fp.ptr >= fp.size

\* What the file f holds, in a state with the volume v, the FILs h and the call c.
Holding(v, h, c, f, data) == FileTrue(v, h[f], c, f, Root(View(v), h, c, f), data)

DataInv ==
  /\ ~misread
  /\ CallTrue
  /\ \A f \in Files : sure[f] => Holding(volume, handle, call, f, held[f])

\* The unit q of a file is the unit q % SS of a sector of a cluster.
LEMMA SectorOfUnit ==
  ASSUME NEW q \in Nat
  PROVE  /\ q \div SS \in Nat /\ q % SS \in 0..SS - 1 /\ q = SS * (q \div SS) + (q % SS)
         /\ (q \div SS) \div CSize = q \div SSC /\ q \div SSC \in Nat
         /\ (q \div SS) % CSize \in 0..CSize - 1
         /\ q \div SS = CSize * (q \div SSC) + ((q \div SS) % CSize)
<1>1. SS \in Nat \ {0} /\ CSize \in Nat \ {0} /\ SSC \in Nat \ {0}
  BY DEF SSC
<1>2. PICK s \in Nat : s = q \div SS
  BY <1>1, DivMod, Zenon
<1>3. PICK u \in 0..SS - 1 : u = q % SS
  BY <1>1, DivMod, Zenon
<1>4. q = SS * s + u
  BY <1>1, <1>2, <1>3, DivMod, Zenon
<1>5. PICK k \in Nat : k = s \div CSize
  BY <1>1, DivMod, Zenon
<1>6. PICK j \in 0..CSize - 1 : j = s % CSize
  BY <1>1, DivMod, Zenon
<1>7. s = CSize * k + j
  BY <1>1, <1>5, <1>6, DivMod, Zenon
<1>8. q \div SSC = k
  <2>1. PICK e \in Nat : e = SS * j + u
    BY <1>1
  <2>2. SS * s = SSC * k + SS * j
    <3>1. SS * (CSize * k + j) = SS * CSize * k + SS * j
      BY <1>1
    <3>2. QED
      BY <1>7, <3>1 DEF SSC
  <2>3. SSC * k \in Nat /\ SS * j \in Nat
    BY <1>1
  <2>4. q = SSC * k + e
    BY <1>4, <2>1, <2>2, <2>3
  <2>5. e < SSC
    <3>1. SS * j <= SS * (CSize - 1)
      BY <1>1
    <3>2. SS * (CSize - 1) = SSC - SS
      BY <1>1 DEF SSC
    <3>3. QED
      BY <1>1, <2>1, <2>3, <3>1, <3>2
  <2>6. e \in 0..SSC - 1
    BY <1>1, <2>1, <2>5
  <2>7. QED
    BY <1>1, <2>4, <2>6, DivModUnique, Zenon
<1>9. QED
  BY <1>2, <1>3, <1>4, <1>5, <1>6, <1>7, <1>8, Zenon

\* What is before the end of a chain is in a sector of one of its clusters.
LEMMA UnitAt ==
  ASSUME NEW ch \in Chains, NEW q \in Nat, q < Len(ch) * SSC
  PROVE  /\ q \div SSC + 1 \in 1..Len(ch) /\ ch[q \div SSC + 1] \in Clusters
         /\ ch[q \div SSC + 1] \in Range(ch)
         /\ (q \div SS) % CSize \in 0..CSize - 1
         /\ SectorAt(ch, q) \in Data /\ On(ch, SectorAt(ch, q)) /\ q % SS \in Units
<1>1. SSC \in Nat \ {0} /\ SS \in Nat \ {0} /\ CSize \in Nat \ {0}
  BY DEF SSC
<1>2. Len(ch) \in Nat /\ Len(ch) > 0
  BY ChainType
<1>3. PICK k \in Nat : k = q \div SSC
  BY <1>1, DivMod, Zenon
<1>4. PICK e \in 0..SSC - 1 : e = q % SSC
  BY <1>1, DivMod, Zenon
<1>5. q = SSC * k + e
  BY <1>1, <1>3, <1>4, DivMod, Zenon
<1>6. k < Len(ch)
  <2>1. SUFFICES ASSUME k >= Len(ch)
                 PROVE  FALSE
    BY <1>2
  <2>2. SSC * k >= SSC * Len(ch) /\ SSC * k \in Nat
    BY <1>1, <1>2, <2>1
  <2>3. Len(ch) * SSC = SSC * Len(ch) /\ SSC * Len(ch) \in Nat
    BY <1>1, <1>2
  <2>4. QED
    BY <1>4, <1>5, <2>2, <2>3
<1>7. k + 1 \in 1..Len(ch)
  BY <1>2, <1>6
<1>8. ch[k + 1] \in Clusters /\ ch[k + 1] \in Range(ch)
  BY <1>7, ChainType, RangeOf
<1>9. PICK j \in 0..CSize - 1 : j = (q \div SS) % CSize
  BY SectorOfUnit, Zenon
<1>10. SectorAt(ch, q) = clust2sect(ch[k + 1]) + j
  BY <1>3, <1>9, Zenon DEF SectorAt
<1>11. SectorAt(ch, q) \in Data
  BY <1>8, <1>10, SectorOf
<1>12. On(ch, SectorAt(ch, q))
  BY <1>7, <1>10 DEF On
<1>13. q % SS \in Units
  BY SectorOfUnit DEF Units
<1>14. QED
  BY <1>3, <1>7, <1>8, <1>9, <1>11, <1>12, <1>13, Zenon

\* Units in one sector of a chain are in one sector of the file.
LEMMA SameUnit ==
  ASSUME NEW ch \in Chains, NEW p \in Nat, p < Len(ch) * SSC, NEW q \in Nat, q < Len(ch) * SSC,
         SectorAt(ch, p) = SectorAt(ch, q)
  PROVE  p \div SS = q \div SS
<1>1. PICK a \in 1..Len(ch) : a = p \div SSC + 1
  BY UnitAt, Zenon
<1>2. PICK b \in 1..Len(ch) : b = q \div SSC + 1
  BY UnitAt, Zenon
<1>3. PICK i \in 0..CSize - 1 : i = (p \div SS) % CSize
  BY SectorOfUnit, Zenon
<1>4. PICK j \in 0..CSize - 1 : j = (q \div SS) % CSize
  BY SectorOfUnit, Zenon
<1>5. ch[a] \in Clusters /\ ch[b] \in Clusters
  BY ChainType
<1>6. clust2sect(ch[a]) + i = clust2sect(ch[b]) + j
  BY <1>1, <1>2, <1>3, <1>4, Zenon DEF SectorAt
<1>7. ch[a] = ch[b] /\ i = j
  BY <1>5, <1>6, SameSector, SMT
<1>8. a = b
  BY <1>7, ChainType
<1>9. PICK k \in Nat : k = p \div SSC
  BY SectorOfUnit, Zenon
<1>10. PICK l \in Nat : l = q \div SSC
  BY SectorOfUnit, Zenon
<1>11. k = l
  <2>1. k + 1 = l + 1
    BY <1>1, <1>2, <1>8, <1>9, <1>10, Zenon
  <2>2. QED
    BY <2>1
<1>12. p \div SS = CSize * k + i
  BY <1>3, <1>9, SectorOfUnit, Zenon
<1>13. q \div SS = CSize * l + j
  BY <1>4, <1>10, SectorOfUnit, Zenon
<1>14. QED
  BY <1>7, <1>11, <1>12, <1>13, Zenon

\* Further on in the same sector.
LEMMA WithinSector ==
  ASSUME NEW q \in Nat, NEW i \in Nat, (q % SS) + i < SS
  PROVE  /\ (q + i) \div SS = q \div SS /\ (q + i) % SS = (q % SS) + i
         /\ (q + i) \div SSC = q \div SSC /\ \A ch : SectorAt(ch, q + i) = SectorAt(ch, q)
<1>1. SS \in Nat \ {0}
  OBVIOUS
<1>2. PICK s \in Nat : s = q \div SS
  BY SectorOfUnit, Zenon
<1>3. PICK u \in 0..SS - 1 : u = q % SS
  BY SectorOfUnit, Zenon
<1>4. q = SS * s + u
  BY <1>2, <1>3, SectorOfUnit, Zenon
<1>5. u + i < SS
  BY <1>3, Zenon
<1>6. q + i = SS * s + (u + i) /\ u + i \in 0..SS - 1 /\ q + i \in Nat
  <2>1. SS * s \in Nat
    BY <1>1
  <2>2. QED
    BY <1>1, <1>4, <1>5, <2>1
<1>7. (q + i) \div SS = s /\ (q + i) % SS = u + i
  BY <1>1, <1>6, DivModUnique, Zenon
<1>8. (q + i) \div SSC = q \div SSC
  <2>1. ((q + i) \div SS) \div CSize = (q + i) \div SSC
    BY <1>6, SectorOfUnit, Zenon
  <2>2. (q \div SS) \div CSize = q \div SSC
    BY SectorOfUnit, Zenon
  <2>3. QED
    BY <1>2, <1>7, <2>1, <2>2, Zenon
<1>9. QED
  BY <1>2, <1>3, <1>7, <1>8, Zenon DEF SectorAt

\* The unit before one that is not the first of its cluster, and before one that is.
LEMMA UnitBefore ==
  ASSUME NEW q \in Nat, q > 0
  PROVE  /\ q % SSC # 0 => (q - 1) \div SSC = q \div SSC
         /\ q % SSC = 0 => (q - 1) \div SSC + 1 = q \div SSC
<1>1. SSC \in Nat \ {0}
  BY DEF SSC
<1>2. PICK k \in Nat : k = q \div SSC
  BY <1>1, DivMod, Zenon
<1>3. PICK e \in 0..SSC - 1 : e = q % SSC
  BY <1>1, DivMod, Zenon
<1>4. q = SSC * k + e /\ SSC * k \in Nat
  <2>1. q = SSC * k + e
    BY <1>1, <1>2, <1>3, DivMod, Zenon
  <2>2. QED
    BY <1>1, <2>1
<1>5. ASSUME e # 0
      PROVE  (q - 1) \div SSC = k
  <2>1. q - 1 \in Nat /\ e - 1 \in 0..SSC - 1 /\ q - 1 = SSC * k + (e - 1)
    BY <1>1, <1>4, <1>5
  <2>2. QED
    BY <1>1, <2>1, DivModUnique, Zenon
<1>6. ASSUME e = 0
      PROVE  (q - 1) \div SSC + 1 = k
  <2>1. k # 0
    BY <1>1, <1>4, <1>6
  <2>2. PICK l \in Nat : k = l + 1
    BY <2>1
  <2>3. SSC * k = SSC * l + SSC /\ SSC * l \in Nat
    BY <1>1, <2>2
  <2>4. q - 1 \in Nat /\ SSC - 1 \in 0..SSC - 1 /\ q - 1 = SSC * l + (SSC - 1)
    BY <1>1, <1>4, <1>6, <2>3
  <2>5. (q - 1) \div SSC = l
    BY <1>1, <2>4, DivModUnique, Zenon
  <2>6. QED
    BY <2>2, <2>5
<1>7. QED
  BY <1>2, <1>3, <1>5, <1>6, Zenon

\* The sectors of a chain are sectors of clusters.
LEMMA OnData ==
  ASSUME NEW ch \in Chains, NEW s, On(ch, s)
  PROVE  s \in Data /\ s \in Sectors /\ s \notin Meta
<1>1. PICK i \in 1..Len(ch), j \in 0..CSize - 1 : s = clust2sect(ch[i]) + j
  BY DEF On
<1>2. ch[i] \in Clusters
  BY ChainType
<1>3. s \in Data
  BY <1>1, <1>2, SectorOf
<1>4. QED
  BY <1>3 DEF Data

\* The sectors of different chains.
LEMMA OnOne ==
  ASSUME NEW ch \in Chains, NEW d \in Chains, Disjoint(ch, d), NEW s, On(ch, s)
  PROVE  ~On(d, s)
<1>1. SUFFICES ASSUME On(d, s)
               PROVE  FALSE
  OBVIOUS
<1>2. PICK i \in 1..Len(ch), j \in 0..CSize - 1 : s = clust2sect(ch[i]) + j
  BY DEF On
<1>3. PICK k \in 1..Len(d), l \in 0..CSize - 1 : s = clust2sect(d[k]) + l
  BY <1>1 DEF On
<1>4. ch[i] \in Clusters /\ d[k] \in Clusters /\ ch[i] \in Range(ch) /\ d[k] \in Range(d)
  BY ChainType, RangeOf
<1>5. ch[i] = d[k]
  BY <1>2, <1>3, <1>4, SameSector
<1>6. QED
  BY <1>4, <1>5 DEF Disjoint

LEMMA ContentsKept ==
  ASSUME NEW V, NEW W, NEW ch \in Chains, NEW data \in Seq(Nat), Contents(V, ch, data), Kept(V, W, ch)
  PROVE  Contents(W, ch, data)
<1>1. ASSUME NEW p \in 1..Len(data)
      PROVE  W[SectorAt(ch, p - 1)][(p - 1) % SS] = data[p]
  <2>1. V[SectorAt(ch, p - 1)][(p - 1) % SS] = data[p]
    BY DEF Contents
  <2>2. p - 1 \in Nat /\ p - 1 < Len(ch) * SSC
    <3>1. Len(data) \in Nat /\ Len(data) <= Len(ch) * SSC /\ Len(ch) * SSC \in Nat
      BY Room DEF Contents
    <3>2. QED
      BY <3>1
  <2>3. On(ch, SectorAt(ch, p - 1))
    BY <2>2, UnitAt, Zenon
  <2>4. W[SectorAt(ch, p - 1)] = V[SectorAt(ch, p - 1)]
    BY <2>3, OnData, Zenon DEF Kept
  <2>5. QED
    BY <2>1, <2>4, Zenon
<1>2. QED
  BY <1>1, Zenon DEF Contents

LEMMA KeptTrans ==
  ASSUME NEW V, NEW W, NEW X, NEW ch, Kept(V, W, ch), Kept(W, X, ch)
  PROVE  Kept(V, X, ch)
BY DEF Kept

LEMMA KeptBack ==
  ASSUME NEW V, NEW W, NEW ch, Kept(V, W, ch)
  PROVE  Kept(W, V, ch)
BY DEF Kept

LEMMA KeptChain ==
  ASSUME NEW V, NEW W, NEW ch \in Chains, NEW c, IsChain(V, c, ch), Kept(V, W, ch)
  PROVE  IsChain(W, c, ch)
BY ChainKept DEF Kept

\* What the units from ptr on, m of them, become in W: the rest of their sector stays,
\* unless it is past the end of the file.
StoredIn(V, W, sect, from, ptr, m, data) ==
  /\ \A t \in Data : t # sect => W[t] = V[t]
  /\ \A u \in Units :
       IF u >= from /\ u < from + m THEN W[sect][u] = Datum((ptr - from) + u)
       ELSE u < from \/ ptr + m < Len(data) => W[sect][u] = V[sect][u]

\* What the file then has.
Lengthened(data, ptr, m, more) ==
  /\ Len(more) = IF ptr + m > Len(data) THEN ptr + m ELSE Len(data)
  /\ \A p \in 1..Len(more) :
       more[p] = IF p \in ptr + 1 .. ptr + m THEN Datum(p - 1) ELSE data[p]

\* Units of two sectors of a file.
LEMMA SectorsApart ==
  ASSUME NEW s \in Nat, NEW from \in 0..SS - 1, NEW n \in Nat, NEW u \in 0..SS - 1, n # s,
         NEW m \in Nat, from + m <= SS
  PROVE  ~(SS * n + u >= SS * s + from /\ SS * n + u < SS * s + from + m)
<1>1. SS \in Nat \ {0} /\ SS * s \in Nat /\ SS * n \in Nat
  OBVIOUS
<1>2. CASE n > s
  <2>1. SS * n >= SS * (s + 1) /\ SS * (s + 1) = SS * s + SS
    BY <1>1, <1>2
  <2>2. QED
    BY <1>1, <2>1
<1>3. CASE n < s
  <2>1. SS * s >= SS * (n + 1) /\ SS * (n + 1) = SS * n + SS
    BY <1>1, <1>3
  <2>2. QED
    BY <1>1, <2>1
<1>4. QED
  BY <1>2, <1>3

LEMMA LengthenedAt ==
  ASSUME NEW data \in Seq(Nat), NEW ptr \in Nat, NEW m \in Nat \ {0}, NEW more \in Seq(Nat),
         ptr <= Len(data), Lengthened(data, ptr, m, more), NEW p \in 1..Len(more)
  PROVE  /\ p \in ptr + 1 .. ptr + m => more[p] = Datum(p - 1)
         /\ p \notin ptr + 1 .. ptr + m => more[p] = data[p] /\ p \in 1..Len(data)
         /\ p > ptr + m => ptr + m < Len(data)
<1>1. Len(data) \in Nat /\ Len(more) \in Nat
  OBVIOUS
<1>2. Len(more) = IF ptr + m > Len(data) THEN ptr + m ELSE Len(data)
  BY DEF Lengthened
<1>3. /\ p \notin ptr + 1 .. ptr + m => p \in 1..Len(data)
      /\ p > ptr + m => ptr + m < Len(data)
  BY <1>1, <1>2
<1>4. more[p] = IF p \in ptr + 1 .. ptr + m THEN Datum(p - 1) ELSE data[p]
  BY Zenon DEF Lengthened
<1>5. QED
  BY <1>3, <1>4, Zenon

\* What a call stores into a sector of a file is what the file has there.
LEMMA ContentsStored ==
  ASSUME NEW V, NEW W, NEW ch \in Chains, NEW data \in Seq(Nat), Contents(V, ch, data),
         NEW ptr \in Nat, ptr <= Len(data), NEW m \in Nat \ {0},
         NEW s \in Nat, NEW from \in 0..SS - 1, ptr = SS * s + from, from + m <= SS,
         NEW room \in Nat, room = Len(ch) * SSC, ptr + m <= room,
         NEW sect, sect = SectorAt(ch, ptr), StoredIn(V, W, sect, from, ptr, m, data),
         NEW more \in Seq(Nat), Lengthened(data, ptr, m, more)
  PROVE  Contents(W, ch, more)
<1>1. Len(data) \in Nat /\ SS \in Nat \ {0} /\ SS * s \in Nat /\ Len(data) <= room
  BY DEF Contents
<1>2. Len(more) <= room /\ Len(more) \in Nat
  <2>1. Len(more) = IF ptr + m > Len(data) THEN ptr + m ELSE Len(data)
    BY Zenon DEF Lengthened
  <2>2. CASE ptr + m > Len(data)
    BY <2>1, <2>2
  <2>3. CASE ~(ptr + m > Len(data))
    BY <1>1, <2>1, <2>3
  <2>4. QED
    BY <2>2, <2>3
<1>3. ptr < room /\ ptr < Len(ch) * SSC
  BY <1>1
<1>4. ptr \div SS = s /\ ptr % SS = from
  BY <1>1, DivModUnique, Zenon
<1>5. ASSUME NEW p \in 1..Len(more)
      PROVE  W[SectorAt(ch, p - 1)][(p - 1) % SS] = more[p]
  <2>1. PICK q \in Nat : q = p - 1 /\ p = q + 1
    BY <1>2
  <2>2. q < Len(ch) * SSC
    BY <1>1, <1>2, <2>1
  <2>3. PICK u \in 0..SS - 1 : u = q % SS
    BY SectorOfUnit, Zenon
  <2>4. PICK n \in Nat : n = q \div SS
    BY SectorOfUnit, Zenon
  <2>5. q = SS * n + u
    BY <2>3, <2>4, SectorOfUnit, Zenon
  <2>6. SectorAt(ch, q) \in Data /\ u \in Units
    BY <2>2, <2>3, UnitAt, Zenon
  <2>7. ASSUME p \in 1..Len(data)
        PROVE  V[SectorAt(ch, q)][u] = data[p]
    BY <2>1, <2>3, <2>7, Zenon DEF Contents
  <2>8. CASE n # s
    <3>1. SectorAt(ch, q) # sect
      BY <1>3, <1>4, <2>2, <2>4, <2>8, SameUnit, Zenon
    <3>2. W[SectorAt(ch, q)] = V[SectorAt(ch, q)]
      BY <2>6, <3>1, Zenon DEF StoredIn
    <3>3. p \notin ptr + 1 .. ptr + m
      <4>1. ~(q >= ptr /\ q < ptr + m)
        BY <2>5, <2>8, SectorsApart
      <4>2. QED
        BY <2>1, <4>1
    <3>4. more[p] = data[p] /\ p \in 1..Len(data)
      BY <3>3, LengthenedAt, Zenon
    <3>5. QED
      BY <2>1, <2>3, <2>7, <3>2, <3>4, Zenon
  <2>9. CASE n = s
    <3>1. SectorAt(ch, q) = sect
      <4>1. q \div SSC = (q \div SS) \div CSize
        BY SectorOfUnit, Zenon
      <4>2. ptr \div SSC = (ptr \div SS) \div CSize
        BY SectorOfUnit, Zenon
      <4>3. QED
        BY <1>4, <2>4, <2>9, <4>1, <4>2, Zenon DEF SectorAt
    <3>2. q - ptr = u - from /\ (ptr - from) + u = q
      BY <1>1, <2>5, <2>9
    <3>3. CASE u >= from /\ u < from + m
      <4>1. p \in ptr + 1 .. ptr + m
        BY <2>1, <3>2, <3>3
      <4>2. more[p] = Datum(q)
        <5>1. more[p] = Datum(p - 1)
          BY <4>1, LengthenedAt
        <5>2. QED
          BY <2>1, <5>1, Zenon
      <4>3. W[sect][u] = Datum(q)
        BY <2>6, <3>2, <3>3, Zenon DEF StoredIn
      <4>4. QED
        BY <2>1, <2>3, <3>1, <4>2, <4>3, Zenon
    <3>4. CASE ~(u >= from /\ u < from + m)
      <4>1. p \notin ptr + 1 .. ptr + m
        BY <2>1, <3>2, <3>4
      <4>2. more[p] = data[p] /\ p \in 1..Len(data)
        BY <4>1, LengthenedAt, Zenon
      <4>3. u < from \/ p > ptr + m
        BY <2>1, <3>2, <3>4
      <4>4. u < from \/ ptr + m < Len(data)
        BY <4>3, LengthenedAt, Zenon
      <4>5. W[sect][u] = V[sect][u]
        BY <2>6, <3>4, <4>4, Zenon DEF StoredIn
      <4>6. QED
        BY <2>1, <2>3, <2>7, <3>1, <4>2, <4>5, Zenon
    <3>5. QED
      BY <3>3, <3>4
  <2>10. QED
    BY <2>8, <2>9
<1>6. QED
  BY <1>2, <1>5, Zenon DEF Contents

\* What a step does to the volume that does not concern a file, with the root r of the
\* chain ch.
Quiet(v, w, g, r, ch) ==
  /\ SameRecord(View(v), View(w), g)
  /\ SameRecord(v.disk, w.disk, g) \/ SameRecord(View(v), w.disk, g)
  /\ r \in Clusters =>
       /\ Kept(View(v), View(w), ch)
       /\ Kept(v.disk, w.disk, ch) \/ Kept(View(v), w.disk, ch)
       /\ Shown(v, ch) => Shown(w, ch)

LEMMA FileCarried ==
  ASSUME NEW v, NEW file, NEW c, NEW g, NEW r, NEW data \in Seq(Nat), FileTrue(v, file, c, g, r, data),
         NEW ch \in Chains, r \in Clusters => IsChain(View(v), r, ch),
         NEW w, Quiet(v, w, g, r, ch),
         NEW i, NEW d, Extent(View(w), i, d, g, data),
         Settled(i, d, g) => Settled(file, c, g) \/ w.disk = View(w),
         d.f = g /\ d.at \in InSector => r \in Clusters,
         r \in Clusters => Position(i, d, g, ch)
  PROVE  FileTrue(w, i, d, g, r, data)
<1>1. Settled(i, d, g) => SameRecord(View(w), w.disk, g)
  BY Zenon DEF FileTrue, Quiet, SameRecord
<1>2. ASSUME NEW e \in Chains, IsChain(View(w), r, e)
      PROVE  /\ Contents(View(w), e, data) /\ Shown(w, e) /\ Position(i, d, g, e)
             /\ Settled(i, d, g) => Kept(View(w), w.disk, e)
  <2>1. r \in Clusters
    BY <1>2, ChainType DEF IsChain
  <2>2. /\ IsChain(View(v), r, ch) /\ Kept(View(v), View(w), ch) /\ Kept(View(w), View(v), ch)
        /\ Kept(v.disk, w.disk, ch) \/ Kept(View(v), w.disk, ch)
        /\ Shown(v, ch) => Shown(w, ch)
    BY <2>1, KeptBack DEF Quiet
  <2>3. e = ch
    BY <1>2, <2>2, KeptChain, ChainUnique, Zenon
  <2>4. /\ Contents(View(v), ch, data) /\ Shown(v, ch)
        /\ Settled(file, c, g) => Kept(View(v), v.disk, ch)
    BY <2>2, Zenon DEF FileTrue
  <2>5. Contents(View(w), ch, data)
    BY <2>2, <2>4, ContentsKept, Zenon
  <2>6. Settled(i, d, g) => Kept(View(w), w.disk, ch)
    <3>1. CASE Settled(file, c, g)
      <4>1. Kept(View(v), w.disk, ch)
        BY <2>2, <2>4, <3>1, KeptTrans, Zenon
      <4>2. QED
        BY <2>2, <4>1, KeptTrans, Zenon
    <3>2. CASE w.disk = View(w)
      BY <3>2 DEF Kept
    <3>3. QED
      BY <3>1, <3>2
  <2>7. QED
    BY <2>1, <2>2, <2>3, <2>4, <2>5, <2>6, Zenon
<1>3. QED
  BY <1>1, <1>2, Zenon DEF FileTrue

\* A file that the call does nothing with.
Apart(c, g) == c.f # g \/ c.at \notin Transferring \cup {"sync"}

LEMMA ApartFrom ==
  ASSUME NEW c, NEW g, Apart(c, g)
  PROVE  /\ ~Putting(c, g) /\ ~Filling(c, g) /\ ~(c.f = g /\ c.at = "sync")
         /\ ~(c.f = g /\ c.at = "join") /\ ~(c.f = g /\ c.at = "part")
         /\ ~(c.f = g /\ c.at \in InSector)
BY DEF Apart, Putting, Filling, Transferring, InSector

LEMMA FileApart ==
  ASSUME NEW v, NEW file, NEW c, NEW g, NEW r, NEW data \in Seq(Nat), FileTrue(v, file, c, g, r, data),
         NEW ch \in Chains, r \in Clusters => IsChain(View(v), r, ch),
         NEW w, Quiet(v, w, g, r, ch),
         NEW d, Apart(c, g), Apart(d, g)
  PROVE  FileTrue(w, file, d, g, r, data)
<1>1. Extent(View(w), file, d, g, data)
  <2>1. SameRecord(View(v), View(w), g) /\ Extent(View(v), file, c, g, data)
    BY DEF Quiet, FileTrue
  <2>2. QED
    BY <2>1, ApartFrom DEF Extent, SameRecord
<1>2. Settled(file, d, g) => Settled(file, c, g)
  BY ApartFrom DEF Settled
<1>3. r \in Clusters => Position(file, d, g, ch)
  <2>1. r \in Clusters => Position(file, c, g, ch)
    BY DEF FileTrue
  <2>2. QED
    BY <2>1, ApartFrom DEF Position
<1>4. ~(d.f = g /\ d.at \in InSector)
  BY ApartFrom
<1>5. QED
  BY <1>1, <1>2, <1>3, <1>4, FileCarried, Zenon

\* A step after which the calls see what they saw before.
Still(v, w) ==
  /\ View(w) = View(v) /\ w.disk \in {v.disk, View(v)}
  /\ \A ch \in Chains : Shown(v, ch) => Shown(w, ch)

LEMMA ShownWindow ==
  ASSUME NEW v, v.wflag => v.winsect # 0, NEW ch \in Chains
  PROVE  Shown(v, ch) <=> WindowOn(v, {s \in Sectors : On(ch, s)})
BY OnData DEF Shown, WindowOn

LEMMA StillMoved ==
  ASSUME NEW v, VolumeOK(v), NEW sect \in Sectors \cup {0}
  PROVE  Still(v, Moved(v, sect))
<1>1. v \in Volumes /\ WindowOn(v, Meta)
  BY DEF VolumeOK
<1>2. /\ View(Moved(v, sect)) = View(v) /\ Moved(v, sect).disk \in {v.disk, View(v)}
      /\ WindowOn(Moved(v, sect), Meta)
  BY <1>1, MovedView
<1>3. ASSUME NEW ch \in Chains, Shown(v, ch)
      PROVE  Shown(Moved(v, sect), ch)
  <2> DEFINE S == {s \in Sectors : On(ch, s)}
  <2>1. WindowOn(v, S)
    BY <1>1, <1>3, ShownWindow DEF WindowOn
  <2>2. WindowOn(Moved(v, sect), S)
    BY <1>1, <2>1, MovedView
  <2>3. QED
    BY <1>2, <2>2, ShownWindow DEF WindowOn
<1>4. QED
  BY <1>2, <1>3 DEF Still

LEMMA StillUnmoved ==
  ASSUME "torn" \notin Kinds, NEW v, VolumeOK(v), NEW sect \in Sectors \cup {0}, NEW w \in Unmoved(v, sect)
  PROVE  Still(v, w)
<1>1. v \in Volumes /\ WindowOn(v, Meta)
  BY DEF VolumeOK
<1>2. View(w) = View(v) /\ w.disk \in {v.disk, View(v)} /\ WindowOn(w, Meta)
  BY <1>1, UnmovedView
<1>3. ASSUME NEW ch \in Chains, Shown(v, ch)
      PROVE  Shown(w, ch)
  <2> DEFINE S == {s \in Sectors : On(ch, s)}
  <2>1. WindowOn(v, S)
    BY <1>1, <1>3, ShownWindow DEF WindowOn
  <2>2. WindowOn(w, S)
    BY <1>1, <2>1, UnmovedView
  <2>3. QED
    BY <1>2, <2>2, ShownWindow DEF WindowOn
<1>4. QED
  BY <1>2, <1>3 DEF Still

LEMMA StillSame ==
  ASSUME NEW v
  PROVE  Still(v, v)
BY DEF Still

LEMMA StillQuiet ==
  ASSUME NEW v, NEW w, Still(v, w), NEW g, NEW r, NEW ch \in Chains
  PROVE  Quiet(v, w, g, r, ch)
BY DEF Still, Quiet, SameRecord, Kept

\* One that then stores into the window a sector of the FAT or of the directory.
LEMMA StoreQuiet ==
  ASSUME NEW v, NEW u, Still(v, u), NEW w, w.disk = u.disk, w.wflag,
         NEW g, NEW r, NEW ch \in Chains, SameRecord(View(u), View(w), g),
         r \in Clusters => Kept(View(u), View(w), ch)
  PROVE  Quiet(v, w, g, r, ch)
<1>1. View(u) = View(v) /\ w.disk \in {v.disk, View(v)}
  BY DEF Still
<1>2. Shown(w, ch)
  BY DEF Shown
<1>3. QED
  BY <1>1, <1>2 DEF Quiet, SameRecord, Kept

LEMMA PokeData ==
  ASSUME NEW v \in Volumes, WindowOn(v, Meta), v.winsect \in Meta, NEW x \in Units, NEW n \in Nat
  PROVE  \A s \in Data : View(Poke(v, x, n))[s] = View(v)[s]
<1>1. v.winsect \in Sectors /\ View(v) \in [Sectors -> [Units -> Nat]]
  BY Layout, ViewType
<1>2. View(Poke(v, x, n)) = Put(View(v), v.winsect, x, n)
  BY <1>1, PokeView
<1>3. QED
  BY <1>1, <1>2 DEF Put, Data

\* A cluster that a chain does not pass through.
LEMMA EntryKept ==
  ASSUME NEW V, NEW W, NEW c \in Clusters, OnlyEntry(V, W, c), \A s \in Data : W[s] = V[s],
         NEW ch \in Chains, c \notin Range(ch)
  PROVE  Kept(V, W, ch)
<1>1. ASSUME NEW d \in Range(ch)
      PROVE  Entry(W, d) = Entry(V, d)
  <2>1. d \in Clusters
    BY ChainType, RangeOf
  <2>2. QED
    BY <2>1 DEF OnlyEntry
<1>2. QED
  BY <1>1, OnData DEF Kept

LEMMA FatKept ==
  ASSUME NEW V, NEW W, SameFat(V, W), NEW ch \in Chains,
         \A s \in Sectors : On(ch, s) => W[s] = V[s]
  PROVE  Kept(V, W, ch)
<1>1. \A d \in Range(ch) : d \in Clusters
  BY ChainType, RangeOf
<1>2. QED
  BY <1>1 DEF Kept, SameFat

\* The other files.
LEMMA OthersTrue ==
  ASSUME call \in Calls, held \in [Files -> Seq(Nat)], DataInv,
         NEW chain \in [Files -> Chains], Links(View(volume), handle, call, chain),
         NEW f \in Files, call.f = f \/ call.at = "idle", call'.f = f \/ call'.at = "idle",
         \A g \in Files \ {f} :
           /\ handle'[g] = handle[g] /\ held'[g] = held[g] /\ sure'[g] = sure[g]
           /\ Quiet(volume, volume', g, Root(View(volume), handle, call, g), chain[g])
  PROVE  \A g \in Files \ {f} : sure'[g] => Holding(volume', handle', call', g, held'[g])
<1> SUFFICES ASSUME NEW g \in Files \ {f}, sure'[g]
             PROVE  Holding(volume', handle', call', g, held'[g])
  OBVIOUS
<1> DEFINE r == Root(View(volume), handle, call, g)
<1>1. /\ handle'[g] = handle[g] /\ held'[g] = held[g] /\ sure[g] /\ held[g] \in Seq(Nat)
      /\ Quiet(volume, volume', g, r, chain[g]) /\ g \in Files /\ g # f
  OBVIOUS
<1>2. FileTrue(volume, handle[g], call, g, r, held[g])
  BY <1>1 DEF DataInv, Holding
<1>3. r \in Clusters => IsChain(View(volume), r, chain[g])
  BY DEF Links, FsOK, ChainsOK, Roots
<1>4. Apart(call, g) /\ Apart(call', g)
  BY <1>1 DEF Apart, Transferring
<1>5. Root(View(volume'), handle', call', g) = r
  BY <1>1 DEF Root, Quiet, SameRecord
<1> HIDE DEF r
<1>6. FileTrue(volume', handle[g], call', g, r, held[g])
  BY <1>1, <1>2, <1>3, <1>4, FileApart, Zenon
<1>7. QED
  BY <1>1, <1>5, <1>6, Zenon DEF Holding

LEMMA DataContext ==
  ASSUME FatInv, DataInv
  PROVE  /\ VolumeOK(volume) /\ volume \in Volumes /\ Good(View(volume))
         /\ call \in Calls /\ handle \in [Files -> FILs] /\ call.f \in Files /\ fp \in FILs
         /\ held \in [Files -> Seq(Nat)] /\ sure \in [Files -> BOOLEAN] /\ ~misread /\ CallTrue
         /\ TransferOK(fp, call) /\ OpenOK(View(volume), fp, call)
<1>1. /\ VolumeOK(volume) /\ volume \in Volumes /\ Good(View(volume))
      /\ call \in Calls /\ handle \in [Files -> FILs] /\ call.f \in Files /\ fp \in FILs
      /\ held \in [Files -> Seq(Nat)] /\ sure \in [Files -> BOOLEAN]
  BY LinkedGood DEF FatInv, TypeOK, Calls, fp
<1>2. TransferOK(fp, call) /\ OpenOK(View(volume), fp, call)
  BY DEF FatInv, Linked, Links, fp
<1>3. ~misread /\ CallTrue
  BY DEF DataInv
<1>4. QED
  BY <1>1, <1>2, <1>3

LEMMA IdleTrue ==
  ASSUME call' = Idle
  PROVE  CallTrue'
BY DEF Idle, CallTrue, Pending, Transferring, Opening

LEMMA RootChain ==
  ASSUME NEW V, NEW h, NEW c, NEW chain, Links(V, h, c, chain), NEW f \in Files,
         Root(V, h, c, f) \in Clusters
  PROVE  IsChain(V, Root(V, h, c, f), chain[f])
BY DEF Links, FsOK, ChainsOK, Roots

\* The file f, whose FIL becomes file.
OwnTrue(f, file, ch) ==
  LET r == Root(View(volume), handle, call, f)
  IN  /\ Root(View(volume'), handle', call', f) = r
      /\ Extent(View(volume'), file, call', f, held[f])
      /\ Settled(file, call', f) => Settled(handle[f], call, f) \/ volume'.disk = View(volume')
      /\ call'.f = f /\ call'.at \in InSector => r \in Clusters
      /\ r \in Clusters => Position(file, call', f, ch)

\* A step that changes no contents, and no chains.
LEMMA StillStep ==
  ASSUME FatInv, DataInv, NEW chain \in [Files -> Chains], Links(View(volume), handle, call, chain),
         NEW f \in Files, call.f = f \/ call.at = "idle", call'.f = f \/ call'.at = "idle",
         Still(volume, volume'), NEW file, handle' = [handle EXCEPT ![f] = file],
         held' = held \/ (~sure'[f] /\ \A g \in Files \ {f} : held'[g] = held[g]), ~misread', CallTrue',
         \A g \in Files : sure'[g] => sure[g], \A g \in Files \ {f} : sure'[g] = sure[g],
         sure'[f] => OwnTrue(f, file, chain[f])
  PROVE  DataInv'
<1>1. call \in Calls /\ held \in [Files -> Seq(Nat)] /\ handle \in [Files -> FILs]
  BY DataContext
<1>2. \A g \in Files \ {f} :
        /\ handle'[g] = handle[g] /\ held'[g] = held[g] /\ sure'[g] = sure[g]
        /\ Quiet(volume, volume', g, Root(View(volume), handle, call, g), chain[g])
  BY <1>1, StillQuiet
<1>3. \A g \in Files \ {f} : sure'[g] => Holding(volume', handle', call', g, held'[g])
  BY <1>1, <1>2, OthersTrue
<1>4. ASSUME sure'[f]
      PROVE  Holding(volume', handle', call', f, held'[f])
  <2> DEFINE r == Root(View(volume), handle, call, f)
  <2>1. /\ sure[f] /\ held' = held /\ held[f] \in Seq(Nat) /\ chain[f] \in Chains /\ handle'[f] = file
        /\ OwnTrue(f, file, chain[f])
    BY <1>1, <1>4
  <2>2. FileTrue(volume, handle[f], call, f, r, held[f])
    BY <2>1 DEF DataInv, Holding
  <2>3. r \in Clusters => IsChain(View(volume), r, chain[f])
    BY RootChain
  <2>4. Quiet(volume, volume', f, r, chain[f])
    BY StillQuiet
  <2>5. /\ Root(View(volume'), handle', call', f) = r
        /\ Extent(View(volume'), file, call', f, held[f])
        /\ Settled(file, call', f) => Settled(handle[f], call, f) \/ volume'.disk = View(volume')
        /\ call'.f = f /\ call'.at \in InSector => r \in Clusters
        /\ r \in Clusters => Position(file, call', f, chain[f])
    BY <2>1 DEF OwnTrue
  <2> HIDE DEF r
  <2>6. FileTrue(volume', file, call', f, r, held[f])
    BY <2>1, <2>2, <2>3, <2>4, <2>5, FileCarried
  <2>7. QED
    BY <2>1, <2>5, <2>6, Zenon DEF Holding
<1>5. QED
  BY <1>3, <1>4 DEF DataInv

\* An error is answered; of a file that is written nothing is sure any more.
LEMMA FailedStep ==
  ASSUME FatInv, DataInv, Still(volume, volume'), NEW file, Failed(file),
         held' = held, misread' = misread,
         ~WritesOn(fp) /\ sure[call.f] =>
           /\ ~WritesOn(file) /\ call.at # "unlink"
           /\ Extent(View(volume), file, Idle, call.f, held[call.f])
           /\ file.mode = "closed" \/ file.error
  PROVE  DataInv'
<1>1. /\ call \in Calls /\ handle \in [Files -> FILs] /\ sure \in [Files -> BOOLEAN]
      /\ call.f \in Files /\ ~misread
  BY DataContext
<1>2. PICK chain \in [Files -> Chains] : Links(View(volume), handle, call, chain)
  BY DEF FatInv, Linked
<1>3. /\ call' = Idle /\ handle' = [handle EXCEPT ![call.f] = file]
      /\ sure' = [sure EXCEPT ![call.f] = @ /\ ~Writing(call.f)]
  BY DEF Failed, Done
<1>4. CallTrue' /\ call'.at = "idle"
  BY <1>3, IdleTrue DEF Idle
<1>5. /\ \A g \in Files : sure'[g] => sure[g]
      /\ \A g \in Files \ {call.f} : sure'[g] = sure[g]
      /\ sure'[call.f] => sure[call.f] /\ ~Writing(call.f)
  BY <1>1, <1>3, Zenon
<1>6. ASSUME sure'[call.f]
      PROVE  OwnTrue(call.f, file, chain[call.f])
  <2>1. ~WritesOn(fp) /\ ~WritesOn(handle[call.f]) /\ sure[call.f]
    BY <1>5, <1>6 DEF Writing, WritesOn, fp
  <2>2. handle'[call.f] = file /\ View(volume') = View(volume)
    BY <1>1, <1>3 DEF Still
  <2>3. Root(View(volume'), handle', call', call.f) = Root(View(volume), handle, call, call.f)
    BY <1>4, <2>1, <2>2 DEF Root
  <2>4. Extent(View(volume'), file, call', call.f, held[call.f])
    BY <1>3, <2>1, <2>2
  <2>5. Settled(handle[call.f], call, call.f)
    BY <2>1 DEF Settled
  <2>6. Position(file, call', call.f, chain[call.f])
    BY <2>1 DEF Position
  <2>7. call'.at \notin InSector
    BY <1>4 DEF InSector
  <2>8. QED
    BY <2>3, <2>4, <2>5, <2>6, <2>7 DEF OwnTrue
<1>7. QED
  BY <1>1, <1>2, <1>3, <1>4, <1>5, <1>6, StillStep

\* A step that changes what the calls see.
LEMMA DataStep ==
  ASSUME FatInv, DataInv, NEW chain \in [Files -> Chains], Links(View(volume), handle, call, chain),
         NEW f \in Files, call.f = f \/ call.at = "idle", call'.f = f \/ call'.at = "idle",
         \A g \in Files \ {f} :
           /\ handle'[g] = handle[g] /\ held'[g] = held[g] /\ sure'[g] = sure[g]
           /\ Quiet(volume, volume', g, Root(View(volume), handle, call, g), chain[g]),
         CallTrue', ~misread', sure'[f] => Holding(volume', handle', call', f, held'[f])
  PROVE  DataInv'
<1>1. call \in Calls /\ held \in [Files -> Seq(Nat)]
  BY DataContext
<1>2. \A g \in Files \ {f} : sure'[g] => Holding(volume', handle', call', g, held'[g])
  BY <1>1, OthersTrue
<1>3. QED
  BY <1>2 DEF DataInv

\* A file whose FIL stays, as the call has nothing to do with it yet, or any more.
LEMMA OwnApart ==
  ASSUME FatInv, DataInv, NEW chain \in [Files -> Chains],
         Links(View(volume), handle, call, chain),
         NEW f \in Files, sure[f], View(volume') = View(volume), Apart(call, f), Apart(call', f),
         Root(View(volume), handle', call', f) = Root(View(volume), handle, call, f)
  PROVE  OwnTrue(f, handle[f], chain[f])
<1> DEFINE r == Root(View(volume), handle, call, f)
<1>1. FileTrue(volume, handle[f], call, f, r, held[f])
  BY DEF DataInv, Holding
<1>2. r \in Clusters => Position(handle[f], call, f, chain[f])
  BY <1>1, RootChain DEF FileTrue
<1>3. r \in Clusters => Position(handle[f], call', f, chain[f])
  BY <1>2, ApartFrom DEF Position
<1>4. Extent(View(volume'), handle[f], call', f, held[f])
  BY <1>1, ApartFrom DEF FileTrue, Extent
<1>5. Settled(handle[f], call', f) => Settled(handle[f], call, f)
  BY ApartFrom DEF Settled
<1>6. ~(call'.f = f /\ call'.at \in InSector)
  BY ApartFrom
<1>7. QED
  BY <1>3, <1>4, <1>5, <1>6, Zenon DEF OwnTrue

-----------------------------------------------------------------------------
\* f_open.
LEMMA OpenData ==
  ASSUME FatInv, DataInv, NEW f \in Files, NEW mode \in {"create", "read", "update"}, Open(f, mode)
  PROVE  DataInv'
<1>1. /\ call \in Calls /\ handle \in [Files -> FILs] /\ held \in [Files -> Seq(Nat)]
      /\ sure \in [Files -> BOOLEAN] /\ ~misread
  BY DataContext
<1>2. PICK chain \in [Files -> Chains] : Links(View(volume), handle, call, chain)
  BY DEF FatInv, Linked
<1>3. /\ call.at = "idle" /\ handle[f].mode = "closed" /\ volume' = volume /\ handle' = handle
      /\ misread' = misread /\ (mode = "create" \/ sure[f])
      /\ sure' = [sure EXCEPT ![f] = @ /\ mode # "create"]
      /\ held' = IF mode = "create" THEN [held EXCEPT ![f] = <<>>] ELSE held
  BY DEF Open
<1>4. call'.at = "follow" /\ call'.op = mode /\ call'.f = f
  BY DEF Open, Idle
<1>5. sure'[f] = (sure[f] /\ mode # "create") /\ \A g \in Files \ {f} : sure'[g] = sure[g]
  BY <1>1, <1>3, Zenon
<1>6. /\ mode = "create" => held'[f] = <<>>
      /\ held' = held \/ (~sure'[f] /\ \A g \in Files \ {f} : held'[g] = held[g])
  <2>1. CASE mode = "create"
    <3>1. held' = [held EXCEPT ![f] = <<>>]
      BY <1>3, <2>1
    <3>2. held'[f] = <<>> /\ \A g \in Files \ {f} : held'[g] = held[g]
      BY <1>1, <3>1
    <3>3. QED
      BY <1>5, <2>1, <3>2
  <2>2. CASE mode # "create"
    BY <1>3, <2>2
  <2>3. QED
    BY <2>1, <2>2
<1>7. Still(volume, volume') /\ handle' = [handle EXCEPT ![f] = handle[f]]
  BY <1>1, <1>3, StillSame
<1>8. CallTrue'
  <2>1. IF mode = "create" THEN ~sure'[f] /\ held'[f] = <<>> ELSE sure'[f]
    BY <1>3, <1>5, <1>6
  <2>2. QED
    BY <1>4, <2>1 DEF CallTrue, Pending, Transferring
<1>9. ASSUME sure'[f]
      PROVE  OwnTrue(f, handle[f], chain[f])
  <2>1. sure[f] /\ View(volume') = View(volume)
    BY <1>3, <1>5, <1>9
  <2>2. Apart(call, f) /\ Apart(call', f)
    BY <1>3, <1>4 DEF Apart, Transferring
  <2>3. Root(View(volume), handle', call', f) = Root(View(volume), handle, call, f)
    BY <1>3, <1>4 DEF Root
  <2>4. QED
    BY <1>2, <2>1, <2>2, <2>3, OwnApart
<1>10. /\ ~misread' /\ call'.f = f /\ \A g \in Files : sure'[g] => sure[g]
       /\ call.at = "idle"
  BY <1>1, <1>3, <1>4, <1>5
<1>11. QED
  BY <1>2, <1>5, <1>6, <1>7, <1>8, <1>9, <1>10, StillStep, Zenon

\* What a failed f_open leaves.
LEMMA OpenFailedData ==
  ASSUME FatInv, DataInv, call.at \in Opening, Still(volume, volume'), Failed(Closed),
         held' = held, misread' = misread
  PROVE  DataInv'
<1>1. /\ OpenOK(View(volume), fp, call) /\ CallTrue /\ call.f \in Files
  BY DataContext
<1>2. fp.mode = "closed" /\ ~WritesOn(Closed) /\ Closed.mode = "closed"
  BY <1>1 DEF OpenOK, WritesOn, Closed
<1>3. ASSUME sure[call.f]
      PROVE  call.at # "unlink" /\ Extent(View(volume), Closed, Idle, call.f, held[call.f])
  <2>1. call.at # "unlink"
    BY <1>1, <1>3 DEF OpenOK, CallTrue
  <2>2. Extent(View(volume), fp, call, call.f, held[call.f])
    BY <1>1, <1>3 DEF DataInv, Holding, FileTrue, fp
  <2>3. QED
    BY <1>2, <2>1, <2>2 DEF Extent, Closed
<1>4. QED
  BY <1>2, <1>3, FailedStep

\* A step of f_open that goes on, and leaves the FIL, and what the calls see, alone.
LEMMA OpeningOn ==
  ASSUME FatInv, DataInv, call.at \in Opening, Still(volume, volume'), handle' = handle,
         held' = held, misread' = misread, sure' = sure,
         call'.f = call.f, call'.op = call.op, call'.at \in Opening \ {"unlink"}
  PROVE  DataInv'
<1>1. /\ call \in Calls /\ handle \in [Files -> FILs] /\ call.f \in Files /\ ~misread
      /\ OpenOK(View(volume), fp, call) /\ CallTrue
  BY DataContext
<1>2. PICK chain \in [Files -> Chains] : Links(View(volume), handle, call, chain)
  BY DEF FatInv, Linked
<1>3. handle' = [handle EXCEPT ![call.f] = handle[call.f]]
  BY <1>1
<1>4. CallTrue'
  BY <1>1 DEF CallTrue, Pending, Transferring, Opening
<1>5. ASSUME sure'[call.f]
      PROVE  OwnTrue(call.f, handle[call.f], chain[call.f])
  <2>1. sure[call.f] /\ View(volume') = View(volume)
    BY <1>5 DEF Still
  <2>2. Apart(call, call.f) /\ Apart(call', call.f)
    BY DEF Apart, Transferring, Opening
  <2>3. call.at # "unlink" /\ call'.at # "unlink"
    BY <1>1, <2>1 DEF OpenOK, CallTrue
  <2>4. Root(View(volume), handle', call', call.f) = Root(View(volume), handle, call, call.f)
    BY <2>3 DEF Root
  <2>5. QED
    BY <1>1, <1>2, <2>1, <2>2, <2>4, OwnApart
<1>6. /\ ~misread' /\ \A g \in Files : sure'[g] => sure[g]
      /\ \A g \in Files \ {call.f} : sure'[g] = sure[g]
  BY <1>1
<1>7. /\ call.f = call.f \/ call.at = "idle"
      /\ held' = held \/ (~sure'[call.f] /\ \A g \in Files \ {call.f} : held'[g] = held[g])
      /\ call'.f = call.f \/ call'.at = "idle"
  OBVIOUS
<1> DEFINE file == handle[call.f]
<1>8. handle' = [handle EXCEPT ![call.f] = file] /\ (sure'[call.f] => OwnTrue(call.f, file, chain[call.f]))
  BY <1>3, <1>5
<1> HIDE DEF file
<1>9. call.f \in Files /\ ~misread'
  BY <1>1, <1>6
<1>10. QED
  BY <1>2, <1>4, <1>6, <1>7, <1>8, <1>9, StillStep

LEMMA FollowPathData ==
  ASSUME "torn" \notin Kinds, FatInv, DataInv, FollowPath
  PROVE  DataInv'
<1>1. /\ call.at = "follow" /\ call.at \in Opening /\ held' = held /\ misread' = misread
  BY DEF FollowPath, Opening
<1>2. /\ VolumeOK(volume) /\ call \in Calls /\ OpenOK(View(volume), fp, call) /\ call.f \in Files
  BY DataContext
<1>3. call.c \in Sectors
  <2>1. call.c \in DirSector(0)..DirSector(call.f)
    BY <1>1, <1>2 DEF OpenOK
  <2>2. DirSector(call.f) \in Meta
    BY <1>2, DirAt
  <2>3. QED
    BY <2>1, <2>2, Layout DEF Meta
<1>4. CASE volume' \in Unmoved(volume, call.c) /\ Failed(Closed)
  BY <1>1, <1>2, <1>3, <1>4, StillUnmoved, OpenFailedData
<1>5. CASE /\ volume' = Moved(volume, call.c) /\ UNCHANGED <<handle, sure>>
           /\ \/ GotoWith("follow", call.c + 1)
              \/ Goto(IF call.op = "create" THEN "empty" ELSE "opened")
  <2>1. call'.f = call.f /\ call'.op = call.op /\ call'.at \in Opening \ {"unlink"}
    BY <1>2, <1>5 DEF Goto, GotoWith, Opening, Calls
  <2>2. Still(volume, volume')
    BY <1>2, <1>3, <1>5, StillMoved
  <2>3. QED
    BY <1>1, <1>5, <2>1, <2>2, OpeningOn
<1>6. QED
  BY <1>1, <1>4, <1>5 DEF FollowPath

LEMMA StillTrans ==
  ASSUME NEW v, NEW u, NEW w, Still(v, u), Still(u, w)
  PROVE  Still(v, w)
BY DEF Still

LEMMA ReuseData ==
  ASSUME "torn" \notin Kinds, FatInv, DataInv, Reuse
  PROVE  DataInv'
<1>1. /\ call.at = "reuse" /\ call.at \in Opening /\ held' = held /\ misread' = misread
  BY DEF Reuse, Opening
<1>2. /\ VolumeOK(volume) /\ call \in Calls /\ OpenOK(View(volume), fp, call) /\ call.f \in Files
  BY DataContext
<1> DEFINE v == [volume EXCEPT !.last = call.scl - 1]
<1>3. call.scl - 1 \in 0..n_fatent
  BY <1>1, <1>2, Layout DEF OpenOK, Clusters
<1>4. VolumeOK(v) /\ View(v) = View(volume)
  BY <1>2, <1>3, VolumeLast
<1>5. Still(volume, v)
  <2>1. v.disk = volume.disk /\ v.wflag = volume.wflag /\ v.winsect = volume.winsect /\ v.win = volume.win
    BY <1>2 DEF VolumeOK, Volumes
  <2>2. QED
    BY <1>4, <2>1 DEF Still, Shown
<1>6. DirSector(call.f) \in Sectors
  BY <1>2, DirAt
<1>7. CASE volume' = Moved(v, DirSector(call.f)) /\ Goto("opened") /\ UNCHANGED <<handle, sure>>
  <2>1. Still(volume, volume')
    BY <1>4, <1>5, <1>6, <1>7, StillMoved, StillTrans
  <2>2. call'.f = call.f /\ call'.op = call.op /\ call'.at \in Opening \ {"unlink"}
    BY <1>2, <1>7 DEF Goto, Opening, Calls
  <2>3. QED
    BY <1>1, <1>7, <2>1, <2>2, OpeningOn
<1>8. CASE volume' \in Unmoved(v, DirSector(call.f)) /\ Failed(Closed)
  <2>1. Still(volume, volume')
    BY <1>4, <1>5, <1>6, <1>8, StillUnmoved, StillTrans
  <2>2. QED
    BY <1>1, <1>8, <2>1, OpenFailedData
<1>9. QED
  BY <1>7, <1>8 DEF Reuse

\* A step of f_open that empties a file: it is not sure any more.
LEMMA CreateStep ==
  ASSUME FatInv, DataInv, NEW chain \in [Files -> Chains], Links(View(volume), handle, call, chain),
         call.at \in Opening, call.op = "create",
         \A g \in Files \ {call.f} :
           Quiet(volume, volume', g, Root(View(volume), handle, call, g), chain[g]),
         held' = held, misread' = misread,
         \/ UNCHANGED <<handle, sure>> /\ call'.at \in Opening /\ call'.f = call.f /\ call'.op = call.op
         \/ Failed(Closed)
  PROVE  DataInv'
<1>1. /\ call \in Calls /\ handle \in [Files -> FILs] /\ sure \in [Files -> BOOLEAN]
      /\ call.f \in Files /\ ~misread /\ CallTrue
  BY DataContext
<1>2. ~sure[call.f] /\ held[call.f] = <<>>
  BY <1>1 DEF CallTrue
<1>3. CASE UNCHANGED <<handle, sure>> /\ call'.at \in Opening /\ call'.f = call.f /\ call'.op = call.op
  <2>1. CallTrue'
    BY <1>2, <1>3 DEF CallTrue, Pending, Transferring, Opening
  <2>2. ~sure'[call.f]
    BY <1>2, <1>3
  <2>3. QED
    BY <1>1, <1>3, <2>1, <2>2, DataStep
<1>4. CASE Failed(Closed)
  <2>1. /\ call' = Idle /\ handle' = [handle EXCEPT ![call.f] = Closed]
        /\ sure' = [sure EXCEPT ![call.f] = @ /\ ~Writing(call.f)]
    BY <1>4 DEF Failed, Done
  <2>2. ~sure'[call.f] /\ \A g \in Files \ {call.f} : handle'[g] = handle[g] /\ sure'[g] = sure[g]
    BY <1>1, <1>2, <2>1
  <2>3. CallTrue' /\ call'.at = "idle"
    BY <2>1, IdleTrue DEF Idle
  <2>4. QED
    BY <1>1, <2>2, <2>3, DataStep
<1>5. QED
  BY <1>3, <1>4

LEMMA PokeFlag ==
  ASSUME NEW v \in Volumes, NEW u \in Units, NEW n
  PROVE  Poke(v, u, n).wflag /\ Poke(v, u, n).disk = v.disk
BY DEF Poke, Volumes

\* The entry of a cluster that is not in the chain of the file is stored.
LEMMA EntryQuiet ==
  ASSUME NEW v, NEW u, Still(v, u), VolumeOK(u), NEW c \in Clusters, u.winsect = FatSector(c),
         NEW n \in {0, LastLink} \cup Clusters,
         NEW w, w.disk = u.disk, w.wflag, View(w) = View(Poke(u, c % SS, n)),
         NEW g \in Files, NEW r, NEW ch \in Chains, r \in Clusters => c \notin Range(ch)
  PROVE  Quiet(v, w, g, r, ch)
<1>1. u \in Volumes /\ WindowOn(u, Meta)
  BY DEF VolumeOK
<1>2. u.winsect \in Meta /\ c % SS \in Units /\ n \in Nat
  BY EntryAt, Layout DEF LastLink, Clusters
<1>3. \A s \in Data : View(w)[s] = View(u)[s]
  BY <1>1, <1>2, PokeData
<1>4. OnlyEntry(View(u), View(w), c)
  BY VolumeEntry
<1>5. SameRecord(View(u), View(w), g)
  BY <1>4 DEF OnlyEntry, SameDir, SameRecord
<1>6. r \in Clusters => Kept(View(u), View(w), ch)
  BY <1>3, <1>4, EntryKept
<1>7. QED
  BY <1>5, <1>6, StoreQuiet

\* A directory entry is stored.
LEMMA RecordKept ==
  ASSUME NEW u, VolumeOK(u), NEW f \in Files, u.winsect = DirSector(f),
         NEW m \in Nat, NEW n \in Nat, NEW w, w = Poke(Poke(u, SizeAt(f), m), ClustAt(f), n)
  PROVE  w.wflag /\ w.disk = u.disk /\ \A ch \in Chains : Kept(View(u), View(w), ch)
<1> DEFINE x == Poke(u, SizeAt(f), m)
<1>1. u \in Volumes /\ WindowOn(u, Meta)
  BY DEF VolumeOK
<1>2. /\ u.winsect \in Meta /\ u.winsect \in Sectors /\ SizeAt(f) \in Units /\ ClustAt(f) \in Units
  BY DirAt
<1>3. x \in Volumes /\ WindowOn(x, Meta) /\ x.winsect = u.winsect /\ x.disk = u.disk
  BY <1>1, <1>2, PokeView, ZenonT(40)
<1>4. \A s \in Data : View(x)[s] = View(u)[s]
  BY <1>1, <1>2, PokeData
<1> HIDE DEF x
<1>5. w = Poke(x, ClustAt(f), n)
  BY DEF x
<1>6. \A s \in Data : View(w)[s] = View(x)[s]
  BY <1>2, <1>3, <1>5, PokeData
<1>7. w.wflag /\ w.disk = u.disk
  BY <1>2, <1>3, <1>5, PokeFlag
<1>8. SameFat(View(u), View(w))
  BY VolumeDir
<1>9. \A s \in Data : View(w)[s] = View(u)[s]
  BY <1>4, <1>6
<1>10. QED
  BY <1>7, <1>8, <1>9, FatKept, OnData

\* The directory entry of another file is stored.
LEMMA RecordQuiet ==
  ASSUME NEW v, NEW u, Still(v, u), VolumeOK(u), NEW f \in Files, u.winsect = DirSector(f),
         NEW m \in Nat, NEW n \in Nat, NEW w, w = Poke(Poke(u, SizeAt(f), m), ClustAt(f), n),
         NEW g \in Files \ {f}, NEW r, NEW ch \in Chains
  PROVE  Quiet(v, w, g, r, ch)
<1>1. w.wflag /\ w.disk = u.disk /\ Kept(View(u), View(w), ch)
  BY RecordKept
<1>2. SameRecord(View(u), View(w), g)
  BY VolumeDir DEF SameRecord
<1>3. QED
  BY <1>1, <1>2, StoreQuiet

LEMMA TruncateData ==
  ASSUME FatInv, DataInv, Truncate
  PROVE  DataInv'
<1>1. /\ call.at = "empty" /\ volume' = Emptied(volume, call.f) /\ held' = held /\ misread' = misread
      /\ volume.winsect = DirSector(call.f)
  BY DEF Truncate, FatInv, WindowAt
<1>2. /\ VolumeOK(volume) /\ call \in Calls /\ call.f \in Files /\ OpenOK(View(volume), fp, call)
  BY DataContext
<1>3. PICK chain \in [Files -> Chains] : Links(View(volume), handle, call, chain)
  BY DEF FatInv, Linked
<1>4. call.op = "create" /\ call.at \in Opening
  BY <1>1, <1>2 DEF OpenOK, Opening
<1>5. ASSUME NEW g \in Files \ {call.f}
      PROVE  Quiet(volume, volume', g, Root(View(volume), handle, call, g), chain[g])
  <2>1. volume' = Poke(Poke(volume, SizeAt(call.f), 0), ClustAt(call.f), 0) /\ Still(volume, volume)
    BY <1>1, StillSame DEF Emptied
  <2>2. chain[g] \in Chains
    OBVIOUS
  <2>3. QED
    BY <1>1, <1>2, <2>1, <2>2, RecordQuiet
<1>6. \/ UNCHANGED <<handle, sure>> /\ call'.at \in Opening /\ call'.f = call.f /\ call'.op = call.op
      \/ Failed(Closed)
  <2> DEFINE cl == volume.win[ClustAt(call.f)]
  <2>1. CASE Goto("opened") /\ UNCHANGED <<handle, sure>>
    BY <1>2, <2>1 DEF Goto, Calls, Opening
  <2>2. CASE call' = [call EXCEPT !.at = "unlink", !.c = cl, !.scl = cl] /\ UNCHANGED <<handle, sure>>
    BY <1>2, <2>2 DEF Calls, Opening
  <2>3. CASE Failed(Closed)
    BY <2>3
  <2>4. QED
    BY <2>1, <2>2, <2>3 DEF Truncate
<1>7. QED
  BY <1>1, <1>3, <1>4, <1>5, <1>6, CreateStep

LEMMA RemoveChainData ==
  ASSUME "torn" \notin Kinds, FatInv, DataInv, RemoveChain
  PROVE  DataInv'
<1>1. call.at = "unlink" /\ call.at \in Opening /\ held' = held /\ misread' = misread
  BY DEF RemoveChain, Opening
<1>2. /\ VolumeOK(volume) /\ call \in Calls /\ call.f \in Files /\ OpenOK(View(volume), fp, call)
      /\ Good(View(volume)) /\ handle \in [Files -> FILs]
  BY DataContext
<1>3. PICK chain \in [Files -> Chains] : Links(View(volume), handle, call, chain)
  BY DEF FatInv, Linked
<1>4. call.op = "create" /\ call.c \in Clusters /\ fp.mode = "closed"
  BY <1>1, <1>2 DEF OpenOK
<1>5. FatSector(call.c) \in Sectors \cup {0}
  BY <1>4, EntryAt
<1>6. CASE volume' \in Unmoved(volume, FatSector(call.c)) /\ Failed(Closed)
  BY <1>1, <1>2, <1>5, <1>6, StillUnmoved, OpenFailedData
<1> DEFINE v   == Moved(volume, FatSector(call.c))
           nxt == v.win[call.c % SS]
<1>7. ASSUME volume' = IF nxt < 2 THEN v ELSE Poke(v, call.c % SS, 0),
             IF nxt = 1 THEN Failed(Closed)
             ELSE /\ GotoWith(IF nxt \in Clusters THEN "unlink" ELSE "reuse", nxt)
                  /\ UNCHANGED <<handle, sure>>
      PROVE  DataInv'
  <2>1. VolumeOK(v) /\ v.winsect = FatSector(call.c) /\ Still(volume, v)
    BY <1>2, <1>4, <1>5, EntrySeen, StillMoved
  <2>2. Root(View(volume), handle, call, call.f) = call.c
    BY <1>1, <1>4 DEF Root, WritesOn, fp
  <2>3. ASSUME NEW g \in Files \ {call.f}, NEW r, r = Root(View(volume), handle, call, g), r \in Clusters
        PROVE  call.c \notin Range(chain[g])
    <3>1. IsChain(View(volume), call.c, chain[call.f])
      BY <1>2, <1>3, <1>4, <2>2, RootChain
    <3>2. call.c \in Range(chain[call.f])
      BY <1>2, <3>1, ChainType, RangeOf DEF IsChain
    <3>3. Disjoint(chain[call.f], chain[g])
      BY <1>2, <1>3, <1>4, <2>2, <2>3 DEF Links, FsOK, ChainsOK, Roots
    <3>4. QED
      BY <3>2, <3>3 DEF Disjoint
  <2>4. ASSUME NEW g \in Files \ {call.f}
        PROVE  Quiet(volume, volume', g, Root(View(volume), handle, call, g), chain[g])
    <3> DEFINE r == Root(View(volume), handle, call, g)
    <3>1. chain[g] \in Chains /\ (r \in Clusters => call.c \notin Range(chain[g]))
      BY <2>3
    <3> HIDE DEF r, v
    <3>2. CASE volume' = v
      BY <2>1, <3>1, <3>2, StillQuiet DEF r
    <3>3. CASE volume' = Poke(v, call.c % SS, 0)
      <4>1. v \in Volumes /\ call.c % SS \in Units
        BY <1>4, <2>1, EntryAt DEF VolumeOK
      <4>2. volume'.wflag /\ volume'.disk = v.disk
        BY <3>3, <4>1, PokeFlag
      <4>3. View(volume') = View(Poke(v, call.c % SS, 0)) /\ 0 \in {0, LastLink} \cup Clusters
        BY <3>3
      <4>4. QED
        BY <1>4, <2>1, <3>1, <4>2, <4>3, EntryQuiet DEF r
    <3>4. QED
      BY <1>7, <3>2, <3>3
  <2>5. \/ UNCHANGED <<handle, sure>> /\ call'.at \in Opening /\ call'.f = call.f /\ call'.op = call.op
        \/ Failed(Closed)
    BY <1>2, <1>7 DEF GotoWith, Calls, Opening
  <2>6. QED
    BY <1>1, <1>3, <1>4, <2>4, <2>5, CreateStep
<1>8. QED
  BY <1>6, <1>7 DEF RemoveChain

\* The end of f_open.
LEMMA OpenedData ==
  ASSUME FatInv, DataInv, Opened
  PROVE  DataInv'
<1> DEFINE f == call.f
           V == View(volume)
           file == [Closed EXCEPT !.mode = call.op, !.written = (call.op = "create"),
                      !.org = volume.win[ClustAt(f)], !.size = volume.win[SizeAt(f)]]
<1>1. /\ call.at = "opened" /\ volume.winsect = DirSector(f)
      /\ Done(file) /\ sure' = [sure EXCEPT ![f] = TRUE]
      /\ volume' = volume /\ held' = held /\ misread' = misread
  BY DEF FatInv, Opened, WindowAt
<1>2. /\ VolumeOK(volume) /\ call \in Calls /\ f \in Files /\ OpenOK(V, fp, call) /\ CallTrue
      /\ handle \in [Files -> FILs] /\ sure \in [Files -> BOOLEAN] /\ ~misread
      /\ held \in [Files -> Seq(Nat)]
  BY DataContext
<1>3. PICK chain \in [Files -> Chains] : Links(V, handle, call, chain)
  BY DEF FatInv, Linked
<1>4. /\ call.op \in {"create", "update", "read"} /\ fp.mode = "closed"
      /\ call.op = "create" => StartOf(V, f) = 0
      /\ IF call.op = "create" THEN ~sure[f] /\ held[f] = <<>> ELSE sure[f]
  BY <1>1, <1>2 DEF OpenOK, Opening, CallTrue
<1>5. volume.win[ClustAt(f)] = StartOf(V, f) /\ volume.win[SizeAt(f)] = SizeOf(V, f)
  BY <1>1, <1>2, DirAt, WindowShows DEF StartOf, SizeOf
<1>6. /\ file.mode = call.op /\ file.written = (call.op = "create") /\ file.error = FALSE
      /\ file.org = StartOf(V, f) /\ file.size = SizeOf(V, f) /\ file.ptr = 0
  BY <1>5 DEF Closed
<1>7. SizeOf(V, f) \in Nat /\ (SizeOf(V, f) > 0 => StartOf(V, f) \in Clusters)
  BY <1>2, <1>3 DEF Links, FsOK, DirOK
<1> HIDE DEF file, V
<1>8. /\ call' = Idle /\ call'.at = "idle" /\ handle' = [handle EXCEPT ![f] = file]
      /\ CallTrue' /\ handle'[f] = file /\ View(volume') = V
  BY <1>1, <1>2, IdleTrue DEF Done, Idle, V
<1>9. /\ sure'[f] /\ \A g \in Files \ {f} : sure'[g] = sure[g] /\ handle'[g] = handle[g]
  BY <1>1, <1>2, <1>8
<1>10. 0 % SS = 0 /\ 0 \notin Clusters
  BY DivModUnique DEF Clusters
<1>11. Root(V, handle', call', f) = StartOf(V, f) /\ Root(V, handle, call, f) = StartOf(V, f)
  BY <1>1, <1>4, <1>6, <1>8 DEF Root, WritesOn, fp
<1>12. ~Putting(call', f) /\ ~Filling(call', f) /\ ~(call'.f = f /\ call'.at \in InSector)
  BY <1>8 DEF Putting, Filling, Transferring, InSector
<1>13. Holding(volume', handle', call', f, held'[f])
  <2>1. CASE call.op = "create"
    <3>1. SizeOf(V, f) = 0
      BY <1>4, <1>7, <1>10, <2>1
    <3>2. held'[f] = <<>> /\ Len(held'[f]) = 0
      BY <1>1, <1>4, <2>1
    <3>3. Extent(V, file, call', f, held'[f])
      BY <1>6, <2>1, <3>1, <3>2 DEF Extent
    <3>4. ~Settled(file, call', f)
      BY <1>6, <2>1 DEF Settled, WritesOn
    <3>5. ASSUME NEW ch \in Chains, IsChain(V, 0, ch)
          PROVE  FALSE
      BY <1>10, <3>5, ChainType DEF IsChain
    <3>6. FileTrue(volume', file, call', f, 0, held'[f])
      BY <1>8, <1>12, <3>2, <3>3, <3>4, <3>5 DEF FileTrue
    <3>7. QED
      BY <1>4, <1>8, <1>11, <2>1, <3>6 DEF Holding
  <2>2. CASE call.op # "create"
    <3> DEFINE r == StartOf(V, f)
    <3>1. FileTrue(volume, fp, call, f, r, held[f])
      BY <1>2, <1>4, <1>11, <2>2 DEF DataInv, Holding, V, fp
    <3>2. Len(held[f]) = SizeOf(V, f)
      BY <1>4, <3>1 DEF FileTrue, Extent, V
    <3>3. Extent(V, file, call', f, held[f])
      BY <1>6, <1>7, <3>2 DEF Extent
    <3>4. Settled(fp, call, f)
      BY <1>4 DEF Settled, WritesOn
    <3>5. ASSUME NEW ch \in Chains, r \in Clusters
          PROVE  Position(file, call', f, ch)
      BY <1>6, <1>8, <1>10, <1>12 DEF Position
    <3>6. chain[f] \in Chains /\ (r \in Clusters => IsChain(V, r, chain[f]))
      BY <1>2, <1>3, <1>11, RootChain
    <3>7. Quiet(volume, volume', f, r, chain[f])
      BY <1>1, <3>6, StillSame, StillQuiet
    <3> HIDE DEF r
    <3>8. FileTrue(volume', file, call', f, r, held[f])
      BY <1>2, <1>8, <1>12, <3>1, <3>3, <3>4, <3>5, <3>6, <3>7, FileCarried DEF V
    <3>9. QED
      BY <1>1, <1>8, <1>11, <3>8 DEF Holding, r
  <2>3. QED
    BY <2>1, <2>2
<1>14. \A g \in Files \ {f} : /\ handle'[g] = handle[g] /\ held'[g] = held[g] /\ sure'[g] = sure[g]
                              /\ Quiet(volume, volume', g, Root(View(volume), handle, call, g), chain[g])
  BY <1>1, <1>9, StillSame, StillQuiet
<1>15. QED
  BY <1>1, <1>2, <1>3, <1>8, <1>13, <1>14, DataStep DEF V

-----------------------------------------------------------------------------
(***************************************************************************)
(* f_read and f_write.                                                     *)
(***************************************************************************)
LEMMA TransferFacts ==
  ASSUME FatInv, DataInv, call.at \in Transferring,
         NEW chain \in [Files -> Chains], Links(View(volume), handle, call, chain),
         NEW r, r = Root(View(volume), handle, call, call.f)
  PROVE  /\ sure[call.f] /\ Single(call.n) /\ ~fp.error /\ fp.mode # "closed" /\ call.op \in {"get", "put"}
         /\ FileTrue(volume, fp, call, call.f, r, held[call.f])
         /\ held[call.f] \in Seq(Nat) /\ Len(held[call.f]) \in Nat /\ fp.ptr \in Nat /\ fp.size \in Nat
         /\ fp.ptr <= Len(held[call.f])
         /\ Len(held[call.f]) = IF fp.ptr > fp.size THEN fp.ptr ELSE fp.size
         /\ held[call.f] # <<>> => r \in Clusters
         /\ fp.ptr > 0 => r \in Clusters
         /\ r = fp.org /\ (call.op = "put" => WritesOn(fp))
         /\ call.op = "get" =>
              fp.ptr <= fp.size /\ fp.ptr + call.n <= fp.size /\ Len(held[call.f]) = fp.size
         /\ r \in Clusters =>
              /\ IsChain(View(volume), r, chain[call.f]) /\ chain[call.f][1] = r
              /\ Contents(View(volume), chain[call.f], held[call.f])
              /\ Shown(volume, chain[call.f]) /\ Position(fp, call, call.f, chain[call.f])
              /\ fp.ptr <= Len(chain[call.f]) * SSC
         /\ call.at \in InSector => r \in Clusters
         /\ FileOK(fp, call, call.f, chain[call.f])
<1> DEFINE f == call.f
           ch == chain[call.f]
           V == View(volume)
           data == held[call.f]
<1>1. /\ call \in Calls /\ handle \in [Files -> FILs] /\ f \in Files /\ fp \in FILs /\ CallTrue
      /\ TransferOK(fp, call) /\ data \in Seq(Nat) /\ ch \in Chains
  BY DataContext
<1>2. sure[f] /\ Single(call.n)
  BY <1>1 DEF CallTrue
<1>3. /\ ~fp.error /\ fp.mode # "closed" /\ call.op \in {"get", "put"}
      /\ call.op = "put" => WritesOn(fp)
      /\ call.op = "get" => fp.mode \in {"read", "update"} /\ fp.ptr + call.n <= fp.size
  BY <1>1 DEF TransferOK, WritesOn
<1>4. FileTrue(volume, fp, call, f, r, data)
  BY <1>1, <1>2 DEF DataInv, Holding, fp
<1>5. /\ fp.ptr \in Nat /\ fp.size \in Nat /\ call.n \in Nat /\ Len(data) \in Nat
  BY <1>1 DEF FILs, Calls
<1>6. Len(data) = IF fp.ptr > fp.size THEN fp.ptr ELSE fp.size
  BY <1>3, <1>4 DEF FileTrue, Extent
<1>7. fp.ptr <= Len(data) /\ (call.op = "get" => fp.ptr <= fp.size /\ Len(data) = fp.size)
  BY <1>3, <1>5, <1>6
<1>8. /\ data # <<>> => r \in Clusters
      /\ call.at \in InSector => r \in Clusters
  BY <1>4 DEF FileTrue
<1>9. fp.ptr > 0 => r \in Clusters
  <2>1. ASSUME fp.ptr > 0
        PROVE  data # <<>>
    <3>1. Len(data) # 0
      BY <1>5, <1>7, <2>1
    <3>2. QED
      BY <3>1
  <2>2. QED
    BY <1>8, <2>1
<1>10. call.op = "put" => r = fp.org
  BY <1>3 DEF Root, fp
<1>11. FileOK(fp, call, f, ch)
  BY <1>1 DEF Links, fp
<1>12. call.op = "get" => r = fp.org
  <2>1. CASE WritesOn(fp)
    BY <2>1 DEF Root, fp
  <2>2. CASE ~WritesOn(fp) /\ call.op = "get"
    <3>1. ~fp.written /\ ~Putting(call, f)
      BY <1>11, <2>2 DEF FileOK, Putting
    <3>2. fp.org = StartOf(V, f)
      BY <1>3, <1>4, <3>1 DEF FileTrue, Extent
    <3>3. r = StartOf(V, f)
      BY <2>2 DEF Root, fp, Transferring
    <3>4. QED
      BY <3>2, <3>3
  <2>3. QED
    BY <2>1, <2>2
<1>13. ASSUME r \in Clusters
       PROVE  /\ IsChain(V, r, ch) /\ ch[1] = r /\ Contents(V, ch, data)
              /\ Shown(volume, ch) /\ Position(fp, call, f, ch) /\ fp.ptr <= Len(ch) * SSC
  <2>1. IsChain(V, r, ch) /\ ch[1] = r
    BY <1>1, <1>13, RootChain DEF IsChain
  <2>2. Contents(V, ch, data) /\ Shown(volume, ch) /\ Position(fp, call, f, ch)
    BY <1>1, <1>4, <2>1 DEF FileTrue
  <2>3. Len(data) <= Len(ch) * SSC /\ Len(ch) * SSC \in Nat
    BY <1>1, <2>2, Room DEF Contents
  <2>4. fp.ptr <= Len(ch) * SSC
    BY <1>5, <1>7, <2>3
  <2>5. QED
    BY <2>1, <2>2, <2>4
<1>14. QED
  BY <1>1, <1>2, <1>3, <1>4, <1>5, <1>6, <1>7, <1>8, <1>9, <1>10, <1>11, <1>12, <1>13

\* A step of a transfer that stores nothing in the file.
LEMMA Moves ==
  ASSUME FatInv, DataInv, call.at \in Transferring,
         NEW chain \in [Files -> Chains], Links(View(volume), handle, call, chain),
         \A g \in Files : Quiet(volume, volume', g, Root(View(volume), handle, call, g), chain[g]),
         NEW file \in FILs, handle' = [handle EXCEPT ![call.f] = file],
         file.mode = fp.mode, file.org = fp.org, file.size = fp.size, file.written = fp.written,
         file.ptr = fp.ptr \/ (call.op = "get" /\ file.ptr <= fp.size),
         call'.at \in Transferring, call'.f = call.f, call'.op = call.op, Single(call'.n),
         UNCHANGED <<held, sure>>, ~misread',
         Pending(file, call') => volume'.winsect \in Meta,
         call'.at \in {"find", "link", "join"} => file.ptr % SSC = 0,
         call'.at = "edge" => file.ptr >= file.size,
         call'.at \in InSector => Root(View(volume), handle, call, call.f) \in Clusters,
         Root(View(volume), handle, call, call.f) \in Clusters => Position(file, call', call.f, chain[call.f])
  PROVE  DataInv'
<1> DEFINE f == call.f
           r == Root(View(volume), handle, call, f)
<1>1. /\ call \in Calls /\ handle \in [Files -> FILs] /\ f \in Files /\ chain[f] \in Chains
  BY DataContext
<1>2. /\ sure[f] /\ FileTrue(volume, fp, call, f, r, held[f]) /\ held[f] \in Seq(Nat)
      /\ Extent(View(volume), fp, call, f, held[f]) /\ fp.mode # "closed" /\ fp.size \in Nat
      /\ (call.op = "get" => fp.ptr <= fp.size)
  BY TransferFacts DEF FileTrue
<1>3. /\ handle'[f] = file /\ \A g \in Files \ {f} : handle'[g] = handle[g]
      /\ fp' = file
  BY <1>1 DEF fp
<1>4. CallTrue'
  BY <1>2, <1>3 DEF CallTrue, Opening, Transferring
<1>5. Quiet(volume, volume', f, r, chain[f])
  BY <1>1
<1>6. Root(View(volume'), handle', call', f) = r
  BY <1>3, <1>5 DEF Root, WritesOn, Transferring, Quiet, SameRecord, fp
<1>7. Extent(View(volume'), file, call', f, held[f])
  <2>1. SameRecord(View(volume), View(volume'), f)
    BY <1>5 DEF Quiet
  <2>2. Putting(call', f) <=> call.op = "put"
    BY DEF Putting
  <2>3. Putting(call, f) <=> call.op = "put"
    BY DEF Putting
  <2>4. CASE file.ptr = fp.ptr
    BY <1>2, <2>1, <2>2, <2>3, <2>4 DEF Extent, SameRecord
  <2>5. CASE call.op = "get" /\ file.ptr <= fp.size
    <3>1. Len(held[f]) = fp.size
      BY <1>2, <2>5, TransferFacts
    <3>2. fp.ptr \in Nat /\ file.ptr \in Nat
      BY <2>5, TransferFacts DEF FILs
    <3>3. QED
      BY <1>2, <2>1, <2>2, <2>3, <2>5, <3>1, <3>2 DEF Extent, SameRecord
  <2>6. QED
    BY <2>4, <2>5
<1>8. Settled(file, call', f) => Settled(fp, call, f)
  BY DEF Settled, WritesOn, Putting, Transferring
<1>9. r \in Clusters => IsChain(View(volume), r, chain[f])
  BY <1>1, RootChain
<1> HIDE DEF r
<1>10. FileTrue(volume', file, call', f, r, held[f])
  BY <1>1, <1>2, <1>5, <1>7, <1>8, <1>9, FileCarried DEF r
<1>11. Holding(volume', handle', call', f, held'[f])
  BY <1>3, <1>6, <1>10 DEF Holding, r
<1>12. QED
  BY <1>1, <1>3, <1>4, <1>11, DataStep

\* One that does not touch the FIL, nor what the calls see.
LEMMA Goes ==
  ASSUME FatInv, DataInv, call.at \in Transferring,
         NEW chain \in [Files -> Chains], Links(View(volume), handle, call, chain),
         Still(volume, volume'), UNCHANGED <<handle, held, sure, misread>>,
         call'.at \in Transferring, call'.f = call.f, call'.op = call.op, Single(call'.n),
         Pending(fp, call') => volume'.winsect \in Meta,
         call'.at \in {"find", "link", "join"} => fp.ptr % SSC = 0,
         call'.at = "edge" => fp.ptr >= fp.size,
         call'.at \in InSector => Root(View(volume), handle, call, call.f) \in Clusters,
         Root(View(volume), handle, call, call.f) \in Clusters => Position(fp, call', call.f, chain[call.f])
  PROVE  DataInv'
<1>1. /\ handle \in [Files -> FILs] /\ fp \in FILs /\ ~misread /\ call.f \in Files
  BY DataContext
<1>2. handle' = [handle EXCEPT ![call.f] = fp] /\ ~misread'
  BY <1>1 DEF fp
<1>3. \A g \in Files : Quiet(volume, volume', g, Root(View(volume), handle, call, g), chain[g])
  BY StillQuiet
<1>4. QED
  BY <1>1, <1>2, <1>3, Moves

\* A chain that a file pointer is within.
LEMMA NotAtEnd ==
  ASSUME NEW ch \in Chains, NEW p \in Nat, p <= Len(ch) * SSC, p % SSC # 0
  PROVE  p < Len(ch) * SSC /\ p > 0
<1>1. PICK room \in Nat : room = Len(ch) * SSC
  BY Room
<1>2. room % SSC = 0 /\ 0 % SSC = 0
  BY <1>1, Multiple, ChainType, DivModUnique, Room
<1>3. p # room /\ p # 0
  BY <1>2
<1>4. QED
  BY <1>1, <1>3

LEMMA ZeroMod ==
  /\ 0 % SS = 0 /\ 0 % SSC = 0 /\ 0 \div SSC = 0
<1>1. SS \in Nat \ {0} /\ SSC \in Nat \ {0}
  BY DEF SSC
<1>2. 0 \in 0..SS - 1 /\ 0 \in 0..SSC - 1 /\ 0 = SS * 0 + 0 /\ 0 = SSC * 0 + 0
  BY <1>1
<1>3. QED
  BY <1>1, <1>2, DivModUnique

LEMMA IterateData ==
  ASSUME FatInv, DataInv, Iterate
  PROVE  DataInv'
<1> DEFINE f == call.f
           r == Root(View(volume), handle, call, f)
<1>1. /\ call.at = "loop" /\ call.at \in Transferring /\ call.n > 0
      /\ UNCHANGED <<volume, handle, held, sure, misread>>
  BY DEF Iterate, Transferring
<1>2. /\ call \in Calls /\ fp \in FILs /\ f \in Files
  BY DataContext
<1>3. PICK chain \in [Files -> Chains] : Links(View(volume), handle, call, chain)
  BY DEF FatInv, Linked
<1> DEFINE ch == chain[f]
<1>4. /\ Single(call.n) /\ ~fp.error /\ call.op \in {"get", "put"} /\ fp.ptr \in Nat /\ r = fp.org
      /\ (fp.ptr > 0 => r \in Clusters) /\ fp.mode # "closed"
      /\ r \in Clusters => ch[1] = r /\ Position(fp, call, f, ch) /\ fp.ptr <= Len(ch) * SSC
  BY <1>1, <1>3, TransferFacts
<1>5. ch \in Chains
  BY <1>2
<1> HIDE DEF r, ch
<1>6. r \in Clusters =>
        /\ fp.ptr > 0 => fp.cur = ch[(fp.ptr - 1) \div SSC + 1]
        /\ fp.ptr % SS # 0 => fp.dsect = SectorAt(ch, fp.ptr)
  BY <1>1, <1>4 DEF Position, Filling, InSector
<1>7. Still(volume, volume')
  BY <1>1, StillSame
<1>8. ASSUME call'.at \in Transferring, call'.f = f, call'.op = call.op, call'.n = call.n,
             Pending(fp, call') => volume'.winsect \in Meta,
             call'.at \in {"find", "link", "join"} => fp.ptr % SSC = 0,
             call'.at # "edge",
             call'.at \in InSector => r \in Clusters,
             r \in Clusters => Position(fp, call', f, ch)
      PROVE  DataInv'
  BY <1>1, <1>3, <1>4, <1>7, <1>8, Goes DEF r, ch
<1>9. ASSUME NEW at \in {"part", "sector"}, Goto(at), fp.ptr % SSC # 0, at = "part" => fp.ptr % SS # 0
      PROVE  DataInv'
  <2>1. /\ call'.at = at /\ call'.f = f /\ call'.op = call.op /\ call'.n = call.n /\ call'.at \in InSector
    BY <1>2, <1>9, GotoFact DEF Transferring, InSector
  <2>2. fp.ptr > 0
    <3>1. fp.ptr # 0
      BY <1>9, ZeroMod
    <3>2. QED
      BY <1>4, <3>1
  <2>3. r \in Clusters
    BY <1>4, <2>2
  <2>4. fp.ptr < Len(ch) * SSC
    BY <1>4, <1>5, <1>9, <2>3, NotAtEnd
  <2>5. (fp.ptr - 1) \div SSC = fp.ptr \div SSC
    BY <1>4, <1>9, <2>2, UnitBefore
  <2>6. fp.cur = ch[fp.ptr \div SSC + 1]
    BY <1>6, <2>2, <2>3, <2>5
  <2>7. Filling(call', f) /\ call'.at # "join" /\ (call'.at = "part" => fp.ptr % SS # 0)
    BY <1>9, <2>1 DEF Filling, InSector
  <2>8. Position(fp, call', f, ch)
    BY <1>6, <2>3, <2>4, <2>6, <2>7, Zenon DEF Position
  <2>9. ~Pending(fp, call')
    BY <1>9, <2>1 DEF Pending
  <2>10. call'.at \in Transferring /\ call'.at \notin {"find", "link", "join", "edge"}
    BY <1>9, <2>1 DEF Transferring
  <2>11. QED
    BY <1>8, <2>1, <2>3, <2>8, <2>9, <2>10, Zenon
<1>10. CASE fp.ptr % SS # 0 /\ Goto("part")
  <2>1. fp.ptr % SSC # 0
    BY <1>4, <1>10, ClusterStart
  <2>2. QED
    BY <1>9, <1>10, <2>1
<1>11. CASE fp.ptr % SS = 0 /\ ~OnCluster /\ Goto("sector")
  BY <1>9, <1>11 DEF OnCluster, SSC
<1>12. CASE OnCluster /\ fp.ptr # 0 /\ Goto("next")
  <2>1. /\ call'.at = "next" /\ call'.f = f /\ call'.op = call.op /\ call'.n = call.n
    BY <1>2, <1>12, GotoFact DEF Transferring
  <2>2. ~Filling(call', f) /\ ~Pending(fp, call')
    BY <2>1 DEF Filling, InSector, Pending
  <2>3. r \in Clusters => Position(fp, call', f, ch)
    BY <1>6, <2>1, <2>2 DEF Position
  <2>4. QED
    BY <1>8, <2>1, <2>2, <2>3 DEF Transferring, InSector
<1>13. CASE fp.ptr = 0 /\ (fp.org # 0 \/ call.op = "get") /\ GotoWith("join", fp.org)
  <2>1. fp.org \in Nat
    BY <1>2, Layout DEF FILs, DiskErr, Clusters
  <2>2. /\ call'.at = "join" /\ call'.f = f /\ call'.op = call.op /\ call'.n = call.n /\ call'.c = fp.org
    BY <1>2, <1>13, <2>1, GotoWithFact DEF Transferring
  <2>3. ~Filling(call', f) /\ ~Pending(fp, call')
    BY <2>2, NoCluster DEF Filling, InSector, Pending
  <2>4. r \in Clusters => Position(fp, call', f, ch)
    <3>1. 0 < Len(ch) * SSC /\ 0 \div SSC + 1 = 1
      BY <1>5, Room, ZeroMod
    <3>2. QED
      BY <1>4, <1>6, <1>13, <2>2, <2>3, <3>1 DEF Position
  <2>5. fp.ptr % SSC = 0
    BY <1>13, ZeroMod
  <2>6. QED
    BY <1>8, <2>2, <2>3, <2>4, <2>5 DEF Transferring, InSector
<1>14. CASE fp.ptr = 0 /\ call' = [call EXCEPT !.at = "find", !.c = Suggested, !.scl = Suggested]
  <2>1. /\ call'.at = "find" /\ call'.f = f /\ call'.op = call.op /\ call'.n = call.n
    BY <1>2, <1>14 DEF Calls
  <2>2. ~Filling(call', f) /\ ~Pending(fp, call')
    BY <2>1 DEF Filling, InSector, Pending
  <2>3. r \in Clusters => Position(fp, call', f, ch)
    BY <1>6, <2>1, <2>2 DEF Position
  <2>4. fp.ptr % SSC = 0
    BY <1>14, ZeroMod
  <2>5. QED
    BY <1>8, <2>1, <2>2, <2>3, <2>4 DEF Transferring, InSector
<1>15. QED
  BY <1>10, <1>11, <1>12, <1>13, <1>14 DEF Iterate

\* The file pointer is at the beginning of a cluster, and not of the first.
LEMMA NextCluster ==
  ASSUME NEW V, NEW c, NEW ch \in Chains, IsChain(V, c, ch), NEW p \in Nat, p > 0, p % SSC = 0,
         p <= Len(ch) * SSC, NEW cur, cur = ch[(p - 1) \div SSC + 1], Entry(V, cur) \in Clusters
  PROVE  p < Len(ch) * SSC /\ Entry(V, cur) = ch[p \div SSC + 1]
<1>1. PICK k \in Nat : k = p \div SSC
  BY SectorOfUnit, Zenon
<1>2. (p - 1) \div SSC + 1 = k
  BY <1>1, UnitBefore
<1>3. p = SSC * k
  <2>1. SSC \in Nat \ {0}
    BY DEF SSC
  <2>2. p = SSC * k + 0
    BY <1>1, <2>1, DivMod
  <2>3. QED
    BY <2>1, <2>2
<1>4. k \in 1..Len(ch)
  <2>1. PICK room \in Nat : room = Len(ch) * SSC
    BY Room
  <2>2. p - 1 \in Nat /\ p - 1 < Len(ch) * SSC
    BY <2>1
  <2>3. QED
    BY <1>2, <2>2, UnitAt
<1>5. cur = ch[k] /\ k \in DOMAIN ch
  BY <1>2, <1>4, ChainType
<1>6. Entry(V, cur) = IF k < Len(ch) THEN ch[k + 1] ELSE LastLink
  BY <1>5 DEF IsChain
<1>7. k < Len(ch) /\ Entry(V, cur) = ch[k + 1]
  BY <1>6, NoCluster
<1>8. SSC * k < Len(ch) * SSC
  <2>1. SSC \in Nat \ {0} /\ Len(ch) \in Nat
    BY ChainType DEF SSC
  <2>2. k + 1 <= Len(ch)
    BY <1>7, <2>1
  <2>3. SSC * (k + 1) <= SSC * Len(ch)
    BY <2>1, <2>2
  <2>4. SSC * (k + 1) = SSC * k + SSC /\ SSC * Len(ch) = Len(ch) * SSC
    BY <2>1
  <2>5. SSC * k \in Nat /\ SSC * Len(ch) \in Nat
    BY <2>1
  <2>6. QED
    BY <2>1, <2>3, <2>4, <2>5
<1>9. QED
  BY <1>1, <1>3, <1>7, <1>8

LEMMA AdvanceData ==
  ASSUME "torn" \notin Kinds, UpdateSize <= SSC, FatInv, DataInv, Advance
  PROVE  DataInv'
<1> DEFINE f == call.f
           r == Root(View(volume), handle, call, f)
<1>1. /\ call.at = "next" /\ call.at \in Transferring
      /\ UNCHANGED <<handle, held, sure, misread>>
  BY DEF Advance, Transferring
<1>2. /\ call \in Calls /\ fp \in FILs /\ f \in Files /\ VolumeOK(volume) /\ Good(View(volume))
      /\ handle \in [Files -> FILs] /\ TransferOK(fp, call)
  BY DataContext
<1>3. PICK chain \in [Files -> Chains] : Links(View(volume), handle, call, chain)
  BY DEF FatInv, Linked
<1> DEFINE ch == chain[f]
<1>4. fp.ptr > 0 /\ fp.ptr % SSC = 0 /\ call.n > 0
  BY <1>1, <1>2 DEF TransferOK, Transferring
<1>5. /\ Single(call.n) /\ ~fp.error /\ fp.mode # "closed" /\ call.op \in {"get", "put"} /\ fp.ptr \in Nat
      /\ r \in Clusters /\ FileOK(fp, call, f, ch)
      /\ IsChain(View(volume), r, ch) /\ Position(fp, call, f, ch) /\ fp.ptr <= Len(ch) * SSC
  BY <1>1, <1>3, <1>4, TransferFacts
<1>6. ch \in Chains /\ fp.cur \in Clusters
  BY <1>2, <1>4, <1>5 DEF FileOK
<1>7. call.op = "put" => Entry(View(volume), fp.cur) = LastLink
  BY <1>1, <1>2, <1>3, AtEnd DEF fp
<1> HIDE DEF r, ch
<1>8. /\ fp.cur = ch[(fp.ptr - 1) \div SSC + 1]
      /\ fp.ptr % SS = 0
  BY <1>1, <1>4, <1>5, ClusterStart DEF Position, Filling, InSector
<1>9. ASSUME Still(volume, volume'), NEW cs \in {0, LastLink} \cup Clusters \cup {DiskErr}, Answered(cs),
             cs \in {Entry(View(volume), fp.cur), DiskErr}
      PROVE  DataInv'
  <2>1. /\ call'.at \in {"join", "find"} /\ call'.f = f /\ call'.op = call.op /\ call'.n = call.n
        /\ call'.at = "join" /\ call'.c \in Clusters => call'.c = Entry(View(volume), fp.cur)
    <3>1. CASE call.op = "get"
      <4>1. GotoWith("join", cs) /\ cs \in Nat
        BY <1>9, <3>1, Layout DEF Answered, LastLink, DiskErr, Clusters
      <4>2. /\ call'.f = call.f /\ call'.op = call.op /\ call'.n = call.n
            /\ call'.at = "join" /\ call'.c = cs
        BY <1>2, <4>1, GotoWithFact DEF Transferring
      <4>3. QED
        BY <1>9, <4>2, NoCluster
    <3>2. CASE call.op = "put"
      <4>1. cs >= n_fatent /\ ~(cs < n_fatent)
        BY <1>7, <1>9, <3>2, Layout DEF LastLink, DiskErr
      <4>2. call' = [call EXCEPT !.at = "find", !.c = fp.cur, !.scl = fp.cur]
        BY <1>9, <3>2, <4>1 DEF Answered
      <4>3. QED
        BY <1>2, <4>2 DEF Calls
    <3>3. QED
      BY <1>5, <3>1, <3>2
  <2>2. ~Filling(call', f) /\ ~Pending(fp, call') /\ call'.at \in Transferring /\ call'.at # "part"
    BY <1>4, <2>1 DEF Filling, InSector, Pending, Transferring
  <2>3. ASSUME call'.at = "join", call'.c \in Clusters
        PROVE  fp.ptr < Len(ch) * SSC /\ call'.c = ch[fp.ptr \div SSC + 1]
    BY <1>4, <1>5, <1>6, <1>8, <2>1, <2>3, NextCluster
  <2>4. Position(fp, call', f, ch)
    BY <1>8, <2>2, <2>3, Zenon DEF Position
  <2>5. call'.at \notin InSector /\ call'.at # "edge"
    BY <2>1 DEF InSector
  <2>6. QED
    BY <1>1, <1>3, <1>4, <1>5, <1>9, <2>1, <2>2, <2>4, <2>5, Goes DEF r, ch
<1>10. CASE volume' = Moved(volume, FatSector(fp.cur)) /\ Answered(volume'.win[fp.cur % SS])
  <2>1. /\ volume'.win[fp.cur % SS] = Entry(View(volume), fp.cur)
        /\ volume'.win[fp.cur % SS] \in {0, LastLink} \cup Clusters
    BY <1>2, <1>6, <1>10, EntrySeen
  <2>2. Still(volume, volume')
    BY <1>2, <1>6, <1>10, EntryAt, StillMoved
  <2>3. QED
    BY <1>9, <1>10, <2>1, <2>2
<1>11. CASE volume' \in Unmoved(volume, FatSector(fp.cur)) /\ Answered(DiskErr)
  <2>1. Still(volume, volume')
    BY <1>2, <1>6, <1>11, EntryAt, StillUnmoved
  <2>2. QED
    BY <1>9, <1>11, <2>1
<1>12. QED
  BY <1>10, <1>11 DEF Advance

LEMMA FindFreeData ==
  ASSUME "torn" \notin Kinds, FatInv, DataInv, FindFree
  PROVE  DataInv'
<1> DEFINE f == call.f
           V == View(volume)
           r == Root(V, handle, call, f)
           ncl == NextOf(call.c)
           v == Moved(volume, FatSector(ncl))
           cs == v.win[ncl % SS]
<1>1. /\ call.at = "find" /\ call.at \in Transferring
      /\ UNCHANGED <<handle, held, sure, misread>>
  BY DEF FindFree, Transferring
<1>2. /\ call \in Calls /\ fp \in FILs /\ f \in Files /\ VolumeOK(volume) /\ Good(V)
      /\ handle \in [Files -> FILs] /\ TransferOK(fp, call) /\ CallTrue /\ ~misread
  BY DataContext
<1>3. PICK chain \in [Files -> Chains] : Links(V, handle, call, chain)
  BY DEF FatInv, Linked
<1> DEFINE ch == chain[f]
<1>4. /\ Single(call.n) /\ ~fp.error /\ fp.mode # "closed" /\ fp.ptr \in Nat /\ r = fp.org
      /\ r \in Clusters => Position(fp, call, f, ch)
  BY <1>1, <1>3, TransferFacts
<1>5. fp.ptr % SSC = 0
  BY <1>1, <1>2 DEF CallTrue
<1>6. /\ call.c \in 1..n_fatent - 1
      /\ IF fp.ptr = 0 THEN fp.org = 0 ELSE fp.mode = "create"
  BY <1>1, <1>3 DEF Links, ChainOK, fp
<1>7. ncl \in Clusters /\ ncl \in Nat
  BY <1>6, Layout DEF NextOf, Clusters
<1>8. /\ VolumeOK(v) /\ View(v) = V /\ v.winsect = FatSector(ncl) /\ cs = Entry(V, ncl)
      /\ FatSector(ncl) \in Sectors \cup {0} /\ FatSector(ncl) \in Meta /\ Still(volume, v)
  BY <1>2, <1>7, EntryAt, EntrySeen, StillMoved
<1>9. call.op = "put"
  BY <1>1, <1>2 DEF TransferOK
<1> HIDE DEF r, ch, ncl, v, cs
<1>10. r \in Clusters => (fp.ptr > 0 => fp.cur = ch[(fp.ptr - 1) \div SSC + 1])
  BY <1>1, <1>4 DEF Position, Filling, InSector
<1>11. fp.ptr % SS = 0
  BY <1>4, <1>5, ClusterStart
<1>12. ASSUME call'.f = f, call'.at \in {"find", "link", "join"},
              call'.at = "join" /\ call'.c \in Clusters => r \notin Clusters
       PROVE  r \in Clusters => Position(fp, call', f, ch)
  BY <1>10, <1>11, <1>12 DEF Position, Filling, InSector
<1>13. ASSUME NEW at \in {"find", "link", "join"}, NEW c \in Nat, GotoWith(at, c)
       PROVE  /\ call'.at = at /\ call'.f = f /\ call'.op = call.op /\ call'.n = call.n /\ call'.c = c
              /\ call'.at \in Transferring /\ call'.at # "edge" /\ call'.at \notin InSector
  BY <1>2, <1>13, GotoWithFact DEF Transferring, InSector
<1>14. ASSUME Still(volume, volume'), NEW at \in {"find", "join"}, NEW c \in Nat, GotoWith(at, c),
              at = "join" => c \notin Clusters
       PROVE  DataInv'
  <2>1. /\ call'.at = at /\ call'.f = f /\ call'.op = call.op /\ call'.n = call.n /\ call'.c = c
        /\ call'.at \in Transferring /\ call'.at # "edge" /\ call'.at \notin InSector
    BY <1>13, <1>14
  <2>2. r \in Clusters => Position(fp, call', f, ch)
    BY <1>12, <1>14, <2>1
  <2>3. ~Pending(fp, call')
    BY <1>14, <2>1 DEF Pending
  <2>4. QED
    BY <1>1, <1>3, <1>4, <1>5, <1>14, <2>1, <2>2, <2>3, Goes DEF r, ch
<1>15. 0 \in Nat /\ 1 \in Nat /\ DiskErr \in Nat
  BY Layout DEF DiskErr
<1>16. CASE GotoWith("join", 0) /\ UNCHANGED volume
  BY <1>14, <1>15, <1>16, NoCluster, StillSame
<1>17. CASE /\ volume' = v
            /\ IF cs = 1 \/ ncl = call.scl THEN GotoWith("join", IF cs = 1 THEN 1 ELSE 0)
               ELSE GotoWith("find", ncl)
  <2>1. CASE GotoWith("find", ncl)
    BY <1>7, <1>8, <1>14, <1>17, <2>1
  <2>2. CASE GotoWith("join", IF cs = 1 THEN 1 ELSE 0)
    <3>1. PICK c \in {0, 1} : GotoWith("join", c)
      BY <2>2
    <3>2. c \in Nat /\ c \notin Clusters
      BY NoCluster
    <3>3. QED
      BY <1>8, <1>14, <1>17, <3>1, <3>2
  <2>3. QED
    BY <1>17, <2>1, <2>2
<1>18. CASE volume' \in Unmoved(volume, FatSector(ncl)) /\ GotoWith("join", DiskErr)
  <2>1. Still(volume, volume')
    BY <1>2, <1>8, <1>18, StillUnmoved
  <2>2. QED
    BY <1>14, <1>15, <1>18, <2>1, NoCluster
<1>19. ASSUME cs = 0,
              volume' = IF Stretches THEN Marked(v, ncl) ELSE [Marked(v, ncl) EXCEPT !.last = ncl],
              GotoWith(IF Stretches THEN "link" ELSE "join", ncl)
       PROVE  DataInv'
  <2> DEFINE m == Poke(v, ncl % SS, LastLink)
             at == IF Stretches THEN "link" ELSE "join"
  <2>1. /\ VolumeOK(m) /\ m.winsect = FatSector(ncl)
        /\ m.wflag /\ m.disk = v.disk
    <3>1. v \in Volumes /\ ncl % SS \in Units /\ LastLink \in {0, LastLink} \cup Clusters
      BY <1>7, <1>8, EntryAt DEF VolumeOK
    <3>2. m.wflag /\ m.disk = v.disk
      BY <3>1, PokeFlag
    <3>3. VolumeOK(m) /\ m.winsect = FatSector(ncl)
      BY <1>7, <1>8, <3>1, VolumeEntry, ZenonT(30)
    <3>4. QED
      BY <3>2, <3>3
  <2>2. View(m) = View(Poke(v, ncl % SS, LastLink))
    OBVIOUS
  <2>3. volume' = IF Stretches THEN m ELSE [m EXCEPT !.last = ncl]
    BY <1>19 DEF Marked
  <2> HIDE DEF m
  <2>4. /\ volume'.winsect = FatSector(ncl) /\ volume'.wflag /\ volume'.disk = v.disk
        /\ View(volume') = View(m)
    <3>1. CASE Stretches
      BY <2>1, <2>3, <3>1
    <3>2. CASE ~Stretches
      <4>1. volume' = [m EXCEPT !.last = ncl] /\ ncl \in 0..n_fatent
        BY <1>7, <2>3, <3>2, Layout DEF Clusters
      <4>2. View(volume') = View(m) /\ volume'.winsect = FatSector(ncl)
        BY <2>1, <4>1, VolumeLast
      <4>3. volume'.wflag = m.wflag /\ volume'.disk = m.disk
        BY <2>1, <4>1 DEF VolumeOK, Volumes
      <4>4. QED
        BY <2>1, <4>2, <4>3
    <3>3. QED
      BY <3>1, <3>2
  <2>5. /\ call'.at = at /\ call'.f = f /\ call'.op = call.op /\ call'.n = call.n /\ call'.c = ncl
        /\ call'.at \in Transferring /\ call'.at # "edge" /\ call'.at \notin InSector
        /\ call'.at \in {"find", "link", "join"}
    <3>1. at \in {"find", "link", "join"} /\ GotoWith(at, ncl)
      BY <1>19
    <3> HIDE DEF at
    <3>2. QED
      BY <1>7, <1>13, <3>1
  <2>6. call'.at = "join" => r \notin Clusters
    BY <1>4, <1>6, <2>5, NoCluster DEF Stretches
  <2>7. r \in Clusters => Position(fp, call', f, ch)
    BY <1>12, <2>5, <2>6
  <2>8. ASSUME NEW g \in Files
        PROVE  Quiet(volume, volume', g, Root(V, handle, call, g), chain[g])
    <3> DEFINE s == Root(V, handle, call, g)
    <3>1. s \in Clusters => ncl \notin Range(chain[g])
      <4>1. Entry(V, ncl) = 0 /\ chain[g] \in Chains
        BY <1>8, <1>19
      <4>2. s \in Clusters => IsChain(V, s, chain[g])
        BY <1>3, RootChain
      <4>3. QED
        BY <1>7, <4>1, <4>2, FreeNotIn
    <3> HIDE DEF s
    <3>2. /\ View(volume') = View(Poke(v, ncl % SS, LastLink)) /\ chain[g] \in Chains
          /\ LastLink \in {0, LastLink} \cup Clusters
      BY <2>2, <2>4
    <3>3. QED
      BY <1>7, <1>8, <2>4, <3>1, <3>2, EntryQuiet DEF s
  <2>9. Pending(fp, call') => volume'.winsect \in Meta
    BY <1>8, <2>4
  <2>10. handle' = [handle EXCEPT ![f] = fp] /\ ~misread'
    BY <1>1, <1>2 DEF fp
  <2>11. QED
    BY <1>1, <1>2, <1>3, <1>4, <1>5, <2>5, <2>7, <2>8, <2>9, <2>10, Moves DEF r, ch
<1>20. QED
  BY <1>16, <1>17, <1>18, <1>19 DEF FindFree, v, cs, ncl

LEMMA LinkData ==
  ASSUME "torn" \notin Kinds, FatInv, DataInv, Link
  PROVE  DataInv'
<1> DEFINE f == call.f
           V == View(volume)
           W == View(volume')
           r == Root(V, handle, call, f)
           c == call.c
           e == fp.cur
           v == Moved(volume, FatSector(e))
           data == held[f]
<1>1. /\ call.at = "link" /\ call.at \in Transferring /\ volume.winsect = FatSector(c)
      /\ UNCHANGED <<handle, held, sure, misread>>
  BY DEF Link, Transferring, FatInv, WindowAt
<1>2. /\ call \in Calls /\ fp \in FILs /\ f \in Files /\ VolumeOK(volume) /\ Good(V)
      /\ handle \in [Files -> FILs] /\ TransferOK(fp, call) /\ CallTrue /\ ~misread
  BY DataContext
<1>3. PICK chain \in [Files -> Chains] : Links(V, handle, call, chain)
  BY DEF FatInv, Linked
<1> DEFINE ch == chain[f]
<1>4. /\ sure[f] /\ Single(call.n) /\ ~fp.error /\ fp.mode # "closed" /\ fp.ptr \in Nat /\ r = fp.org
      /\ FileTrue(volume, fp, call, f, r, data) /\ data \in Seq(Nat) /\ FileOK(fp, call, f, ch)
      /\ Len(data) \in Nat /\ fp.ptr > 0 => r \in Clusters
      /\ r \in Clusters => /\ IsChain(V, r, ch) /\ Contents(V, ch, data)
                           /\ Position(fp, call, f, ch) /\ fp.ptr <= Len(ch) * SSC
  BY <1>1, <1>3, TransferFacts
<1>5. fp.ptr % SSC = 0 /\ call.op = "put"
  BY <1>1, <1>2 DEF CallTrue, TransferOK
<1>6. /\ fp.ptr > 0 /\ fp.mode = "create" /\ c \in Clusters
      /\ Entry(V, c) = LastLink /\ Unowned(Roots(V, handle, call), chain, c)
      /\ FsOK(V, Roots(V, handle, call), chain)
  BY <1>1, <1>3 DEF Links, ChainOK, fp
<1>7. r \in Clusters /\ ch \in Chains /\ Roots(V, handle, call)[f] = r
  BY <1>2, <1>4, <1>6 DEF Roots
<1> HIDE DEF r, ch, V, W, c, e, v, data
<1>8. e = EndOf(ch) /\ WritesOn(fp)
  <2>1. ~Joining(call, f) /\ fp.org \in Clusters
    BY <1>1, <1>4, <1>7 DEF Joining
  <2>2. QED
    BY <1>4, <1>6, <2>1 DEF FileOK, WritesOn, e
<1>9. e \in Clusters /\ e \in Range(ch)
  BY <1>4, <1>7, <1>8, EndSays
<1>10. /\ VolumeOK(v) /\ View(v) = V /\ v.winsect = FatSector(e) /\ Still(volume, v)
       /\ FatSector(e) \in Sectors \cup {0} /\ FatSector(c) \in Meta
  BY <1>2, <1>6, <1>9, EntryAt, EntrySeen, StillMoved DEF v, V
<1>11. /\ fp.cur = ch[(fp.ptr - 1) \div SSC + 1] /\ fp.ptr % SS = 0
  BY <1>1, <1>4, <1>5, <1>6, <1>7, ClusterStart DEF Position, Filling, InSector
<1>12. c \in Nat /\ DiskErr \in Nat
  BY <1>6, Layout DEF Clusters, DiskErr
<1>13. ASSUME NEW w \in Unmoved(volume, FatSector(e)), volume' = [w EXCEPT !.wflag = TRUE],
              GotoWith("join", DiskErr)
       PROVE  DataInv'
  <2>1. VolumeOK(w) /\ View(w) = V /\ w.winsect = volume.winsect /\ Still(volume, w)
    BY <1>2, <1>10, <1>13, VolumeUnmoved, StillUnmoved DEF V
  <2>2. View(volume') = V
    BY <1>1, <1>10, <1>13, <2>1, VolumeDirty
  <2>3. volume'.disk = w.disk /\ volume'.wflag
    BY <1>13, <2>1 DEF VolumeOK, Volumes
  <2>4. Still(volume, volume')
    BY <2>1, <2>2, <2>3 DEF Still, Shown, V
  <2>5. /\ call'.at = "join" /\ call'.f = f /\ call'.op = call.op /\ call'.n = call.n /\ call'.c = DiskErr
    BY <1>2, <1>12, <1>13, GotoWithFact DEF Transferring
  <2>6. ~Filling(call', f) /\ ~Pending(fp, call')
    BY <2>5, NoCluster DEF Filling, InSector, Pending
  <2>7. Position(fp, call', f, ch)
    BY <1>11, <2>5, <2>6, NoCluster DEF Position
  <2>8. QED
    BY <1>1, <1>3, <1>4, <1>5, <2>4, <2>5, <2>6, <2>7, Goes DEF Transferring, InSector, r, ch, V
<1>14. ASSUME volume' = [Poke(v, e % SS, c) EXCEPT !.last = c], Goto("join")
       PROVE  DataInv'
  <2> DEFINE m == Poke(v, e % SS, c)
             ich == Append(ch, c)
             ichain == [chain EXCEPT ![f] = ich]
  <2>1. v \in Volumes /\ e % SS \in Units /\ c \in {0, LastLink} \cup Clusters /\ WindowOn(v, Meta)
    BY <1>6, <1>9, <1>10, EntryAt DEF VolumeOK
  <2>2. /\ VolumeOK(m) /\ m.wflag /\ m.disk = v.disk
        /\ OnlyEntry(V, View(m), e) /\ Entry(View(m), e) = c
    <3>1. m.wflag /\ m.disk = v.disk
      BY <2>1, PokeFlag
    <3>2. VolumeOK(m) /\ OnlyEntry(V, View(m), e) /\ Entry(View(m), e) = c
      BY <1>9, <1>10, <2>1, VolumeEntry
    <3>3. QED
      BY <3>1, <3>2
  <2>3. \A s \in Data : View(m)[s] = V[s]
    BY <1>9, <1>10, <1>12, <2>1, EntryAt, PokeData
  <2>4. View(m) = View(Poke(v, e % SS, c))
    OBVIOUS
  <2> HIDE DEF m
  <2>5. volume'.wflag /\ volume'.disk = v.disk /\ W = View(m)
    <3>1. volume' = [m EXCEPT !.last = c] /\ c \in 0..n_fatent
      BY <1>6, <1>14, Layout DEF Clusters, m
    <3>2. View(volume') = View(m)
      BY <2>2, <3>1, VolumeLast
    <3>3. volume'.wflag = m.wflag /\ volume'.disk = m.disk
      BY <2>2, <3>1 DEF VolumeOK, Volumes
    <3>4. QED
      BY <2>2, <3>2, <3>3 DEF W
  <2>6. ASSUME NEW g \in Files \ {f}
        PROVE  Quiet(volume, volume', g, Root(V, handle, call, g), chain[g])
    <3> DEFINE s == Root(V, handle, call, g)
    <3>1. s \in Clusters => e \notin Range(chain[g])
      <4>1. s \in Clusters => Disjoint(ch, chain[g])
        BY <1>2, <1>6, <1>7 DEF FsOK, ChainsOK, Roots, ch
      <4>2. QED
        BY <1>9, <4>1 DEF Disjoint
    <3> HIDE DEF s
    <3>2. View(volume') = View(Poke(v, e % SS, c)) /\ chain[g] \in Chains
      BY <2>4, <2>5 DEF W
    <3>3. QED
      BY <1>9, <1>10, <2>1, <2>5, <3>1, <3>2, EntryQuiet DEF s
  <2>7. /\ call'.at = "join" /\ call'.f = f /\ call'.op = "put" /\ call'.n = call.n /\ call'.c = c
    BY <1>2, <1>5, <1>14, GotoFact DEF Transferring, c
  <2>8. c \notin Range(ch)
    BY <1>2, <1>6, <1>7 DEF Unowned, ch
  <2>9. /\ ich \in Chains /\ Len(ich) = Len(ch) + 1
        /\ \A i \in 1..Len(ch) : ich[i] = ch[i]
        /\ ich[Len(ch) + 1] = c
    BY <1>6, <1>7, <2>8, AppendIsChain
  <2>10. IsChain(W, r, ich)
    <3>1. FsOK(W, Roots(V, handle, call), ichain)
      BY <1>2, <1>6, <1>7, <1>8, <2>2, <2>5, FsLink DEF EndOf, ch
    <3>2. ichain[f] = ich
      BY <1>2
    <3>3. QED
      BY <1>2, <1>7, <3>1, <3>2 DEF FsOK, ChainsOK
  <2> HIDE DEF ich
  <2>11. PICK room \in Nat : room = Len(ch) * SSC /\ Len(ich) * SSC = room + SSC
    <3>1. Len(ch) \in Nat /\ SSC \in Nat
      BY <1>7, ChainType, Room
    <3>2. (Len(ch) + 1) * SSC = Len(ch) * SSC + SSC /\ Len(ch) * SSC \in Nat
      BY <3>1
    <3>3. QED
      BY <2>9, <3>2
  <2>12. SSC \in Nat \ {0} /\ fp.ptr <= room /\ Len(data) <= room
    BY <1>4, <1>7, <2>11, Room DEF Contents
  <2>13. fp.ptr < room + SSC /\ fp.ptr \div SSC = Len(ch)
    <3>1. (fp.ptr - 1) \div SSC + 1 = fp.ptr \div SSC
      BY <1>4, <1>5, <1>6, UnitBefore
    <3>2. fp.ptr - 1 \in Nat /\ fp.ptr - 1 < Len(ch) * SSC
      BY <1>4, <1>6, <2>11, <2>12
    <3>3. (fp.ptr - 1) \div SSC + 1 \in 1..Len(ch)
      BY <1>7, <3>2, UnitAt
    <3>4. ch[(fp.ptr - 1) \div SSC + 1] = ch[Len(ch)] /\ Len(ch) \in 1..Len(ch)
      BY <1>7, <1>8, <1>11, ChainType DEF EndOf, e
    <3>5. (fp.ptr - 1) \div SSC + 1 = Len(ch)
      BY <1>7, <3>3, <3>4, ChainType
    <3>6. fp.ptr < room + SSC
      BY <1>4, <2>12
    <3>7. QED
      BY <3>1, <3>5, <3>6
  <2>14. ASSUME NEW p \in 1..Len(data)
         PROVE  W[SectorAt(ich, p - 1)][(p - 1) % SS] = data[p]
    <3>1. PICK q \in Nat : q = p - 1 /\ q < Len(ch) * SSC
      BY <1>4, <2>11, <2>12
    <3>2. q \div SSC + 1 \in 1..Len(ch) /\ SectorAt(ch, q) \in Data
      BY <1>7, <3>1, UnitAt
    <3>3. SectorAt(ich, q) = SectorAt(ch, q)
      BY <2>9, <3>2 DEF SectorAt
    <3>4. W[SectorAt(ich, q)] = V[SectorAt(ch, q)]
      BY <2>3, <2>5, <3>2, <3>3
    <3>5. V[SectorAt(ch, q)][q % SS] = data[p]
      BY <1>4, <1>7, <3>1 DEF Contents
    <3>6. QED
      BY <3>1, <3>4, <3>5
  <2>15. Contents(W, ich, data)
    <3>1. Len(data) <= Len(ich) * SSC
      BY <1>4, <2>11, <2>12
    <3>2. QED
      BY <2>14, <3>1 DEF Contents
  <2>16. Position(fp, call', f, ich)
    <3>1. ~Filling(call', f) /\ call'.at # "part"
      BY <2>7 DEF Filling, InSector
    <3>2. (fp.ptr - 1) \div SSC + 1 \in 1..Len(ch)
      <4>1. fp.ptr - 1 \in Nat /\ fp.ptr - 1 < Len(ch) * SSC
        BY <1>4, <1>6, <2>11, <2>12
      <4>2. QED
        BY <1>7, <4>1, UnitAt
    <3>3. fp.cur = ich[(fp.ptr - 1) \div SSC + 1]
      BY <1>11, <2>9, <3>2
    <3>4. fp.ptr < Len(ich) * SSC
      BY <2>11, <2>13
    <3>5. c = ich[fp.ptr \div SSC + 1]
      BY <2>9, <2>13
    <3>6. QED
      BY <1>11, <2>7, <3>1, <3>3, <3>4, <3>5, Zenon DEF Position
  <2>17. ~Settled(fp, call', f) /\ Putting(call', f) /\ Putting(call, f)
    BY <1>1, <1>5, <1>8, <2>7 DEF Settled, Putting, Transferring
  <2>18. Extent(W, fp, call', f, data)
    BY <1>4, <2>17 DEF FileTrue, Extent
  <2>19. FileTrue(volume', fp, call', f, r, data)
    <3>1. ASSUME NEW d \in Chains, IsChain(W, r, d)
          PROVE  Contents(W, d, data) /\ Shown(volume', d) /\ Position(fp, call', f, d)
      <4>1. d = ich
        BY <2>9, <2>10, <3>1, ChainUnique
      <4>2. QED
        BY <2>5, <2>15, <2>16, <4>1 DEF Shown
    <3>2. QED
      BY <1>7, <2>17, <2>18, <3>1 DEF FileTrue, W
  <2>20. handle'[f] = fp /\ fp' = fp
    BY <1>1, <2>7 DEF fp
  <2>21. Root(W, handle', call', f) = r
    BY <1>4, <1>8, <2>20 DEF Root
  <2>22. CallTrue'
    BY <1>1, <1>4, <1>5, <1>6, <2>7, <2>20 DEF CallTrue, Pending, Opening, Transferring
  <2>23. Holding(volume', handle', call', f, held'[f])
    BY <1>1, <2>19, <2>20, <2>21 DEF Holding, W, data
  <2>24. \A g \in Files \ {f} : /\ handle'[g] = handle[g] /\ held'[g] = held[g] /\ sure'[g] = sure[g]
                                /\ Quiet(volume, volume', g, Root(View(volume), handle, call, g), chain[g])
    BY <1>1, <2>6 DEF V
  <2>25. QED
    BY <1>1, <1>2, <1>3, <2>7, <2>22, <2>23, <2>24, DataStep DEF V
<1>15. QED
  BY <1>13, <1>14 DEF Link, v, e, c

\* A transfer ends with an error.
LEMMA FailedTransfer ==
  ASSUME FatInv, DataInv, call.at \in Transferring, Still(volume, volume'),
         NEW file, Failed(file), held' = held, misread' = misread,
         file.error, file.mode = fp.mode,
         call.op = "get" => /\ file.written = fp.written /\ file.org = fp.org
                            /\ file.size = fp.size /\ file.ptr = fp.ptr
  PROVE  DataInv'
<1>1. PICK chain \in [Files -> Chains] : Links(View(volume), handle, call, chain)
  BY DEF FatInv, Linked
<1>2. /\ fp.mode # "closed" /\ call.op \in {"get", "put"} /\ (call.op = "put" => WritesOn(fp))
      /\ call.op = "get" => fp.ptr <= fp.size
      /\ FileTrue(volume, fp, call, call.f, Root(View(volume), handle, call, call.f), held[call.f])
  BY <1>1, TransferFacts
<1>3. ASSUME ~WritesOn(fp)
      PROVE  ~WritesOn(file) /\ Extent(View(volume), file, Idle, call.f, held[call.f])
  <2>1. call.op = "get" /\ ~Putting(call, call.f)
    BY <1>2, <1>3 DEF Putting
  <2>2. QED
    BY <1>2, <1>3, <2>1 DEF FileTrue, Extent, WritesOn
<1>4. call.at # "unlink"
  BY DEF Transferring
<1>5. QED
  BY <1>3, <1>4, FailedStep

LEMMA AbortData ==
  ASSUME FatInv, DataInv, call.at \in Transferring, Still(volume, volume'), Abort, UNCHANGED <<held, misread>>
  PROVE  DataInv'
<1>1. fp \in FILs
  BY DataContext
<1> DEFINE file == [fp EXCEPT !.error = TRUE]
<1>2. /\ file.error /\ file.mode = fp.mode /\ file.written = fp.written /\ file.org = fp.org
      /\ file.size = fp.size /\ file.ptr = fp.ptr
  BY <1>1 DEF FILs
<1>3. Failed(file)
  BY DEF Abort
<1> HIDE DEF file
<1>4. QED
  BY <1>2, <1>3, FailedTransfer

LEMMA JoinData ==
  ASSUME FatInv, DataInv, Join
  PROVE  DataInv'
<1> DEFINE f == call.f
           V == View(volume)
           r == Root(V, handle, call, f)
           c == call.c
           first == IF call.op = "put" /\ fp.ptr = 0 THEN [fp EXCEPT !.org = c] ELSE fp
           file == Follows(first, c)
<1>1. /\ call.at = "join" /\ call.at \in Transferring
      /\ UNCHANGED <<volume, held, misread>>
  BY DEF Join, Transferring
<1>2. /\ call \in Calls /\ fp \in FILs /\ f \in Files /\ handle \in [Files -> FILs]
      /\ TransferOK(fp, call) /\ CallTrue /\ ~misread
  BY DataContext
<1>3. PICK chain \in [Files -> Chains] : Links(V, handle, call, chain)
  BY DEF FatInv, Linked
<1> DEFINE ch == chain[f]
<1>4. /\ sure[f] /\ Single(call.n) /\ ~fp.error /\ fp.mode # "closed" /\ fp.ptr \in Nat /\ fp.size \in Nat
      /\ r = fp.org /\ call.op \in {"get", "put"} /\ (call.op = "put" => WritesOn(fp))
      /\ Len(held[f]) \in Nat /\ (held[f] # <<>> => r \in Clusters)
      /\ Len(held[f]) = IF fp.ptr > fp.size THEN fp.ptr ELSE fp.size
      /\ (fp.ptr > 0 => r \in Clusters)
      /\ call.op = "get" => fp.ptr + call.n <= fp.size
      /\ r \in Clusters => Position(fp, call, f, ch)
  BY <1>1, <1>3, TransferFacts
<1>5. /\ fp.ptr % SSC = 0 /\ call.n > 0 /\ call.n \in Nat /\ fp.ptr % SS = 0 /\ ch \in Chains
  BY <1>1, <1>2, <1>4, ClusterStart DEF CallTrue, TransferOK, Transferring, Calls
<1>6. /\ c \in {0, 1, DiskErr, LastLink} \cup Clusters
      /\ call.op = "put" /\ fp.ptr = 0 => fp.org \in {0, c} /\ c # LastLink
  BY <1>1, <1>3 DEF Links, ChainOK, fp
<1> HIDE DEF r, ch, V, c
<1>7. /\ first.mode = fp.mode /\ first.written = fp.written
      /\ first.error = fp.error /\ first.size = fp.size /\ first.ptr = fp.ptr
      /\ first.cur = fp.cur /\ first.dsect = fp.dsect
      /\ first.org = IF call.op = "put" /\ fp.ptr = 0 THEN c ELSE fp.org
      /\ first \in FILs
  <2>1. CASE call.op = "put" /\ fp.ptr = 0
    <3>1. c \in {0, 1, DiskErr} \cup Clusters
      BY <1>6, <2>1
    <3>2. first = [fp EXCEPT !.org = c]
      BY <2>1
    <3>3. QED
      BY <1>2, <2>1, <3>1, <3>2 DEF FILs
  <2>2. CASE ~(call.op = "put" /\ fp.ptr = 0)
    BY <1>2, <2>2
  <2>3. QED
    BY <2>1, <2>2
<1> HIDE DEF first
<1>8. /\ file.mode = fp.mode /\ file.written = fp.written
      /\ file.error = fp.error /\ file.size = fp.size /\ file.ptr = fp.ptr
      /\ file.dsect = fp.dsect /\ file.org = first.org
      /\ file.cur = IF c \in {0, 1, DiskErr} THEN fp.cur ELSE c
      /\ file \in FILs
  <2>1. CASE c \in {0, 1, DiskErr}
    <3>1. file = [first EXCEPT !.cur = first.cur]
      BY <2>1 DEF Follows
    <3>2. QED
      BY <1>7, <2>1, <3>1 DEF FILs
  <2>2. CASE c \notin {0, 1, DiskErr}
    <3>1. file = [first EXCEPT !.cur = c]
      BY <2>2 DEF Follows
    <3>2. c \in {0, LastLink} \cup Clusters
      BY <1>6, <2>2
    <3>3. QED
      BY <1>7, <2>2, <3>1, <3>2 DEF FILs
  <2>3. QED
    BY <2>1, <2>2
<1> HIDE DEF file
<1>9. ASSUME c \in Clusters, Goto("sector"), handle' = [handle EXCEPT ![f] = file], sure' = sure
      PROVE  DataInv'
  <2>1. /\ call'.at = "sector" /\ call'.f = f /\ call'.op = call.op /\ call'.n = call.n
    BY <1>2, <1>9, GotoFact DEF Transferring
  <2>2. file.cur = c
    BY <1>8, <1>9, NoCluster
  <2>3. /\ Filling(call', f) /\ ~Pending(file, call') /\ call'.at \in Transferring /\ call'.at \in InSector
        /\ call'.at \notin {"find", "link", "join", "edge", "part"}
    BY <2>1 DEF Filling, InSector, Pending, Transferring
  <2>4. CASE file.org = fp.org
    <3>1. r \in Clusters
      <4>1. CASE fp.ptr = 0 /\ call.op = "put"
        BY <1>4, <1>7, <1>8, <1>9, <2>4, <4>1
      <4>2. CASE call.op = "get"
        <5>1. Len(held[f]) # 0
          BY <1>4, <1>5, <4>2
        <5>2. QED
          BY <1>4, <5>1
      <4>3. QED
        BY <1>4, <4>1, <4>2
    <3>2. fp.ptr < Len(ch) * SSC /\ c = ch[fp.ptr \div SSC + 1]
      BY <1>1, <1>4, <1>9, <3>1, Zenon DEF Position, c
    <3>3. Position(file, call', f, ch)
      BY <1>5, <1>8, <2>2, <2>3, <3>2, Zenon DEF Position
    <3>4. \A g \in Files : Quiet(volume, volume', g, Root(View(volume), handle, call, g), chain[g])
      BY <1>1, StillSame, StillQuiet
    <3>5. /\ file.ptr = fp.ptr \/ (call.op = "get" /\ file.ptr <= fp.size)
          /\ UNCHANGED <<held, sure>> /\ ~misread' /\ Single(call'.n)
          /\ Pending(file, call') => volume'.winsect \in Meta
          /\ call'.at \in {"find", "link", "join"} => file.ptr % SSC = 0
          /\ call'.at = "edge" => file.ptr >= file.size
          /\ call'.at \in InSector => r \in Clusters
          /\ r \in Clusters => Position(file, call', f, ch)
      BY <1>1, <1>2, <1>4, <1>8, <1>9, <2>1, <2>3, <3>1, <3>3, Zenon
    <3>6. QED
      BY <1>1, <1>3, <1>8, <1>9, <2>1, <2>3, <2>4, <3>4, <3>5, Moves DEF r, ch, V
  <2>5. CASE file.org # fp.org
    <3>1. call.op = "put" /\ fp.ptr = 0 /\ fp.org = 0 /\ file.org = c /\ WritesOn(file) /\ WritesOn(fp)
      BY <1>4, <1>6, <1>7, <1>8, <2>5 DEF WritesOn
    <3>2. held[f] = <<>> /\ Len(held[f]) = 0 /\ fp.size = 0
      BY <1>4, <3>1, NoCluster
    <3>3. volume.winsect \in Meta
      BY <1>1, <1>2, <1>9, <3>1 DEF CallTrue, Pending, c
    <3>4. handle'[f] = file /\ fp' = file /\ \A g \in Files \ {f} : handle'[g] = handle[g]
      BY <1>2, <1>9, <2>1 DEF fp
    <3>5. Root(View(volume'), handle', call', f) = c
      BY <3>1, <3>4 DEF Root
    <3>6. Putting(call', f) /\ ~Settled(file, call', f)
      BY <2>1, <2>3, <3>1 DEF Putting, Settled
    <3>7. Extent(View(volume'), file, call', f, <<>>)
      BY <1>4, <1>8, <3>1, <3>2, <3>6 DEF Extent
    <3>8. ASSUME NEW d \in Chains, IsChain(View(volume'), c, d)
          PROVE  Contents(View(volume'), d, <<>>) /\ Shown(volume', d) /\ Position(file, call', f, d)
      <4>1. 0 < Len(d) * SSC /\ Len(d) * SSC \in Nat /\ d[1] = c
        BY <3>8, Room DEF IsChain
      <4>2. Len(<<>>) = 0 /\ Len(<<>>) <= Len(d) * SSC
        BY <4>1
      <4>3. Contents(View(volume'), d, <<>>)
        BY <4>2 DEF Contents
      <4>4. ~On(d, volume'.winsect)
        BY <1>1, <3>3, OnData
      <4>5. file.ptr \div SSC + 1 = 1 /\ file.ptr % SS = 0 /\ file.ptr = 0
        BY <1>8, <3>1, ZeroMod
      <4>6. Position(file, call', f, d)
        BY <2>2, <2>3, <4>1, <4>5 DEF Position
      <4>7. QED
        BY <4>3, <4>4, <4>6 DEF Shown
    <3>9. FileTrue(volume', file, call', f, c, <<>>)
      BY <1>9, <3>6, <3>7, <3>8 DEF FileTrue
    <3>10. Holding(volume', handle', call', f, held'[f])
      BY <1>1, <3>2, <3>4, <3>5, <3>9 DEF Holding
    <3>11. CallTrue'
      BY <1>4, <1>9, <2>1, <2>3, <3>4 DEF CallTrue, Opening, Transferring
    <3>12. \A g \in Files \ {f} : /\ handle'[g] = handle[g] /\ held'[g] = held[g] /\ sure'[g] = sure[g]
                                  /\ Quiet(volume, volume', g, Root(View(volume), handle, call, g), chain[g])
      BY <1>1, <1>9, <3>4, StillSame, StillQuiet
    <3>13. QED
      BY <1>1, <1>2, <1>3, <2>1, <3>10, <3>11, <3>12, DataStep DEF V
  <2>6. QED
    BY <2>4, <2>5
<1>10. ASSUME c = 0, call.op = "put", call' = [call EXCEPT !.at = "loop", !.n = 0], UNCHANGED <<handle, sure>>
       PROVE  DataInv'
  <2>1. /\ call'.at = "loop" /\ call'.f = f /\ call'.op = call.op /\ call'.n = 0
    BY <1>2, <1>10 DEF Calls
  <2>2. Single(call'.n)
    BY <2>1 DEF Single
  <2>3. ~Filling(call', f) /\ ~Filling(call, f) /\ ~Pending(fp, call') /\ call'.at \in Transferring
        /\ call'.at \notin InSector \cup {"find", "link", "join", "edge"}
    BY <1>1, <2>1 DEF Filling, InSector, Pending, Transferring
  <2>4. r \in Clusters => Position(fp, call', f, ch)
    BY <1>1, <1>4, <1>5, <2>1, <2>3, Zenon DEF Position, InSector
  <2>5. QED
    BY <1>1, <1>3, <1>10, <2>1, <2>2, <2>3, <2>4, StillSame, Goes DEF r, ch, V
<1>11. ASSUME Failed([file EXCEPT !.error = TRUE])
       PROVE  DataInv'
  <2> DEFINE bad == [file EXCEPT !.error = TRUE]
  <2>1. /\ bad.error /\ bad.mode = file.mode /\ bad.written = file.written /\ bad.org = file.org
        /\ bad.size = file.size /\ bad.ptr = file.ptr /\ Failed(bad)
    BY <1>8, <1>11 DEF FILs
  <2> HIDE DEF bad
  <2>2. call.op = "get" => bad.org = fp.org
    BY <1>7, <1>8, <2>1
  <2>3. QED
    BY <1>1, <1>8, <2>1, <2>2, StillSame, FailedTransfer
<1>12. QED
  BY <1>9, <1>10, <1>11 DEF Join, file, first, c

\* The card transfers one sector, whatever is asked for: a request is for less than two,
\* or a cluster has only one.
OneSector == CSize = 1 \/ \A n \in Requests : n < 2 * SS

\* A call of f_read or f_write begins.
LEMMA BeginData ==
  ASSUME FatInv, DataInv, call.at = "idle", NEW f \in Files, sure[f],
         call'.at = "loop", call'.f = f, call'.op = "get" \/ (call'.op = "put" /\ WritesOn(handle[f])),
         Single(call'.n), NEW file, file = handle[f], handle' = [handle EXCEPT ![f] = file],
         UNCHANGED <<volume, held, sure, misread>>
  PROVE  DataInv'
<1>1. /\ handle \in [Files -> FILs] /\ ~misread /\ View(volume') = View(volume)
      /\ handle'[f] = handle[f] /\ fp' = handle[f]
  BY DataContext DEF fp
<1>2. PICK chain \in [Files -> Chains] : Links(View(volume), handle, call, chain)
  BY DEF FatInv, Linked
<1> DEFINE r == Root(View(volume), handle, call, f)
<1>3. FileTrue(volume, handle[f], call, f, r, held[f])
  BY DEF DataInv, Holding
<1>4. Root(View(volume'), handle', call', f) = r
  BY <1>1 DEF Root
<1>5. /\ ~Putting(call, f) /\ ~Filling(call, f) /\ ~Filling(call', f)
      /\ Putting(call', f) => WritesOn(handle[f])
      /\ call'.at \notin InSector \cup {"join", "part", "sync", "find", "link", "edge"}
      /\ call'.at \notin Opening
  BY DEF Putting, Filling, InSector, Transferring, Opening
<1>6. r \in Clusters => Position(handle[f], call, f, chain[f])
  BY <1>2, <1>3, RootChain DEF FileTrue
<1>7. r \in Clusters => Position(handle[f], call', f, chain[f])
  BY <1>5, <1>6 DEF Position
<1>8. Extent(View(volume'), handle[f], call', f, held[f])
  BY <1>1, <1>3, <1>5 DEF FileTrue, Extent
<1>9. Settled(handle[f], call', f) => Settled(handle[f], call, f)
  BY <1>5 DEF Settled
<1>10. OwnTrue(f, handle[f], chain[f])
  BY <1>4, <1>5, <1>7, <1>8, <1>9, Zenon DEF OwnTrue
<1>11. CallTrue'
  BY <1>5 DEF CallTrue, Pending
<1>12. /\ Still(volume, volume') /\ ~misread'
       /\ call'.f = f \/ call'.at = "idle"
       /\ call.f = f \/ call.at = "idle"
       /\ held' = held \/ (~sure'[f] /\ \A g \in Files \ {f} : held'[g] = held[g])
       /\ \A g \in Files : sure'[g] => sure[g]
       /\ \A g \in Files \ {f} : sure'[g] = sure[g]
       /\ sure'[f] => OwnTrue(f, file, chain[f])
  BY <1>1, <1>10, StillSame
<1> HIDE DEF r
<1>13. QED
  BY <1>2, <1>11, <1>12, StillStep

LEMMA ReadData ==
  ASSUME OneSector, FatInv, DataInv, NEW f \in Files, Read(f)
  PROVE  DataInv'
<1>1. /\ call.at = "idle" /\ sure[f] /\ UNCHANGED <<volume, handle, held, sure, misread>>
  BY DEF Read
<1>2. handle \in [Files -> FILs] /\ handle[f] \in FILs
  BY DataContext
<1>3. PICK n \in Requests :
        LET remain == handle[f].size - handle[f].ptr
            btr    == IF n > remain THEN remain ELSE n
        IN  btr > 0 /\ call' = [Idle EXCEPT !.at = "loop", !.op = "get", !.f = f, !.n = btr]
  BY DEF Read
<1>4. PICK remain \in Int : remain = handle[f].size - handle[f].ptr
  BY <1>2 DEF FILs
<1> DEFINE btr == IF n > remain THEN remain ELSE n
<1>5. n \in Nat /\ btr \in Int /\ btr <= n
  OBVIOUS
<1>6. call' = [Idle EXCEPT !.at = "loop", !.op = "get", !.f = f, !.n = btr]
  BY <1>3, <1>4
<1> HIDE DEF btr
<1>7. Single(btr)
  <2>1. CSize = 1 \/ n < 2 * SS
    BY DEF OneSector
  <2>2. QED
    BY <1>5, <2>1 DEF Single
<1>8. call'.at = "loop" /\ call'.f = f /\ call'.op = "get" /\ call'.n = btr
  BY <1>6 DEF Idle
<1>9. PICK file : file = handle[f] /\ handle' = [handle EXCEPT ![f] = file]
  BY <1>1, <1>2
<1>10. QED
  BY <1>1, <1>7, <1>8, <1>9, BeginData

LEMMA WriteData ==
  ASSUME OneSector, FatInv, DataInv, NEW f \in Files, Write(f)
  PROVE  DataInv'
<1>1. /\ call.at = "idle" /\ sure[f] /\ WritesOn(handle[f])
      /\ UNCHANGED <<volume, handle, held, sure, misread>>
  BY DEF Write, Writing, WritesOn
<1>2. PICK n \in Requests : call' = [Idle EXCEPT !.at = "loop", !.op = "put", !.f = f, !.n = n]
  BY DEF Write
<1>3. Single(n)
  BY DEF OneSector, Single
<1>4. call'.at = "loop" /\ call'.f = f /\ call'.op = "put" /\ call'.n = n
  BY <1>2 DEF Idle
<1>5. handle \in [Files -> FILs]
  BY DataContext
<1>6. PICK file : file = handle[f] /\ handle' = [handle EXCEPT ![f] = file]
  BY <1>1, <1>5
<1>7. QED
  BY <1>1, <1>3, <1>4, <1>6, BeginData

\* A call that leaves the card alone ends, or there is none: the FIL becomes file.
LEMMA FileData ==
  ASSUME FatInv, DataInv, NEW f \in Files, NEW file, handle' = [handle EXCEPT ![f] = file],
         call.f = f \/ call.at = "idle", call'.at = "idle",
         UNCHANGED <<volume, held, sure, misread>>,
         NEW chain \in [Files -> Chains], Links(View(volume), handle, call, chain),
         NEW r, r = Root(View(volume), handle, call, f),
         sure[f] =>
           /\ IF WritesOn(file) THEN file.org = r ELSE StartOf(View(volume), f) = r
           /\ Extent(View(volume), file, call', f, held[f])
           /\ Settled(file, call', f) => Settled(handle[f], call, f)
           /\ r \in Clusters => Position(file, call', f, chain[f])
  PROVE  DataInv'
<1>1. handle \in [Files -> FILs] /\ ~misread
  BY DataContext
<1>2. handle'[f] = file /\ View(volume') = View(volume) /\ call'.at \notin InSector
  BY <1>1 DEF InSector
<1>3. ASSUME sure'[f]
      PROVE  OwnTrue(f, file, chain[f])
  <2>1. Root(View(volume'), handle', call', f) = r
    BY <1>2, <1>3 DEF Root
  <2>2. QED
    BY <1>2, <1>3, <2>1 DEF OwnTrue
<1>4. CallTrue'
  BY DEF CallTrue, Pending, Transferring, Opening
<1>5. /\ Still(volume, volume') /\ ~misread' /\ (call'.f = f \/ call'.at = "idle")
      /\ held' = held \/ (~sure'[f] /\ \A g \in Files \ {f} : held'[g] = held[g])
      /\ \A g \in Files : sure'[g] => sure[g]
      /\ \A g \in Files \ {f} : sure'[g] = sure[g]
  BY <1>1, StillSame
<1>6. QED
  BY <1>3, <1>4, <1>5, StillStep

LEMMA GetDoneData ==
  ASSUME FatInv, DataInv, GetDone
  PROVE  DataInv'
<1> DEFINE f == call.f
           r == Root(View(volume), handle, call, f)
<1>1. /\ call.at = "loop" /\ call.at \in Transferring /\ call.op = "get"
      /\ call' = Idle /\ call'.at = "idle" /\ handle' = [handle EXCEPT ![f] = fp]
      /\ UNCHANGED <<volume, held, sure, misread>>
  BY DEF GetDone, Done, Transferring, Idle
<1>2. f \in Files
  BY DataContext
<1>3. PICK chain \in [Files -> Chains] : Links(View(volume), handle, call, chain)
  BY DEF FatInv, Linked
<1>4. /\ sure[f] /\ FileTrue(volume, fp, call, f, r, held[f]) /\ r = fp.org
      /\ (r \in Clusters => Position(fp, call, f, chain[f]))
  BY <1>1, <1>3, TransferFacts
<1> HIDE DEF r
<1>5. /\ ~Putting(call, f) /\ ~Putting(call', f) /\ ~Filling(call, f) /\ ~Filling(call', f)
      /\ call'.at \notin {"join", "part", "sync"}
  BY <1>1 DEF Putting, Filling, InSector, Transferring
<1>6. Extent(View(volume), fp, call', f, held[f])
  BY <1>4, <1>5 DEF FileTrue, Extent
<1>7. r \in Clusters => Position(fp, call', f, chain[f])
  BY <1>1, <1>4, <1>5 DEF Position
<1>8. Settled(fp, call', f) => Settled(handle[f], call, f)
  BY <1>1, <1>5 DEF Settled, fp
<1>9. IF WritesOn(fp) THEN fp.org = r ELSE StartOf(View(volume), f) = r
  BY <1>1, <1>4 DEF Root, r, fp
<1>10. QED
  BY <1>1, <1>2, <1>3, <1>4, <1>6, <1>7, <1>8, <1>9, FileData DEF r

LEMMA PutDoneData ==
  ASSUME FatInv, DataInv, PutDone
  PROVE  DataInv'
<1> DEFINE f == call.f
           r == Root(View(volume), handle, call, f)
           file == [fp EXCEPT !.size = IF fp.ptr > @ THEN fp.ptr ELSE @, !.written = TRUE]
<1>1. /\ call.at = "loop" /\ call.at \in Transferring /\ call.op = "put"
      /\ call' = Idle /\ call'.at = "idle" /\ handle' = [handle EXCEPT ![f] = file]
      /\ UNCHANGED <<volume, held, sure, misread>>
  BY DEF PutDone, Done, Transferring, Idle
<1>2. f \in Files /\ fp \in FILs
  BY DataContext
<1>3. PICK chain \in [Files -> Chains] : Links(View(volume), handle, call, chain)
  BY DEF FatInv, Linked
<1>4. /\ sure[f] /\ r = fp.org /\ WritesOn(fp) /\ fp.mode # "closed" /\ fp.ptr \in Nat /\ fp.size \in Nat
      /\ Len(held[f]) = IF fp.ptr > fp.size THEN fp.ptr ELSE fp.size
      /\ (r \in Clusters => Position(fp, call, f, chain[f]))
  BY <1>1, <1>3, TransferFacts
<1> HIDE DEF r
<1>5. /\ ~Putting(call', f) /\ ~Filling(call, f) /\ ~Filling(call', f)
      /\ call'.at \notin {"join", "part", "sync"}
  BY <1>1 DEF Putting, Filling, InSector, Transferring
<1>6. /\ file.mode = fp.mode /\ file.written = TRUE /\ file.error = fp.error /\ file.org = fp.org
      /\ file.size = (IF fp.ptr > fp.size THEN fp.ptr ELSE fp.size) /\ file.ptr = fp.ptr
      /\ file.cur = fp.cur /\ file.dsect = fp.dsect
  BY <1>2 DEF FILs
<1> HIDE DEF file
<1>7. Extent(View(volume), file, call', f, held[f])
  BY <1>4, <1>6 DEF Extent
<1>8. r \in Clusters => Position(file, call', f, chain[f])
  BY <1>1, <1>4, <1>5, <1>6, Zenon DEF Position
<1>9. ~Settled(file, call', f) /\ WritesOn(file)
  BY <1>4, <1>6 DEF Settled, WritesOn
<1>10. QED
  BY <1>1, <1>2, <1>3, <1>4, <1>6, <1>7, <1>8, <1>9, FileData DEF r

LEMMA RewindData ==
  ASSUME FatInv, DataInv, NEW f \in Files, Rewind(f)
  PROVE  DataInv'
<1> DEFINE r == Root(View(volume), handle, call, f)
           file == [handle[f] EXCEPT !.ptr = 0]
<1>1. /\ call.at = "idle" /\ call' = call /\ handle[f].mode = "update"
      /\ UNCHANGED <<volume, held, sure, misread>>
  BY DEF Rewind
<1>2. handle \in [Files -> FILs] /\ handle[f] \in FILs
  BY DataContext
<1>3. handle' = [handle EXCEPT ![f] = file]
  BY <1>2 DEF Rewind
<1>4. PICK chain \in [Files -> Chains] : Links(View(volume), handle, call, chain)
  BY DEF FatInv, Linked
<1>5. sure[f] => FileTrue(volume, handle[f], call, f, r, held[f])
  BY DEF DataInv, Holding
<1> HIDE DEF r
<1>6. /\ file.mode = "update" /\ file.written = handle[f].written /\ file.error = handle[f].error
      /\ file.org = handle[f].org /\ file.size = handle[f].size /\ file.ptr = 0
      /\ file.size \in Nat /\ handle[f].ptr \in Nat
  BY <1>1, <1>2 DEF FILs
<1> HIDE DEF file
<1>7. ~Putting(call, f) /\ ~Filling(call, f)
  BY <1>1 DEF Putting, Filling, InSector, Transferring
<1>8. sure[f] => Extent(View(volume), file, call', f, held[f])
  BY <1>1, <1>5, <1>6, <1>7 DEF FileTrue, Extent
<1>9. Position(file, call', f, chain[f])
  BY <1>1, <1>6, <1>7, ZeroMod DEF Position
<1>10. Settled(file, call', f) => Settled(handle[f], call, f)
  BY <1>1, <1>6 DEF Settled, WritesOn
<1>11. WritesOn(file) /\ file.org = r
  BY <1>1, <1>6 DEF WritesOn, Root, r
<1>12. QED
  BY <1>1, <1>3, <1>4, <1>8, <1>9, <1>10, <1>11, FileData DEF r

\* f_close of a file that nothing was written to; of another one, f_sync comes next.
LEMMA CloseData ==
  ASSUME FatInv, DataInv, NEW f \in Files, Close(f)
  PROVE  DataInv'
<1> DEFINE V == View(volume)
           r == Root(V, handle, call, f)
<1>1. /\ call.at = "idle" /\ handle[f].mode # "closed"
      /\ UNCHANGED <<volume, held, sure, misread>>
  BY DEF Close
<1>2. handle \in [Files -> FILs] /\ handle[f] \in FILs /\ ~misread
  BY DataContext
<1>3. PICK chain \in [Files -> Chains] : Links(V, handle, call, chain)
  BY DEF FatInv, Linked
<1>4. ~Putting(call, f)
  BY <1>1 DEF Putting, Transferring
<1>5. CASE handle[f].written /\ call' = [Idle EXCEPT !.at = "record", !.op = "close", !.f = f] /\ UNCHANGED handle
  <2>1. call'.at = "record" /\ call'.f = f
    BY <1>5 DEF Idle
  <2>2. Apart(call, f) /\ Apart(call', f) /\ CallTrue'
    BY <1>1, <2>1 DEF Apart, CallTrue, Transferring, Opening, Pending
  <2>3. Root(V, handle', call', f) = Root(V, handle, call, f)
    BY <1>1, <1>5, <2>1 DEF Root
  <2>4. handle' = [handle EXCEPT ![f] = handle[f]] /\ View(volume') = V
    BY <1>1, <1>2, <1>5
  <2>5. ASSUME sure'[f]
        PROVE  OwnTrue(f, handle[f], chain[f])
    <3>1. Root(V, handle, call', f) = Root(V, handle, call, f)
      BY <1>5, <2>3
    <3>2. QED
      BY <1>1, <1>3, <2>2, <2>3, <2>4, <2>5, <3>1, OwnApart
  <2>6. /\ Still(volume, volume') /\ ~misread' /\ (call'.f = f \/ call'.at = "idle")
        /\ held' = held \/ (~sure'[f] /\ \A g \in Files \ {f} : held'[g] = held[g])
        /\ \A g \in Files : sure'[g] => sure[g]
        /\ \A g \in Files \ {f} : sure'[g] = sure[g]
    BY <1>1, <1>2, <2>1, StillSame
  <2>7. QED
    BY <1>1, <1>3, <2>2, <2>4, <2>5, <2>6, StillStep
<1>6. CASE ~handle[f].written /\ handle' = [handle EXCEPT ![f] = Closed] /\ UNCHANGED call
  <2>1. sure[f] => FileTrue(volume, handle[f], call, f, r, held[f])
    BY DEF DataInv, Holding
  <2> HIDE DEF r
  <2>2. sure[f] => handle[f].org = StartOf(V, f) /\ Len(held[f]) = SizeOf(V, f)
    <3>1. handle[f].ptr \in Nat /\ handle[f].size \in Nat
      BY <1>2 DEF FILs
    <3>2. QED
      BY <1>1, <1>4, <1>6, <2>1, <3>1 DEF FileTrue, Extent
  <2>3. sure[f] => StartOf(V, f) = r
    BY <1>1, <2>2 DEF Root, r
  <2>4. sure[f] => Extent(V, Closed, call', f, held[f])
    BY <2>2 DEF Extent, Closed
  <2>5. ~WritesOn(Closed) /\ Position(Closed, call', f, chain[f]) /\ Settled(handle[f], call, f)
    BY <1>1, <1>4, <1>6 DEF WritesOn, Closed, Position, Settled
  <2>6. QED
    BY <1>1, <1>3, <1>6, <2>3, <2>4, <2>5, FileData DEF r
<1>7. QED
  BY <1>5, <1>6 DEF Close

\* f_sync puts the directory entry into the window, and then on the card.
LEMMA RecordData ==
  ASSUME "torn" \notin Kinds, FatInv, DataInv, Record
  PROVE  DataInv'
<1> DEFINE f == call.f
           V == View(volume)
           W == View(volume')
           x == Moved(volume, DirSector(f))
           file == [fp EXCEPT !.written = FALSE]
           data == held[f]
<1>1. /\ call.at = "record" /\ UNCHANGED <<held, misread>>
  BY DEF Record
<1>2. /\ VolumeOK(volume) /\ Good(V) /\ call \in Calls /\ handle \in [Files -> FILs]
      /\ f \in Files /\ fp \in FILs /\ TransferOK(fp, call) /\ ~misread
      /\ held \in [Files -> Seq(Nat)]
  BY DataContext
<1>3. PICK chain \in [Files -> Chains] : Links(V, handle, call, chain)
  BY DEF FatInv, Linked
<1>4. WritesOn(fp)
  BY <1>1, <1>2, <1>3 DEF Links, FileOK, TransferOK, fp
<1>5. DirSector(f) \in Sectors \cup {0} /\ DirSector(f) # 0 /\ DirSector(f) \in Meta
  BY <1>2, DirAt, Layout DEF Meta
<1>6. CASE volume' \in Unmoved(volume, DirSector(f)) /\ Failed(fp)
  <2>1. Still(volume, volume')
    BY <1>2, <1>5, <1>6, StillUnmoved
  <2>2. QED
    BY <1>1, <1>4, <1>6, <2>1, FailedStep
<1>7. ASSUME volume' = Recorded(x), handle' = [handle EXCEPT ![f].written = FALSE],
             Goto("sync"), UNCHANGED sure
      PROVE  DataInv'
  <2>1. VolumeOK(x) /\ View(x) = V /\ x.winsect = DirSector(f) /\ Still(volume, x)
    BY <1>2, <1>5, VolumeMoved, StillMoved
  <2>2. fp.size \in Nat /\ fp.org \in Nat /\ fp.ptr \in Nat
    <3>1. fp.org \in Starts
      BY <1>2 DEF FILs, Starts
    <3>2. Starts \subseteq Nat
      BY Layout DEF Starts, DiskErr, Clusters
    <3>3. fp.size \in 0..MaxSize /\ fp.ptr \in 0..MaxSize
      BY <1>2 DEF FILs
    <3>4. fp.size \in Nat /\ fp.ptr \in Nat
      BY <3>3
    <3>5. fp.org \in Nat
      BY <3>1, <3>2
    <3>6. QED
      BY <3>4, <3>5
  <2> HIDE DEF x, V
  <2>3. volume' = Poke(Poke(x, SizeAt(f), fp.size), ClustAt(f), fp.org)
    BY <1>7 DEF Recorded
  <2>4. /\ VolumeOK(volume') /\ SizeOf(W, f) = fp.size /\ StartOf(W, f) = fp.org
        /\ SameFat(V, W) /\ volume'.winsect = DirSector(f)
    BY <1>2, <2>1, <2>2, <2>3, VolumeDir
  <2>5. volume'.wflag /\ \A ch \in Chains : Kept(V, W, ch)
    BY <1>2, <2>1, <2>2, <2>3, RecordKept
  <2>6. ASSUME NEW g \in Files \ {f}
        PROVE  Quiet(volume, volume', g, Root(V, handle, call, g), chain[g])
    <3>1. chain[g] \in Chains
      BY <2>6
    <3>2. QED
      BY <1>2, <2>1, <2>2, <2>3, <3>1, RecordQuiet
  <2> HIDE DEF W
  <2>7. /\ file.mode = fp.mode /\ file.org = fp.org /\ file.cur = fp.cur /\ file.error = fp.error
        /\ file.size = fp.size /\ file.ptr = fp.ptr /\ file.dsect = fp.dsect /\ file.written = FALSE
    BY <1>2 DEF FILs
  <2>8. call'.at = "sync" /\ call'.f = f
    BY <1>2, <1>7, GotoFact
  <2>9. handle'[f] = file /\ fp' = file /\ \A g \in Files \ {f} : handle'[g] = handle[g]
    BY <1>2, <1>7, <2>8 DEF fp
  <2> HIDE DEF file, data
  <2>10. WritesOn(file) /\ Root(W, handle', call', f) = fp.org /\ Root(V, handle, call, f) = fp.org
    BY <1>4, <2>7, <2>9 DEF WritesOn, Root, fp
  <2>11. CallTrue'
    BY <1>5, <2>4, <2>7, <2>8, <2>9, <2>10 DEF CallTrue, Transferring, Opening, Pending
  <2>12. ASSUME sure'[f]
         PROVE  FileTrue(volume', file, call', f, fp.org, data)
    <3>1. FileTrue(volume, fp, call, f, fp.org, data) /\ data \in Seq(Nat)
      BY <1>2, <1>7, <2>10, <2>12 DEF DataInv, Holding, V, data, fp
    <3>2. /\ ~Putting(call, f) /\ ~Putting(call', f) /\ ~Filling(call, f) /\ ~Filling(call', f)
          /\ call'.at \notin {"join", "part"} \cup InSector
      BY <1>1, <2>8 DEF Putting, Filling, InSector, Transferring
    <3>3. Extent(W, file, call', f, data)
      BY <1>4, <2>2, <2>4, <2>7, <3>1, <3>2 DEF FileTrue, Extent, WritesOn
    <3>4. ~Settled(file, call', f)
      BY <2>8, <2>10 DEF Settled
    <3>5. ASSUME NEW ch \in Chains, IsChain(W, fp.org, ch)
          PROVE  Contents(W, ch, data) /\ Shown(volume', ch) /\ Position(file, call', f, ch)
      <4>1. Kept(V, W, ch) /\ Kept(W, V, ch)
        BY <2>5, KeptBack
      <4>2. IsChain(V, fp.org, ch)
        BY <3>5, <4>1, KeptChain
      <4>3. Contents(V, ch, data) /\ Position(fp, call, f, ch)
        BY <3>1, <4>2 DEF FileTrue, V
      <4>4. Contents(W, ch, data)
        BY <3>1, <4>1, <4>3, ContentsKept
      <4>5. Position(file, call', f, ch)
        BY <1>1, <2>7, <3>2, <4>3, Zenon DEF Position
      <4>6. QED
        BY <2>5, <4>4, <4>5 DEF Shown
    <3>6. QED
      BY <3>1, <3>2, <3>3, <3>4, <3>5 DEF FileTrue, W
  <2>13. sure'[f] => Holding(volume', handle', call', f, held'[f])
    BY <1>1, <2>9, <2>10, <2>12 DEF Holding, W, data
  <2>14. \A g \in Files \ {f} : /\ handle'[g] = handle[g] /\ held'[g] = held[g] /\ sure'[g] = sure[g]
                                /\ Quiet(volume, volume', g, Root(View(volume), handle, call, g), chain[g])
    BY <1>1, <1>7, <2>6, <2>9 DEF V
  <2>15. ~misread' /\ (call'.f = f \/ call'.at = "idle")
    BY <1>1, <1>2, <2>8
  <2>16. QED
    BY <1>2, <1>3, <2>11, <2>13, <2>14, <2>15, DataStep DEF V
<1>8. QED
  BY <1>6, <1>7 DEF Record

LEMMA SyncData ==
  ASSUME "torn" \notin Kinds, FatInv, DataInv, Sync
  PROVE  DataInv'
<1> DEFINE f == call.f
           V == View(volume)
<1>1. call.at = "sync" /\ UNCHANGED <<held, misread>> /\ 0 \in Sectors \cup {0}
  BY DEF Sync
<1>2. /\ VolumeOK(volume) /\ volume \in Volumes /\ call \in Calls /\ handle \in [Files -> FILs]
      /\ f \in Files /\ fp \in FILs /\ CallTrue /\ ~misread
  BY DataContext
<1>3. PICK chain \in [Files -> Chains] : Links(V, handle, call, chain)
  BY DEF FatInv, Linked
<1>4. volume.winsect # 0 /\ ~fp.written /\ WritesOn(fp) /\ fp.mode # "closed"
  BY <1>1, <1>2 DEF CallTrue, WritesOn
<1>5. CASE volume' \in Unmoved(volume, 0) /\ Failed(fp)
  <2>1. Still(volume, volume')
    BY <1>1, <1>2, <1>5, StillUnmoved
  <2>2. QED
    BY <1>1, <1>4, <1>5, <2>1, FailedStep
<1>6. CASE volume' = Moved(volume, 0) /\ Done(Closed) /\ UNCHANGED sure
  <2>1. Still(volume, volume')
    BY <1>1, <1>2, <1>6, StillMoved
  <2>2. volume'.disk = V /\ View(volume') = V
    <3>1. WindowOn(volume, Meta)
      BY <1>2 DEF VolumeOK
    <3>2. QED
      BY <1>1, <1>2, <1>4, <1>6, <3>1, MovedView
  <2>3. call' = Idle /\ handle' = [handle EXCEPT ![f] = Closed] /\ call'.at = "idle"
    BY <1>6 DEF Done, Idle
  <2>4. handle'[f] = Closed /\ ~WritesOn(Closed) /\ Closed.mode = "closed" /\ Closed.ptr = 0 /\ Closed.size = 0
    BY <1>2, <2>3 DEF Closed, WritesOn
  <2>5. ASSUME sure'[f]
        PROVE  OwnTrue(f, Closed, chain[f])
    <3> DEFINE r == Root(V, handle, call, f)
    <3>1. FileTrue(volume, fp, call, f, r, held[f])
      BY <1>2, <1>6, <2>5 DEF DataInv, Holding, fp
    <3>2. ~Putting(call, f) /\ fp.ptr \in Nat /\ fp.size \in Nat
      BY <1>1, <1>2 DEF Putting, Transferring, FILs
    <3>3. fp.org = StartOf(V, f) /\ Len(held[f]) = SizeOf(V, f)
      BY <1>4, <3>1, <3>2 DEF FileTrue, Extent
    <3>4. r = StartOf(V, f)
      BY <1>4, <3>3 DEF Root, fp
    <3>5. Root(View(volume'), handle', call', f) = r
      BY <2>2, <2>3, <2>4, <3>4 DEF Root
    <3> HIDE DEF r
    <3>6. Extent(View(volume'), Closed, call', f, held[f])
      BY <2>2, <2>4, <3>3 DEF Extent
    <3>7. r \in Clusters => Position(Closed, call', f, chain[f])
      BY <2>4 DEF Position
    <3>8. call'.at \notin InSector
      BY <2>3 DEF InSector
    <3>9. QED
      BY <2>2, <3>5, <3>6, <3>7, <3>8 DEF OwnTrue, r
  <2>6. CallTrue'
    BY <2>3, IdleTrue
  <2>7. /\ ~misread' /\ (call'.f = f \/ call'.at = "idle")
        /\ held' = held \/ (~sure'[f] /\ \A g \in Files \ {f} : held'[g] = held[g])
        /\ \A g \in Files : sure'[g] => sure[g]
        /\ \A g \in Files \ {f} : sure'[g] = sure[g]
    BY <1>1, <1>2, <1>6, <2>3
  <2>8. QED
    BY <1>2, <1>3, <2>1, <2>3, <2>5, <2>6, <2>7, StillStep
<1>7. QED
  BY <1>5, <1>6 DEF Sync, Synced

\* A file that is not written is on the card.
LEMMA OnCard ==
  ASSUME FatInv, DataInv, NEW chain \in [Files -> Chains], Links(View(volume), handle, call, chain),
         NEW f \in Files, sure[f], ~WritesOn(handle[f]),
         NEW V, V = View(volume), NEW r, r = Root(V, handle, call, f), NEW ch, ch = chain[f]
  PROVE  /\ r = StartOf(V, f) /\ FileTrue(volume, handle[f], call, f, r, held[f])
         /\ (r \in Clusters => IsChain(V, r, ch)) /\ Settled(handle[f], call, f)
         /\ SameRecord(V, volume.disk, f) /\ (r \in Clusters => Kept(V, volume.disk, ch))
         /\ Len(held[f]) = SizeOf(V, f)
<1>1. /\ handle[f] \in FILs /\ ch \in Chains
      /\ CallTrue /\ OpenOK(V, fp, call) /\ TransferOK(fp, call)
  BY DataContext
<1>2. FileTrue(volume, handle[f], call, f, r, held[f])
  BY DEF DataInv, Holding
<1>3. r = StartOf(V, f)
  <2>1. ~(call.at = "unlink" /\ call.f = f)
    BY <1>1 DEF CallTrue, OpenOK, Opening
  <2>2. QED
    BY <2>1 DEF Root
<1>4. r \in Clusters => IsChain(V, r, ch)
  BY RootChain
<1>5. Settled(handle[f], call, f)
  BY DEF Settled
<1>6. SameRecord(V, volume.disk, f) /\ (r \in Clusters => Kept(V, volume.disk, ch))
  BY <1>1, <1>2, <1>4, <1>5 DEF FileTrue
<1>7. Len(held[f]) = SizeOf(V, f)
  <2>1. CASE handle[f].mode = "closed"
    BY <1>2, <2>1 DEF FileTrue, Extent
  <2>2. CASE handle[f].mode # "closed"
    <3>1. ~Putting(call, f)
      BY <1>1 DEF Putting, TransferOK, fp
    <3>2. ~handle[f].written
      BY DEF Links, FileOK
    <3>3. handle[f].ptr \in Nat /\ handle[f].size \in Nat
      BY <1>1 DEF FILs
    <3>4. QED
      BY <1>2, <2>2, <3>1, <3>2, <3>3 DEF FileTrue, Extent
  <2>3. QED
    BY <2>1, <2>2
<1>8. QED
  BY <1>2, <1>3, <1>4, <1>5, <1>6, <1>7

\* What is on the card is what is left of a file that is not being written.
LEMMA RemountData ==
  ASSUME FatInv, DataInv, Remount
  PROVE  DataInv'
<1> DEFINE V == View(volume)
           D == volume.disk
<1>1. /\ volume' = Mounted(D) /\ handle' = [f \in Files |-> Closed] /\ call' = Idle
      /\ sure' = [f \in Files |-> sure[f] /\ ~Writing(f)]
      /\ UNCHANGED <<held, misread>>
  BY DEF Remount
<1>2. /\ VolumeOK(volume) /\ volume \in Volumes /\ call \in Calls /\ handle \in [Files -> FILs]
      /\ held \in [Files -> Seq(Nat)] /\ call.f \in Files
      /\ CallTrue /\ ~misread /\ OpenOK(V, fp, call) /\ TransferOK(fp, call)
  BY DataContext
<1>3. PICK chain \in [Files -> Chains] : Links(V, handle, call, chain)
  BY DEF FatInv, Linked
<1>4. View(volume') = D /\ volume'.disk = D /\ volume'.winsect = 0
  BY <1>1 DEF Mounted, View
<1>5. call'.at = "idle" /\ CallTrue'
  BY <1>1, IdleTrue DEF Idle
<1>6. ASSUME NEW f \in Files, sure'[f]
      PROVE  Holding(volume', handle', call', f, held'[f])
  <2> DEFINE r == Root(V, handle, call, f)
             ch == chain[f]
  <2>1. sure[f] /\ ~WritesOn(handle[f]) /\ handle[f] \in FILs /\ held[f] \in Seq(Nat) /\ ch \in Chains
    BY <1>1, <1>2, <1>6 DEF Writing, WritesOn
  <2>2. /\ r = StartOf(V, f) /\ FileTrue(volume, handle[f], call, f, r, held[f])
        /\ (r \in Clusters => IsChain(V, r, ch)) /\ Settled(handle[f], call, f)
        /\ SameRecord(V, D, f) /\ (r \in Clusters => Kept(V, D, ch))
        /\ Len(held[f]) = SizeOf(V, f)
    BY <1>3, <2>1, OnCard
  <2> HIDE DEF r, ch, V, D
  <2>3. handle'[f] = Closed /\ ~WritesOn(Closed) /\ Closed.mode = "closed" /\ Closed.ptr = 0 /\ Closed.size = 0
    BY <1>1 DEF Closed, WritesOn
  <2>4. Extent(View(volume'), Closed, call', f, held[f])
    BY <1>4, <2>2, <2>3 DEF Extent, SameRecord
  <2>5. Quiet(volume, volume', f, r, ch)
    <3>1. ~On(ch, 0)
      <4>1. 0 \notin Sectors
        BY DEF Sectors
      <4>2. QED
        BY <2>1, <4>1, OnData
    <3>2. Shown(volume', ch)
      BY <1>4, <3>1 DEF Shown
    <3>3. SameRecord(D, D, f) /\ Kept(D, D, ch)
      BY DEF SameRecord, Kept
    <3>4. QED
      BY <1>4, <2>2, <3>2, <3>3 DEF Quiet, V, D
  <2>6. Position(Closed, call', f, ch) /\ ~(call'.f = f /\ call'.at \in InSector)
    BY <1>5, <2>3 DEF Position, InSector
  <2>7. FileTrue(volume', Closed, call', f, r, held[f])
    BY <2>1, <2>2, <2>4, <2>5, <2>6, FileCarried DEF V
  <2>8. Root(View(volume'), handle', call', f) = r
    BY <1>4, <1>5, <2>2, <2>3 DEF Root, SameRecord
  <2>9. QED
    BY <1>1, <2>3, <2>7, <2>8 DEF Holding
<1>7. QED
  BY <1>1, <1>2, <1>5, <1>6 DEF DataInv

\* Where a call that is in a sector has come to.
LEMMA Here ==
  ASSUME FatInv, DataInv, call.at \in InSector,
         NEW chain \in [Files -> Chains], Links(View(volume), handle, call, chain),
         NEW r, r = Root(View(volume), handle, call, call.f), NEW ch, ch = chain[call.f]
  PROVE  /\ r \in Clusters /\ ch \in Chains /\ fp.ptr \in Nat /\ fp.ptr < Len(ch) * SSC
         /\ fp.cur = ch[fp.ptr \div SSC + 1] /\ fp.cur \in Clusters
         /\ Sect = SectorAt(ch, fp.ptr) /\ Sect \in Data /\ On(ch, Sect)
         /\ call.at = "part" => fp.dsect = Sect
         /\ IsChain(View(volume), r, ch) /\ Contents(View(volume), ch, held[call.f]) /\ Shown(volume, ch)
<1>1. call.at \in Transferring
  BY DEF InSector, Transferring
<1>2. /\ r \in Clusters /\ ~fp.error /\ fp.mode # "closed" /\ fp.ptr \in Nat
      /\ IsChain(View(volume), r, ch) /\ Contents(View(volume), ch, held[call.f]) /\ Shown(volume, ch)
      /\ Position(fp, call, call.f, ch)
  BY <1>1, TransferFacts
<1>3. ch \in Chains /\ fp.cur \in Clusters
  BY InSectorFacts
<1>4. /\ fp.ptr < Len(ch) * SSC /\ fp.cur = ch[fp.ptr \div SSC + 1]
      /\ call.at = "part" => fp.dsect = SectorAt(ch, fp.ptr)
  BY <1>2 DEF Position, Filling
<1>5. Sect = SectorAt(ch, fp.ptr)
  BY <1>4, Zenon DEF Sect, SectorAt
<1>6. SectorAt(ch, fp.ptr) \in Data /\ On(ch, SectorAt(ch, fp.ptr))
  BY <1>2, <1>3, <1>4, UnitAt, Zenon
<1>7. QED
  BY <1>2, <1>3, <1>4, <1>5, <1>6, Zenon

\* The file pointer after m units of a sector.
LEMMA Onward ==
  ASSUME NEW ch, NEW p \in Nat, NEW m \in Nat \ {0}, (p % SS) + m <= SS,
         NEW file, file.ptr = p + m, file.cur = ch[p \div SSC + 1],
         (p + m) % SS # 0 => file.dsect = SectorAt(ch, p),
         NEW c, NEW f, c.at = "loop"
  PROVE  Position(file, c, f, ch)
<1>1. PICK u \in 0..SS - 1 : u = p % SS
  BY SectorOfUnit, Zenon
<1>2. ((p + m) - 1) \div SSC = p \div SSC
  <2>1. PICK i \in Nat : i = m - 1 /\ (p + m) - 1 = p + i
    OBVIOUS
  <2>2. u + i < SS
    BY <1>1, <2>1
  <2>3. (p % SS) + i < SS
    BY <1>1, <2>2, Zenon
  <2>4. (p + i) \div SSC = p \div SSC
    BY <2>3, WithinSector, Zenon
  <2>5. QED
    BY <2>1, <2>4, Zenon
<1>3. (p + m) % SS # 0 => SectorAt(ch, p + m) = SectorAt(ch, p)
  <2>1. CASE u + m < SS
    <3>1. (p % SS) + m < SS /\ m \in Nat
      BY <1>1, <2>1, Zenon
    <3>2. QED
      BY <3>1, WithinSector, Zenon
  <2>2. CASE u + m = SS
    <3>1. PICK s \in Nat : s = p \div SS
      BY SectorOfUnit, Zenon
    <3>2. p = SS * s + u
      BY <1>1, <3>1, SectorOfUnit, Zenon
    <3>3. SS \in Nat \ {0} /\ SS * s \in Nat /\ SS * (s + 1) = SS * s + SS
      BY <3>1
    <3>4. p + m = SS * (s + 1) + 0 /\ p + m \in Nat /\ 0 \in 0..SS - 1 /\ s + 1 \in Nat
      BY <2>2, <3>2, <3>3
    <3>5. (p + m) % SS = 0
      BY <3>3, <3>4, DivModUnique, Zenon
    <3>6. QED
      BY <3>5
  <2>3. u + m <= SS
    BY <1>1, Zenon
  <2>4. QED
    BY <2>1, <2>2, <2>3
<1>4. ~Filling(c, f) /\ c.at \notin {"part", "join"}
  BY DEF Filling, InSector
<1>5. QED
  BY <1>2, <1>3, <1>4, Zenon DEF Position

\* m units of the sector sect, from the unit u on.
Excerpt(V, sect, u, m, out) ==
  out \in [1..m -> Nat] /\ \A i \in 1..m : out[i] = V[sect][u + (i - 1)]

FoundAt(data, p, out) == out = SubSeq(data, p + 1, p + Len(out))

\* What is read of a sector is what the file has there.
LEMMA Delivered ==
  ASSUME NEW V, NEW ch \in Chains, NEW data \in Seq(Nat), Contents(V, ch, data),
         NEW p \in Nat, NEW m \in Nat \ {0}, (p % SS) + m <= SS, p + m <= Len(data),
         NEW out, Excerpt(V, SectorAt(ch, p), p % SS, m, out)
  PROVE  FoundAt(data, p, out)
<1>1. out \in Seq(Nat) /\ Len(out) = m /\ Len(data) \in Nat /\ out \in [1..m -> Nat]
  <2>1. out \in [1..m -> Nat]
    BY Zenon DEF Excerpt
  <2>2. QED
    BY <2>1
<1>2. PICK u \in 0..SS - 1 : u = p % SS
  BY SectorOfUnit, Zenon
<1>3. ASSUME NEW i \in 1..m
      PROVE  out[i] = data[p + i]
  <2>1. PICK j \in Nat : j = i - 1
    OBVIOUS
  <2>2. u + j < SS /\ u + m <= SS
    <3>1. u + m <= SS
      BY <1>2, Zenon
    <3>2. QED
      BY <2>1, <3>1
  <2>3. (p % SS) + j < SS
    BY <1>2, <2>2, Zenon
  <2>4. (p + j) % SS = (p % SS) + j /\ SectorAt(ch, p + j) = SectorAt(ch, p)
    BY <2>3, WithinSector, Zenon
  <2>5. p + i \in 1..Len(data) /\ (p + i) - 1 = p + j
    BY <1>1, <2>1
  <2>6. V[SectorAt(ch, (p + i) - 1)][((p + i) - 1) % SS] = data[p + i]
    BY <2>5, Zenon DEF Contents
  <2>7. V[SectorAt(ch, p)][(p % SS) + j] = data[p + i]
    BY <2>4, <2>5, <2>6, Zenon
  <2>8. out[i] = V[SectorAt(ch, p)][(p % SS) + j]
    BY <2>1, Zenon DEF Excerpt
  <2>9. QED
    BY <2>7, <2>8, Zenon
<1>4. SubSeq(data, p + 1, p + m) = [i \in 1..m |-> data[p + i]]
  <2> DEFINE s == SubSeq(data, p + 1, p + m)
  <2>1. s \in Seq(Nat) /\ Len(s) = m
    BY <1>1
  <2>2. \A i \in 1..m : s[i] = data[p + i]
    BY <1>1
  <2> HIDE DEF s
  <2>3. DOMAIN s = 1..m /\ s = [i \in DOMAIN s |-> s[i]]
    BY <2>1
  <2>4. s = [i \in 1..m |-> data[p + i]]
    BY <2>2, <2>3
  <2>5. QED
    BY <2>4 DEF s
<1>5. out = [i \in 1..m |-> data[p + i]]
  BY <1>1, <1>3
<1>6. QED
  BY <1>1, <1>4, <1>5 DEF FoundAt

\* Only one whole sector is transferred at once.
LEMMA WholeOne ==
  ASSUME call \in Calls, fp \in FILs, call.n >= SS, fp.ptr % SS = 0, Single(call.n)
  PROVE  Whole = 1 /\ SS * Whole = SS
<1>1. Whole \in Nat \ {0} /\ Whole <= CSize - ((fp.ptr \div SS) % CSize) /\ SS * Whole \in 1..call.n
  BY WholeFits
<1>2. PICK w \in Nat : w = Whole
  BY <1>1
<1>3. PICK k \in 0..CSize - 1 : k = (fp.ptr \div SS) % CSize
  <2>1. fp.ptr \in Nat
    BY DEF FILs
  <2>2. QED
    BY <2>1, SectorOfUnit, Zenon
<1>4. w # 0 /\ w <= CSize - k
  BY <1>1, <1>2, <1>3, Zenon
<1>5. SS * w <= call.n
  <2>1. PICK x \in 1..call.n : x = SS * w
    BY <1>1, <1>2, Zenon
  <2>2. QED
    BY <2>1
<1>6. w = 1
  <2>1. CASE CSize = 1
    BY <1>3, <1>4, <2>1
  <2>2. CASE call.n < 2 * SS
    <3>1. SUFFICES ASSUME w >= 2
                   PROVE  FALSE
      BY <1>4
    <3>2. SS * w >= SS * 2
      BY <3>1
    <3>3. call.n \in Nat
      BY DEF Calls
    <3>4. QED
      BY <1>5, <2>2, <3>2, <3>3
  <2>3. QED
    BY <2>1, <2>2 DEF Single
<1>7. QED
  BY <1>2, <1>6

\* f_read comes to the unit after those that it has delivered.
LEMMA GetStep ==
  ASSUME FatInv, DataInv, call.at \in InSector, call.op = "get",
         NEW chain \in [Files -> Chains], Links(View(volume), handle, call, chain),
         Still(volume, volume'), NEW m \in Nat \ {0}, m > 0, m <= call.n, (fp.ptr % SS) + m <= SS,
         Transfer(fp, m), UNCHANGED <<held, sure>>, NEW out, Delivers(out),
         Excerpt(View(volume), Sect, fp.ptr % SS, m, out),
         (fp.ptr + m) % SS # 0 => fp.dsect = Sect
  PROVE  DataInv'
<1> DEFINE f == call.f
           V == View(volume)
           r == Root(V, handle, call, f)
           ch == chain[f]
           file == [fp EXCEPT !.ptr = @ + m]
<1>1. /\ call.at \in Transferring /\ call \in Calls /\ fp \in FILs /\ handle \in [Files -> FILs] /\ f \in Files
      /\ ~misread /\ held[f] \in Seq(Nat)
  BY DataContext DEF InSector, Transferring
<1>2. /\ fp.ptr \in Nat /\ r \in Clusters /\ ch \in Chains /\ fp.cur = ch[fp.ptr \div SSC + 1]
      /\ Sect = SectorAt(ch, fp.ptr) /\ Contents(V, ch, held[f])
  BY Here
<1>3. Single(call.n) /\ fp.ptr + call.n <= fp.size /\ Len(held[f]) = fp.size
  BY <1>1, TransferFacts
<1> HIDE DEF r, ch, V
<1>4. /\ call.n \in Nat /\ fp.size \in Nat /\ fp.size <= MaxSize
  <2>1. fp.size \in 0..MaxSize /\ call.n \in 0..MaxSize
    BY <1>1 DEF FILs, Calls
  <2>2. QED
    BY <2>1
<1>5. fp.ptr + m <= fp.size /\ fp.ptr + m \in 0..MaxSize /\ fp.ptr + m <= Len(held[f])
  <2>1. fp.ptr + m <= fp.size
    BY <1>2, <1>3, <1>4, Step, Zenon
  <2>2. PICK p \in Nat : p = fp.ptr + m
    BY <1>2
  <2>3. p <= fp.size
    BY <2>1, <2>2, Zenon
  <2>4. p \in 0..MaxSize
    BY <1>4, <2>3
  <2>5. QED
    BY <1>3, <2>1, <2>2, <2>4, Zenon
<1>6. /\ file \in FILs /\ file.mode = fp.mode /\ file.org = fp.org /\ file.size = fp.size
      /\ file.written = fp.written /\ file.ptr = fp.ptr + m /\ file.cur = fp.cur /\ file.dsect = fp.dsect
  BY <1>1, <1>5 DEF FILs
<1> HIDE DEF file
<1>7. handle' = [handle EXCEPT ![f] = file] /\ call' = [call EXCEPT !.at = "loop", !.n = @ - m]
  BY DEF Transfer, file
<1>8. call'.at = "loop" /\ call'.f = f /\ call'.op = call.op /\ call'.n = call.n - m
  BY <1>1, <1>7 DEF Calls
<1>9. Single(call'.n)
  BY <1>3, <1>4, <1>8 DEF Single
<1>10. ~misread'
  <2>1. Excerpt(V, SectorAt(ch, fp.ptr), fp.ptr % SS, m, out)
    BY <1>2, Zenon DEF V
  <2>2. FoundAt(held[f], fp.ptr, out)
    BY <1>1, <1>2, <1>5, <2>1, Delivered, Zenon
  <2>3. QED
    BY <1>1, <2>2, Zenon DEF Delivers, FoundAt
<1>11. Position(file, call', f, ch)
  <2>1. (fp.ptr + m) % SS # 0 => file.dsect = SectorAt(ch, fp.ptr)
    BY <1>2, <1>6, Zenon
  <2>2. file.cur = ch[fp.ptr \div SSC + 1] /\ file.ptr = fp.ptr + m /\ call'.at = "loop" /\ fp.ptr \in Nat
    BY <1>2, <1>6, <1>8, Zenon
  <2>3. QED
    BY <2>1, <2>2, Onward, Zenon
<1>12. \A g \in Files : Quiet(volume, volume', g, Root(V, handle, call, g), chain[g])
  <2>1. \A g \in Files : chain[g] \in Chains
    OBVIOUS
  <2>2. QED
    BY <2>1, StillQuiet, Zenon
<1>13. ~Pending(file, call') /\ call'.at \in Transferring /\ call'.at \notin {"find", "link", "join", "edge"} \cup InSector
  BY <1>8 DEF Pending, Transferring, InSector
<1>14. QED
  BY <1>1, <1>5, <1>6, <1>7, <1>8, <1>9, <1>10, <1>11, <1>12, <1>13, Moves,
     ZenonT(30) DEF V, r, ch

LEMMA GetWholeData ==
  ASSUME FatInv, DataInv, GetWhole
  PROVE  DataInv'
<1> DEFINE Unit(i) == IF i \div SS < Transferred(Whole) THEN Newest(Sect + (i \div SS))[i % SS] ELSE 0
           out == [i \in 1..SS |-> Newest(Sect)[i - 1]]
<1>1. /\ call.at \in InSector /\ call.at \in Transferring /\ call.op = "get" /\ call.n >= SS
      /\ UNCHANGED <<volume, held>>
  BY DEF GetWhole, InSector, Transferring
<1>2. PICK chain \in [Files -> Chains] : Links(View(volume), handle, call, chain)
  BY DEF FatInv, Linked
<1>3. /\ VolumeOK(volume) /\ volume \in Volumes /\ call \in Calls /\ fp \in FILs
      /\ call.at = "sector" => fp.ptr % SS = 0
  BY <1>1, <1>2, DataContext, InSectorFacts
<1>4. fp.ptr % SS = 0
  BY <1>3 DEF GetWhole
<1>5. Single(call.n) /\ Sect \in Data
  BY <1>1, <1>2, TransferFacts, Here
<1>6. Whole = 1 /\ SS * Whole = SS /\ (fp.ptr + SS * Whole) % SS = 0
  BY <1>1, <1>3, <1>4, <1>5, WholeOne, WholeFits
<1>7. Still(volume, volume')
  BY <1>1, StillSame
<1>8. Newest(Sect) = View(volume)[Sect]
  BY <1>3, <1>5 DEF Newest, View, VolumeOK, WindowOn, Volumes, Data
<1>9. CASE /\ Delivers([i \in 1..SS * Whole |-> Unit(i - 1)]) /\ Transfer(fp, SS * Whole) /\ UNCHANGED sure
  <2>1. \A i \in 1..SS : Unit(i - 1) = Newest(Sect)[i - 1]
    <3>1. SUFFICES ASSUME NEW i \in 1..SS
                   PROVE  Unit(i - 1) = Newest(Sect)[i - 1]
      OBVIOUS
    <3>2. PICK j \in 0..SS - 1 : j = i - 1
      OBVIOUS
    <3>3. SS \in Nat \ {0} /\ j \in Nat /\ j = SS * 0 + j
      OBVIOUS
    <3>4. j \div SS = 0 /\ j % SS = j
      BY <3>3, DivModUnique, Zenon
    <3>5. Sect + 0 = Sect
      BY <1>5 DEF Data, Sectors
    <3>6. Transferred(Whole) = 1
      BY DEF Transferred
    <3>7. Unit(j) = Newest(Sect)[j]
      BY <3>4, <3>5, <3>6
    <3>8. QED
      BY <3>2, <3>7, Zenon
  <2>2. [i \in 1..SS * Whole |-> Unit(i - 1)] = out
    BY <1>6, <2>1
  <2>3. Delivers(out) /\ Transfer(fp, SS)
    BY <1>6, <1>9, <2>2
  <2>4. out \in [1..SS -> Nat]
    <3>1. Newest(Sect) \in [Units -> Nat]
      BY <1>3, <1>5, <1>8, ViewType DEF Data
    <3>2. QED
      BY <3>1 DEF Units
  <2>5. Excerpt(View(volume), Sect, fp.ptr % SS, SS, out)
    BY <1>4, <1>8, <2>4 DEF Excerpt
  <2>6. (fp.ptr % SS) + SS <= SS /\ (fp.ptr + SS) % SS = 0 /\ SS \in Nat \ {0} /\ SS > 0 /\ SS <= call.n
    BY <1>1, <1>3, <1>4, <1>6 DEF Calls
  <2> HIDE DEF out, Unit
  <2>7. QED
    BY <1>1, <1>2, <1>7, <1>9, <2>3, <2>4, <2>5, <2>6, GetStep
<1>10. CASE Abort /\ UNCHANGED misread
  BY <1>1, <1>7, <1>10, AbortData
<1>11. QED
  BY <1>9, <1>10 DEF GetWhole

\* A part of a sector comes next.
LEMMA ToPart ==
  ASSUME FatInv, DataInv, call.at \in InSector,
         NEW chain \in [Files -> Chains], Links(View(volume), handle, call, chain),
         Still(volume, volume'), Goto("part"), handle' = [handle EXCEPT ![call.f].dsect = Sect],
         UNCHANGED <<held, sure, misread>>
  PROVE  DataInv'
<1> DEFINE f == call.f
           r == Root(View(volume), handle, call, f)
           file == [fp EXCEPT !.dsect = Sect]
<1>1. call.at \in Transferring
  BY DEF InSector, Transferring
<1> DEFINE ch == chain[f]
<1>3. /\ call \in Calls /\ fp \in FILs /\ handle \in [Files -> FILs] /\ f \in Files /\ ~misread
  BY DataContext
<1>4. /\ r \in Clusters /\ fp.ptr \in Nat /\ fp.ptr < Len(ch) * SSC
      /\ fp.cur = ch[fp.ptr \div SSC + 1] /\ Sect = SectorAt(ch, fp.ptr) /\ Sect \in Sectors
  BY Here DEF Data
<1>5. Single(call.n)
  BY <1>1, TransferFacts
<1>6. handle' = [handle EXCEPT ![f] = file]
  BY <1>3 DEF fp
<1>7. /\ file \in FILs /\ file.mode = fp.mode /\ file.org = fp.org /\ file.size = fp.size
      /\ file.written = fp.written /\ file.ptr = fp.ptr /\ file.cur = fp.cur /\ file.dsect = Sect
  BY <1>3, <1>4 DEF FILs
<1> HIDE DEF file, r, ch
<1>8. call'.at = "part" /\ call'.f = f /\ call'.op = call.op /\ call'.n = call.n
  BY <1>3, GotoFact DEF Transferring
<1>9. /\ ~Pending(file, call') /\ call'.at \in Transferring /\ call'.at \notin {"find", "link", "join", "edge"}
      /\ Filling(call', f)
  BY <1>8 DEF Pending, Transferring, Filling, InSector
<1>10. Position(file, call', f, ch)
  BY <1>4, <1>7, <1>8, <1>9, Zenon DEF Position
<1>11. \A g \in Files : Quiet(volume, volume', g, Root(View(volume), handle, call, g), chain[g])
  BY StillQuiet
<1>12. ~misread' /\ Single(call'.n)
  BY <1>3, <1>5, <1>8
<1>13. QED
  BY <1>1, <1>4, <1>6, <1>7, <1>8, <1>9, <1>10, <1>11, <1>12, Moves DEF r, ch

LEMMA GetSectorData ==
  ASSUME FatInv, DataInv, GetSector
  PROVE  DataInv'
<1>1. /\ call.at \in InSector /\ Goto("part") /\ UNCHANGED <<volume, held, sure, misread>>
      /\ handle' = [handle EXCEPT ![call.f].dsect = Sect]
  BY DEF GetSector, InSector
<1>2. PICK chain \in [Files -> Chains] : Links(View(volume), handle, call, chain)
  BY DEF FatInv, Linked
<1>3. QED
  BY <1>1, <1>2, StillSame, ToPart

LEMMA GetPartData ==
  ASSUME "torn" \notin Kinds, FatInv, DataInv, GetPart
  PROVE  DataInv'
<1>1. /\ call.at \in InSector /\ call.at \in Transferring /\ call.at = "part" /\ call.op = "get"
      /\ UNCHANGED held
  BY DEF GetPart, InSector, Transferring
<1>2. PICK chain \in [Files -> Chains] : Links(View(volume), handle, call, chain)
  BY DEF FatInv, Linked
<1> DEFINE ch == chain[call.f]
<1>3. /\ VolumeOK(volume) /\ volume \in Volumes /\ call \in Calls /\ fp \in FILs /\ call.n > 0
  BY <1>1, <1>2, DataContext, InSectorFacts
<1>4. /\ fp.ptr \in Nat /\ fp.dsect = Sect /\ Sect \in Data /\ Sect \in Sectors
      /\ On(ch, Sect) /\ Shown(volume, ch) /\ ch \in Chains
  BY <1>1, <1>2, Here DEF Data
<1> HIDE DEF ch
<1>5. CASE /\ volume' = Moved(volume, fp.dsect)
           /\ Delivers([i \in 1..Partial |-> volume'.win[(fp.ptr + i - 1) % SS]])
           /\ Transfer(fp, Partial) /\ UNCHANGED sure
  <2>1. PICK m \in 1..call.n : m = Partial /\ m <= SS - (fp.ptr % SS)
    BY <1>3, PartFits
  <2>2. PICK u \in 0..SS - 1 : u = fp.ptr % SS
    BY <1>4, SectorOfUnit, Zenon
  <2>3. u + m <= SS /\ m \in Nat \ {0} /\ m > 0 /\ m <= call.n
    <3>1. m <= SS - u
      BY <2>1, <2>2, Zenon
    <3>2. call.n \in Nat
      BY <1>3 DEF Calls
    <3>3. QED
      BY <3>1, <3>2
  <2>4. Still(volume, volume')
    BY <1>3, <1>4, <1>5, StillMoved
  <2>5. volume'.win = View(volume)[Sect]
    <3> DEFINE S == {s \in Sectors : On(ch, s)}
    <3>1. WindowOn(volume, S)
      BY <1>3, <1>4, ShownWindow DEF VolumeOK, WindowOn
    <3>2. Sect \in S /\ Sect # 0
      BY <1>4 DEF Sectors
    <3>3. QED
      BY <1>3, <1>4, <1>5, <3>1, <3>2, MovedView
  <2> DEFINE out == [i \in 1..m |-> volume'.win[(fp.ptr + i - 1) % SS]]
  <2>6. \A i \in 1..m : (fp.ptr + i - 1) % SS = (fp.ptr % SS) + (i - 1) /\ (fp.ptr % SS) + (i - 1) \in Units
    <3>1. SUFFICES ASSUME NEW i \in 1..m
                   PROVE  (fp.ptr + i - 1) % SS = (fp.ptr % SS) + (i - 1) /\ (fp.ptr % SS) + (i - 1) \in Units
      OBVIOUS
    <3>2. PICK j \in Nat : j = i - 1 /\ fp.ptr + i - 1 = fp.ptr + j
      BY <1>4
    <3>3. u + j < SS
      BY <2>3, <3>2
    <3>4. (fp.ptr % SS) + j < SS
      BY <2>2, <3>3, Zenon
    <3>5. (fp.ptr + j) % SS = (fp.ptr % SS) + j
      BY <1>4, <3>4, WithinSector, Zenon
    <3>6. u + j \in Units
      BY <3>3 DEF Units
    <3>7. QED
      BY <2>2, <3>2, <3>5, <3>6, Zenon
  <2>7. out \in [1..m -> Nat]
    <3>1. volume'.win \in [Units -> Nat]
      BY <1>3, <1>4, <2>5, ViewType
    <3>2. QED
      BY <2>6, <3>1
  <2>8. Excerpt(View(volume), Sect, fp.ptr % SS, m, out)
    BY <2>5, <2>6, <2>7 DEF Excerpt
  <2>9. Delivers(out) /\ Transfer(fp, m)
    BY <1>5, <2>1
  <2> HIDE DEF out
  <2>10. (fp.ptr % SS) + m <= SS
    BY <2>2, <2>3
  <2>11. QED
    BY <1>1, <1>2, <1>4, <1>5, <2>3, <2>4, <2>7, <2>8, <2>9, <2>10, GetStep
<1>6. CASE volume' \in Unmoved(volume, fp.dsect) /\ Abort /\ UNCHANGED misread
  <2>1. Still(volume, volume')
    BY <1>3, <1>4, <1>6, StillUnmoved
  <2>2. QED
    BY <1>1, <1>6, <2>1, AbortData
<1>7. QED
  BY <1>5, <1>6 DEF GetPart

\* The part of the file that is in the window goes back to the card.
LEMMA PutSectorData ==
  ASSUME "torn" \notin Kinds, FatInv, DataInv, PutSector
  PROVE  DataInv'
<1> DEFINE f == call.f
           r == Root(View(volume), handle, call, f)
<1>1. /\ call.at \in InSector /\ call.at \in Transferring /\ call.at = "sector" /\ call.op = "put"
      /\ UNCHANGED <<held, misread>>
  BY DEF PutSector, InSector, Transferring
<1>2. PICK chain \in [Files -> Chains] : Links(View(volume), handle, call, chain)
  BY DEF FatInv, Linked
<1> DEFINE ch == chain[f]
<1>3. /\ VolumeOK(volume) /\ call \in Calls /\ handle \in [Files -> FILs] /\ f \in Files
  BY DataContext
<1>4. r \in Clusters
  BY <1>1, <1>2, Here
<1>5. Single(call.n) /\ Position(fp, call, f, ch)
  BY <1>1, <1>2, <1>4, TransferFacts
<1> HIDE DEF r, ch
<1>6. CASE /\ volume' = IF volume.winsect = fp.dsect THEN Moved(volume, 0) ELSE volume
           /\ UNCHANGED sure
           /\ \/ call.n >= SS /\ Goto("whole") /\ UNCHANGED handle
              \/ call.n < SS /\ fp.ptr >= fp.size /\ Goto("edge") /\ UNCHANGED handle
              \/ Goto("part") /\ handle' = [handle EXCEPT ![f].dsect = Sect]
  <2>1. Still(volume, volume')
    <3>1. CASE volume.winsect = fp.dsect
      BY <1>3, <1>6, <3>1, StillMoved
    <3>2. CASE volume.winsect # fp.dsect
      BY <1>6, <3>2, StillSame
    <3>3. QED
      BY <3>1, <3>2
  <2>2. ASSUME NEW at \in {"whole", "edge"}, Goto(at), UNCHANGED handle, at = "edge" => fp.ptr >= fp.size
        PROVE  DataInv'
    <3>1. /\ call'.at = at /\ call'.f = f /\ call'.op = call.op /\ call'.n = call.n
      BY <1>3, <2>2, GotoFact DEF Transferring
    <3>2. /\ ~Pending(fp, call') /\ call'.at \in Transferring /\ call'.at \notin {"find", "link", "join", "part"}
          /\ (Filling(call', f) <=> Filling(call, f))
      BY <1>1, <2>2, <3>1 DEF Pending, Transferring, Filling, InSector
    <3>3. Position(fp, call', f, ch)
      BY <1>5, <3>2, Zenon DEF Position
    <3>4. QED
      BY <1>1, <1>2, <1>4, <1>5, <1>6, <2>1, <2>2, <3>1, <3>2, <3>3, Goes DEF r, ch
  <2>3. CASE Goto("part") /\ handle' = [handle EXCEPT ![f].dsect = Sect]
    BY <1>1, <1>2, <1>6, <2>1, <2>3, ToPart
  <2>4. QED
    BY <1>6, <2>2, <2>3
<1>7. CASE volume' \in Unmoved(volume, 0) /\ Abort
  <2>1. Still(volume, volume')
    BY <1>3, <1>7, StillUnmoved
  <2>2. QED
    BY <1>1, <1>7, <2>1, AbortData
<1>8. QED
  BY <1>6, <1>7 DEF PutSector

\* Of all that is seen, and of all that is on the card, only the sector sect is another.
OnlySector(v, w, sect) ==
  /\ \A t \in Sectors : t # sect => View(w)[t] = View(v)[t]
  /\ \/ \A t \in Sectors : t # sect => w.disk[t] = v.disk[t]
     \/ \A t \in Sectors : t # sect => w.disk[t] = View(v)[t]
  /\ \A d \in Chains : ~On(d, sect) /\ Shown(v, d) => Shown(w, d)

LEMMA SectorMeta ==
  ASSUME NEW sect \in Data, NEW V, NEW W, \A t \in Sectors : t # sect => W[t] = V[t]
  PROVE  SameFat(V, W) /\ SameDir(V, W)
<1>1. SameMeta(V, W)
  BY Layout DEF SameMeta, Data
<1>2. QED
  BY <1>1, MetaSame

LEMMA SectorKept ==
  ASSUME NEW sect \in Data, NEW V, NEW W, \A t \in Sectors : t # sect => W[t] = V[t],
         NEW d \in Chains, ~On(d, sect)
  PROVE  Kept(V, W, d)
<1>1. SameFat(V, W)
  BY SectorMeta
<1>2. \A s \in Sectors : On(d, s) => W[s] = V[s]
  OBVIOUS
<1>3. QED
  BY <1>1, <1>2, FatKept

LEMMA SectorQuiet ==
  ASSUME NEW v, NEW w, NEW sect \in Data, OnlySector(v, w, sect),
         NEW g \in Files, NEW r, NEW d \in Chains, r \in Clusters => ~On(d, sect)
  PROVE  Quiet(v, w, g, r, d)
<1>1. SameDir(View(v), View(w)) /\ (SameDir(v.disk, w.disk) \/ SameDir(View(v), w.disk))
  BY SectorMeta DEF OnlySector
<1>2. ASSUME r \in Clusters
      PROVE  /\ Kept(View(v), View(w), d)
             /\ Kept(v.disk, w.disk, d) \/ Kept(View(v), w.disk, d)
             /\ Shown(v, d) => Shown(w, d)
  BY <1>2, SectorKept DEF OnlySector
<1>3. QED
  BY <1>1, <1>2 DEF Quiet, SameDir, SameRecord

\* The chains of the other files do not pass through the sector of the call.
LEMMA OthersQuiet ==
  ASSUME FatInv, DataInv, call.at \in InSector,
         NEW chain \in [Files -> Chains], Links(View(volume), handle, call, chain),
         OnlySector(volume, volume', Sect)
  PROVE  \A g \in Files \ {call.f} :
           Quiet(volume, volume', g, Root(View(volume), handle, call, g), chain[g])
<1> DEFINE V == View(volume)
           f == call.f
           ch == chain[f]
<1>1. f \in Files /\ ch \in Chains /\ On(ch, Sect) /\ Sect \in Data /\ Root(V, handle, call, f) \in Clusters
  BY DataContext, Here
<1>2. ASSUME NEW g \in Files \ {f}, Root(V, handle, call, g) \in Clusters
      PROVE  ~On(chain[g], Sect)
  <2>1. Disjoint(ch, chain[g])
    BY <1>1, <1>2 DEF Links, FsOK, ChainsOK, Roots
  <2>2. QED
    BY <1>1, <2>1, OnOne
<1>3. QED
  BY <1>1, <1>2, SectorQuiet

\* What the calls have written is longer by m units.
LEMMA HeldLonger ==
  ASSUME TypeOK, NEW m \in Nat \ {0}, Holds(m), fp.ptr <= Len(held[call.f])
  PROVE  /\ held' \in [Files -> Seq(Nat)] /\ \A g \in Files \ {call.f} : held'[g] = held[g]
         /\ Lengthened(held[call.f], fp.ptr, m, held'[call.f])
<1> DEFINE old == held[call.f]
           all == IF fp.ptr + m > Len(old) THEN fp.ptr + m ELSE Len(old)
           new == [p \in 1..all |->
                     IF p \in fp.ptr + 1 .. fp.ptr + m THEN Datum(p - 1)
                     ELSE IF p \in DOMAIN old THEN old[p] ELSE 0]
<1>1. call.f \in Files /\ held \in [Files -> Seq(Nat)] /\ handle \in [Files -> FILs]
  BY DEF TypeOK, Calls
<1>2. held' \in [Files -> Seq(Nat)]
  BY HoldsType
<1>3. held' = [held EXCEPT ![call.f] = new]
  BY <1>1 DEF Holds
<1>4. held'[call.f] = new /\ \A g \in Files \ {call.f} : held'[g] = held[g]
  BY <1>1, <1>3
<1>5. old \in Seq(Nat) /\ Len(old) \in Nat /\ fp.ptr \in Nat /\ all \in Nat
  BY <1>1 DEF FILs, fp
<1>6. DOMAIN new = 1..all /\ new \in Seq(Nat)
  BY <1>1, <1>2, <1>4
<1>7. Len(new) = all
  BY <1>5, <1>6
<1>8. ASSUME NEW p \in 1..all
      PROVE  new[p] = IF p \in fp.ptr + 1 .. fp.ptr + m THEN Datum(p - 1) ELSE old[p]
  <2>1. p \notin fp.ptr + 1 .. fp.ptr + m => p \in DOMAIN old
    BY <1>5
  <2>2. QED
    BY <2>1
<1> HIDE DEF new, old
<1>9. Lengthened(old, fp.ptr, m, new)
  BY <1>7, <1>8 DEF Lengthened
<1>10. QED
  BY <1>2, <1>4, <1>9 DEF old

Greater(a, b) == IF a > b THEN a ELSE b

LEMMA LongerBy ==
  ASSUME NEW p \in Nat, NEW m \in Nat \ {0}, NEW size \in Nat, NEW data \in Seq(Nat), NEW more,
         Len(data) = Greater(p, size), Lengthened(data, p, m, more)
  PROVE  Len(more) = Greater(p + m, size)
BY DEF Lengthened, Greater

\* f_write comes to the unit after those that it has stored.
LEMMA PutStep ==
  ASSUME FatInv, DataInv, call.at \in InSector, call.op = "put",
         NEW chain \in [Files -> Chains], Links(View(volume), handle, call, chain),
         NEW ch, ch = chain[call.f], OnlySector(volume, volume', Sect), Shown(volume', ch),
         NEW m \in Nat \ {0}, m > 0, m <= call.n, (fp.ptr % SS) + m <= SS,
         NEW room \in Nat, room = Len(ch) * SSC, fp.ptr + m <= room,
         StoredIn(View(volume), View(volume'), Sect, fp.ptr % SS, fp.ptr, m, held[call.f]),
         Holds(m), NEW s \in Sectors \cup {0}, Transfer([fp EXCEPT !.dsect = s], m),
         (fp.ptr + m) % SS # 0 => s = Sect, UNCHANGED <<sure, misread>>
  PROVE  DataInv'
<1> DEFINE f == call.f
           V == View(volume)
           W == View(volume')
           r == Root(V, handle, call, f)
           file == [fp EXCEPT !.dsect = s, !.ptr = @ + m]
<1>1. /\ call.at \in Transferring /\ call \in Calls /\ fp \in FILs /\ handle \in [Files -> FILs] /\ f \in Files
      /\ ~misread /\ held[f] \in Seq(Nat) /\ TypeOK
  BY DataContext DEF InSector, Transferring, FatInv
<1>2. /\ fp.ptr \in Nat /\ r \in Clusters /\ ch \in Chains /\ fp.cur = ch[fp.ptr \div SSC + 1]
      /\ Sect = SectorAt(ch, fp.ptr) /\ Sect \in Data /\ On(ch, Sect) /\ Contents(V, ch, held[f]) /\ IsChain(V, r, ch)
  BY Here
<1>3. /\ Single(call.n) /\ r = fp.org /\ WritesOn(fp) /\ ~fp.error /\ fp.size \in Nat /\ sure[f]
      /\ Len(held[f]) = Greater(fp.ptr, fp.size) /\ fp.ptr <= Len(held[f])
  BY <1>1, TransferFacts DEF Greater
<1>4. /\ held' \in [Files -> Seq(Nat)] /\ \A g \in Files \ {f} : held'[g] = held[g]
      /\ Lengthened(held[f], fp.ptr, m, held'[f])
  BY <1>1, <1>3, HeldLonger
<1>5. \A g \in Files \ {f} : Quiet(volume, volume', g, Root(V, handle, call, g), chain[g])
  BY <1>1, <1>2, OthersQuiet
<1> HIDE DEF r, V, W
<1>6. /\ file.mode = fp.mode /\ file.org = fp.org /\ file.size = fp.size /\ file.written = fp.written
      /\ file.error = fp.error /\ file.ptr = fp.ptr + m /\ file.cur = fp.cur /\ file.dsect = s
  BY <1>1 DEF FILs
<1>7. handle' = [handle EXCEPT ![f] = file] /\ call' = [call EXCEPT !.at = "loop", !.n = @ - m]
  BY <1>1 DEF Transfer, FILs
<1> HIDE DEF file
<1>8. call'.at = "loop" /\ call'.f = f /\ call'.op = "put" /\ call'.n = call.n - m
  BY <1>1, <1>7 DEF Calls
<1>9. Single(call'.n)
  <2>1. call.n \in Nat
    BY <1>1 DEF Calls
  <2>2. QED
    BY <1>3, <1>8, <2>1 DEF Single
<1>10. /\ handle'[f] = file /\ \A g \in Files \ {f} : handle'[g] = handle[g]
       /\ fp' = file
  BY <1>1, <1>7, <1>8 DEF fp
<1>11. CallTrue'
  BY <1>3, <1>8, <1>9, <1>10 DEF CallTrue, Opening, Transferring, Pending
<1>12. Contents(W, ch, held'[f])
  <2>1. PICK n \in Nat : n = fp.ptr \div SS
    BY <1>2, SectorOfUnit, Zenon
  <2>2. PICK u \in 0..SS - 1 : u = fp.ptr % SS
    BY <1>2, SectorOfUnit, Zenon
  <2>3. fp.ptr = SS * n + u
    BY <1>2, <2>1, <2>2, SectorOfUnit, Zenon
  <2>4. u + m <= SS /\ StoredIn(V, W, Sect, u, fp.ptr, m, held[f])
    BY <2>2, Zenon DEF V, W
  <2>5. held'[f] \in Seq(Nat)
    BY <1>1, <1>4
  <2>6. QED
    BY <1>1, <1>2, <1>3, <1>4, <2>3, <2>4, <2>5, ContentsStored, Zenon
<1>13. SameFat(V, W)
  BY <1>2, SectorMeta DEF OnlySector, V, W
<1>14. Root(W, handle', call', f) = r
  BY <1>3, <1>6, <1>10 DEF Root, WritesOn
<1>15. Position(file, call', f, ch)
  <2>1. (fp.ptr + m) % SS # 0 => file.dsect = SectorAt(ch, fp.ptr)
    BY <1>2, <1>6, Zenon
  <2>2. file.cur = ch[fp.ptr \div SSC + 1] /\ file.ptr = fp.ptr + m /\ call'.at = "loop" /\ fp.ptr \in Nat
    BY <1>2, <1>6, <1>8, Zenon
  <2>3. QED
    BY <2>1, <2>2, Onward, Zenon
<1>16. Extent(W, file, call', f, held'[f])
  <2>1. Len(held'[f]) = Greater(fp.ptr + m, fp.size)
    <3>1. PICK p \in Nat, size \in Nat : p = fp.ptr /\ size = fp.size
      <4>1. fp.ptr \in Nat /\ fp.size \in Nat
        BY <1>2, <1>3, Zenon
      <4>2. QED
        BY <4>1, Zenon
    <3>2. PICK data \in Seq(Nat) : data = held[f]
      BY <1>1
    <3>3. Len(data) = Greater(p, size) /\ Lengthened(data, p, m, held'[f])
      BY <1>3, <1>4, <3>1, <3>2, Zenon
    <3>4. Len(held'[f]) = Greater(p + m, size)
      BY <3>3, LongerBy, SMTT(30)
    <3>5. QED
      BY <3>1, <3>4, Zenon
  <2>2. file.mode # "closed"
    BY <1>3, <1>6 DEF WritesOn
  <2>3. Putting(call', f)
    BY <1>8, Zenon DEF Putting, Transferring
  <2>4. QED
    BY <1>6, <2>1, <2>2, <2>3, Zenon DEF Extent, Greater
<1>17. ~Settled(file, call', f)
  BY <1>3, <1>6, <1>8 DEF Settled, WritesOn, Putting, Transferring
<1>18. \A e \in Chains : IsChain(W, r, e) => e = ch
  <2>1. ASSUME NEW c \in Range(ch)
        PROVE  Entry(W, c) = Entry(V, c)
    <3>1. \E i \in 1..Len(ch) : ch[i] = c
      BY <1>2, <2>1, RangeOf, ZenonT(30)
    <3>2. \A i \in 1..Len(ch) : ch[i] \in Clusters
      BY <1>2, ChainType, Zenon
    <3>3. QED
      BY <1>13, <3>1, <3>2, Zenon DEF SameFat
  <2>2. IsChain(W, r, ch)
    BY <1>2, <2>1, ChainKept
  <2>3. QED
    BY <1>2, <2>2, ChainUnique, Zenon
<1>19. FileTrue(volume', file, call', f, r, held'[f])
  <2>1. call'.at \notin InSector
    BY <1>8 DEF InSector
  <2>2. QED
    BY <1>2, <1>12, <1>15, <1>16, <1>17, <1>18, <2>1, Zenon DEF FileTrue, W
<1>20. Holding(volume', handle', call', f, held'[f])
  BY <1>10, <1>14, <1>19 DEF Holding, W
<1>21. QED
  BY <1>1, <1>4, <1>5, <1>8, <1>10, <1>11, <1>20, DataStep, ZenonT(30) DEF V

\* A sector of the card that is written past the window.
LEMMA DiskOnly ==
  ASSUME NEW v \in Volumes, v.wflag => v.winsect # 0, NEW sect \in Data, NEW data, NEW w,
         w.disk = [v.disk EXCEPT ![sect] = data], w.winsect = v.winsect,
         v.winsect # sect => w.win = v.win /\ w.wflag = v.wflag
  PROVE  OnlySector(v, w, sect)
<1>1. v.disk \in [Sectors -> [Units -> Nat]] /\ sect \in Sectors /\ v.winsect \in Sectors \cup {0}
  BY DEF Volumes, Data
<1>2. \A t \in Sectors : t # sect => w.disk[t] = v.disk[t]
  BY <1>1
<1>3. \A t \in Sectors : t # sect => View(w)[t] = View(v)[t]
  <2>1. CASE v.winsect = sect
    BY <1>1, <1>2, <2>1 DEF View
  <2>2. CASE v.winsect # sect
    BY <1>1, <1>2, <2>2 DEF View
  <2>3. QED
    BY <2>1, <2>2
<1>4. ASSUME NEW d \in Chains, ~On(d, sect), Shown(v, d)
      PROVE  Shown(w, d)
  <2>1. SUFFICES ASSUME ~w.wflag, On(d, w.winsect)
                 PROVE  w.win = w.disk[w.winsect]
    BY DEF Shown
  <2>2. v.winsect # sect /\ v.winsect \in Sectors
    BY <1>4, <2>1, OnData
  <2>3. QED
    BY <1>2, <1>4, <2>1, <2>2 DEF Shown
<1>5. QED
  BY <1>2, <1>3, <1>4 DEF OnlySector

\* One that is stored into the window.
LEMMA WindowOnly ==
  ASSUME NEW v, NEW x \in Volumes, View(x) = View(v), NEW sect \in Data, x.wflag => x.winsect = sect,
         NEW w, w.disk = x.disk, w.winsect = sect, w.wflag
  PROVE  OnlySector(v, w, sect) /\ View(w)[sect] = w.win /\ \A d \in Chains : Shown(w, d)
<1>1. x.disk \in [Sectors -> [Units -> Nat]] /\ sect \in Sectors
  BY DEF Volumes, Data
<1>2. \A t \in Sectors : t # sect => w.disk[t] = View(v)[t] /\ View(w)[t] = View(v)[t]
  BY <1>1 DEF View
<1>3. View(w)[sect] = w.win
  BY <1>1 DEF View
<1>4. \A d \in Chains : Shown(w, d)
  BY DEF Shown
<1>5. QED
  BY <1>2, <1>3, <1>4 DEF OnlySector

\* A whole sector.
LEMMA PutWholeData ==
  ASSUME FatInv, DataInv, PutWhole
  PROVE  DataInv'
<1> DEFINE data == [u \in Units |-> Datum(fp.ptr + u)]
<1>1. /\ call.at \in InSector /\ call.at \in Transferring /\ call.at = "whole" /\ UNCHANGED misread
  BY DEF PutWhole, InSector, Transferring
<1>2. PICK chain \in [Files -> Chains] : Links(View(volume), handle, call, chain)
  BY DEF FatInv, Linked
<1>3. /\ TypeOK /\ VolumeOK(volume) /\ volume \in Volumes /\ call \in Calls /\ fp \in FILs
      /\ TransferOK(fp, call) /\ fp.ptr % SS = 0 /\ fp.dsect \in Sectors \cup {0}
      /\ volume.wflag => volume.winsect # 0
  BY <1>1, <1>2, DataContext, InSectorFacts DEF VolumeOK, WindowOn
<1>4. call.op = "put" /\ call.n >= SS /\ WritesOn(fp)
  BY <1>1, <1>3 DEF TransferOK, WritesOn
<1>5. PICK ch \in Chains : ch = chain[call.f]
  BY DataContext
<1>6. /\ fp.ptr \in Nat /\ fp.ptr < Len(ch) * SSC /\ Sect \in Data /\ Sect \in Sectors
      /\ On(ch, Sect) /\ Shown(volume, ch)
  BY <1>1, <1>2, <1>5, Here DEF Data
<1>7. Single(call.n)
  BY <1>1, <1>2, TransferFacts
<1>8. Whole = 1 /\ SS * Whole = SS /\ (fp.ptr + SS * Whole) % SS = 0
  BY <1>3, <1>4, <1>7, WholeOne, WholeFits
<1>9. /\ Over(data).disk = [volume.disk EXCEPT ![Sect] = data] /\ Over(data).winsect = volume.winsect
      /\ Over(data).win = volume.win /\ Over(data).wflag = volume.wflag
  BY <1>3 DEF Over, Volumes
<1> HIDE DEF data
<1>10. CASE /\ volume' = Past(Over(data)) /\ Holds(SS * Whole) /\ Transfer(fp, SS * Whole) /\ UNCHANGED sure
  <2>1. /\ volume'.disk = [volume.disk EXCEPT ![Sect] = data] /\ volume'.winsect = volume.winsect
        /\ volume.winsect # Sect => volume'.win = volume.win /\ volume'.wflag = volume.wflag
        /\ volume.winsect = Sect => volume'.win = data /\ volume'.wflag = FALSE
    <3>1. PICK s \in Sectors : s = Sect
      BY <1>6
    <3>2. s \in Nat /\ volume.winsect \in Nat
      BY <1>3, Layout DEF Sectors, Volumes
    <3>3. CASE volume.winsect = s
      <4>1. volume.winsect - Sect = 0 /\ 0 \in 0..Whole - 1
        BY <1>8, <3>1, <3>2, <3>3
      <4>2. [u \in Units |-> Datum(fp.ptr + 0 * SS + u)] = data
        <5>1. \A u \in Units : fp.ptr + 0 * SS + u = fp.ptr + u
          BY <1>6 DEF Units
        <5>2. QED
          BY <5>1, Zenon DEF data
      <4>3. volume' = [Over(data) EXCEPT !.win = data, !.wflag = FALSE]
        <5>1. Past(Over(data)) = [Over(data) EXCEPT !.win = [u \in Units |-> Datum(fp.ptr + 0 * SS + u)],
                                                    !.wflag = FALSE]
          BY <1>9, <4>1, Zenon DEF Past
        <5>2. QED
          BY <1>10, <4>2, <5>1, Zenon
      <4>4. QED
        BY <1>3, <1>9, <3>1, <3>3, <4>3 DEF Over, Volumes
    <3>4. CASE volume.winsect # s
      <4>1. (volume.winsect - s) \notin 0..1 - 1
        BY <3>2, <3>4
      <4>2. volume' = Over(data)
        BY <1>8, <1>9, <1>10, <3>1, <4>1 DEF Past
      <4>3. QED
        BY <1>9, <3>1, <3>4, <4>2
    <3>5. QED
      BY <3>3, <3>4
  <2>2. OnlySector(volume, volume', Sect)
    BY <1>3, <1>6, <2>1, DiskOnly, Zenon
  <2>3. View(volume')[Sect] = data
    BY <1>3, <1>6, <2>1 DEF View, Volumes
  <2>4. Shown(volume', ch)
    BY <1>3, <1>6, <2>1 DEF Shown, Volumes
  <2>5. StoredIn(View(volume), View(volume'), Sect, fp.ptr % SS, fp.ptr, SS, held[call.f])
    <3>1. ASSUME NEW u \in Units
          PROVE  u >= 0 /\ u < 0 + SS /\ View(volume')[Sect][u] = Datum((fp.ptr - 0) + u)
      BY <1>6, <2>3 DEF Units, data
    <3>2. \A t \in Data : t # Sect => View(volume')[t] = View(volume)[t]
      BY <2>2 DEF OnlySector, Data
    <3>3. QED
      BY <1>3, <3>1, <3>2 DEF StoredIn
  <2>6. PICK s \in Sectors \cup {0} : s = fp.dsect
    BY <1>3, Zenon
  <2>7. Transfer([fp EXCEPT !.dsect = s], SS) /\ Holds(SS)
    BY <1>3, <1>8, <1>10, <2>6, OwnSector, Zenon
  <2>8. (fp.ptr + SS) % SS # 0 => s = Sect
    BY <1>8
  <2>9. PICK room \in Nat : room = Len(ch) * SSC
    BY Room
  <2>10. fp.ptr + SS <= room
    <3>1. PICK k \in Nat : k = Len(ch)
      BY ChainType
    <3>2. fp.ptr < k * SSC
      BY <1>6, <3>1, Zenon
    <3>3. fp.ptr + SS * Whole <= k * SSC
      BY <1>3, <1>4, <3>2, WholeFits, Zenon
    <3>4. QED
      BY <1>8, <2>9, <3>1, <3>3, Zenon
  <2>11. (fp.ptr % SS) + SS <= SS /\ SS \in Nat \ {0} /\ SS > 0 /\ SS <= call.n
    BY <1>3, <1>4 DEF Calls
  <2>12. QED
    BY <1>1, <1>2, <1>4, <1>5, <1>10, <2>2, <2>4, <2>5, <2>6, <2>7, <2>8, <2>9, <2>10, <2>11, PutStep
<1>11. CASE volume' \in BadWrite(volume, Sect, data) /\ Abort /\ UNCHANGED held
  <2>1. volume' = volume \/ volume' = Over(data)
    BY <1>11 DEF BadWrite, Over
  <2>2. CASE volume' = volume
    BY <1>1, <1>11, <2>2, StillSame, AbortData
  <2>3. CASE volume' = Over(data)
    <3>1. OnlySector(volume, volume', Sect)
      BY <1>3, <1>6, <1>9, <2>3, DiskOnly
    <3>2. ASSUME NEW g \in Files \ {call.f}
          PROVE  Quiet(volume, volume', g, Root(View(volume), handle, call, g), chain[g])
      BY <1>1, <1>2, <1>5, <1>6, <3>1, <3>2, OthersQuiet
    <3>3. /\ call' = Idle /\ \A g \in Files \ {call.f} : handle'[g] = handle[g] /\ sure'[g] = sure[g]
          /\ ~sure'[call.f]
      <4>1. /\ call' = Idle /\ handle' = [handle EXCEPT ![call.f] = [fp EXCEPT !.error = TRUE]]
            /\ sure' = [sure EXCEPT ![call.f] = @ /\ ~Writing(call.f)]
        BY <1>11 DEF Abort, Failed, Done
      <4>2. Writing(call.f) /\ call.f \in Files /\ sure \in [Files -> BOOLEAN] /\ handle \in [Files -> FILs]
        BY <1>4, DataContext DEF Writing, WritesOn, fp
      <4>3. QED
        BY <4>1, <4>2
    <3>4. CallTrue' /\ call'.at = "idle" /\ call.f \in Files /\ ~misread'
      BY <1>1, <3>3, IdleTrue, DataContext DEF Idle
    <3>5. QED
      BY <1>2, <1>11, <3>2, <3>3, <3>4, DataStep
  <2>4. QED
    BY <2>1, <2>2, <2>3
<1>12. QED
  BY <1>1, <1>10, <1>11, Zenon DEF PutWhole, Over, data

LEMMA FitWindow ==
  ASSUME NEW v \in Volumes, NEW from, from = fp.ptr % SS, NEW m, m = Partial, NEW u \in Units
  PROVE  Fit(v).win[u] = IF u - from \in 0..m - 1 THEN Datum((fp.ptr - from) + u) ELSE v.win[u]
<1> DEFINE new == [t \in Units |-> IF t - from \in 0..m - 1 THEN Datum(fp.ptr - from + t) ELSE v.win[t]]
<1>1. Fit(v) = [v EXCEPT !.win = new, !.wflag = TRUE]
  BY Zenon DEF Fit
<1>2. Fit(v).win = new
  BY <1>1 DEF Volumes
<1>3. QED
  BY <1>2

\* What is in the window then: the sector as it was, with what the call stores.
LEMMA FitStored ==
  ASSUME fp \in FILs, NEW x \in Volumes, NEW m \in Nat \ {0}, m = Partial, (fp.ptr % SS) + m <= SS,
         Sect \in Data, OnlySector(volume, volume', Sect),
         View(volume')[Sect] = Fit(x).win,
         NEW data, Len(data) \in Nat,
         \/ x.win = View(volume)[Sect]
         \/ fp.ptr % SS = 0 /\ fp.ptr + m >= Len(data)
  PROVE  StoredIn(View(volume), View(volume'), Sect, fp.ptr % SS, fp.ptr, m, data)
<1>1. PICK p \in Nat : p = fp.ptr
  BY DEF FILs
<1>2. PICK from \in 0..SS - 1 : from = fp.ptr % SS
  <2>1. p % SS \in 0..SS - 1
    BY SectorOfUnit, Zenon
  <2>2. QED
    BY <1>1, <2>1, Zenon
<1>3. \A t \in Data : t # Sect => View(volume')[t] = View(volume)[t]
  BY Zenon DEF OnlySector, Data
<1>4. x.win = View(volume)[Sect] \/ (from = 0 /\ p + m >= Len(data))
  BY <1>1, <1>2, Zenon
<1>5. ASSUME NEW u \in Units
      PROVE  IF u >= from /\ u < from + m THEN View(volume')[Sect][u] = Datum((p - from) + u)
             ELSE u < from \/ p + m < Len(data) => View(volume')[Sect][u] = View(volume)[Sect][u]
  <2>1. u \in Nat
    BY DEF Units
  <2>2. View(volume')[Sect][u] = IF u - from \in 0..m - 1 THEN Datum((p - from) + u) ELSE x.win[u]
    BY <1>1, <1>2, FitWindow, ZenonT(30)
  <2>3. u >= from /\ u < from + m <=> u - from \in 0..m - 1
    BY <1>1, <2>1
  <2>4. CASE x.win = View(volume)[Sect]
    BY <2>2, <2>3, <2>4
  <2>5. CASE from = 0 /\ p + m >= Len(data)
    <3>1. ~(u < from) /\ ~(p + m < Len(data))
      BY <1>2, <2>1, <2>5
    <3>2. QED
      BY <2>2, <2>3, <3>1
  <2>6. QED
    BY <1>4, <2>4, <2>5
<1>6. StoredIn(View(volume), View(volume'), Sect, from, p, m, data)
  BY <1>3, <1>5, Zenon DEF StoredIn
<1>7. QED
  BY <1>1, <1>2, <1>6, Zenon

\* A part of a sector.
LEMMA PutFitData ==
  ASSUME FatInv, DataInv, call.at \in InSector, call.op = "put",
         NEW x \in Volumes, View(x) = View(volume), x.wflag => x.winsect = Sect,
         NEW y \in Volumes, y.disk = x.disk, y.win = x.win, y.winsect = Sect,
         \/ x.win = View(volume)[Sect]
         \/ fp.ptr % SS = 0 /\ fp.ptr >= fp.size,
         volume' = Fit(y), Holds(Partial), Transfer([fp EXCEPT !.dsect = Sect], Partial),
         UNCHANGED <<sure, misread>>
  PROVE  DataInv'
<1>1. PICK chain \in [Files -> Chains] : Links(View(volume), handle, call, chain)
  BY DEF FatInv, Linked
<1>2. /\ TypeOK /\ call \in Calls /\ fp \in FILs /\ call.n > 0 /\ call.at \in Transferring /\ call.f \in Files
  BY <1>1, InSectorFacts
<1>3. PICK ch \in Chains : ch = chain[call.f]
  BY <1>2
<1>4. fp.ptr \in Nat /\ fp.ptr < Len(ch) * SSC /\ Sect \in Data /\ Sect \in Sectors /\ Sect \in Sectors \cup {0}
  BY <1>1, <1>3, Here DEF Data
<1>5. /\ fp.size \in Nat /\ held[call.f] \in Seq(Nat) /\ Len(held[call.f]) \in Nat
      /\ Len(held[call.f]) = IF fp.ptr > fp.size THEN fp.ptr ELSE fp.size
  BY <1>1, <1>2, TransferFacts
<1>6. PICK m \in 1..call.n : m = Partial /\ m <= SS - (fp.ptr % SS)
  BY <1>2, PartFits
<1>7. m \in Nat \ {0} /\ m > 0 /\ m <= call.n
  BY <1>2, <1>6 DEF Calls
<1>8. (fp.ptr % SS) + m <= SS
  <2>1. PICK u \in 0..SS - 1 : u = fp.ptr % SS
    BY <1>4, SectorOfUnit, Zenon
  <2>2. m <= SS - u
    BY <1>6, <2>1, Zenon
  <2>3. u + m <= SS
    BY <1>7, <2>2
  <2>4. QED
    BY <2>1, <2>3, Zenon
<1>9. volume'.disk = x.disk /\ volume'.winsect = Sect /\ volume'.wflag = TRUE
  BY <1>2, FitType
<1>10. /\ OnlySector(volume, volume', Sect) /\ View(volume')[Sect] = volume'.win
       /\ Shown(volume', ch)
  BY <1>3, <1>4, <1>9, WindowOnly
<1>11. StoredIn(View(volume), View(volume'), Sect, fp.ptr % SS, fp.ptr, m, held[call.f])
  <2>1. y.win = View(volume)[Sect] \/ (fp.ptr % SS = 0 /\ fp.ptr + m >= Len(held[call.f]))
    <3>1. fp.ptr >= fp.size => fp.ptr + m >= Len(held[call.f])
      <4>1. PICK p \in Nat, size \in Nat, len \in Nat :
              p = fp.ptr /\ size = fp.size /\ len = Len(held[call.f])
        BY <1>4, <1>5
      <4>2. len = IF p > size THEN p ELSE size
        BY <1>5, <4>1, Zenon
      <4>3. p >= size => p + m >= len
        BY <1>7, <4>2
      <4>4. QED
        BY <4>1, <4>3, Zenon
    <3>2. QED
      BY <3>1
  <2>2. View(volume')[Sect] = Fit(y).win
    BY <1>10
  <2>3. QED
    BY <1>2, <1>4, <1>5, <1>6, <1>7, <1>8, <1>10, <2>1, <2>2, FitStored, Zenon
<1>12. Holds(m) /\ Transfer([fp EXCEPT !.dsect = Sect], m)
  BY <1>6
<1>13. PICK room \in Nat : room = Len(ch) * SSC
  BY Room
<1>14. fp.ptr + m <= room
  <2>1. PICK k \in Nat : k = Len(ch)
    <3>1. Len(ch) \in 1..NumClusters
      BY <1>3, ChainType, Zenon
    <3>2. QED
      BY <3>1
  <2>2. fp.ptr < k * SSC
    BY <1>4, <2>1, Zenon
  <2>3. fp.ptr + Partial <= k * SSC
    BY <1>2, <2>2, PartFits, Zenon
  <2>4. QED
    BY <1>6, <1>13, <2>1, <2>3, Zenon
<1>15. PICK s \in Sectors \cup {0} : s = Sect
  BY <1>4
<1>16. Transfer([fp EXCEPT !.dsect = s], m)
  BY <1>12, <1>15
<1>17. QED
  BY <1>1, <1>3, <1>7, <1>8, <1>10, <1>11, <1>12, <1>13, <1>14, <1>15, <1>16, PutStep

\* At the growing edge.
LEMMA PutEdgeData ==
  ASSUME "torn" \notin Kinds, FatInv, DataInv, PutEdge
  PROVE  DataInv'
<1>1. /\ call.at \in InSector /\ call.at \in Transferring /\ call.at = "edge" /\ UNCHANGED misread
  BY DEF PutEdge, InSector, Transferring
<1>2. PICK chain \in [Files -> Chains] : Links(View(volume), handle, call, chain)
  BY DEF FatInv, Linked
<1>3. /\ VolumeOK(volume) /\ volume \in Volumes /\ WindowOn(volume, Meta) /\ call \in Calls
      /\ call.op = "put" /\ fp.ptr % SS = 0 /\ fp.ptr >= fp.size
  BY <1>1, <1>2, DataContext, InSectorFacts DEF VolumeOK, TransferOK, CallTrue
<1>4. Sect \in Sectors
  BY <1>1, <1>2, Here DEF Data
<1> DEFINE x == Moved(volume, 0)
           y == [x EXCEPT !.winsect = Sect]
<1>5. x \in Volumes /\ View(x) = View(volume) /\ ~x.wflag
  <2>1. volume.winsect = 0 => x = volume /\ ~volume.wflag
    BY <1>3 DEF Moved, WindowOn
  <2>2. QED
    BY <1>3, <2>1, MovedView
<1> HIDE DEF x
<1>6. y \in Volumes /\ y.disk = x.disk /\ y.win = x.win /\ y.winsect = Sect
  BY <1>4, <1>5 DEF Volumes
<1>7. CASE /\ volume' = Fit(y) /\ Holds(Partial) /\ Transfer([fp EXCEPT !.dsect = Sect], Partial)
           /\ UNCHANGED sure
  <2> HIDE DEF y
  <2>1. QED
    BY <1>1, <1>3, <1>5, <1>6, <1>7, PutFitData
<1>8. CASE volume' \in Unmoved(volume, 0) /\ Abort /\ UNCHANGED held
  <2>1. Still(volume, volume')
    BY <1>3, <1>8, StillUnmoved
  <2>2. QED
    BY <1>1, <1>8, <2>1, AbortData
<1>9. QED
  BY <1>7, <1>8, Zenon DEF PutEdge, x, y

\* Within the file.
LEMMA PutPartData ==
  ASSUME "torn" \notin Kinds, FatInv, DataInv, PutPart
  PROVE  DataInv'
<1>1. /\ call.at \in InSector /\ call.at \in Transferring /\ call.at = "part" /\ call.op = "put"
      /\ UNCHANGED misread
  BY DEF PutPart, InSector, Transferring
<1>2. PICK chain \in [Files -> Chains] : Links(View(volume), handle, call, chain)
  BY DEF FatInv, Linked
<1> DEFINE ch == chain[call.f]
<1>3. /\ VolumeOK(volume) /\ volume \in Volumes /\ WindowOn(volume, Meta) /\ call \in Calls /\ fp \in FILs
      /\ volume.wflag => volume.winsect # 0
  BY <1>1, <1>2, DataContext DEF VolumeOK, WindowOn
<1>4. /\ fp.dsect = Sect /\ Sect \in Sectors /\ Sect # 0 /\ On(ch, Sect) /\ Shown(volume, ch) /\ ch \in Chains
  <2>1. fp.dsect = Sect /\ Sect \in Data /\ On(ch, Sect) /\ Shown(volume, ch) /\ ch \in Chains
    BY <1>1, <1>2, Here, Zenon
  <2>2. Sect \in Sectors /\ Sect # 0
    BY <2>1, Layout DEF Data, Sectors
  <2>3. QED
    BY <2>1, <2>2
<1> HIDE DEF ch
<1> DEFINE x == Moved(volume, fp.dsect)
           S == {s \in Sectors : On(ch, s)}
<1>5. WindowOn(volume, S) /\ Sect \in S
  BY <1>3, <1>4, ShownWindow
<1>6. x \in Volumes /\ View(x) = View(volume) /\ x.winsect = Sect /\ x.win = View(volume)[Sect]
  BY <1>3, <1>4, <1>5, MovedView
<1> HIDE DEF x
<1>7. CASE volume' = Fit(x) /\ Holds(Partial) /\ Transfer(fp, Partial) /\ UNCHANGED sure
  <2>1. fp = [fp EXCEPT !.dsect = Sect]
    BY <1>3, <1>4, OwnSector
  <2>2. Transfer([fp EXCEPT !.dsect = Sect], Partial)
    BY <1>7, <2>1, Zenon
  <2>3. QED
    BY <1>1, <1>6, <1>7, <2>2, PutFitData
<1>8. CASE volume' \in Unmoved(volume, fp.dsect) /\ Abort /\ UNCHANGED held
  <2>1. Still(volume, volume')
    BY <1>3, <1>4, <1>8, StillUnmoved
  <2>2. QED
    BY <1>1, <1>8, <2>1, AbortData
<1>9. QED
  BY <1>7, <1>8, Zenon DEF PutPart, x

-----------------------------------------------------------------------------
LEMMA DataInit ==
  ASSUME Init
  PROVE  DataInv
<1> DEFINE disk == [s \in Sectors |-> Blank]
<1>1. /\ volume = Mounted(disk) /\ handle = [f \in Files |-> Closed] /\ call = Idle
      /\ held = [f \in Files |-> <<>>] /\ ~misread
  BY Zenon DEF Init
<1>2. disk \in Images /\ (\A s \in Sectors, u \in Units : disk[s][u] = 0)
  BY DEF Images, Blank
<1>3. View(volume) = disk /\ volume.disk = disk
  BY <1>1 DEF View, Mounted
<1> HIDE DEF disk
<1>4. \A f \in Files : StartOf(disk, f) = 0 /\ SizeOf(disk, f) = 0
  BY <1>2, DirAt DEF StartOf, SizeOf
<1>5. /\ call.at = "idle" /\ Closed.mode = "closed" /\ Closed.ptr = 0 /\ Closed.size = 0 /\ ~WritesOn(Closed)
  BY <1>1 DEF Idle, Closed, WritesOn
<1>6. CallTrue
  BY <1>5 DEF CallTrue, Pending, Transferring, Opening
<1>7. ASSUME NEW f \in Files
      PROVE  Holding(volume, handle, call, f, held[f])
  <2>1. handle[f] = Closed /\ held[f] = <<>> /\ Len(held[f]) = 0
    BY <1>1
  <2>2. Root(View(volume), handle, call, f) = 0 /\ 0 \notin Clusters
    BY <1>3, <1>4, <1>5, <2>1 DEF Root, Clusters
  <2>3. Extent(disk, Closed, call, f, <<>>)
    BY <1>4, <1>5, <2>1 DEF Extent
  <2>4. \A ch \in Chains : ~IsChain(disk, 0, ch)
    BY <2>2, ChainType DEF IsChain
  <2>5. call.at \notin InSector
    BY <1>5 DEF InSector
  <2>6. FileTrue(volume, Closed, call, f, 0, <<>>)
    BY <1>3, <2>3, <2>4, <2>5 DEF FileTrue, SameRecord
  <2>7. QED
    BY <2>1, <2>2, <2>6 DEF Holding
<1>8. QED
  BY <1>1, <1>6, <1>7 DEF DataInv

LEMMA DataNext ==
  ASSUME "torn" \notin Kinds, UpdateSize <= SSC, OneSector, FatInv, DataInv, [Next]_vars
  PROVE  DataInv'
<1>1. CASE Begins
  BY <1>1, OpenData, ReadData, WriteData, RewindData, CloseData DEF Begins
<1>2. CASE Remount
  BY <1>2, RemountData
<1>3. CASE FollowPath \/ Truncate \/ RemoveChain \/ Reuse \/ Opened
  BY <1>3, FollowPathData, TruncateData, RemoveChainData, ReuseData, OpenedData
<1>4. CASE Iterate \/ Advance \/ FindFree \/ Link \/ Join
  BY <1>4, IterateData, AdvanceData, FindFreeData, LinkData, JoinData
<1>5. CASE GetWhole \/ GetSector \/ GetPart \/ GetDone
  BY <1>5, GetWholeData, GetSectorData, GetPartData, GetDoneData
<1>6. CASE PutSector \/ PutWhole \/ PutEdge \/ PutPart \/ PutDone
  BY <1>6, PutSectorData, PutWholeData, PutEdgeData, PutPartData, PutDoneData
<1>7. CASE Record \/ Sync
  BY <1>7, RecordData, SyncData
<1>8. CASE UNCHANGED vars
  <2>1. CallTrue' = CallTrue
    BY <1>8 DEF vars, CallTrue, fp
  <2>2. QED
    BY <1>8, <2>1 DEF vars, DataInv
<1>9. QED
  BY <1>1, <1>2, <1>3, <1>4, <1>5, <1>6, <1>7, <1>8 DEF Next

\* What is sure of a file that is not being written is on the card.
LEMMA DataDurable ==
  ASSUME FatInv, DataInv
  PROVE  Durable
<1> SUFFICES ASSUME NEW f \in Files, sure[f], ~Writing(f)
             PROVE  Contains(volume.disk, f, held[f])
  BY DEF Durable
<1> DEFINE V == View(volume)
           D == volume.disk
           data == held[f]
           r == Root(V, handle, call, f)
<1>1. PICK chain \in [Files -> Chains] : Links(V, handle, call, chain)
  BY DEF FatInv, Linked
<1>2. PICK ch \in Chains : ch = chain[f]
  OBVIOUS
<1>3. /\ r = StartOf(V, f) /\ FileTrue(volume, handle[f], call, f, r, data)
      /\ (r \in Clusters => IsChain(V, r, ch))
      /\ SameRecord(V, D, f) /\ (r \in Clusters => Kept(V, D, ch))
      /\ Len(data) = SizeOf(V, f)
  BY <1>1, <1>2, OnCard DEF Writing, WritesOn
<1>4. data \in Seq(Nat)
  BY DataContext
<1> HIDE DEF V, D, r, data
<1>5. SizeOf(D, f) = Len(data) /\ StartOf(D, f) = r
  BY <1>3 DEF SameRecord
<1>6. ASSUME data # <<>>
      PROVE  /\ ch \in ChainOf(D, f) /\ Len(ch) * SS * CSize >= Len(data)
             /\ \A p \in DOMAIN data :
                  D[clust2sect(ch[(p - 1) \div (SS * CSize) + 1]) + (((p - 1) \div SS) % CSize)][(p - 1) % SS]
                    = data[p]
  <2>1. r \in Clusters
    BY <1>3, <1>6 DEF FileTrue
  <2>2. Contents(V, ch, data) /\ IsChain(V, r, ch) /\ Kept(V, D, ch)
    BY <1>3, <2>1 DEF FileTrue, V
  <2>3. Contents(D, ch, data) /\ IsChain(D, r, ch)
    BY <1>4, <2>2, ContentsKept, KeptChain, Zenon
  <2>4. ch \in ChainOf(D, f)
    BY <1>5, <2>3 DEF ChainOf
  <2>5. Len(ch) * SS * CSize = Len(ch) * SSC /\ Len(ch) * SSC >= Len(data)
    <3>1. PICK k \in Nat : k = Len(ch)
      BY ChainType
    <3>2. k * SS * CSize = k * (SS * CSize)
      BY <3>1
    <3>3. Len(data) <= Len(ch) * SSC /\ Len(data) \in Nat /\ Len(ch) * SSC \in Nat
      BY <1>4, <2>3, Room DEF Contents
    <3>4. QED
      BY <3>1, <3>2, <3>3 DEF SSC
  <2>6. \A p \in 1..Len(data) : D[SectorAt(ch, p - 1)][(p - 1) % SS] = data[p]
    BY <2>3 DEF Contents
  <2>7. DOMAIN data = 1..Len(data)
    BY <1>4
  <2>8. QED
    BY <2>4, <2>5, <2>6, <2>7, Zenon DEF SectorAt, SSC
<1>7. Contains(D, f, data)
  BY <1>5, <1>6, Zenon DEF Contains
<1>8. QED
  BY <1>7 DEF D, data

LEMMA FatData ==
  ASSUME "torn" \notin Kinds, UpdateSize <= SSC, OneSector
  PROVE  Spec => [](FatInv /\ DataInv)
<1>1. Spec => []FatInv
  BY FatSafe
<1>2. Init => DataInv
  BY DataInit
<1>3. FatInv /\ DataInv /\ [Next]_vars => DataInv'
  BY DataNext
<1>4. QED
  BY <1>1, <1>2, <1>3, PTL DEF Spec

\* What f_close has answered FR_OK to (ff.c:2387) is on the card, and stays there
\* whatever other calls do and wherever they fail, or the supply does, until the file is
\* opened for writing.  This needs, besides what FatSound does, that disk_write never
\* has more than one sector to transfer (diskio.c:97): MultiSector shows what happens
\* otherwise.
THEOREM FatDurable ==
  ASSUME "torn" \notin Kinds, UpdateSize <= SS * CSize, OneSector
  PROVE  Spec => []Durable
<1>1. Spec => [](FatInv /\ DataInv)
  BY FatData DEF SSC
<1>2. FatInv /\ DataInv => Durable
  BY DataDurable
<1>3. QED
  BY <1>1, <1>2, PTL

\* Under the same assumptions, f_read delivers what the calls of f_write have put in the
\* file, though the one window is moved between the FAT, the directory, the file that is
\* read and one that is being written (ff.c:2133-2217).
THEOREM FatReadsTrue ==
  ASSUME "torn" \notin Kinds, UpdateSize <= SS * CSize, OneSector
  PROVE  Spec => []ReadsTrue
<1>1. Spec => [](FatInv /\ DataInv)
  BY FatData DEF SSC
<1>2. DataInv => ReadsTrue
  BY DEF DataInv, ReadsTrue
<1>3. QED
  BY <1>1, <1>2, PTL
=============================================================================
