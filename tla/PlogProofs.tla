----------------------------- MODULE PlogProofs -----------------------------
(***************************************************************************)
(* Proofs about Plog: what a mounted plog reads is what was appended or is *)
(* refused, whatever decayed; nothing is lost or invented when nothing     *)
(* decayed; recorded prefixes are stable; and the plog writes only where   *)
(* its journal protects it, as CommitContract allows.                      *)
(***************************************************************************)
EXTENDS Plog, SequenceTheorems, TLAPS

-----------------------------------------------------------------------------
(* Quotients and remainders.                                               *)

\* A number is its quotient times the divisor and its remainder.
LEMMA DivMod ==
    ASSUME NEW n \in Nat, NEW d \in Nat \ {0}
    PROVE  /\ n \div d \in Nat /\ n % d \in Nat /\ n % d < d
           /\ n = (n \div d) * d + (n % d)
  OBVIOUS

\* Products with one factor fixed are ordered as the other factor is.
LEMMA Multiples ==
    ASSUME NEW a \in Nat, NEW b \in Nat, NEW d \in Nat
    PROVE  /\ a * d \in Nat
           /\ a <= b => a * d <= b * d
           /\ a < b => a * d + d <= b * d
           /\ (a + 1) * d = a * d + d
  OBVIOUS

\* The quotient and the remainder are unique.
LEMMA DivUnique ==
    ASSUME NEW q \in Nat, NEW r \in Nat, NEW d \in Nat \ {0}, r < d, NEW n, n = q * d + r
    PROVE  n \in Nat /\ n \div d = q /\ n % d = r
<1>1. n \in Nat /\ n \div d \in Nat /\ n % d \in Nat /\ n = (n \div d) * d + (n % d) /\ n % d < d
  BY DivMod
<1>2. ~(n \div d < q)
  BY <1>1, Multiples
<1>3. ~(n \div d > q)
  BY <1>1, Multiples
<1> QED BY <1>1, <1>2, <1>3

\* The geometry's numbers.
LEMMA Numbers ==
    /\ SectorUnits \in Nat \ {0} /\ HashesPerBlock \in Nat \ {0} /\ HashesPerBlock + 1 \in Nat \ {0}
    /\ BlockUnits \in Nat \ {0} /\ BlockUnits = HashesPerBlock * SectorUnits
    /\ MaxUnits \in Nat /\ MaxAppend \in Nat /\ MaxFaults \in Nat /\ MaxRot \in Nat
  BY GeometryAssumption, BoundsAssumption DEF BlockUnits

\* Where sector i is (CalcPhysical).
LEMMA SectorPlace ==
    ASSUME NEW i \in Nat
    PROVE  /\ i \div HashesPerBlock \in Nat /\ i % HashesPerBlock \in Nat /\ i % HashesPerBlock < HashesPerBlock
           /\ i = (i \div HashesPerBlock) * HashesPerBlock + (i % HashesPerBlock)
           /\ CalcPhysical(i) = 1 + (i \div HashesPerBlock) * (HashesPerBlock + 1) + (i % HashesPerBlock)
           /\ CalcPhysical(i) \in Nat /\ CalcPhysical(i) >= 1
           /\ (CalcPhysical(i) - 1) \div (HashesPerBlock + 1) = i \div HashesPerBlock
           /\ (CalcPhysical(i) - 1) % (HashesPerBlock + 1) = i % HashesPerBlock
<1> DEFINE b == i \div HashesPerBlock  c == i % HashesPerBlock  d == HashesPerBlock + 1
<1>1. b \in Nat /\ c \in Nat /\ c < HashesPerBlock /\ i = b * HashesPerBlock + c /\ d \in Nat \ {0} /\ HashesPerBlock \in Nat
  BY Numbers, DivMod
<1>2. CalcPhysical(i) = 1 + b * d + c
  BY DEF CalcPhysical
<1> HIDE DEF b, c, d
<1>3. c < d
  BY <1>1 DEF d
<1>4. b * d \in Nat /\ CalcPhysical(i) - 1 = b * d + c /\ CalcPhysical(i) \in Nat /\ CalcPhysical(i) >= 1
  <2>1. b * d \in Nat
    BY <1>1
  <2> QED BY <1>1, <1>2, <2>1
<1>5. (CalcPhysical(i) - 1) \div d = b /\ (CalcPhysical(i) - 1) % d = c
  <2>1. b \in Nat /\ c \in Nat /\ d \in Nat \ {0}
    BY <1>1
  <2>2. (b * d + c) \div d = b /\ (b * d + c) % d = c
    BY <2>1, <1>3, DivUnique
  <2> QED BY <1>4, <2>2, Zenon
<1> QED BY <1>1, <1>2, <1>4, <1>5 DEF b, c, d

\* Where the hash sector of block b is.
LEMMA HashPlace ==
    ASSUME NEW b \in Nat
    PROVE  /\ hashSectorPhys(b) = 1 + b * (HashesPerBlock + 1) + HashesPerBlock
           /\ hashSectorPhys(b) \in Nat /\ hashSectorPhys(b) >= 1
           /\ (hashSectorPhys(b) - 1) \div (HashesPerBlock + 1) = b
           /\ (hashSectorPhys(b) - 1) % (HashesPerBlock + 1) = HashesPerBlock
<1> DEFINE d == HashesPerBlock + 1
<1>1. d \in Nat \ {0} /\ HashesPerBlock \in Nat /\ HashesPerBlock < d
  BY Numbers
<1>2. hashSectorPhys(b) = 1 + b * d + HashesPerBlock
  BY DEF hashSectorPhys
<1> HIDE DEF d
<1>3. b * d \in Nat /\ hashSectorPhys(b) - 1 = b * d + HashesPerBlock
  BY <1>1, <1>2, Multiples
<1>4. (hashSectorPhys(b) - 1) \div d = b /\ (hashSectorPhys(b) - 1) % d = HashesPerBlock
  BY <1>1, <1>3, DivUnique
<1> QED BY <1>1, <1>2, <1>3, <1>4 DEF d

\* Later sectors are further back in the file.
LEMMA SectorsInOrder ==
    ASSUME NEW i \in Nat, NEW j \in Nat, i < j
    PROVE  CalcPhysical(i) < CalcPhysical(j)
<1> DEFINE b == i \div HashesPerBlock  c == i % HashesPerBlock
           e == j \div HashesPerBlock  g == j % HashesPerBlock  h == HashesPerBlock  d == HashesPerBlock + 1
<1>1. /\ b \in Nat /\ c \in Nat /\ c < h /\ i = b * h + c /\ CalcPhysical(i) = 1 + b * d + c
      /\ e \in Nat /\ g \in Nat /\ g < h /\ j = e * h + g /\ CalcPhysical(j) = 1 + e * d + g
  BY SectorPlace
<1>2. h \in Nat /\ d \in Nat /\ d = h + 1
  BY Numbers
<1> HIDE DEF b, c, e, g, h, d
<1>3. ~(e < b)
  BY <1>1, <1>2, Multiples
<1>4. CASE e = b
  BY <1>1, <1>2, <1>4, Multiples
<1>5. CASE b < e
  BY <1>1, <1>2, <1>5, Multiples
<1> QED BY <1>1, <1>3, <1>4, <1>5

\* The hash sector of a block comes after its sectors and before those of the next.
LEMMA HashInOrder ==
    ASSUME NEW b \in Nat, NEW i \in Nat
    PROVE  /\ b < i \div HashesPerBlock => hashSectorPhys(b) < CalcPhysical(i)
           /\ b >= i \div HashesPerBlock => hashSectorPhys(b) > CalcPhysical(i)
<1> DEFINE e == i \div HashesPerBlock  g == i % HashesPerBlock  h == HashesPerBlock  d == HashesPerBlock + 1
<1>1. /\ e \in Nat /\ g \in Nat /\ g < h /\ CalcPhysical(i) = 1 + e * d + g /\ hashSectorPhys(b) = 1 + b * d + h
  BY SectorPlace, HashPlace
<1>2. h \in Nat /\ d \in Nat /\ d = h + 1
  BY Numbers
<1> HIDE DEF e, g, h, d
<1>3. b < e => hashSectorPhys(b) < CalcPhysical(i)
  BY <1>1, <1>2, Multiples
<1>4. b >= e => hashSectorPhys(b) > CalcPhysical(i)
  BY <1>1, <1>2, Multiples
<1> QED BY <1>3, <1>4 DEF e

\* A sector is followed by the next one, or by the hash sector of its block.
LEMMA NextSector ==
    ASSUME NEW i \in Nat
    PROVE  /\ (i + 1) % HashesPerBlock # 0 => CalcPhysical(i + 1) = CalcPhysical(i) + 1
           /\ (i + 1) % HashesPerBlock = 0 => /\ CalcPhysical(i + 1) = CalcPhysical(i) + 2
                                              /\ hashSectorPhys(i \div HashesPerBlock) = CalcPhysical(i) + 1
           /\ (i + 1) % HashesPerBlock # 0 => (i + 1) \div HashesPerBlock = i \div HashesPerBlock
           /\ (i + 1) % HashesPerBlock = 0 => (i + 1) \div HashesPerBlock = (i \div HashesPerBlock) + 1
<1> DEFINE b == i \div HashesPerBlock  c == i % HashesPerBlock  h == HashesPerBlock  d == HashesPerBlock + 1
<1>1. /\ b \in Nat /\ c \in Nat /\ c < h /\ i = b * h + c /\ CalcPhysical(i) = 1 + b * d + c
      /\ hashSectorPhys(b) = 1 + b * d + h
  BY SectorPlace, HashPlace
<1>2. h \in Nat \ {0} /\ d \in Nat /\ d = h + 1
  BY Numbers
<1>3. CalcPhysical(i + 1) = 1 + ((i + 1) \div h) * d + ((i + 1) % h)
  BY SectorPlace
<1> HIDE DEF b, c, h, d
<1>4. CASE c + 1 < h
  <2> DEFINE j == i + 1  e == c + 1
  <2>1. b \in Nat /\ h \in Nat \ {0} /\ e \in Nat /\ e < h /\ j = b * h + e
    BY <1>1, <1>2, <1>4
  <2> HIDE DEF j, e
  <2>3. (b * h + e) \div h = b /\ (b * h + e) % h = e
    BY <2>1, DivUnique
  <2>2. j \div h = b /\ j % h = e
    BY <2>1, <2>3, Zenon
  <2> USE DEF j, e
  <2>4. h # 0 /\ e # 0
    BY <1>1, <1>2
  <2> QED BY <1>1, <1>2, <1>3, <2>2, <2>4 DEF b, h
<1>5. CASE c + 1 = h
  <2> DEFINE j == i + 1  e == b + 1
  <2>1. e \in Nat /\ j = e * h + 0
    BY <1>1, <1>2, <1>5, Multiples
  <2> HIDE DEF j, e
  <2>2. j \div h = e /\ j % h = 0
    BY <1>2, <2>1, DivUnique
  <2> USE DEF j, e
  <2>3. (b + 1) * d = b * d + d
    BY <1>1, <1>2, Multiples
  <2> QED BY <1>1, <1>2, <1>3, <1>5, <2>2, <2>3 DEF b, h
<1> QED BY <1>1, <1>2, <1>4, <1>5

\* The block, the sector of it and the unit of that at which n units end.
LEMMA Position ==
    ASSUME NEW n \in Nat
    PROVE  /\ Whole(n) \in Nat /\ n % SectorUnits \in Nat /\ n % SectorUnits < SectorUnits
           /\ n = Whole(n) * SectorUnits + (n % SectorUnits)
           /\ n \div BlockUnits \in Nat /\ n \div BlockUnits = Whole(n) \div HashesPerBlock
           /\ n % BlockUnits = (Whole(n) % HashesPerBlock) * SectorUnits + (n % SectorUnits)
           /\ n % BlockUnits = 0 <=> Whole(n) % HashesPerBlock = 0 /\ n % SectorUnits = 0
           /\ BlockStart(n) = (n \div BlockUnits) * BlockUnits
           /\ BlockStart(n) \div SectorUnits = (n \div BlockUnits) * HashesPerBlock
           /\ BlockPhysical(n) = 1 + (n \div BlockUnits) * (HashesPerBlock + 1)
<1> DEFINE w == Whole(n)  r == n % SectorUnits  b == w \div HashesPerBlock  c == w % HashesPerBlock
           s == SectorUnits  h == HashesPerBlock
<1>1. s \in Nat \ {0} /\ h \in Nat \ {0} /\ BlockUnits = h * s /\ BlockUnits \in Nat \ {0}
  BY Numbers
<1>2. w \in Nat /\ r \in Nat /\ r < s /\ n = w * s + r
  BY Numbers, DivMod DEF Whole
<1>3. b \in Nat /\ c \in Nat /\ c < h /\ w = b * h + c
  BY <1>2, Numbers, DivMod
<1> HIDE DEF w, r, b, c, s, h
<1>4. c * s + r \in Nat /\ c * s + r < h * s
  BY <1>1, <1>2, <1>3, Multiples
<1>5. (b * h) * s = b * (h * s) /\ (b * h + c) * s = (b * h) * s + c * s
  BY <1>1, <1>3
<1>6. n = b * BlockUnits + (c * s + r)
  BY <1>1, <1>2, <1>3, <1>5
<1>7. n \div BlockUnits = b /\ n % BlockUnits = c * s + r
  <2> DEFINE e == c * s + r  d == BlockUnits
  <2>1. b \in Nat /\ e \in Nat /\ d \in Nat \ {0} /\ e < d /\ n = b * d + e
    BY <1>1, <1>3, <1>4, <1>6
  <2> HIDE DEF e, d
  <2>2. n \div d = b /\ n % d = e
    BY <2>1, DivUnique, SMTT(20)
  <2> QED BY <2>2 DEF e, d
<1>8. c * s + r = 0 <=> c = 0 /\ r = 0
  <2>1. c > 0 => c * s >= s
    BY <1>1, <1>3, Multiples
  <2> QED BY <1>1, <1>2, <1>3, <2>1
<1>9. BlockStart(n) = b * BlockUnits
  BY <1>7 DEF BlockStart
<1>10. BlockStart(n) \div s = b * h
  <2>1. b * h \in Nat /\ BlockStart(n) = (b * h) * s + 0
    BY <1>1, <1>3, <1>5, <1>9, Multiples
  <2> QED BY <1>1, <2>1, DivUnique
<1>11. BlockPhysical(n) = 1 + b * (h + 1)
  <2>1. BlockPhysical(n) = CalcPhysical(b * h)
    BY <1>10 DEF BlockPhysical, s
  <2>2. b * h \in Nat /\ (b * h) \div h = b /\ (b * h) % h = 0
    BY <1>1, <1>3, DivUnique, Multiples
  <2>3. CalcPhysical(b * h) = 1 + ((b * h) \div h) * (h + 1) + ((b * h) % h)
    BY DEF CalcPhysical, h
  <2> QED BY <1>1, <1>3, <2>1, <2>2, <2>3, Multiples
<1> QED BY <1>2, <1>3, <1>7, <1>8, <1>9, <1>10, <1>11 DEF w, r, b, c, s, h

\* What a quotient exceeds.
LEMMA DivLess ==
    ASSUME NEW n \in Nat, NEW d \in Nat \ {0}, NEW i \in Nat
    PROVE  i < n \div d <=> (i + 1) * d <= n
<1> DEFINE q == n \div d  r == n % d
<1>1. q \in Nat /\ r \in Nat /\ r < d /\ n = q * d + r
  BY DivMod
<1> HIDE DEF q, r
<1>2. q * d \in Nat /\ i * d \in Nat /\ (i + 1) * d = i * d + d
  BY <1>1, Multiples
<1>3. i < q => i * d + d <= q * d
  BY <1>1, Multiples
<1>4. q <= i => q * d <= i * d
  BY <1>1, Multiples
<1>5. i < q <=> (i + 1) * d <= n
  BY <1>1, <1>2, <1>3, <1>4
<1> QED BY <1>5 DEF q

\* Quotients are ordered as their dividends are.
LEMMA DivOrdered ==
    ASSUME NEW m \in Nat, NEW n \in Nat, m <= n, NEW d \in Nat \ {0}
    PROVE  m \div d <= n \div d
<1> DEFINE p == m \div d  q == n \div d
<1>1. p \in Nat /\ q \in Nat
  BY DivMod
<1> SUFFICES ASSUME q < p PROVE FALSE
  BY <1>1
<1>2. (q + 1) * d <= m
  BY <1>1, DivLess
<1>3. (q + 1) * d \in Nat
  BY <1>1
<1>4. (q + 1) * d <= n
  BY <1>2, <1>3
<1>5. q < n \div d
  BY <1>1, <1>4, DivLess
<1> QED BY <1>1, <1>5

\* The whole sectors and complete blocks of n units.
LEMMA WholeFacts ==
    ASSUME NEW n \in Nat
    PROVE  /\ \A i \in Nat : i < Whole(n) <=> (i + 1) * SectorUnits <= n
           /\ \A b \in Nat : b < n \div BlockUnits <=> (b + 1) * BlockUnits <= n
           /\ \A m \in Nat : m <= n => Whole(m) <= Whole(n) /\ m \div BlockUnits <= n \div BlockUnits
  BY Numbers, DivLess, DivOrdered DEF Whole

\* Quotients of lengths are numbers.
LEMMA Counts ==
    ASSUME NEW n \in Nat
    PROVE  Whole(n) \in Nat /\ n \div BlockUnits \in Nat
  BY Numbers, DivMod DEF Whole

\* A length that is a whole number of sectors and less than a sector.
LEMMA WholeOf ==
    ASSUME NEW i \in Nat, NEW r \in Nat, r < SectorUnits
    PROVE  /\ i * SectorUnits + r \in Nat
           /\ Whole(i * SectorUnits + r) = i /\ (i * SectorUnits + r) % SectorUnits = r
<1>1. SectorUnits \in Nat \ {0}
  BY Numbers
<1>2. i * SectorUnits + r \in Nat
  BY <1>1
<1> QED BY <1>1, <1>2, DivUnique DEF Whole

\* Sectors that hold n units, the ragged one included.
LEMMA HoldingFacts ==
    ASSUME NEW n \in Nat
    PROVE  /\ n % SectorUnits = 0 => Holding(n) = Whole(n)
           /\ n % SectorUnits # 0 => Holding(n) = Whole(n) + 1
<1> DEFINE w == Whole(n)  r == n % SectorUnits  s == SectorUnits
<1>1. s \in Nat \ {0} /\ w \in Nat /\ r \in Nat /\ r < s /\ n = w * s + r
  BY Numbers, Position
<1>2. Holding(n) = (n + s - 1) \div s
  BY DEF Holding
<1> HIDE DEF w, r, s
<1>3. w * s \in Nat /\ (w + 1) * s = w * s + s
  BY <1>1, Multiples
<1>4. CASE r = 0
  <2> DEFINE e == s - 1  x == n + s - 1
  <2>1. w \in Nat /\ e \in Nat /\ s \in Nat \ {0} /\ e < s /\ x = w * s + e
    BY <1>1, <1>3, <1>4
  <2> HIDE DEF e, x
  <2>2. x \div s = w
    BY <2>1, DivUnique, Zenon
  <2> QED BY <1>1, <1>2, <1>4, <2>2 DEF x, w, r, s
<1>5. CASE r # 0
  <2> DEFINE e == r - 1  x == n + s - 1  v == w + 1
  <2>1. v \in Nat /\ e \in Nat /\ s \in Nat \ {0} /\ e < s /\ x = v * s + e
    BY <1>1, <1>3, <1>5
  <2> HIDE DEF e, x, v
  <2>2. x \div s = v
    BY <2>1, DivUnique, Zenon
  <2> QED BY <1>1, <1>2, <1>5, <2>1, <2>2 DEF x, v, w, r, s
<1> QED BY <1>4, <1>5 DEF r

\* That is a number.
LEMMA HoldingCounts ==
    ASSUME NEW n \in Nat
    PROVE  Holding(n) \in Nat
<1>1. Whole(n) \in Nat
  BY Counts
<1> QED BY <1>1, HoldingFacts

\* Sector i of n units is in a complete block or has its place in the open one.
LEMMA SectorBlock ==
    ASSUME NEW n \in Nat, NEW i \in Nat, i < Whole(n)
    PROVE  /\ i \div HashesPerBlock \in Nat /\ i % HashesPerBlock \in Nat /\ i % HashesPerBlock < HashesPerBlock
           /\ i = (i \div HashesPerBlock) * HashesPerBlock + (i % HashesPerBlock)
           /\ ((i \div HashesPerBlock) + 1) * BlockUnits <= n <=> i \div HashesPerBlock < n \div BlockUnits
           /\ \/ i \div HashesPerBlock < n \div BlockUnits
              \/ i \div HashesPerBlock = n \div BlockUnits /\ i % HashesPerBlock < Whole(n) % HashesPerBlock
<1> DEFINE b == i \div HashesPerBlock  c == i % HashesPerBlock  h == HashesPerBlock  w == Whole(n)
           e == w \div HashesPerBlock  g == w % HashesPerBlock
<1>1. b \in Nat /\ c \in Nat /\ c < h /\ i = b * h + c
  BY SectorPlace
<1>2. w \in Nat /\ e = n \div BlockUnits
  BY Position
<1>3. e \in Nat /\ g \in Nat /\ g < h /\ w = e * h + g
  BY <1>2, SectorPlace
<1>4. (b + 1) * BlockUnits <= n <=> b < n \div BlockUnits
  BY <1>1, WholeFacts
<1>5. h \in Nat
  BY Numbers
<1>6. i < w
  OBVIOUS
<1> HIDE DEF b, c, h, w, e, g
<1>7. b < e \/ (b = e /\ c < g)
  <2>1. ~(e < b)
    BY <1>1, <1>3, <1>5, <1>6, Multiples
  <2> QED BY <1>1, <1>3, <1>5, <1>6, <2>1
<1>8. b < n \div BlockUnits \/ (b = n \div BlockUnits /\ c < g)
  BY <1>2, <1>7
<1> QED BY <1>1, <1>4, <1>8, Zenon DEF b, c, h, w, g

\* Every physical sector behind the superblock is a sector's or a block's hash sector.
LEMMA Classify ==
    ASSUME NEW x \in Nat, x >= 1
    PROVE  LET q == (x - 1) \div (HashesPerBlock + 1)
               c == (x - 1) % (HashesPerBlock + 1)
           IN  /\ q \in Nat /\ c \in Nat /\ c <= HashesPerBlock
               /\ c = HashesPerBlock => x = hashSectorPhys(q)
               /\ c < HashesPerBlock => /\ x = CalcPhysical(q * HashesPerBlock + c)
                                        /\ q * HashesPerBlock + c \in Nat
                                        /\ (q * HashesPerBlock + c) \div HashesPerBlock = q
<1> DEFINE q == (x - 1) \div (HashesPerBlock + 1)  c == (x - 1) % (HashesPerBlock + 1)
           h == HashesPerBlock  d == HashesPerBlock + 1
<1>1. h \in Nat \ {0} /\ d \in Nat \ {0} /\ d = h + 1
  BY Numbers
<1>2. x - 1 \in Nat
  OBVIOUS
<1>3. q \in Nat /\ c \in Nat /\ c < d /\ x - 1 = q * d + c
  BY <1>1, <1>2, DivMod
<1>4. hashSectorPhys(q) = 1 + q * d + h
  BY DEF hashSectorPhys
<1>5. CalcPhysical(q * h + c) = 1 + ((q * h + c) \div h) * d + ((q * h + c) % h)
  BY DEF CalcPhysical
<1> HIDE DEF q, c, h, d
<1>6. c = h => x = hashSectorPhys(q)
  BY <1>1, <1>3, <1>4
<1>7. c < h => x = CalcPhysical(q * h + c) /\ (q * h + c) \div h = q /\ q * h + c \in Nat
  <2> SUFFICES ASSUME c < h PROVE x = CalcPhysical(q * h + c) /\ (q * h + c) \div h = q /\ q * h + c \in Nat
    OBVIOUS
  <2>1. (q * h + c) \div h = q /\ (q * h + c) % h = c
    BY <1>1, <1>3, DivUnique
  <2>2. q * d \in Nat /\ q * h \in Nat
    BY <1>1, <1>3
  <2> QED BY <1>3, <1>5, <2>1, <2>2
<1> QED BY <1>1, <1>3, <1>6, <1>7 DEF q, c, h, d

-----------------------------------------------------------------------------
(* Sequences and files.                                                    *)

\* A function on 1 .. n is a sequence of length n.
LEMMA FunctionIsSequence ==
    ASSUME NEW T, NEW n \in Nat, NEW f \in [1 .. n -> T]
    PROVE  f \in Seq(T) /\ Len(f) = n
<1>1. f \in Seq(T)
  BY SeqDef
<1>2. Len(f) \in Nat /\ DOMAIN f = 1 .. Len(f)
  BY <1>1, LenProperties
<1>3. 1 .. n = 1 .. Len(f)
  BY <1>2
<1> QED
  BY <1>1, <1>2, <1>3

\* A sequence is a function, with its elements in their set.
LEMMA SequenceFacts ==
    ASSUME NEW T, NEW s \in Seq(T)
    PROVE  /\ Len(s) \in Nat /\ DOMAIN s = 1 .. Len(s) /\ s \in [1 .. Len(s) -> T]
           /\ \A i \in 1 .. Len(s) : s[i] \in T
  BY LenProperties, ElementOfSeq

\* A slice of a sequence.
LEMMA SliceFacts ==
    ASSUME NEW T, NEW s \in Seq(T), NEW m \in Nat, NEW n \in Nat, m <= n, n <= Len(s)
    PROVE  /\ SubSeq(s, m + 1, n) \in Seq(T) /\ Len(SubSeq(s, m + 1, n)) = n - m
           /\ \A i \in 1 .. n - m : SubSeq(s, m + 1, n)[i] = s[m + i]
<1> DEFINE a == m + 1
<1>1. a \in Int /\ n \in Int /\ Len(s) \in Nat /\ a <= n + 1
  BY SequenceFacts
<1>2. \A i \in a .. n : s[i] \in T
  BY SequenceFacts
<1>3. n - a + 1 = n - m /\ (a <= n \/ n - m = 0)
  OBVIOUS
<1> HIDE DEF a
<1>4. /\ SubSeq(s, a, n) \in Seq(T)
      /\ Len(SubSeq(s, a, n)) = IF a <= n THEN n - a + 1 ELSE 0
      /\ \A i \in 1 .. n - a + 1 : SubSeq(s, a, n)[i] = s[a + i - 1]
  BY <1>1, <1>2, SubSeqProperties
<1>5. Len(SubSeq(s, a, n)) = n - m
  BY <1>3, <1>4
<1>6. \A i \in 1 .. n - m : SubSeq(s, a, n)[i] = s[m + i]
  <2> TAKE i \in 1 .. n - m
  <2>1. SubSeq(s, a, n)[i] = s[a + i - 1]
    BY <1>3, <1>4
  <2>2. a + i - 1 = m + i
    BY DEF a
  <2> QED BY <2>1, <2>2
<1> QED BY <1>4, <1>5, <1>6 DEF a

\* The first n elements.
LEMMA PrefixFacts ==
    ASSUME NEW T, NEW s \in Seq(T), NEW n \in Nat, n <= Len(s)
    PROVE  /\ SubSeq(s, 1, n) \in Seq(T) /\ Len(SubSeq(s, 1, n)) = n
           /\ \A i \in 1 .. n : SubSeq(s, 1, n)[i] = s[i]
<1>1. 0 \in Nat /\ 0 <= n /\ 0 + 1 = 1 /\ n - 0 = n
  OBVIOUS
<1>2. /\ SubSeq(s, 0 + 1, n) \in Seq(T) /\ Len(SubSeq(s, 0 + 1, n)) = n - 0
      /\ \A i \in 1 .. n - 0 : SubSeq(s, 0 + 1, n)[i] = s[0 + i]
  BY <1>1, SliceFacts, Zenon
<1>3. \A i \in 1 .. n : 0 + i = i
  OBVIOUS
<1> QED BY <1>1, <1>2, <1>3

\* Two sequences, one after the other.
LEMMA ConcatFacts ==
    ASSUME NEW s \in Seq(Values), NEW t \in Seq(Values)
    PROVE  /\ s \o t \in Seq(Values) /\ Len(s \o t) = Len(s) + Len(t)
           /\ \A i \in 1 .. Len(s) : (s \o t)[i] = s[i]
           /\ \A i \in 1 .. Len(t) : (s \o t)[Len(s) + i] = t[i]
<1>1. Len(s) \in Nat /\ Len(t) \in Nat
  BY SequenceFacts
<1>2. /\ s \o t \in Seq(Values) /\ Len(s \o t) = Len(s) + Len(t)
      /\ \A i \in 1 .. Len(s) + Len(t) : (s \o t)[i] = IF i <= Len(s) THEN s[i] ELSE t[i - Len(s)]
  BY <1>1, ConcatProperties
<1>3. \A i \in 1 .. Len(s) : (s \o t)[i] = s[i]
  BY <1>1, <1>2
<1>4. \A i \in 1 .. Len(t) : (s \o t)[Len(s) + i] = t[i]
  <2> TAKE i \in 1 .. Len(t)
  <2>1. Len(s) + i \in 1 .. Len(s) + Len(t) /\ ~(Len(s) + i <= Len(s)) /\ (Len(s) + i) - Len(s) = i
    BY <1>1
  <2> QED BY <1>2, <2>1
<1> QED BY <1>2, <1>3, <1>4

\* What WriteAt makes of a file; the gap it may leave holds zero sectors.
LEMMA WriteAtAll ==
    ASSUME NEW T, NEW f \in Seq(T), NEW out \in Seq(T), NEW start \in Nat, DataSector(<<>>) \in T
    PROVE  /\ WriteAt(f, start, out) \in Seq(T)
           /\ Len(WriteAt(f, start, out)) = IF start + Len(out) > Len(f) THEN start + Len(out) ELSE Len(f)
           /\ \A i \in 1 .. Len(f) : i <= start => WriteAt(f, start, out)[i] = f[i]
           /\ \A k \in 1 .. Len(out) : WriteAt(f, start, out)[start + k] = out[k]
<1> DEFINE n == IF start + Len(out) > Len(f) THEN start + Len(out) ELSE Len(f)
           g == [i \in 1 .. n |-> IF i > start /\ i <= start + Len(out) THEN out[i - start]
                                  ELSE IF i <= Len(f) THEN f[i] ELSE DataSector(<<>>)]
<1>1. WriteAt(f, start, out) = g
  BY DEF WriteAt
<1>2. Len(f) \in Nat /\ Len(out) \in Nat /\ n \in Nat /\ n >= Len(f) /\ n >= start + Len(out)
  BY SequenceFacts
<1>3. \A i \in 1 .. n : (IF i > start /\ i <= start + Len(out) THEN out[i - start]
                         ELSE IF i <= Len(f) THEN f[i] ELSE DataSector(<<>>)) \in T
  <2> TAKE i \in 1 .. n
  <2>1. CASE i > start /\ i <= start + Len(out)
    <3>1. i - start \in 1 .. Len(out)
      BY <1>2, <2>1
    <3> QED BY <2>1, <3>1, SequenceFacts
  <2>2. CASE ~(i > start /\ i <= start + Len(out)) /\ i <= Len(f)
    <3>1. i \in 1 .. Len(f)
      BY <1>2, <2>2
    <3> QED BY <2>2, <3>1, SequenceFacts
  <2>3. CASE ~(i > start /\ i <= start + Len(out)) /\ ~(i <= Len(f))
    BY <2>3
  <2> QED BY <2>1, <2>2, <2>3
<1> HIDE DEF n
<1>4. g \in [1 .. n -> T]
  BY <1>3
<1>5. g \in Seq(T) /\ Len(g) = n
  BY <1>2, <1>4, FunctionIsSequence
<1>6. \A i \in 1 .. Len(f) : i <= start => g[i] = f[i]
  BY <1>2
<1>7. \A k \in 1 .. Len(out) : g[start + k] = out[k]
  <2> TAKE k \in 1 .. Len(out)
  <2>1. start + k \in 1 .. n /\ start + k > start /\ start + k <= start + Len(out) /\ (start + k) - start = k
    BY <1>2
  <2> QED BY <2>1
<1>8. WriteAt(f, start, out) \in Seq(T) /\ Len(WriteAt(f, start, out)) = n
  BY <1>1, <1>5
<1> QED BY <1>1, <1>6, <1>7, <1>8, Zenon DEF n

\* How long WriteAt makes a file.
LEMMA WriteAtFacts ==
    ASSUME NEW T, NEW f \in Seq(T), NEW out \in Seq(T), NEW start \in Nat, DataSector(<<>>) \in T
    PROVE  /\ WriteAt(f, start, out) \in Seq(T) /\ Len(WriteAt(f, start, out)) \in Nat
           /\ Len(WriteAt(f, start, out)) >= Len(f) /\ Len(WriteAt(f, start, out)) >= start + Len(out)
           /\ Len(WriteAt(f, start, out)) \in {Len(f), start + Len(out)}
<1>1. Len(f) \in Nat /\ Len(out) \in Nat
  BY SequenceFacts
<1>2. Len(WriteAt(f, start, out)) = IF start + Len(out) > Len(f) THEN start + Len(out) ELSE Len(f)
  BY WriteAtAll
<1>3. WriteAt(f, start, out) \in Seq(T)
  BY WriteAtAll
<1> QED BY <1>1, <1>2, <1>3

\* What WriteAt leaves alone.
LEMMA WriteAtOld ==
    ASSUME NEW T, NEW f \in Seq(T), NEW out \in Seq(T), NEW start \in Nat, DataSector(<<>>) \in T,
           NEW i \in 1 .. Len(f), i <= start
    PROVE  WriteAt(f, start, out)[i] = f[i]
  BY WriteAtAll

\* What WriteAt writes.
LEMMA WriteAtNew ==
    ASSUME NEW T, NEW f \in Seq(T), NEW out \in Seq(T), NEW start \in Nat, DataSector(<<>>) \in T,
           NEW k \in 1 .. Len(out)
    PROVE  WriteAt(f, start, out)[start + k] = out[k]
  BY WriteAtAll

\* Cutting a file.
LEMMA TruncateFacts ==
    ASSUME NEW T, NEW f \in Seq(T), NEW n \in Nat, n <= Len(f), DataSector(<<>>) \in T
    PROVE  /\ TruncateFile(f, n) \in Seq(T) /\ Len(TruncateFile(f, n)) = n
           /\ \A i \in 1 .. n : TruncateFile(f, n)[i] = f[i]
<1> DEFINE e == <<>>  g == WriteAt(f, n, e)
<1>1. e \in Seq(T) /\ Len(e) = 0 /\ Len(f) \in Nat
  BY EmptySeq, SequenceFacts
<1>2. TruncateFile(f, n) = SubSeq(g, 1, n)
  BY DEF TruncateFile
<1> HIDE DEF e
<1>3. g \in Seq(T) /\ Len(g) \in {Len(f), n + Len(e)} /\ Len(g) >= Len(f)
  BY <1>1, WriteAtFacts
<1>4. Len(g) = Len(f)
  BY <1>1, <1>3
<1> HIDE DEF g
<1>5. /\ SubSeq(g, 1, n) \in Seq(T) /\ Len(SubSeq(g, 1, n)) = n
      /\ \A i \in 1 .. n : SubSeq(g, 1, n)[i] = g[i]
  BY <1>3, <1>4, PrefixFacts
<1>6. \A i \in 1 .. n : g[i] = f[i]
  <2> TAKE i \in 1 .. n
  <2>1. i \in 1 .. Len(f) /\ i <= n
    BY <1>1
  <2> QED BY <1>1, <2>1, WriteAtOld DEF g
<1> QED BY <1>2, <1>5, <1>6

-----------------------------------------------------------------------------
(* What sectors hold.                                                      *)

\* The units and what a read can deliver.
LEMMA UnitFacts ==
    /\ Values \subseteq Units /\ Zero \in Units /\ Units \subseteq Delivered
    /\ "super" \in Delivered /\ "hash" \in Delivered /\ "trailer" \in Delivered /\ "rot" \in Delivered
    /\ Seq(Values) \subseteq Seq(Units) /\ Seq(Units) \subseteq Seq(Delivered)
<1>1. Values \subseteq Units /\ Zero \in Units /\ Units \subseteq Delivered
  BY DEF Units, Delivered
<1>2. Seq(Values) \subseteq Seq(Units)
  BY <1>1, SeqMonotonic
<1>3. Seq(Units) \subseteq Seq(Delivered)
  BY <1>1, SeqMonotonic
<1> QED BY <1>1, <1>2, <1>3 DEF Delivered

\* No marker is what a read delivers.
LEMMA Markers ==
    /\ Poison \notin Seq(Delivered) /\ Bitrot \notin Seq(Delivered) /\ NoHash \notin Seq(Delivered)
    /\ Poison # NoHash
  BY MarkersAssumption

\* A data sector and the units it delivers: its own, and zeros behind them.
LEMMA DataSectorFacts ==
    ASSUME NEW U, Zero \in U, NEW u \in Seq(U), Len(u) <= SectorUnits
    PROVE  /\ DataSector(u) \in [kind : {"data"}, units : [1 .. SectorUnits -> U]]
           /\ DataSector(u).kind = "data" /\ Bytes(DataSector(u)) = DataSector(u).units
           /\ \A i \in 1 .. Len(u) : DataSector(u).units[i] = u[i]
           /\ Len(u) = SectorUnits => Bytes(DataSector(u)) = u
<1> DEFINE v == [i \in 1 .. SectorUnits |-> IF i <= Len(u) THEN u[i] ELSE Zero]
<1>1. Len(u) \in Nat /\ SectorUnits \in Nat /\ \A i \in 1 .. Len(u) : u[i] \in U
  BY SequenceFacts, Numbers
<1>2. v \in [1 .. SectorUnits -> U]
  BY <1>1
<1>3. DataSector(u) = [kind |-> "data", units |-> v]
  BY DEF DataSector
<1>4. \A i \in 1 .. Len(u) : v[i] = u[i]
  BY <1>1
<1>5. Len(u) = SectorUnits => v = u
  <2> SUFFICES ASSUME Len(u) = SectorUnits PROVE v = u
    OBVIOUS
  <2>1. u \in [1 .. SectorUnits -> U]
    BY SequenceFacts
  <2> QED BY <1>2, <1>4, <2>1
<1> HIDE DEF v
<1>6. DataSector(u) \in [kind : {"data"}, units : [1 .. SectorUnits -> U]]
  BY <1>2, <1>3
<1>7. DataSector(u).kind = "data" /\ DataSector(u).units = v
  BY <1>3
<1>8. Bytes(DataSector(u)) = v
  BY <1>7 DEF Bytes
<1> QED BY <1>4, <1>5, <1>6, <1>7, <1>8

\* A sector that was never decayed is one of the stored ones.
LEMMA SectorValuesStored == SectorValues \subseteq Stored /\ Rotten \in Stored
<1>1. [1 .. SectorUnits -> Units] \subseteq [1 .. SectorUnits -> Delivered]
  BY UnitFacts
<1>2. Macs \subseteq Macs \cup {<<>>}
  OBVIOUS
<1>3. [kind : {"data"}, units : [1 .. SectorUnits -> Units]]
        \subseteq [kind : {"data"}, units : [1 .. SectorUnits -> Delivered]]
  BY <1>1
<1> QED BY <1>2, <1>3 DEF SectorValues, Stored, Sectors

\* What any stored sector delivers.
LEMMA BytesFacts ==
    ASSUME NEW x \in Stored
    PROVE  /\ Bytes(x) \in [1 .. SectorUnits -> Delivered]
           /\ Bytes(x) \in Seq(Delivered) /\ Len(Bytes(x)) = SectorUnits
<1>1. Bytes(x) \in [1 .. SectorUnits -> Delivered]
  <2>1. CASE x \in [kind : {"data"}, units : [1 .. SectorUnits -> Delivered]]
    BY <2>1 DEF Bytes
  <2>2. CASE x.kind \in {"super", "hash", "trailer", "rot"}
    <3>1. x.kind \in Delivered /\ x.kind # "data"
      BY <2>2, UnitFacts
    <3> QED BY <3>1 DEF Bytes
  <2>3. x \in [kind : {"data"}, units : [1 .. SectorUnits -> Delivered]] \/ x.kind \in {"super", "hash", "trailer", "rot"}
    BY DEF Stored, Sectors, Super, Rotten
  <2> QED BY <2>1, <2>2, <2>3
<1> QED BY <1>1, FunctionIsSequence, Numbers

\* The superblock, and a sector that was never written.
LEMMA FreshSectors == Super \in SectorValues /\ DataSector(<<>>) \in SectorValues /\ Super \in Stored /\ DataSector(<<>>) \in Stored
<1> DEFINE e == <<>>
<1>1. e \in Seq(Units) /\ Len(e) <= SectorUnits
  BY EmptySeq, Numbers
<1> HIDE DEF e
<1>2. DataSector(e) \in [kind : {"data"}, units : [1 .. SectorUnits -> Units]]
  BY <1>1, DataSectorFacts, UnitFacts, Zenon
<1>3. DataSector(e) \in SectorValues /\ Super \in SectorValues
  BY <1>2 DEF SectorValues, Sectors
<1> QED BY <1>3, SectorValuesStored DEF e

-----------------------------------------------------------------------------
(* The pieces of a stream: whole sectors, hashes of a block, ragged edge.  *)

\* A unit of sector i of a stream that reaches so far.
LEMMA UnitIndex ==
    ASSUME NEW i \in Nat, NEW j \in 1 .. SectorUnits
    PROVE  i * SectorUnits + j \in 1 .. (i + 1) * SectorUnits /\ (i + 1) * SectorUnits \in Nat /\ i * SectorUnits \in Nat
<1>1. SectorUnits \in Nat \ {0}
  BY Numbers
<1>2. i * SectorUnits \in Nat /\ (i + 1) * SectorUnits = i * SectorUnits + SectorUnits
  BY <1>1, Multiples
<1> QED BY <1>1, <1>2

\* A whole sector's units.
LEMMA SectorOfFacts ==
    ASSUME NEW s \in Seq(Values), NEW i \in Nat, (i + 1) * SectorUnits <= Len(s)
    PROVE  /\ SectorOf(s, i) \in [1 .. SectorUnits -> Values] /\ SectorOf(s, i) \in Seq(Values)
           /\ SectorOf(s, i) \in Seq(Units) /\ SectorOf(s, i) \in Seq(Delivered) /\ Len(SectorOf(s, i)) = SectorUnits
           /\ \A j \in 1 .. SectorUnits : SectorOf(s, i)[j] = s[i * SectorUnits + j]
<1>1. Len(s) \in Nat /\ SectorUnits \in Nat
  BY SequenceFacts, Numbers
<1>2. \A j \in 1 .. SectorUnits : s[i * SectorUnits + j] \in Values
  <2> TAKE j \in 1 .. SectorUnits
  <2>1. i * SectorUnits + j \in 1 .. Len(s)
    BY <1>1, UnitIndex
  <2> QED BY <2>1, SequenceFacts
<1>3. SectorOf(s, i) \in [1 .. SectorUnits -> Values]
  BY <1>2 DEF SectorOf
<1>4. SectorOf(s, i) \in Seq(Values) /\ Len(SectorOf(s, i)) = SectorUnits
  BY <1>1, <1>3, FunctionIsSequence
<1>5. SectorOf(s, i) \in Seq(Units) /\ SectorOf(s, i) \in Seq(Delivered)
  BY <1>4, UnitFacts
<1> QED BY <1>3, <1>4, <1>5 DEF SectorOf

\* Streams that agree so far have the same sectors so far.
LEMMA SectorOfSame ==
    ASSUME NEW s, NEW t, NEW m \in Nat, \A k \in 1 .. m : s[k] = t[k], NEW i \in Nat, (i + 1) * SectorUnits <= m
    PROVE  SectorOf(s, i) = SectorOf(t, i)
<1>1. \A j \in 1 .. SectorUnits : s[i * SectorUnits + j] = t[i * SectorUnits + j]
  <2> TAKE j \in 1 .. SectorUnits
  <2>1. i * SectorUnits + j \in 1 .. m
    BY UnitIndex
  <2> QED BY <2>1
<1> QED BY <1>1 DEF SectorOf

\* Sector k of block b lies within the block.
LEMMA InBlock ==
    ASSUME NEW b \in Nat, NEW k \in 1 .. HashesPerBlock
    PROVE  /\ b * HashesPerBlock + k - 1 \in Nat
           /\ (b * HashesPerBlock + k - 1 + 1) * SectorUnits <= (b + 1) * BlockUnits
           /\ (b * HashesPerBlock + k - 1) \div HashesPerBlock = b
           /\ (b * HashesPerBlock + k - 1) % HashesPerBlock = k - 1
<1> DEFINE h == HashesPerBlock  s == SectorUnits  i == b * HashesPerBlock + k - 1  c == k - 1
<1>1. h \in Nat \ {0} /\ s \in Nat \ {0} /\ BlockUnits = h * s /\ BlockUnits \in Nat
  BY Numbers
<1>2. c \in Nat /\ c < h /\ i = b * h + c /\ b * h \in Nat
  BY <1>1
<1>3. i + 1 <= (b + 1) * h /\ (b + 1) * h \in Nat /\ i \in Nat /\ i + 1 \in Nat
  BY <1>1, <1>2, Multiples
<1> HIDE DEF h, s, i, c
<1>4. (i + 1) * s <= ((b + 1) * h) * s
  BY <1>1, <1>3, Multiples
<1>5. ((b + 1) * h) * s = (b + 1) * (h * s)
  BY <1>1
<1>6. i \div h = b /\ i % h = c
  <2>1. (b * h + c) \div h = b /\ (b * h + c) % h = c
    BY <1>1, <1>2, DivUnique
  <2> QED BY <1>2, <2>1
<1> QED BY <1>1, <1>3, <1>4, <1>5, <1>6 DEF h, s, i, c

\* The hashes of a complete block.
LEMMA BlockHashesFacts ==
    ASSUME NEW s \in Seq(Values), NEW b \in Nat, (b + 1) * BlockUnits <= Len(s)
    PROVE  /\ BlockHashes(s, b) \in Seq(Seq(Units)) /\ Len(BlockHashes(s, b)) = HashesPerBlock
           /\ \A k \in 1 .. HashesPerBlock : BlockHashes(s, b)[k] = SectorOf(s, b * HashesPerBlock + k - 1)
           /\ HashSector(b, BlockHashes(s, b)) \in SectorValues
<1>1. Len(s) \in Nat /\ HashesPerBlock \in Nat /\ SectorUnits \in Nat /\ BlockUnits \in Nat
  BY SequenceFacts, Numbers
<1>2. \A k \in 1 .. HashesPerBlock : SectorOf(s, b * HashesPerBlock + k - 1) \in Seq(Units)
  <2> TAKE k \in 1 .. HashesPerBlock
  <2> DEFINE i == b * HashesPerBlock + k - 1
  <2>1. i \in Nat /\ (i + 1) * SectorUnits <= (b + 1) * BlockUnits
    BY InBlock
  <2> HIDE DEF i
  <2>2. (i + 1) * SectorUnits \in Nat /\ (b + 1) * BlockUnits \in Nat
    BY <1>1, <2>1
  <2>3. (i + 1) * SectorUnits <= Len(s)
    BY <1>1, <2>1, <2>2
  <2>4. SectorOf(s, i) \in Seq(Units)
    BY <2>1, <2>3, SectorOfFacts
  <2> QED BY <2>4 DEF i
<1>3. BlockHashes(s, b) \in [1 .. HashesPerBlock -> Seq(Units)]
  BY <1>2 DEF BlockHashes
<1>4. BlockHashes(s, b) \in Seq(Seq(Units)) /\ Len(BlockHashes(s, b)) = HashesPerBlock
  BY <1>1, <1>3, FunctionIsSequence
<1>5. HashSector(b, BlockHashes(s, b)) \in SectorValues
  BY <1>4 DEF HashSector, SectorValues, Sectors
<1> QED BY <1>4, <1>5 DEF BlockHashes

\* Streams that agree so far have the same hashes so far.
LEMMA BlockHashesSame ==
    ASSUME NEW s, NEW t, NEW m \in Nat, \A k \in 1 .. m : s[k] = t[k], NEW b \in Nat, (b + 1) * BlockUnits <= m
    PROVE  BlockHashes(s, b) = BlockHashes(t, b)
<1>1. BlockUnits \in Nat /\ SectorUnits \in Nat
  BY Numbers
<1>2. \A k \in 1 .. HashesPerBlock : SectorOf(s, b * HashesPerBlock + k - 1) = SectorOf(t, b * HashesPerBlock + k - 1)
  <2> TAKE k \in 1 .. HashesPerBlock
  <2> DEFINE i == b * HashesPerBlock + k - 1
  <2>1. i \in Nat /\ (i + 1) * SectorUnits <= (b + 1) * BlockUnits
    BY InBlock
  <2> HIDE DEF i
  <2>2. (i + 1) * SectorUnits \in Nat /\ (b + 1) * BlockUnits \in Nat
    BY <1>1, <2>1
  <2>3. (i + 1) * SectorUnits <= m
    BY <2>1, <2>2
  <2>4. SectorOf(s, i) = SectorOf(t, i)
    BY <2>1, <2>3, SectorOfSame
  <2> QED BY <2>4 DEF i
<1> QED BY <1>2 DEF BlockHashes

\* The ragged edge.
LEMMA EdgeFacts ==
    ASSUME NEW s \in Seq(Values)
    PROVE  /\ Edge(s) \in Seq(Values) /\ Edge(s) \in Seq(Units) /\ Edge(s) \in Seq(Delivered)
           /\ Len(Edge(s)) = Len(s) % SectorUnits
           /\ \A j \in 1 .. Len(s) % SectorUnits : Edge(s)[j] = s[Whole(Len(s)) * SectorUnits + j]
<1> DEFINE n == Len(s)  w == Whole(n)  r == n % SectorUnits
<1>1. n \in Nat
  BY SequenceFacts
<1>2. w \in Nat /\ r \in Nat /\ n = w * SectorUnits + r /\ SectorUnits \in Nat
  BY <1>1, Position, Numbers
<1>3. w * SectorUnits \in Nat /\ \A i \in 1 .. n : s[i] \in Values
  BY <1>2, SequenceFacts, SMTT(20)
<1>4. Edge(s) = [j \in 1 .. r |-> s[w * SectorUnits + j]]
  BY DEF Edge
<1> HIDE DEF n, w, r
<1>5. \A j \in 1 .. r : s[w * SectorUnits + j] \in Values
  <2> TAKE j \in 1 .. r
  <2>1. w * SectorUnits + j \in 1 .. n
    BY <1>1, <1>2, <1>3
  <2> QED BY <1>3, <2>1
<1>6. Edge(s) \in [1 .. r -> Values]
  BY <1>4, <1>5
<1>7. Edge(s) \in Seq(Values) /\ Len(Edge(s)) = r
  BY <1>2, <1>6, FunctionIsSequence
<1>8. Edge(s) \in Seq(Units) /\ Edge(s) \in Seq(Delivered)
  BY <1>7, UnitFacts
<1>9. \A j \in 1 .. r : Edge(s)[j] = s[w * SectorUnits + j]
  BY <1>4
<1> QED BY <1>7, <1>8, <1>9 DEF n, w, r

\* Place k of the open block.
LEMMA OpenPlace ==
    ASSUME NEW n \in Nat, NEW k \in 1 .. Whole(n) % HashesPerBlock
    PROVE  LET i == (n \div BlockUnits) * HashesPerBlock + k - 1
           IN  /\ i \in Nat /\ i < Whole(n) /\ (i + 1) * SectorUnits <= n
               /\ i \div HashesPerBlock = n \div BlockUnits /\ i % HashesPerBlock = k - 1
               /\ k \in 1 .. HashesPerBlock
<1> DEFINE b == n \div BlockUnits  c == Whole(n) % HashesPerBlock  w == Whole(n)  h == HashesPerBlock
           i == b * HashesPerBlock + k - 1
<1>1. w \in Nat /\ b \in Nat /\ b = w \div HashesPerBlock /\ h \in Nat \ {0}
  BY Position, Numbers
<1>2. c \in Nat /\ c < h /\ w = b * h + c
  BY <1>1, DivMod
<1>3. k \in 1 .. HashesPerBlock
  BY <1>1, <1>2
<1>4. i \in Nat /\ i \div HashesPerBlock = b /\ i % HashesPerBlock = k - 1
  BY <1>1, <1>3, InBlock
<1>5. i < w
  <2>1. k \in 1 .. c
    OBVIOUS
  <2> HIDE DEF b, c, w, h
  <2>2. b * h \in Nat /\ k <= c
    BY <1>1, <1>2, <2>1
  <2>3. b * h + k - 1 < w
    BY <1>2, <2>1, <2>2
  <2> QED BY <2>3 DEF h
<1> HIDE DEF i
<1>6. (i + 1) * SectorUnits <= n
  BY <1>4, <1>5, WholeFacts
<1> QED BY <1>3, <1>4, <1>5, <1>6 DEF i

\* The hashes of the open block.
LEMMA OpenHashesFacts ==
    ASSUME NEW s \in Seq(Values)
    PROVE  /\ OpenHashes(s) \in Seq(Seq(Units)) /\ Len(OpenHashes(s)) = Whole(Len(s)) % HashesPerBlock
           /\ \A k \in 1 .. Whole(Len(s)) % HashesPerBlock :
                 OpenHashes(s)[k] = SectorOf(s, (Len(s) \div BlockUnits) * HashesPerBlock + k - 1)
<1> DEFINE n == Len(s)  c == Whole(n) % HashesPerBlock  b == n \div BlockUnits
<1>1. n \in Nat
  BY SequenceFacts
<1>2. Whole(n) \in Nat /\ c \in Nat
  BY <1>1, Position, SectorPlace
<1>3. \A k \in 1 .. c : SectorOf(s, b * HashesPerBlock + k - 1) \in Seq(Units)
  <2> TAKE k \in 1 .. c
  <2> DEFINE i == b * HashesPerBlock + k - 1
  <2>1. i \in Nat /\ (i + 1) * SectorUnits <= n
    BY <1>1, OpenPlace
  <2> HIDE DEF i
  <2>2. SectorOf(s, i) \in Seq(Units)
    BY <2>1, SectorOfFacts
  <2> QED BY <2>2 DEF i
<1>4. OpenHashes(s) = [k \in 1 .. c |-> SectorOf(s, b * HashesPerBlock + k - 1)]
  BY DEF OpenHashes
<1> HIDE DEF n, c, b
<1>5. OpenHashes(s) \in [1 .. c -> Seq(Units)]
  BY <1>3, <1>4
<1>6. OpenHashes(s) \in Seq(Seq(Units)) /\ Len(OpenHashes(s)) = c
  BY <1>2, <1>5, FunctionIsSequence
<1>7. \A k \in 1 .. c : OpenHashes(s)[k] = SectorOf(s, b * HashesPerBlock + k - 1)
  BY <1>4
<1> QED BY <1>6, <1>7 DEF n, c, b

\* The trailer of a stream (buildOpenTrailer), with its MAC and without.
LEMMA TrailerFacts ==
    ASSUME NEW s \in Seq(Values)
    PROVE  /\ TrailerOf(s) \in SectorValues /\ [TrailerOf(s) EXCEPT !.mac = <<>>] \in Stored
           /\ \A x \in {TrailerOf(s), [TrailerOf(s) EXCEPT !.mac = <<>>]} :
                 x.kind = "trailer" /\ x.hashes = OpenHashes(s) /\ x.raggedLen = Len(s) % SectorUnits
           /\ TrailerOf(s).mac = <<Len(s) \div BlockUnits, OpenHashes(s), Edge(s)>>
           /\ [TrailerOf(s) EXCEPT !.mac = <<>>].mac = <<>>
           /\ [[TrailerOf(s) EXCEPT !.mac = <<>>] EXCEPT !.mac = <<>>] = [TrailerOf(s) EXCEPT !.mac = <<>>]
<1> DEFINE b == Len(s) \div BlockUnits  h == OpenHashes(s)  e == Edge(s)  r == Len(s) % SectorUnits
           m == <<b, h, e>>  z == <<>>
<1>1. b \in Nat /\ h \in Seq(Seq(Units)) /\ e \in Seq(Units) /\ r \in Nat /\ Len(e) = r
  BY SequenceFacts, Position, OpenHashesFacts, EdgeFacts
<1>2. m \in Macs
  BY <1>1 DEF Macs
<1>3. TrailerOf(s) = [kind |-> "trailer", block |-> b, hashes |-> h, raggedLen |-> r, mac |-> m]
  BY <1>1 DEF TrailerOf, Trailer
<1>4. z \in Macs \cup {z} /\ z = <<>>
  OBVIOUS
<1> HIDE DEF b, h, e, r, m, z
<1>5. [TrailerOf(s) EXCEPT !.mac = z] = [kind |-> "trailer", block |-> b, hashes |-> h, raggedLen |-> r, mac |-> z]
  BY <1>3
<1>6. TrailerOf(s) \in SectorValues
  BY <1>1, <1>2, <1>3 DEF SectorValues, Sectors
<1>7. [TrailerOf(s) EXCEPT !.mac = z] \in [kind : {"trailer"}, block : Nat, hashes : Seq(Seq(Units)), raggedLen : Nat, mac : Macs \cup {z}]
  BY <1>1, <1>4, <1>5
<1>8. [TrailerOf(s) EXCEPT !.mac = z] \in Stored
  BY <1>4, <1>7 DEF Stored, Sectors
<1>9. \A x \in {TrailerOf(s), [TrailerOf(s) EXCEPT !.mac = z]} : x.kind = "trailer" /\ x.hashes = h /\ x.raggedLen = r
  BY <1>3, <1>5
<1>10. TrailerOf(s).mac = m /\ [TrailerOf(s) EXCEPT !.mac = z].mac = z
  BY <1>3, <1>5
<1>11. [[TrailerOf(s) EXCEPT !.mac = z] EXCEPT !.mac = z] = [TrailerOf(s) EXCEPT !.mac = z]
  BY <1>5
<1> QED BY <1>6, <1>8, <1>9, <1>10, <1>11 DEF b, h, e, r, m, z

-----------------------------------------------------------------------------
(* Reading.                                                                *)

\* The cursor splits into sealed sectors and the buffer.
LEMMA MemoryFacts ==
    ASSUME TypeOK, EvidenceInv
    PROVE  /\ logicalLength \in Nat /\ stream \in Seq(Values) /\ Len(stream) \in Nat
           /\ Len(buf) = logicalLength % SectorUnits /\ Len(hashes) = Whole(logicalLength) % HashesPerBlock
           /\ sealed \in Nat /\ sealed = Whole(logicalLength) * SectorUnits
           /\ sealed \div SectorUnits = Whole(logicalLength)
           /\ sealed \div BlockUnits = logicalLength \div BlockUnits
           /\ BlockPhysical(sealed) = BlockPhysical(logicalLength)
<1> DEFINE n == logicalLength  w == Whole(n)  r == n % SectorUnits
<1>1. n \in Nat /\ stream \in Seq(Values) /\ Len(stream) \in Nat
  BY Numbers, SequenceFacts DEF TypeOK
<1>2. Len(buf) = r /\ Len(hashes) = w % HashesPerBlock
  BY DEF EvidenceInv
<1>3. w \in Nat /\ r \in Nat /\ n = w * SectorUnits + r
  BY <1>1, Position
<1>4. w * SectorUnits \in Nat /\ Whole(w * SectorUnits) = w
  <2>1. w * SectorUnits + 0 \in Nat /\ Whole(w * SectorUnits + 0) = w
    <3>1. 0 \in Nat /\ 0 < SectorUnits
      BY Numbers
    <3> QED BY <1>3, <3>1, WholeOf
  <2>2. w * SectorUnits \in Nat
    BY <1>3, Numbers
  <2>3. w * SectorUnits + 0 = w * SectorUnits
    BY <2>2
  <2> QED BY <2>1, <2>2, <2>3
<1>5. sealed = w * SectorUnits
  <2>1. sealed = n - r
    BY <1>2 DEF sealed
  <2> HIDE DEF n, w, r
  <2> QED BY <1>1, <1>3, <1>4, <2>1
<1>6. sealed \in Nat /\ sealed \div SectorUnits = w
  BY <1>4, <1>5 DEF Whole
<1>7. sealed \div BlockUnits = n \div BlockUnits
  <2>1. sealed \div BlockUnits = Whole(sealed) \div HashesPerBlock /\ n \div BlockUnits = w \div HashesPerBlock
    BY <1>1, <1>6, Position
  <2> QED BY <1>4, <1>5, <2>1
<1>8. BlockPhysical(sealed) = BlockPhysical(n)
  BY <1>1, <1>6, <1>7, Position
<1> QED BY <1>1, <1>2, <1>5, <1>6, <1>7, <1>8

\* What a stored sector can be read as.
LEMMA SectorAtFacts ==
    ASSUME file \in Seq(Stored), NEW p \in Nat
    PROVE  SectorAt(p) \in Stored /\ Bytes(SectorAt(p)) \in Seq(Delivered)
<1>1. SectorAt(p) \in Stored
  <2>1. CASE p + 1 <= Len(file)
    <3>1. p + 1 \in 1 .. Len(file)
      BY <2>1, SequenceFacts
    <3> QED BY <2>1, <3>1, SequenceFacts DEF SectorAt
  <2>2. CASE ~(p + 1 <= Len(file))
    BY <2>2, SectorValuesStored DEF SectorAt
  <2> QED BY <2>1, <2>2
<1> QED BY <1>1, BytesFacts

\* The hash a sealed sector is held against matches nothing or is true (sectorHashFor).
LEMMA ExpectedHash ==
    ASSUME TypeOK, EvidenceInv, FileInv, NEW i \in Nat, i < Whole(logicalLength)
    PROVE  \/ sectorHashFor(i) \in {Bitrot, Poison}
           \/ (i + 1) * SectorUnits <= Len(stream) /\ sectorHashFor(i) = SectorOf(stream, i)
<1> DEFINE n == logicalLength  b == i \div HashesPerBlock  c == i % HashesPerBlock
<1>1. /\ n \in Nat /\ stream \in Seq(Values) /\ Len(stream) \in Nat
      /\ Len(hashes) = Whole(n) % HashesPerBlock /\ sealed \in Nat /\ sealed \div BlockUnits = n \div BlockUnits
  BY MemoryFacts
<1>2. /\ b \in Nat /\ c \in Nat /\ c < HashesPerBlock /\ i = b * HashesPerBlock + c
      /\ \/ b < n \div BlockUnits
         \/ b = n \div BlockUnits /\ c < Whole(n) % HashesPerBlock
  BY <1>1, SectorBlock
<1>3. sealed >= (b + 1) * BlockUnits <=> b < n \div BlockUnits
  <2>1. (b + 1) * BlockUnits <= sealed <=> b < sealed \div BlockUnits
    BY <1>1, <1>2, WholeFacts
  <2>2. (b + 1) * BlockUnits \in Nat
    BY <1>2, Numbers
  <2> QED BY <1>1, <2>1, <2>2
<1>4. c + 1 \in 1 .. HashesPerBlock /\ b * HashesPerBlock + (c + 1) - 1 = i
  BY <1>2, Numbers
<1>5. CASE b < n \div BlockUnits
  <2> DEFINE h == SectorAt(hashSectorPhys(b))
  <2>1. sectorHashFor(i) = IF h.kind = "hash" /\ h.block = b THEN h.hashes[c + 1] ELSE Bitrot
    BY <1>3, <1>5 DEF sectorHashFor
  <2>2. b \in 0 .. (n \div BlockUnits) - 1
    BY <1>1, <1>2, <1>5, Position, SMTT(20)
  <2>3. \/ hashSectorPhys(b) >= Len(file)
        \/ file[hashSectorPhys(b) + 1] = Rotten
        \/ (b + 1) * BlockUnits <= Len(stream) /\ file[hashSectorPhys(b) + 1] = HashSector(b, BlockHashes(stream, b))
    BY <2>2 DEF FileInv, Honest
  <2>4. Len(file) \in Nat /\ hashSectorPhys(b) \in Nat
    BY <1>2, HashPlace, SequenceFacts DEF FileInv
  <2>5. CASE h = Rotten
    BY <2>1, <2>5 DEF Rotten
  <2>6. CASE (b + 1) * BlockUnits <= Len(stream) /\ h = HashSector(b, BlockHashes(stream, b))
    <3>1. sectorHashFor(i) = BlockHashes(stream, b)[c + 1]
      BY <2>1, <2>6 DEF HashSector
    <3>2. BlockHashes(stream, b)[c + 1] = SectorOf(stream, i)
      BY <1>1, <1>2, <1>4, <2>6, BlockHashesFacts, ZenonT(40)
    <3>3. (i + 1) * SectorUnits <= (b + 1) * BlockUnits
      BY <1>2, <1>4, InBlock
    <3>4. (i + 1) * SectorUnits <= Len(stream)
      <4>1. (i + 1) * SectorUnits \in Nat /\ (b + 1) * BlockUnits \in Nat
        BY <1>2, Numbers
      <4> QED BY <1>1, <2>6, <3>3, <4>1
    <3> QED BY <3>1, <3>2, <3>4
  <2>7. h = Rotten \/ ((b + 1) * BlockUnits <= Len(stream) /\ h = HashSector(b, BlockHashes(stream, b)))
    <3>1. CASE hashSectorPhys(b) >= Len(file)
      BY <2>4, <3>1 DEF SectorAt
    <3>2. CASE ~(hashSectorPhys(b) >= Len(file))
      <4>1. h = file[hashSectorPhys(b) + 1]
        BY <2>4, <3>2 DEF SectorAt
      <4> QED BY <2>3, <3>2, <4>1
    <3> QED BY <3>1, <3>2
  <2> QED BY <2>5, <2>6, <2>7
<1>6. CASE b = n \div BlockUnits /\ c < Whole(n) % HashesPerBlock
  <2>1. c + 1 \in 1 .. Len(hashes)
    <3>1. Len(hashes) \in Nat /\ c < Len(hashes)
      BY <1>1, <1>6, SequenceFacts DEF EvidenceInv
    <3> HIDE DEF c
    <3> QED BY <1>2, <3>1
  <2>2. ~(c + 1 > Len(hashes)) /\ ~(b < n \div BlockUnits)
    BY <1>2, <1>6, <2>1
  <2>3. sectorHashFor(i) = hashes[c + 1]
    BY <1>3, <2>2 DEF sectorHashFor
  <2>4. hashes[c + 1] = Poison \/ ((i + 1) * SectorUnits <= Len(stream) /\ hashes[c + 1] = SectorOf(stream, i))
    BY <1>4, <1>6, <2>1 DEF EvidenceInv
  <2> QED BY <2>3, <2>4
<1> QED BY <1>2, <1>5, <1>6

\* A sequence that agrees with a slice is the slice.
LEMMA SliceIs ==
    ASSUME NEW T, NEW s \in Seq(T), NEW m \in Nat, NEW n \in Nat, m <= n, n <= Len(s),
           NEW t \in Seq(T), Len(t) = n - m, \A i \in 1 .. n - m : t[i] = s[m + i]
    PROVE  SubSeq(s, m + 1, n) = t
<1> DEFINE u == SubSeq(s, m + 1, n)
<1>1. u \in Seq(T) /\ Len(u) = n - m /\ \A i \in 1 .. n - m : u[i] = s[m + i]
  BY SliceFacts
<1> HIDE DEF u
<1>2. Len(u) = Len(t) /\ \A i \in 1 .. Len(u) : u[i] = t[i]
  BY <1>1
<1>3. u = t
  BY <1>1, <1>2, SeqEqual
<1> QED BY <1>3 DEF u

\* What the sectors of a stream hold (Truth).
LEMMA TruthFacts ==
    ASSUME stream \in Seq(Values), NEW i \in Nat
    PROVE  /\ (i + 1) * SectorUnits <= Len(stream) => Truth(i) = SectorOf(stream, i)
           /\ i = Whole(Len(stream)) => Truth(i) = Edge(stream)
<1> DEFINE n == Len(stream)  a == i * SectorUnits  z == (i + 1) * SectorUnits
<1>1. n \in Nat /\ a \in Nat /\ z \in Nat /\ z = a + SectorUnits /\ SectorUnits \in Nat \ {0}
  BY SequenceFacts, Numbers, Multiples
<1>2. Truth(i) = SubSeq(stream, a + 1, IF z < n THEN z ELSE n)
  BY DEF Truth
<1>3. ASSUME z <= n PROVE Truth(i) = SectorOf(stream, i)
  <2> DEFINE t == SectorOf(stream, i)
  <2>1. t \in Seq(Values) /\ Len(t) = SectorUnits /\ \A j \in 1 .. SectorUnits : t[j] = stream[a + j]
    BY <1>3, SectorOfFacts
  <2>2. (IF z < n THEN z ELSE n) = z
    BY <1>1, <1>3
  <2> HIDE DEF t, n, a, z
  <2>3. z - a = SectorUnits /\ a <= z
    BY <1>1
  <2>4. SubSeq(stream, a + 1, z) = t
    BY <1>1, <1>3, <2>1, <2>3, SliceIs, SMTT(20) DEF n
  <2> QED BY <1>2, <2>2, <2>4 DEF t
<1>4. ASSUME i = Whole(n) PROVE Truth(i) = Edge(stream)
  <2> DEFINE t == Edge(stream)  r == n % SectorUnits
  <2>1. n = a + r /\ r \in Nat /\ r < SectorUnits
    BY <1>1, <1>4, Position
  <2>2. t \in Seq(Values) /\ Len(t) = r /\ \A j \in 1 .. r : t[j] = stream[a + j]
    BY <1>4, EdgeFacts
  <2> HIDE DEF t, n, a, z, r
  <2>3. (IF z < n THEN z ELSE n) = n /\ n - a = r /\ a <= n
    BY <1>1, <2>1
  <2>4. SubSeq(stream, a + 1, n) = t
    BY <1>1, <2>2, <2>3, SliceIs DEF n
  <2> QED BY <1>2, <2>3, <2>4 DEF t
<1> QED BY <1>3, <1>4

\* A read of one sector fails or returns what was appended (readLocked).
LEMMA ReadSectorIs ==
    ASSUME TypeOK, CursorInv, EvidenceInv, FileInv, NEW i \in Nat, i < Holding(logicalLength)
    PROVE  \/ ReadSector(i) = Bitrot
           \/ i < Whole(logicalLength) /\ (i + 1) * SectorUnits <= Len(stream) /\ ReadSector(i) = SectorOf(stream, i)
           \/ i = Whole(logicalLength) /\ logicalLength = Len(stream) /\ ReadSector(i) = Edge(stream)
<1> DEFINE n == logicalLength  w == Whole(n)
<1>1. /\ n \in Nat /\ stream \in Seq(Values) /\ sealed \in Nat /\ sealed = w * SectorUnits
      /\ Len(buf) = n % SectorUnits
  BY MemoryFacts
<1>2. w \in Nat /\ SectorUnits \in Nat \ {0}
  BY <1>1, Position, Numbers
<1>3. i < w \/ (i = w /\ n % SectorUnits # 0)
  BY <1>1, <1>2, HoldingFacts
<1>4. CASE i < w
  <2> DEFINE bytes == Bytes(SectorAt(CalcPhysical(i)))  expected == sectorHashFor(i)
  <2>1. ~(i * SectorUnits >= sealed)
    BY <1>1, <1>2, <1>4, Multiples
  <2>2. ReadSector(i) = IF expected = Bitrot \/ (expected # NoHash /\ expected # bytes) THEN Bitrot ELSE bytes
    BY <2>1 DEF ReadSector
  <2>3. bytes \in Seq(Delivered)
    BY SectorPlace, SectorAtFacts DEF FileInv
  <2>4. expected \in {Bitrot, Poison} \/ ((i + 1) * SectorUnits <= Len(stream) /\ expected = SectorOf(stream, i))
    BY <1>4, ExpectedHash
  <2> HIDE DEF bytes, expected
  <2>5. CASE expected \in {Bitrot, Poison}
    BY <2>2, <2>3, <2>5, Markers
  <2>6. CASE (i + 1) * SectorUnits <= Len(stream) /\ expected = SectorOf(stream, i)
    <3>1. SectorOf(stream, i) \in Seq(Delivered)
      BY <1>1, <2>6, SectorOfFacts
    <3> QED BY <1>4, <2>2, <2>6, <3>1, Markers
  <2> QED BY <2>4, <2>5, <2>6
<1>5. CASE i = w /\ n % SectorUnits # 0
  <2>1. i * SectorUnits >= sealed
    BY <1>1, <1>5
  <2>2. ReadSector(i) = IF bufCorrupt THEN Bitrot ELSE buf
    BY <2>1 DEF ReadSector
  <2>3. n = Len(stream)
    BY <1>5 DEF CursorInv
  <2>4. CASE ~bufCorrupt
    <3> DEFINE t == Edge(stream)
    <3>1. buf \in Seq(Delivered) /\ \A j \in 1 .. Len(buf) : buf[j] = stream[w * SectorUnits + j]
      BY <2>4 DEF EvidenceInv
    <3>2. /\ t \in Seq(Delivered) /\ Len(t) = n % SectorUnits
          /\ \A j \in 1 .. n % SectorUnits : t[j] = stream[w * SectorUnits + j]
      BY <1>1, <2>3, EdgeFacts
    <3> HIDE DEF t
    <3>3. Len(buf) = Len(t) /\ \A j \in 1 .. Len(buf) : buf[j] = t[j]
      BY <1>1, <3>1, <3>2
    <3>4. buf = t
      BY <3>1, <3>2, <3>3, SeqEqual
    <3> QED BY <1>5, <2>2, <2>3, <2>4, <3>4 DEF t
  <2> QED BY <2>2, <2>4
<1> QED BY <1>3, <1>4, <1>5

\* Unit u of the plog is unit u % SectorUnits of sector u \div SectorUnits.
LEMMA UnitPlace ==
    ASSUME NEW u \in Nat, NEW n \in Nat, u < n
    PROVE  LET i == u \div SectorUnits
               j == (u % SectorUnits) + 1
           IN  /\ i \in Nat /\ j \in 1 .. SectorUnits /\ i * SectorUnits + j = u + 1
               /\ i < Holding(n) /\ (i + 1) * SectorUnits > u
               /\ i = Whole(n) => j \in 1 .. n % SectorUnits
<1> DEFINE i == u \div SectorUnits  c == u % SectorUnits  j == c + 1  s == SectorUnits  w == Whole(n)  r == n % SectorUnits
<1>1. s \in Nat \ {0} /\ i \in Nat /\ c \in Nat /\ c < s /\ u = i * s + c
  BY Numbers, DivMod
<1>2. w \in Nat /\ r \in Nat /\ r < s /\ n = w * s + r
  BY Position
<1>3. /\ r = 0 => Holding(n) = w
      /\ r # 0 => Holding(n) = w + 1
  BY HoldingFacts
<1> HIDE DEF i, c, s, w, r
<1>4. i * s \in Nat /\ (i + 1) * s = i * s + s /\ w * s \in Nat
  BY <1>1, <1>2, Multiples
<1>5. j \in 1 .. s /\ i * s + j = u + 1 /\ (i + 1) * s > u
  BY <1>1, <1>4
<1>6. i <= w
  <2> SUFFICES ASSUME w < i PROVE FALSE
    BY <1>1, <1>2
  <2>1. w * s + s <= i * s
    BY <1>1, <1>2, Multiples
  <2> QED BY <1>1, <1>2, <1>4, <2>1
<1>7. i = w => j \in 1 .. r /\ r # 0
  BY <1>1, <1>2, <1>4
<1>8. i < Holding(n)
  BY <1>1, <1>2, <1>3, <1>6, <1>7
<1> QED BY <1>1, <1>5, <1>7, <1>8 DEF i, c, s, w, r

\* A read of a range is what was appended, unless it fails (readLocked).
LEMMA ReadRangeIs ==
    ASSUME TypeOK, CursorInv, EvidenceInv, FileInv,
           NEW from \in Nat, NEW to \in Nat, from <= to, to <= logicalLength, to <= Len(stream)
    PROVE  /\ (\A i \in 0 .. Holding(to) - 1 : (i + 1) * SectorUnits > from => ReadSector(i) # Bitrot)
                 => ReadRange(from, to) # Bitrot
           /\ ReadRange(from, to) # Bitrot =>
                 /\ ReadRange(from, to) \in Seq(Values) /\ Len(ReadRange(from, to)) = to - from
                 /\ \A k \in 1 .. to - from : ReadRange(from, to)[k] = stream[from + k]
<1> DEFINE n == logicalLength  touched == {i \in 0 .. Holding(to) - 1 : (i + 1) * SectorUnits > from}
           bad == \E i \in touched : ReadSector(i) = Bitrot
           read == [k \in 1 .. to - from |->
                      ReadSector((from + k - 1) \div SectorUnits)[((from + k - 1) % SectorUnits) + 1]]
<1>1. n \in Nat /\ stream \in Seq(Values) /\ Len(stream) \in Nat
  BY MemoryFacts
<1>2. ReadRange(from, to) = IF to > n \/ bad THEN Bitrot ELSE read
  BY DEF ReadRange
<1>3. ~(to > n)
  BY <1>1
<1>4. \A m \in Nat : Holding(m) \in Nat
  BY HoldingCounts
<1>5. Holding(to) <= Holding(n)
  <2>1. Whole(to) <= Whole(n) /\ Whole(to) \in Nat /\ Whole(n) \in Nat
    BY <1>1, WholeFacts, Position
  <2>2. CASE Whole(to) < Whole(n)
    BY <1>1, <2>1, <2>2, HoldingFacts
  <2>3. CASE Whole(to) = Whole(n)
    <3> DEFINE a == Whole(n) * SectorUnits
    <3>1. to = a + (to % SectorUnits) /\ n = a + (n % SectorUnits) /\ to % SectorUnits \in Nat /\ n % SectorUnits \in Nat
      BY <1>1, <2>3, Position
    <3>2. a \in Nat
      BY <2>1, Numbers
    <3> HIDE DEF a
    <3>3. to % SectorUnits <= n % SectorUnits
      BY <1>1, <3>1, <3>2
    <3> QED BY <1>1, <2>1, <2>3, <3>1, <3>3, HoldingFacts
  <2> QED BY <2>1, <2>2, <2>3
<1>6. ASSUME ~bad, NEW k \in 1 .. to - from
      PROVE  read[k] = stream[from + k] /\ stream[from + k] \in Values
  <2> DEFINE u == from + k - 1  i == u \div SectorUnits  j == (u % SectorUnits) + 1
  <2>1. u \in Nat /\ u < to /\ u >= from /\ u + 1 = from + k /\ from + k \in 1 .. Len(stream)
    BY <1>1, <1>6
  <2>2. read[k] = ReadSector(i)[j]
    BY <1>6
  <2> HIDE DEF u, read
  <2>3. /\ i \in Nat /\ j \in 1 .. SectorUnits /\ i * SectorUnits + j = u + 1
        /\ i < Holding(to) /\ (i + 1) * SectorUnits > u
    BY <2>1, UnitPlace
  <2>4. i = Whole(n) => j \in 1 .. n % SectorUnits
    BY <1>1, <2>1, UnitPlace
  <2> HIDE DEF i, j
  <2>5. i \in touched
    <3>1. (i + 1) * SectorUnits \in Nat /\ Holding(to) \in Nat
      BY <1>4, <2>3, Numbers
    <3> QED BY <2>1, <2>3, <3>1
  <2>6. ReadSector(i) # Bitrot /\ i < Holding(n)
    BY <1>1, <1>4, <1>5, <1>6, <2>3, <2>5, SMTT(20)
  <2>7. CASE (i + 1) * SectorUnits <= Len(stream) /\ ReadSector(i) = SectorOf(stream, i)
    <3>1. SectorOf(stream, i)[j] = stream[i * SectorUnits + j]
      BY <1>1, <2>3, <2>7, SectorOfFacts
    <3> QED BY <1>1, <2>1, <2>2, <2>3, <2>7, <3>1, SequenceFacts
  <2>8. CASE i = Whole(n) /\ n = Len(stream) /\ ReadSector(i) = Edge(stream)
    <3>1. j \in 1 .. Len(stream) % SectorUnits /\ i = Whole(Len(stream))
      BY <2>4, <2>8
    <3>2. Edge(stream)[j] = stream[i * SectorUnits + j]
      BY <1>1, <3>1, EdgeFacts
    <3> QED BY <1>1, <2>1, <2>2, <2>3, <2>8, <3>2, SequenceFacts
  <2> QED BY <2>3, <2>6, <2>7, <2>8, ReadSectorIs
<1>7. ASSUME ~bad PROVE read \in Seq(Values) /\ Len(read) = to - from /\ \A k \in 1 .. to - from : read[k] = stream[from + k]
  <2>1. \A k \in 1 .. to - from : read[k] = stream[from + k] /\ stream[from + k] \in Values
    BY <1>6, <1>7
  <2>2. read \in [1 .. to - from -> Values]
    BY <2>1
  <2>3. to - from \in Nat
    OBVIOUS
  <2> HIDE DEF read
  <2>4. read \in Seq(Values) /\ Len(read) = to - from
    BY <2>2, <2>3, FunctionIsSequence
  <2> QED BY <2>1, <2>4
<1> HIDE DEF read
<1>8. ReadRange(from, to) # Bitrot => ~bad
  BY <1>2
<1>9. ~bad => ReadRange(from, to) = read
  BY <1>2, <1>3
<1>10. ~bad => ReadRange(from, to) # Bitrot
  <2>1. ~bad => read \in Seq(Delivered)
    BY <1>7, UnitFacts
  <2> QED BY <1>9, <2>1, Markers
<1>11. (\A i \in 0 .. Holding(to) - 1 : (i + 1) * SectorUnits > from => ReadSector(i) # Bitrot) => ~bad
  OBVIOUS
<1> HIDE DEF bad
<1> QED BY <1>7, <1>8, <1>9, <1>10, <1>11

\* Without decay nothing is refused (readLocked, recoverFromTrailer).
LEMMA ReadExact ==
    ASSUME TypeOK, CursorInv, EvidenceInv, FileInv, rot = 0
    PROVE  /\ logicalLength = Len(stream)
           /\ \A i \in 0 .. Holding(logicalLength) - 1 : ReadSector(i) # Bitrot
<1> DEFINE n == logicalLength  w == Whole(n)
<1>1. /\ n \in Nat /\ stream \in Seq(Values) /\ Len(stream) \in Nat /\ sealed \in Nat /\ sealed = w * SectorUnits
      /\ Len(hashes) = w % HashesPerBlock /\ sealed \div BlockUnits = n \div BlockUnits
  BY MemoryFacts
<1>2. n = Len(stream)
  BY DEF CursorInv
<1>3. w \in Nat /\ SectorUnits \in Nat \ {0} /\ Holding(n) \in Nat
  BY <1>1, Counts, Numbers, HoldingCounts
<1>4. Faithful(file, stream) /\ ~bufCorrupt /\ ~openUnverified
  BY DEF FileInv
<1>5. Len(file) \in Nat /\ Len(file) >= CalcPhysical(w) /\ CalcPhysical(w) \in Nat
  BY <1>2, <1>3, SequenceFacts, SectorPlace DEF FileInv, CursorInv
<1>6. ASSUME NEW i \in 0 .. Holding(n) - 1 PROVE ReadSector(i) # Bitrot
  <2>1. i \in Nat /\ (i < w \/ (i = w /\ n % SectorUnits # 0))
    BY <1>1, <1>3, HoldingFacts
  <2>2. CASE i < w
    <3> DEFINE b == i \div HashesPerBlock  c == i % HashesPerBlock  bytes == Bytes(SectorAt(CalcPhysical(i)))
    <3>1. ~(i * SectorUnits >= sealed)
      BY <1>1, <1>3, <2>1, <2>2, Multiples
    <3>2. (i + 1) * SectorUnits <= Len(stream)
      BY <1>1, <1>2, <2>1, <2>2, WholeFacts
    <3>3. /\ SectorOf(stream, i) \in Seq(Units) /\ SectorOf(stream, i) \in Seq(Delivered)
          /\ Len(SectorOf(stream, i)) = SectorUnits
      BY <1>1, <2>1, <3>2, SectorOfFacts
    <3>4. bytes = SectorOf(stream, i)
      <4>1. CalcPhysical(i) \in Nat /\ CalcPhysical(i) < CalcPhysical(w)
        BY <1>3, <2>1, <2>2, SectorsInOrder, SectorPlace
      <4>2. SectorAt(CalcPhysical(i)) = file[CalcPhysical(i) + 1]
        BY <1>5, <4>1 DEF SectorAt
      <4>3. i \in 0 .. Whole(Len(stream)) - 1
        BY <1>2, <1>3, <2>1, <2>2
      <4>4. file[CalcPhysical(i) + 1] = DataSector(SectorOf(stream, i))
        BY <1>4, <4>3 DEF Faithful
      <4>5. Bytes(DataSector(SectorOf(stream, i))) = SectorOf(stream, i)
        BY <3>3, DataSectorFacts, UnitFacts, Numbers
      <4> QED BY <4>2, <4>4, <4>5
    <3>5. sectorHashFor(i) # Bitrot /\ sectorHashFor(i) # Poison
      <4>1. /\ b \in Nat /\ c \in Nat /\ c < HashesPerBlock /\ i = b * HashesPerBlock + c
            /\ \/ b < n \div BlockUnits
               \/ b = n \div BlockUnits /\ c < w % HashesPerBlock
        BY <1>1, <2>1, <2>2, SectorBlock
      <4>2. sealed >= (b + 1) * BlockUnits <=> b < n \div BlockUnits
        <5>1. (b + 1) * BlockUnits <= sealed <=> b < sealed \div BlockUnits
          BY <1>1, <4>1, WholeFacts
        <5>2. (b + 1) * BlockUnits \in Nat
          BY <4>1, Numbers
        <5> QED BY <1>1, <5>1, <5>2
      <4>3. c + 1 \in 1 .. HashesPerBlock /\ b * HashesPerBlock + (c + 1) - 1 = i
        BY <4>1, Numbers
      <4>4. CASE b < n \div BlockUnits
        <5> DEFINE h == SectorAt(hashSectorPhys(b))
        <5>1. sectorHashFor(i) = IF h.kind = "hash" /\ h.block = b THEN h.hashes[c + 1] ELSE Bitrot
          BY <4>2, <4>4 DEF sectorHashFor
        <5>2. b \in 0 .. (Len(stream) \div BlockUnits) - 1
          BY <1>1, <1>2, <4>1, <4>4, Counts
        <5>3. hashSectorPhys(b) \in Nat /\ hashSectorPhys(b) < CalcPhysical(w)
          BY <1>1, <1>3, <4>1, <4>4, HashPlace, HashInOrder, Position
        <5>4. h = HashSector(b, BlockHashes(stream, b))
          BY <1>4, <1>5, <5>2, <5>3 DEF SectorAt, Faithful
        <5>5. sectorHashFor(i) = BlockHashes(stream, b)[c + 1]
          BY <5>1, <5>4 DEF HashSector
        <5>6. (b + 1) * BlockUnits <= Len(stream)
          BY <1>1, <1>2, <4>1, <4>4, WholeFacts
        <5>7. BlockHashes(stream, b)[c + 1] = SectorOf(stream, i)
          BY <1>1, <4>1, <4>3, <5>6, BlockHashesFacts, ZenonT(40)
        <5> QED BY <3>3, <5>5, <5>7, Markers
      <4>5. CASE b = n \div BlockUnits /\ c < w % HashesPerBlock
        <5>1. c + 1 \in 1 .. Len(hashes)
          <6>1. Len(hashes) \in Nat /\ c < Len(hashes)
            BY <1>1, <4>5, SequenceFacts DEF EvidenceInv
          <6> HIDE DEF c
          <6> QED BY <4>1, <6>1
        <5>2. ~(c + 1 > Len(hashes)) /\ ~(b < n \div BlockUnits)
          BY <4>1, <4>5, <5>1
        <5>3. sectorHashFor(i) = hashes[c + 1]
          BY <4>2, <5>2 DEF sectorHashFor
        <5>4. hashes[c + 1] # Poison
          BY <1>4, <5>1 DEF EvidenceInv
        <5>5. hashes[c + 1] = SectorOf(stream, i)
          BY <4>3, <4>5, <5>1, <5>4 DEF EvidenceInv
        <5> QED BY <3>3, <5>3, <5>4, <5>5, Markers
      <4> QED BY <4>1, <4>4, <4>5
    <3>6. sectorHashFor(i) = SectorOf(stream, i)
      BY <2>1, <2>2, <3>5, ExpectedHash
    <3>7. ReadSector(i) = bytes
      BY <3>1, <3>4, <3>5, <3>6 DEF ReadSector
    <3> QED BY <3>3, <3>4, <3>7, Markers
  <2>3. CASE i = w /\ n % SectorUnits # 0
    <3>1. i * SectorUnits >= sealed
      BY <1>1, <2>3
    <3>2. ReadSector(i) = buf
      BY <1>4, <3>1 DEF ReadSector
    <3> QED BY <3>2, Markers DEF EvidenceInv
  <2> QED BY <2>1, <2>2, <2>3
<1> QED BY <1>2, <1>6

-----------------------------------------------------------------------------
(* The invariant is kept: the steps that leave the plog's memory alone.    *)

\* The empty file of a new plog.
LEMMA EmptyImage == ImageInv(<<Super>>, <<>>, 0)
<1> DEFINE f == <<Super>>  s == <<>>
<1>1. f \in Seq(SectorValues) /\ f \in Seq(Stored) /\ Len(f) = 1 /\ f[1] = Super
  BY FreshSectors
<1>2. s \in Seq(Values) /\ Len(s) = 0
  BY EmptySeq
<1>3. Whole(0) = 0 /\ 0 \div BlockUnits = 0 /\ 0 % BlockUnits = 0 /\ 0 % SectorUnits = 0
  <2>1. \A d \in Nat \ {0} : 0 = 0 * d + 0 /\ 0 < d
    OBVIOUS
  <2>2. \A d \in Nat \ {0} : 0 \div d = 0 /\ 0 % d = 0
    BY <2>1, DivUnique
  <2> QED BY <2>2, Numbers DEF Whole
<1>4. CalcPhysical(0) = 1
  <2>1. CalcPhysical(0) = 1 + (0 \div HashesPerBlock) * (HashesPerBlock + 1) + (0 % HashesPerBlock)
    BY DEF CalcPhysical
  <2>2. 0 \div HashesPerBlock = 0 /\ 0 % HashesPerBlock = 0
    BY Numbers, DivUnique
  <2> QED BY <2>1, <2>2, Numbers
<1>5. Honest(f, s, 0) /\ Faithful(f, s)
  BY <1>1, <1>2, <1>3 DEF Honest, Faithful
<1> HIDE DEF f, s
<1>6. ImageInv(f, s, 0)
  BY <1>1, <1>2, <1>3, <1>4, <1>5, Numbers DEF ImageInv
<1> QED BY <1>6 DEF f, s

\* The parts of the invariant do not depend on the other variables.
LEMMA SameFile ==
    ASSUME UNCHANGED <<file, stream, plogVars, rot>>
    PROVE  /\ EvidenceInv => EvidenceInv'
           /\ Honest(file, stream, logicalLength) => Honest(file, stream, logicalLength)'
           /\ ImageInv(file, stream, rot) => ImageInv(file, stream, rot)'
           /\ Faithful(file, stream) => Faithful(file, stream)'
<1>1. EvidenceInv => EvidenceInv'
  BY DEF EvidenceInv, plogVars
<1> QED BY <1>1 DEF plogVars

\* The superblock alone is an empty committed plog.
LEMMA InitInv ==
    ASSUME Init
    PROVE  PlogInv
<1>1. TypeOK
  <2>1. file = <<Super>> /\ Len(file) >= 1
    BY DEF Init
  <2>2. <<>> \in Seq(Values) /\ Len(<<>>) = 0
    BY EmptySeq
  <2>3. Len(buf) < SectorUnits /\ Len(hashes) < HashesPerBlock /\ stream \in Seq(Values)
    BY <2>2, Numbers DEF Init
  <2>4. logicalLength \in 0 .. MaxUnits + BlockUnits /\ undoStart \in Nat /\ {acked, recorded, faults, rot} \subseteq Nat
    BY Numbers DEF Init
  <2> QED BY <2>1, <2>3, <2>4 DEF Init, TypeOK
<1>2. AcceptInv
  <2>1. Len(stream) = 0 /\ acked = 0 /\ recorded = 0 /\ rot = 0
    BY EmptySeq DEF Init
  <2>2. \A a \in accept : a.image = <<Super>> /\ a.stream = <<>> /\ Len(a.stream) = 0
    BY EmptySeq DEF Init
  <2>3. \A a \in accept : ImageInv(a.image, a.stream, rot)
    BY <2>1, <2>2, EmptyImage
  <2> QED BY <2>1, <2>2, <2>3 DEF AcceptInv
<1> QED BY <1>1, <1>2, Numbers DEF PlogInv, Init

\* A step that changes nothing keeps the invariant.
LEMMA StutterInv ==
    ASSUME PlogInv, UNCHANGED vars
    PROVE  PlogInv'
<1> USE DEF vars, plogVars, undoVars
<1>1. TypeOK' /\ AcceptInv'
  BY DEF PlogInv, TypeOK, AcceptInv
<1>2. phase # "closed" => CursorInv' /\ EvidenceInv' /\ FileInv' /\ UndoInv'
  BY SameFile DEF PlogInv, CursorInv, FileInv, UndoInv
<1> QED BY <1>1, <1>2 DEF PlogInv

\* TruncateTo with nothing to cut keeps the invariant: the length is the recorded one, so exact.
LEMMA TruncateToSameInv ==
    ASSUME PlogInv, TruncateToSame
    PROVE  PlogInv'
<1>1. TypeOK /\ AcceptInv /\ CursorInv /\ EvidenceInv /\ FileInv /\ UndoInv /\ rot <= MaxRot /\ acked = recorded
  BY DEF PlogInv, TruncateToSame
<1>2. /\ phase = "opened" /\ phase' = "reconciled" /\ logicalLength = recorded
      /\ UNCHANGED <<file, accept, undoVars, plogVars, stream, acked, recorded, faults, rot>>
  BY DEF TruncateToSame
<1>3. TypeOK' /\ AcceptInv'
  BY <1>1, <1>2 DEF TypeOK, AcceptInv, plogVars, undoVars
<1>4. EvidenceInv' /\ FileInv' /\ UndoInv'
  BY <1>1, <1>2, SameFile DEF FileInv, UndoInv, plogVars, undoVars
<1>5. logicalLength = Len(stream)
  <2>1. logicalLength <= Len(stream) /\ logicalLength \in Nat /\ Len(stream) \in Nat
    BY <1>1, <1>2, MemoryFacts DEF AcceptInv
  <2> QED BY <1>1, <2>1 DEF CursorInv
<1>6. logicalLength % SectorUnits # 0 => Len(file) > CalcPhysical(Whole(logicalLength))
  <2> SUFFICES ASSUME logicalLength % SectorUnits # 0 PROVE Len(file) > CalcPhysical(Whole(logicalLength))
    OBVIOUS
  <2>1. logicalLength \in Nat
    BY <1>1, MemoryFacts
  <2>2. logicalLength % BlockUnits # 0
    BY <2>1, Position
  <2>3. Len(file) = CalcPhysical(Whole(logicalLength)) + 2
    BY <1>1, <1>2, <1>5, <2>2 DEF FileInv, ImageInv
  <2>4. CalcPhysical(Whole(logicalLength)) \in Nat
    BY <2>1, Counts, SectorPlace
  <2> QED BY <2>3, <2>4
<1>7. CursorInv'
  BY <1>1, <1>2, <1>5, <1>6 DEF CursorInv, plogVars
<1> QED BY <1>1, <1>2, <1>3, <1>4, <1>7 DEF PlogInv

\* Commit's fsync keeps the invariant: the image a recovery may now show is a committed one.
LEMMA CommitPersistInv ==
    ASSUME PlogInv, CommitPersist
    PROVE  PlogInv'
<1>1. TypeOK /\ AcceptInv /\ CursorInv /\ EvidenceInv /\ FileInv /\ UndoInv /\ rot <= MaxRot
  BY DEF PlogInv, CommitPersist
<1>2. /\ phase = "committing" /\ phase' = "persisted"
      /\ accept' = accept \cup {[image |-> file, stream |-> stream]}
      /\ UNCHANGED <<file, undoVars, plogVars, stream, acked, recorded, faults, rot>>
  BY DEF CommitPersist
<1>3. TypeOK'
  BY <1>1, <1>2 DEF TypeOK, plogVars, undoVars
<1>4. ImageInv(file, stream, rot)
  BY <1>1, <1>2 DEF FileInv
<1>5. AcceptInv'
  <2>1. \A a \in accept' : /\ ImageInv(a.image, a.stream, rot) /\ acked <= Len(a.stream)
                           /\ \A k \in 1 .. acked : a.stream[k] = stream[k]
    BY <1>1, <1>2, <1>4 DEF AcceptInv
  <2> QED BY <1>1, <1>2, <2>1 DEF AcceptInv
<1>6. CursorInv' /\ EvidenceInv' /\ UndoInv'
  BY <1>1, <1>2, SameFile DEF CursorInv, UndoInv, plogVars, undoVars
<1>7. FileInv'
  <2>1. [image |-> file, stream |-> stream]' \in accept'
    BY <1>2
  <2> QED BY <1>1, <1>2, <1>4, <2>1, SameFile DEF FileInv, plogVars
<1> QED BY <1>1, <1>2, <1>3, <1>5, <1>6, <1>7 DEF PlogInv

\* A Commit that succeeds keeps the invariant: its image is the only one left.
LEMMA CommitAcknowledgeInv ==
    ASSUME PlogInv, CommitAcknowledge
    PROVE  PlogInv'
<1>1. TypeOK /\ AcceptInv /\ CursorInv /\ EvidenceInv /\ FileInv /\ UndoInv /\ rot <= MaxRot
  BY DEF PlogInv, CommitAcknowledge
<1>2. /\ phase = "persisted" /\ phase' = "mounted"
      /\ accept' = {[image |-> file, stream |-> stream]}
      /\ undoActive' = FALSE /\ acked' = logicalLength
      /\ loadedFromTrailer' = (wroteTrailer \/ loadedFromTrailer)
      /\ UNCHANGED <<file, undoStart, logicalLength, buf, hashes, bufCorrupt, openUnverified, stream, recorded, faults, rot>>
  BY DEF CommitAcknowledge
<1>3. loadedFromTrailer' \in BOOLEAN
  BY <1>1, <1>2 DEF TypeOK, wroteTrailer
<1>4. logicalLength \in Nat /\ Len(stream) \in Nat /\ logicalLength = Len(stream) /\ acked \in Nat /\ recorded \in Nat
  BY <1>1, <1>2, MemoryFacts DEF CursorInv, TypeOK
<1>5. TypeOK'
  BY <1>1, <1>2, <1>3, <1>4 DEF TypeOK
<1>6. ImageInv(file, stream, rot)
  BY <1>1, <1>2 DEF FileInv
<1>7. AcceptInv'
  <2>1. recorded' <= acked' /\ acked' <= Len(stream')
    BY <1>1, <1>2, <1>4 DEF AcceptInv
  <2>2. \A a \in accept' : /\ ImageInv(a.image, a.stream, rot) /\ acked' <= Len(a.stream)
                           /\ \A k \in 1 .. acked' : a.stream[k] = stream[k]
    BY <1>2, <1>4, <1>6
  <2> QED BY <1>2, <2>1, <2>2 DEF AcceptInv
<1>8. CursorInv' /\ EvidenceInv' /\ FileInv'
  BY <1>1, <1>2 DEF CursorInv, EvidenceInv, FileInv
<1>9. UndoInv'
  <2> SUFFICES ASSUME logicalLength % BlockUnits = 0 PROVE Len(file) <= CalcPhysical(Whole(logicalLength))
    BY <1>2 DEF UndoInv
  <2>1. Len(file) = CalcPhysical(Whole(logicalLength)) + 0 /\ CalcPhysical(Whole(logicalLength)) \in Nat
    BY <1>4, <1>6, Counts, SectorPlace DEF ImageInv
  <2> QED BY <2>1
<1> QED BY <1>1, <1>2, <1>5, <1>7, <1>8, <1>9 DEF PlogInv

\* A Commit that fails keeps the invariant: the cursor stays and nothing is discarded.
LEMMA CommitFailsInv ==
    ASSUME PlogInv, CommitFails
    PROVE  PlogInv'
<1>1. TypeOK /\ AcceptInv /\ CursorInv /\ EvidenceInv /\ FileInv /\ UndoInv /\ rot <= MaxRot
  BY DEF PlogInv, CommitFails
<1>2. /\ phase \in {"committing", "persisted"} /\ phase' = "mounted" /\ undoActive' = FALSE /\ faults' = faults + 1
      /\ UNCHANGED <<file, accept, undoStart, plogVars, stream, acked, recorded, rot>>
  BY DEF CommitFails, Fault
<1>3. TypeOK' /\ AcceptInv'
  <2>1. TypeOK'
    <3>1. faults' \in Nat
      BY <1>1, <1>2 DEF TypeOK
    <3> QED BY <1>1, <1>2, <3>1 DEF TypeOK, plogVars
  <2>2. AcceptInv'
    BY <1>1, <1>2 DEF AcceptInv
  <2> QED BY <2>1, <2>2
<1>4. CursorInv' /\ EvidenceInv' /\ FileInv'
  BY <1>1, <1>2, SameFile DEF CursorInv, FileInv, plogVars
<1>5. UndoInv'
  <2>1. logicalLength = Len(stream) /\ logicalLength \in Nat /\ ImageInv(file, stream, rot)
    BY <1>1, <1>2, MemoryFacts DEF CursorInv, FileInv
  <2> SUFFICES ASSUME logicalLength % BlockUnits = 0 PROVE Len(file) <= CalcPhysical(Whole(logicalLength))
    BY <1>2 DEF UndoInv, plogVars
  <2>2. Len(file) = CalcPhysical(Whole(logicalLength)) + 0 /\ CalcPhysical(Whole(logicalLength)) \in Nat
    BY <2>1, Counts, SectorPlace DEF ImageInv
  <2> QED BY <2>2
<1> QED BY <1>1, <1>2, <1>3, <1>4, <1>5 DEF PlogInv

\* SetVlogLength keeps the invariant: it records an acknowledged length.
LEMMA RecordInv ==
    ASSUME PlogInv, Record
    PROVE  PlogInv'
<1>1. TypeOK /\ AcceptInv /\ CursorInv /\ EvidenceInv /\ FileInv /\ UndoInv /\ rot <= MaxRot
  BY DEF PlogInv, Record
<1>2. /\ phase = "mounted" /\ recorded' = acked
      /\ UNCHANGED <<file, accept, phase, undoVars, plogVars, stream, acked, faults, rot>>
  BY DEF Record
<1>3. TypeOK' /\ AcceptInv'
  BY <1>1, <1>2 DEF TypeOK, AcceptInv, plogVars, undoVars
<1>4. CursorInv' /\ EvidenceInv' /\ FileInv' /\ UndoInv'
  BY <1>1, <1>2, SameFile DEF CursorInv, FileInv, UndoInv, plogVars, undoVars
<1> QED BY <1>1, <1>2, <1>3, <1>4 DEF PlogInv

\* A crash keeps the invariant: what a recovery may show does not depend on memory.
LEMMA CrashInv ==
    ASSUME PlogInv, Crash
    PROVE  PlogInv'
<1>1. TypeOK /\ AcceptInv /\ rot <= MaxRot
  BY DEF PlogInv
<1>2. /\ phase' = "closed" /\ faults' = faults + 1
      /\ UNCHANGED <<file, accept, undoVars, plogVars, stream, acked, recorded, rot>>
  BY DEF Crash, Fault
<1>3. TypeOK' /\ AcceptInv'
  BY <1>1, <1>2 DEF TypeOK, AcceptInv, plogVars, undoVars
<1> QED BY <1>1, <1>2, <1>3 DEF PlogInv

\* What decay makes of a stored sector.
LEMMA DecayFacts ==
    ASSUME NEW x \in Stored, NEW r \in Decay(x)
    PROVE  /\ r \in Stored
           /\ x.kind # "trailer" => r = Rotten
           /\ r = Rotten \/ r = [x EXCEPT !.mac = <<>>]
<1>1. r = Rotten \/ (x.kind = "trailer" /\ r = [x EXCEPT !.mac = <<>>])
  BY DEF Decay
<1>2. x.kind = "trailer" => [x EXCEPT !.mac = <<>>] \in Stored
  <2> DEFINE z == <<>>
  <2> SUFFICES ASSUME x.kind = "trailer" PROVE [x EXCEPT !.mac = z] \in Stored
    OBVIOUS
  <2>1. x \in [kind : {"trailer"}, block : Nat, hashes : Seq(Seq(Units)), raggedLen : Nat, mac : Macs \cup {z}]
    BY DEF Stored, Sectors, Super, Rotten
  <2>2. z \in Macs \cup {z}
    OBVIOUS
  <2>3. z = <<>>
    OBVIOUS
  <2> HIDE DEF z
  <2>4. [x EXCEPT !.mac = z] \in [kind : {"trailer"}, block : Nat, hashes : Seq(Seq(Units)), raggedLen : Nat, mac : Macs \cup {z}]
    BY <2>1, <2>2
  <2> QED BY <2>3, <2>4 DEF Stored, Sectors
<1> QED BY <1>1, <1>2, SectorValuesStored

\* A committed file of which one more sector decays.
LEMMA DecayedImage ==
    ASSUME NEW f, NEW s, NEW q \in Nat, ImageInv(f, s, q), NEW i \in 2 .. Len(f), NEW r \in Decay(f[i])
    PROVE  ImageInv([f EXCEPT ![i] = r], s, q + 1)
<1> DEFINE g == [f EXCEPT ![i] = r]
<1>1. /\ f \in Seq(Stored) /\ f[1] = Super /\ s \in Seq(Values) /\ Len(s) <= MaxUnits
      /\ Len(f) = CalcPhysical(Whole(Len(s))) + (IF Len(s) % BlockUnits = 0 THEN 0 ELSE 2)
      /\ Honest(f, s, Len(s))
      /\ Len(s) % BlockUnits # 0 => LastOf(f) \in {Rotten, TrailerOf(s), [TrailerOf(s) EXCEPT !.mac = <<>>]}
  BY DEF ImageInv
<1>2. Len(f) \in Nat /\ i \in 1 .. Len(f) /\ f[i] \in Stored /\ 1 \in 1 .. Len(f) /\ i # 1 /\ Len(f) \in 1 .. Len(f)
  BY <1>1, SequenceFacts
<1>3. r \in Stored /\ (f[i].kind # "trailer" => r = Rotten) /\ (r = Rotten \/ r = [f[i] EXCEPT !.mac = <<>>])
  BY <1>2, DecayFacts
<1>4. g \in Seq(Stored) /\ Len(g) = Len(f) /\ \A j \in 1 .. Len(f) : g[j] = IF j = i THEN r ELSE f[j]
  BY <1>1, <1>2, <1>3, ExceptSeq
<1> HIDE DEF g
<1>5. g[1] = Super
  BY <1>1, <1>2, <1>4
<1>6. Honest(g, s, Len(s))
  <2> SUFFICES ASSUME NEW b \in 0 .. (Len(s) \div BlockUnits) - 1
               PROVE  \/ hashSectorPhys(b) >= Len(g)
                      \/ g[hashSectorPhys(b) + 1] = Rotten
                      \/ /\ (b + 1) * BlockUnits <= Len(s)
                         /\ g[hashSectorPhys(b) + 1] = HashSector(b, BlockHashes(s, b))
    BY DEF Honest
  <2> DEFINE p == hashSectorPhys(b) + 1
  <2>1. hashSectorPhys(b) \in Nat
    BY HashPlace
  <2>2. \/ hashSectorPhys(b) >= Len(f)
        \/ f[p] = Rotten
        \/ (b + 1) * BlockUnits <= Len(s) /\ f[p] = HashSector(b, BlockHashes(s, b))
    BY <1>1 DEF Honest
  <2>3. CASE hashSectorPhys(b) >= Len(f)
    BY <1>4, <2>3
  <2>4. CASE ~(hashSectorPhys(b) >= Len(f)) /\ p # i
    <3>1. p \in 1 .. Len(f)
      BY <1>2, <2>1, <2>4
    <3> QED BY <1>4, <2>2, <2>4, <3>1
  <2>5. CASE ~(hashSectorPhys(b) >= Len(f)) /\ p = i
    <3>1. p \in 1 .. Len(f)
      BY <1>2, <2>1, <2>5
    <3>2. f[i].kind # "trailer"
      BY <2>2, <2>5 DEF Rotten, HashSector
    <3>3. g[p] = Rotten
      BY <1>3, <1>4, <2>5, <3>1, <3>2
    <3> QED BY <3>3
  <2> QED BY <2>3, <2>4, <2>5
<1>7. ASSUME Len(s) % BlockUnits # 0 PROVE LastOf(g) \in {Rotten, TrailerOf(s), [TrailerOf(s) EXCEPT !.mac = <<>>]}
  <2>1. LastOf(g) = IF Len(f) = i THEN r ELSE LastOf(f)
    BY <1>2, <1>4 DEF LastOf
  <2>2. LastOf(f) \in {Rotten, TrailerOf(s), [TrailerOf(s) EXCEPT !.mac = <<>>]}
    BY <1>1, <1>7
  <2>3. CASE Len(f) = i
    <3>1. f[i] \in {Rotten, TrailerOf(s), [TrailerOf(s) EXCEPT !.mac = <<>>]}
      BY <2>2, <2>3 DEF LastOf
    <3>2. f[i] = Rotten => r = Rotten
      BY <1>3 DEF Rotten
    <3>3. [[TrailerOf(s) EXCEPT !.mac = <<>>] EXCEPT !.mac = <<>>] = [TrailerOf(s) EXCEPT !.mac = <<>>]
      BY <1>1, TrailerFacts
    <3>4. r = Rotten \/ r = [TrailerOf(s) EXCEPT !.mac = <<>>]
      BY <1>3, <3>1, <3>2, <3>3, Zenon
    <3> QED BY <2>1, <2>3, <3>4
  <2> QED BY <2>1, <2>2, <2>3
<1>8. q + 1 # 0
  OBVIOUS
<1> QED BY <1>1, <1>4, <1>5, <1>6, <1>7, <1>8, Zenon DEF ImageInv, g

\* Decay keeps the invariant: each image is still a committed one with one more sector lost.
LEMMA RotInv ==
    ASSUME PlogInv, Rot
    PROVE  PlogInv'
<1>1. TypeOK /\ AcceptInv /\ rot <= MaxRot /\ rot \in Nat
  BY DEF PlogInv, TypeOK
<1>2. /\ rot < MaxRot /\ phase = "closed" /\ rot' = rot + 1
      /\ UNCHANGED <<file, phase, undoVars, plogVars, stream, acked, recorded, faults>>
  BY DEF Rot
<1>3. PICK a \in accept : \E i \in 2 .. Len(a.image) : \E r \in Decay(a.image[i]) :
         accept' = {[image |-> [a.image EXCEPT ![i] = r], stream |-> a.stream]}
  BY DEF Rot
<1>4. PICK i \in 2 .. Len(a.image) : \E r \in Decay(a.image[i]) :
         accept' = {[image |-> [a.image EXCEPT ![i] = r], stream |-> a.stream]}
  BY <1>3
<1>5. PICK r \in Decay(a.image[i]) : accept' = {[image |-> [a.image EXCEPT ![i] = r], stream |-> a.stream]}
  BY <1>4
<1> DEFINE g == [a.image EXCEPT ![i] = r]
<1>6. ImageInv(g, a.stream, rot + 1)
  BY <1>1, DecayedImage DEF AcceptInv
<1>7. rot' \in Nat /\ rot' <= MaxRot
  BY <1>1, <1>2, Numbers
<1>8. TypeOK'
  BY <1>1, <1>2, <1>7 DEF TypeOK, plogVars, undoVars
<1>9. AcceptInv'
  <2> HIDE DEF g
  <2>1. \A c \in accept' : c.image = g /\ c.stream = a.stream
    BY <1>5 DEF g
  <2>2. acked <= Len(a.stream) /\ \A k \in 1 .. acked : a.stream[k] = stream[k]
    BY <1>1 DEF AcceptInv
  <2>3. \A c \in accept' : /\ ImageInv(c.image, c.stream, rot')
                           /\ acked' <= Len(c.stream) /\ \A k \in 1 .. acked' : c.stream[k] = stream'[k]
    BY <1>2, <1>6, <2>1, <2>2
  <2> QED BY <1>1, <1>2, <2>3 DEF AcceptInv
<1> QED BY <1>2, <1>7, <1>8, <1>9 DEF PlogInv

-----------------------------------------------------------------------------
(* What a write behind the sealed sectors of m units leaves of a file.     *)

\* The sectors of m units and the hash sectors of their blocks lie before the rest.
LEMMA BehindSealed ==
    ASSUME NEW m \in Nat
    PROVE  /\ CalcPhysical(Whole(m)) \in Nat /\ CalcPhysical(Whole(m)) >= 1
           /\ \A i \in 0 .. Whole(m) - 1 : CalcPhysical(i) + 1 \in 1 .. CalcPhysical(Whole(m))
           /\ \A b \in 0 .. (m \div BlockUnits) - 1 : hashSectorPhys(b) + 1 \in 1 .. CalcPhysical(Whole(m))
<1>1. Whole(m) \in Nat /\ m \div BlockUnits \in Nat /\ m \div BlockUnits = Whole(m) \div HashesPerBlock
  BY Position
<1>2. CalcPhysical(Whole(m)) \in Nat /\ CalcPhysical(Whole(m)) >= 1
  BY <1>1, SectorPlace
<1>3. ASSUME NEW i \in 0 .. Whole(m) - 1 PROVE CalcPhysical(i) + 1 \in 1 .. CalcPhysical(Whole(m))
  <2>1. i \in Nat /\ i < Whole(m)
    BY <1>1
  <2>2. CalcPhysical(i) \in Nat /\ CalcPhysical(i) < CalcPhysical(Whole(m))
    BY <1>1, <2>1, SectorPlace, SectorsInOrder
  <2> QED BY <1>2, <2>2
<1>4. ASSUME NEW b \in 0 .. (m \div BlockUnits) - 1 PROVE hashSectorPhys(b) + 1 \in 1 .. CalcPhysical(Whole(m))
  <2>1. b \in Nat /\ b < m \div BlockUnits
    BY <1>1
  <2>2. hashSectorPhys(b) \in Nat /\ hashSectorPhys(b) < CalcPhysical(Whole(m))
    BY <1>1, <2>1, HashPlace, HashInOrder
  <2> QED BY <1>2, <2>2
<1> QED BY <1>2, <1>3, <1>4

\* Hash sectors stay true as long as the sealed sectors and their units stay.
LEMMA HonestKept ==
    ASSUME NEW f \in Seq(Stored), NEW g \in Seq(Stored), NEW s \in Seq(Values), NEW t \in Seq(Values),
           NEW m \in Nat, NEW n \in Nat, m <= n, m <= Len(t), Honest(f, s, n),
           CalcPhysical(Whole(m)) <= Len(f), CalcPhysical(Whole(m)) <= Len(g),
           \A x \in 1 .. CalcPhysical(Whole(m)) : g[x] = f[x],
           \A k \in 1 .. m : t[k] = s[k]
    PROVE  Honest(g, t, m)
<1> SUFFICES ASSUME NEW b \in 0 .. (m \div BlockUnits) - 1
             PROVE  \/ g[hashSectorPhys(b) + 1] = Rotten
                    \/ (b + 1) * BlockUnits <= Len(t) /\ g[hashSectorPhys(b) + 1] = HashSector(b, BlockHashes(t, b))
  BY DEF Honest
<1> DEFINE p == hashSectorPhys(b) + 1
<1>0. m \div BlockUnits \in Nat /\ n \div BlockUnits \in Nat /\ m \div BlockUnits <= n \div BlockUnits
  BY Counts, WholeFacts
<1>1. b \in Nat /\ b < m \div BlockUnits /\ b \in 0 .. (n \div BlockUnits) - 1
  <2> DEFINE c == m \div BlockUnits  d == n \div BlockUnits
  <2>1. c \in Nat /\ d \in Nat /\ c <= d /\ b \in 0 .. c - 1
    BY <1>0
  <2> HIDE DEF c, d
  <2>2. b \in Nat /\ b < c /\ b \in 0 .. d - 1
    BY <2>1
  <2> QED BY <2>2 DEF c, d
<1>2. p \in 1 .. CalcPhysical(Whole(m)) /\ CalcPhysical(Whole(m)) \in Nat /\ hashSectorPhys(b) \in Nat
  BY <1>1, BehindSealed, HashPlace
<1>3. g[p] = f[p] /\ ~(hashSectorPhys(b) >= Len(f))
  BY <1>2, SequenceFacts
<1>4. (b + 1) * BlockUnits <= m /\ (b + 1) * BlockUnits \in Nat
  <2>1. (b + 1) * BlockUnits <= m
    BY <1>1, WholeFacts
  <2> QED BY <1>1, <2>1, Numbers
<1>5. (b + 1) * BlockUnits <= Len(t)
  BY <1>4, SequenceFacts
<1>6. BlockHashes(t, b) = BlockHashes(s, b)
  BY <1>1, <1>4, BlockHashesSame
<1>7. f[p] = Rotten \/ f[p] = HashSector(b, BlockHashes(s, b))
  BY <1>1, <1>3 DEF Honest
<1> QED BY <1>3, <1>5, <1>6, <1>7

\* The same for a file without decay.
LEMMA FaithfulKept ==
    ASSUME NEW f \in Seq(Stored), NEW g \in Seq(Stored), NEW s \in Seq(Values), NEW t \in Seq(Values),
           NEW m \in Nat, m <= Len(s), m <= Len(t), Faithful(f, s),
           \A x \in 1 .. CalcPhysical(Whole(m)) : g[x] = f[x],
           \A k \in 1 .. m : t[k] = s[k]
    PROVE  /\ \A i \in 0 .. Whole(m) - 1 : g[CalcPhysical(i) + 1] = DataSector(SectorOf(t, i))
           /\ \A b \in 0 .. (m \div BlockUnits) - 1 : g[hashSectorPhys(b) + 1] = HashSector(b, BlockHashes(t, b))
<1>1. Len(s) \in Nat /\ Whole(m) \in Nat /\ Whole(Len(s)) \in Nat /\ Whole(m) <= Whole(Len(s))
      /\ m \div BlockUnits \in Nat /\ Len(s) \div BlockUnits \in Nat /\ m \div BlockUnits <= Len(s) \div BlockUnits
  BY SequenceFacts, Counts, WholeFacts
<1>2. ASSUME NEW i \in 0 .. Whole(m) - 1 PROVE g[CalcPhysical(i) + 1] = DataSector(SectorOf(t, i))
  <2>1. i \in Nat /\ i < Whole(m) /\ i \in 0 .. Whole(Len(s)) - 1
    BY <1>1
  <2>2. (i + 1) * SectorUnits <= m
    BY <2>1, WholeFacts
  <2>3. SectorOf(t, i) = SectorOf(s, i)
    BY <2>1, <2>2, SectorOfSame
  <2>4. g[CalcPhysical(i) + 1] = f[CalcPhysical(i) + 1]
    BY BehindSealed
  <2> QED BY <2>1, <2>3, <2>4 DEF Faithful
<1>3. ASSUME NEW b \in 0 .. (m \div BlockUnits) - 1
      PROVE  g[hashSectorPhys(b) + 1] = HashSector(b, BlockHashes(t, b))
  <2>1. b \in Nat /\ b < m \div BlockUnits /\ b \in 0 .. (Len(s) \div BlockUnits) - 1
    BY <1>1
  <2>2. (b + 1) * BlockUnits <= m
    BY <2>1, WholeFacts
  <2>3. BlockHashes(t, b) = BlockHashes(s, b)
    BY <2>1, <2>2, BlockHashesSame
  <2>4. g[hashSectorPhys(b) + 1] = f[hashSectorPhys(b) + 1]
    BY BehindSealed
  <2> QED BY <2>1, <2>3, <2>4 DEF Faithful
<1> QED BY <1>2, <1>3

-----------------------------------------------------------------------------
(* RecoverHashes.                                                          *)

\* A sector that validates holds the units appended there.
LEMMA ValidatedUnits ==
    ASSUME logicalLength \in Nat, NEW live, NEW i \in Nat, Validates(i, live),
           NEW j \in 1 .. SectorUnits, i * SectorUnits + j <= logicalLength
    PROVE  Bytes(file[CalcPhysical(i) + 1])[j] = stream[i * SectorUnits + j]
<1> DEFINE a == i * SectorUnits  k == a + j - 1
           end == IF a + SectorUnits < logicalLength THEN a + SectorUnits ELSE logicalLength
           bytes == Bytes(file[CalcPhysical(i) + 1])
<1>1. a \in Nat /\ SectorUnits \in Nat
  BY Numbers
<1>2. \A x \in a .. end - 1 : x \in live /\ x < Len(stream) /\ bytes[x - a + 1] = stream[x + 1]
  BY DEF Validates
<1>3. a + j <= logicalLength
  OBVIOUS
<1> HIDE DEF a, bytes
<1>4. k \in a .. end - 1 /\ k - a + 1 = j /\ k + 1 = a + j
  BY <1>1, <1>3
<1>5. bytes[j] = stream[a + j]
  BY <1>2, <1>4
<1> QED BY <1>5 DEF a, bytes

\* Memory that satisfies EvidenceInv has the types the cursor needs.
LEMMA EvidenceTypes ==
    ASSUME NEW n \in Nat
    PROVE  n % SectorUnits < SectorUnits /\ Whole(n) % HashesPerBlock < HashesPerBlock
           /\ n % SectorUnits \in Nat /\ Whole(n) % HashesPerBlock \in Nat
  BY Position, SectorPlace

\* RecoverHashes keeps the invariant: it believes only sectors whose units the catalog proves.
LEMMA RecoverHashesInv ==
    ASSUME PlogInv, RecoverHashes
    PROVE  PlogInv'
<1>1. TypeOK /\ AcceptInv /\ CursorInv /\ EvidenceInv /\ FileInv /\ UndoInv /\ rot <= MaxRot
  BY DEF PlogInv, RecoverHashes
<1>2. /\ phase = "reconciled" /\ phase' = "mounted"
      /\ UNCHANGED <<file, accept, undoVars, stream, acked, recorded, faults, rot>>
  BY DEF RecoverHashes
<1>3. AcceptInv'
  BY <1>1, <1>2 DEF AcceptInv
<1>4. CASE loadedFromTrailer
  <2>1. UNCHANGED plogVars
    BY <1>4 DEF RecoverHashes
  <2>2. TypeOK'
    BY <1>1, <1>2, <2>1 DEF TypeOK, plogVars, undoVars
  <2>3. CursorInv' /\ EvidenceInv' /\ FileInv' /\ UndoInv'
    BY <1>1, <1>2, <2>1, SameFile DEF CursorInv, FileInv, UndoInv, plogVars, undoVars
  <2> QED BY <1>1, <1>2, <1>3, <2>2, <2>3 DEF PlogInv
<1>5. CASE ~loadedFromTrailer
  <2> DEFINE n == logicalLength  w == Whole(n)  r == n % SectorUnits  c == w % HashesPerBlock
             first == (n \div BlockUnits) * HashesPerBlock  open == first .. Holding(n) - 1
             content(i) == Bytes(file[CalcPhysical(i) + 1])
  <2>1. /\ n \in Nat /\ stream \in Seq(Values) /\ Len(stream) \in Nat /\ Len(buf) = r /\ n = Len(stream)
        /\ sealed \in Nat /\ sealed = w * SectorUnits /\ sealed \div SectorUnits = w
        /\ sealed \div BlockUnits = n \div BlockUnits
    BY <1>1, <1>2, MemoryFacts DEF CursorInv
  <2>2. w \in Nat /\ r \in Nat /\ r < SectorUnits /\ c \in Nat /\ c < HashesPerBlock /\ n \div BlockUnits \in Nat
    BY <2>1, Counts, EvidenceTypes
  <2>3. first \in Nat /\ w = first + c
    <3>1. w = (w \div HashesPerBlock) * HashesPerBlock + c /\ n \div BlockUnits = w \div HashesPerBlock
      BY <2>1, <2>2, Position, SectorPlace
    <3>2. first \in Nat
      BY <2>2, Numbers
    <3> QED BY <3>1, <3>2
  <2>4. PICK live \in SUBSET (0 .. recorded - 1) :
          LET whole   == (logicalLength \div SectorUnits) * SectorUnits
              fst     == BlockStart(whole) \div SectorUnits
              ragged  == logicalLength % SectorUnits > 0
              opn     == fst .. Holding(logicalLength) - 1
              proven  == {i \in opn : Validates(i, live)}
          IN  /\ hashes' = [k \in 1 .. whole \div SectorUnits - fst |->
                               IF fst + k - 1 \in proven
                               THEN Bytes(file[CalcPhysical(fst + k - 1) + 1]) ELSE Poison]
              /\ bufCorrupt' = (ragged /\ whole \div SectorUnits \notin proven)
              /\ buf' = IF ragged /\ whole \div SectorUnits \in proven
                        THEN SubSeq(Bytes(file[CalcPhysical(whole \div SectorUnits) + 1]), 1, logicalLength % SectorUnits)
                        ELSE buf
              /\ openUnverified' = (proven # opn)
              /\ UNCHANGED <<logicalLength, loadedFromTrailer>>
    BY <1>5 DEF RecoverHashes
  <2> DEFINE proven == {i \in open : Validates(i, live)}
  <2>5. /\ (logicalLength \div SectorUnits) * SectorUnits = sealed /\ sealed \div SectorUnits = w
        /\ BlockStart(sealed) \div SectorUnits = first
    BY <2>1, Position DEF Whole
  <2>6. /\ hashes' = [k \in 1 .. w - first |-> IF first + k - 1 \in proven THEN content(first + k - 1) ELSE Poison]
        /\ bufCorrupt' = (r > 0 /\ w \notin proven)
        /\ buf' = IF r > 0 /\ w \in proven THEN SubSeq(content(w), 1, r) ELSE buf
        /\ openUnverified' = (proven # open)
        /\ UNCHANGED <<logicalLength, loadedFromTrailer>>
    BY <2>4, <2>5
  <2>7. w - first = c
    BY <2>2, <2>3
  <2>8. file \in Seq(Stored) /\ Len(file) \in Nat /\ Len(file) >= CalcPhysical(w) /\ CalcPhysical(w) \in Nat
        /\ (r # 0 => Len(file) > CalcPhysical(w))
    BY <1>1, <1>2, <2>1, <2>2, SequenceFacts, SectorPlace DEF FileInv, CursorInv
  <2>9. ASSUME NEW i \in Nat, i < w \/ (i = w /\ r # 0)
        PROVE  content(i) \in [1 .. SectorUnits -> Delivered] /\ content(i) \in Seq(Delivered) /\ Len(content(i)) = SectorUnits
    <3>1. CalcPhysical(i) \in Nat /\ CalcPhysical(i) < Len(file)
      <4>1. CASE i < w
        BY <2>2, <2>8, <2>9, <4>1, SectorsInOrder, SectorPlace, SMTT(20)
      <4>2. CASE i = w /\ r # 0
        BY <2>8, <4>2
      <4> QED BY <2>9, <4>1, <4>2
    <3>2. CalcPhysical(i) + 1 \in 1 .. Len(file)
      BY <2>8, <3>1
    <3>3. file[CalcPhysical(i) + 1] \in Stored
      BY <2>8, <3>2, SequenceFacts
    <3> QED BY <3>3, BytesFacts
  <2>10. ASSUME NEW k \in 1 .. c
         PROVE  /\ first + k - 1 \in open /\ first + k - 1 \in Nat
                /\ (first + k - 1 + 1) * SectorUnits <= n
                /\ SectorOf(stream, first + k - 1) \in Seq(Units) /\ SectorOf(stream, first + k - 1) \in Seq(Delivered)
                /\ first + k - 1 \in proven => content(first + k - 1) = SectorOf(stream, first + k - 1)
    <3> DEFINE i == first + k - 1
    <3>1. i \in Nat /\ i < w /\ (i + 1) * SectorUnits <= n
      BY <2>1, <2>10, OpenPlace
    <3>2. i \in open
      <4>1. Holding(n) \in Nat /\ Holding(n) >= w /\ i >= first
        BY <2>1, <2>2, <2>3, <2>10, HoldingFacts
      <4> HIDE DEF first, i, w
      <4> QED BY <2>3, <3>1, <4>1, <2>2
    <3> HIDE DEF i
    <3>3. SectorOf(stream, i) \in Seq(Units) /\ SectorOf(stream, i) \in Seq(Delivered)
          /\ Len(SectorOf(stream, i)) = SectorUnits
          /\ \A j \in 1 .. SectorUnits : SectorOf(stream, i)[j] = stream[i * SectorUnits + j]
      BY <2>1, <3>1, SectorOfFacts
    <3>4. ASSUME i \in proven PROVE content(i) = SectorOf(stream, i)
      <4>1. Validates(i, live)
        BY <3>4
      <4>2. content(i) \in Seq(Delivered) /\ Len(content(i)) = SectorUnits
        BY <2>9, <3>1
      <4>3. \A j \in 1 .. SectorUnits : content(i)[j] = stream[i * SectorUnits + j]
        <5> TAKE j \in 1 .. SectorUnits
        <5>1. i * SectorUnits + j <= n
          <6>1. i * SectorUnits + j \in 1 .. (i + 1) * SectorUnits /\ (i + 1) * SectorUnits \in Nat
            BY <3>1, UnitIndex
          <6> QED BY <2>1, <3>1, <6>1
        <5> QED BY <2>1, <3>1, <4>1, <5>1, ValidatedUnits
      <4> DEFINE x == content(i)  y == SectorOf(stream, i)
      <4>4. /\ x \in Seq(Delivered) /\ y \in Seq(Delivered) /\ Len(x) = Len(y)
            /\ \A j \in 1 .. Len(x) : x[j] = y[j]
        BY <3>3, <4>2, <4>3
      <4> HIDE DEF x, y
      <4>5. x = y
        BY <4>4, SeqEqual
      <4> QED BY <4>5 DEF x, y
    <3> QED BY <3>1, <3>2, <3>3, <3>4 DEF i
  <2>11. /\ hashes' \in Seq(Seq(Units) \cup {Poison}) /\ Len(hashes') = c
         /\ \A k \in 1 .. c : hashes'[k] = IF first + k - 1 \in proven THEN SectorOf(stream, first + k - 1) ELSE Poison
    <3>1. hashes' = [k \in 1 .. c |-> IF first + k - 1 \in proven THEN content(first + k - 1) ELSE Poison]
      BY <2>6, <2>7
    <3> HIDE DEF content, first, proven, c
    <3>2. \A k \in 1 .. c : hashes'[k] = IF first + k - 1 \in proven THEN SectorOf(stream, first + k - 1) ELSE Poison
      BY <2>10, <3>1
    <3>3. \A k \in 1 .. c : hashes'[k] \in Seq(Units) \cup {Poison}
      BY <2>10, <3>2
    <3>4. hashes' \in [1 .. c -> Seq(Units) \cup {Poison}]
      BY <3>1, <3>3
    <3>5. hashes' \in Seq(Seq(Units) \cup {Poison}) /\ Len(hashes') = c
      BY <2>2, <3>4, FunctionIsSequence
    <3> QED BY <3>2, <3>5
  <2>12. buf' \in Seq(Delivered) /\ Len(buf') = r
         /\ (~bufCorrupt' => \A j \in 1 .. r : buf'[j] = stream[w * SectorUnits + j])
    <3>1. CASE r > 0 /\ w \in proven
      <4>1. content(w) \in Seq(Delivered) /\ Len(content(w)) = SectorUnits
        BY <2>2, <2>9, <3>1
      <4>2. buf' = SubSeq(content(w), 1, r)
        BY <2>6, <3>1
      <4> HIDE DEF content
      <4>3. SubSeq(content(w), 1, r) \in Seq(Delivered) /\ Len(SubSeq(content(w), 1, r)) = r
            /\ \A j \in 1 .. r : SubSeq(content(w), 1, r)[j] = content(w)[j]
        BY <2>2, <4>1, PrefixFacts
      <4>4. \A j \in 1 .. r : content(w)[j] = stream[w * SectorUnits + j]
        <5> TAKE j \in 1 .. r
        <5>1. j \in 1 .. SectorUnits
          BY <2>2, Numbers
        <5>2. w * SectorUnits + j <= n
          <6>1. n = w * SectorUnits + r /\ w * SectorUnits \in Nat
            BY <2>1, <2>2, Position, Numbers
          <6> HIDE DEF n, w, r
          <6> QED BY <2>2, <6>1
        <5>3. Validates(w, live)
          BY <3>1
        <5> QED BY <2>1, <2>2, <5>1, <5>2, <5>3, ValidatedUnits DEF content
      <4> QED BY <4>2, <4>3, <4>4
    <3>2. CASE ~(r > 0 /\ w \in proven)
      <4>1. buf' = buf /\ (~bufCorrupt' => r = 0)
        <5>1. r > 0 \/ r = 0
          BY <2>2
        <5> HIDE DEF proven, r
        <5> QED BY <2>6, <3>2, <5>1, Zenon
      <4> QED BY <1>1, <2>1, <2>2, <4>1 DEF EvidenceInv
    <3> QED BY <3>1, <3>2
  <2>13. EvidenceInv'
    <3>1. logicalLength' = n /\ stream' = stream
      BY <1>2, <2>6
    <3>2. \A k \in 1 .. c : \/ hashes'[k] = Poison
                            \/ (first + k - 1 + 1) * SectorUnits <= Len(stream) /\ hashes'[k] = SectorOf(stream, first + k - 1)
      BY <2>1, <2>10, <2>11
    <3>3. ASSUME ~bufCorrupt', ~openUnverified', NEW k \in 1 .. c PROVE hashes'[k] # Poison
      <4>1. proven = open
        BY <2>6, <3>3
      <4>2. hashes'[k] = SectorOf(stream, first + k - 1)
        BY <2>10, <2>11, <3>3, <4>1
      <4> QED BY <2>10, <3>3, <4>2, Markers
    <3> HIDE DEF proven
    <3> QED BY <2>11, <2>12, <3>1, <3>2, <3>3 DEF EvidenceInv
  <2>14. TypeOK'
    <3>1. bufCorrupt' \in BOOLEAN /\ openUnverified' \in BOOLEAN
      BY <2>6
    <3> QED BY <1>1, <1>2, <2>2, <2>6, <2>11, <2>12, <3>1 DEF TypeOK, undoVars
  <2>15. CursorInv' /\ UndoInv'
    BY <1>1, <1>2, <2>1, <2>6 DEF CursorInv, UndoInv, undoVars
  <2>16. FileInv'
    <3>1. rot = 0 => ~bufCorrupt' /\ ~openUnverified'
      <4> SUFFICES ASSUME rot = 0 PROVE ~bufCorrupt' /\ ~openUnverified'
        OBVIOUS
      <4>1. n % BlockUnits = 0
        BY <1>1, <1>2, <1>5 DEF FileInv
      <4>2. r = 0 /\ c = 0 /\ Holding(n) = w
        BY <2>1, <4>1, Position, HoldingFacts
      <4>3. open = {}
        BY <2>2, <2>3, <4>2
      <4>4. ~(r > 0) /\ proven = open
        BY <4>2, <4>3
      <4> HIDE DEF proven, open, r
      <4> QED BY <2>6, <4>4, Zenon
    <3>2. Honest(file, stream, logicalLength)' /\ (rot = 0 => Faithful(file, stream)')
      BY <1>1, <1>2, <2>6 DEF FileInv
    <3> QED BY <1>1, <1>2, <3>1, <3>2 DEF FileInv
  <2> QED BY <1>1, <1>2, <1>3, <2>13, <2>14, <2>15, <2>16 DEF PlogInv
<1> QED BY <1>4, <1>5

-----------------------------------------------------------------------------
(* rebuildOpenBlock and TruncateTo.                                        *)

\* The open block of n units, in units and in sectors.
LEMMA BlockSplit ==
    ASSUME NEW n \in Nat
    PROVE  /\ BlockStart(n) \in Nat /\ BlockStart(n) <= n
           /\ n - BlockStart(n) = n % BlockUnits
           /\ (n - BlockStart(n)) \div SectorUnits = Whole(n) % HashesPerBlock
           /\ BlockStart(n) + (Whole(n) % HashesPerBlock) * SectorUnits = Whole(n) * SectorUnits
           /\ \A k \in Nat : BlockStart(n) + k * SectorUnits = ((n \div BlockUnits) * HashesPerBlock + k) * SectorUnits
<1> DEFINE w == Whole(n)  r == n % SectorUnits  b == n \div BlockUnits  c == w % HashesPerBlock
           s == SectorUnits  h == HashesPerBlock
<1>1. /\ s \in Nat \ {0} /\ h \in Nat \ {0} /\ BlockUnits = h * s /\ w \in Nat /\ r \in Nat /\ r < s /\ n = w * s + r
      /\ b \in Nat /\ n % BlockUnits = c * s + r /\ BlockStart(n) = b * BlockUnits /\ b = w \div HashesPerBlock
  BY Numbers, Position
<1>2. c \in Nat /\ c < h /\ w = b * h + c
  BY <1>1, SectorPlace
<1>3. Whole(c * s + r) = c
  BY <1>1, <1>2, WholeOf
<1> HIDE DEF w, r, b, c, s, h
<1>4. b * (h * s) = (b * h) * s /\ (b * h) * s \in Nat /\ c * s \in Nat /\ b * h \in Nat
  BY <1>1, <1>2
<1>5. (b * h + c) * s = (b * h) * s + c * s
  BY <1>1, <1>2, <1>4
<1>6. BlockStart(n) = (b * h) * s
  BY <1>1, <1>4
<1>7. BlockStart(n) \in Nat /\ BlockStart(n) <= n /\ n - BlockStart(n) = c * s + r /\ BlockStart(n) + c * s = w * s
  BY <1>1, <1>2, <1>4, <1>5, <1>6
<1>8. (n - BlockStart(n)) \div s = c
  BY <1>3, <1>7 DEF Whole, s
<1>9. \A k \in Nat : BlockStart(n) + k * s = (b * h + k) * s
  <2> TAKE k \in Nat
  <2>1. (b * h + k) * s = (b * h) * s + k * s
    BY <1>1, <1>4
  <2> QED BY <1>6, <2>1
<1> QED BY <1>1, <1>7, <1>8, <1>9 DEF w, r, b, c, s, h

\* Geometry without evidence claims nothing (rebuildOpenBlock).
LEMMA RebuiltEvidence ==
    ASSUME NEW f \in Seq(Stored), NEW n \in Nat, n % SectorUnits # 0 => CalcPhysical(Whole(n)) < Len(f),
           rebuildOpenBlock(f, n)
    PROVE  /\ EvidenceInv' /\ logicalLength' = n /\ loadedFromTrailer' = FALSE
           /\ bufCorrupt' \in BOOLEAN /\ openUnverified' \in BOOLEAN
           /\ n % BlockUnits = 0 => ~bufCorrupt' /\ ~openUnverified'
<1> DEFINE w == Whole(n)  r == n % SectorUnits  c == w % HashesPerBlock  p == CalcPhysical(w) + 1
<1>1. w \in Nat /\ r \in Nat /\ r < SectorUnits /\ c \in Nat /\ n = w * SectorUnits + r /\ SectorUnits \in Nat
  BY Position, EvidenceTypes, Numbers
<1>2. w * SectorUnits \in Nat /\ n - r = w * SectorUnits /\ Whole(w * SectorUnits) = w
      /\ (w * SectorUnits) % SectorUnits = 0
  <2>1. w * SectorUnits \in Nat
    BY <1>1
  <2>2. 0 \in Nat /\ 0 < SectorUnits
    BY Numbers
  <2>3. Whole(w * SectorUnits + 0) = w /\ (w * SectorUnits + 0) % SectorUnits = 0
    BY <1>1, <2>2, WholeOf
  <2> HIDE DEF w, r
  <2> QED BY <1>1, <2>1, <2>3
<1>3. (n - r) \div SectorUnits = w
  BY <1>2 DEF Whole
<1>4. ((n - r) - BlockStart(n - r)) \div SectorUnits = c /\ BlockStart(n - r) = BlockStart(n)
  <2>1. (w * SectorUnits - BlockStart(w * SectorUnits)) \div SectorUnits = c
    BY <1>2, BlockSplit
  <2>2. (w * SectorUnits) \div BlockUnits = n \div BlockUnits
    BY <1>2, Position
  <2> QED BY <1>2, <2>1, <2>2 DEF BlockStart
<1>5. /\ logicalLength' = n
      /\ buf' = IF r = 0 THEN <<>> ELSE SubSeq(Bytes(f[p]), 1, r)
      /\ hashes' = [i \in 1 .. c |-> Poison]
      /\ bufCorrupt' = (r > 0) /\ openUnverified' = (BlockStart(n) < n) /\ loadedFromTrailer' = FALSE
  BY <1>3, <1>4 DEF rebuildOpenBlock
<1>6. BlockStart(n) \in Nat /\ BlockStart(n) <= n /\ n - BlockStart(n) = n % BlockUnits
  BY BlockSplit
<1>7. buf' \in Seq(Delivered) /\ Len(buf') = r
  <2>1. CASE r = 0
    BY <1>5, <2>1, EmptySeq
  <2>2. CASE r # 0
    <3>1. CalcPhysical(w) \in Nat /\ CalcPhysical(w) < Len(f) /\ Len(f) \in Nat
      BY <1>1, <2>2, SectorPlace, SequenceFacts
    <3>2. p \in 1 .. Len(f)
      BY <3>1
    <3>3. f[p] \in Stored
      BY <3>2, SequenceFacts
    <3> DEFINE x == Bytes(f[p])
    <3>4. x \in Seq(Delivered) /\ Len(x) = SectorUnits
      BY <3>3, BytesFacts
    <3>5. buf' = SubSeq(x, 1, r)
      BY <1>5, <2>2
    <3> HIDE DEF x
    <3> QED BY <1>1, <3>4, <3>5, PrefixFacts
  <2> QED BY <2>1, <2>2
<1>8. hashes' \in Seq(Seq(Units) \cup {Poison}) /\ Len(hashes') = c /\ \A k \in 1 .. c : hashes'[k] = Poison
  <2>1. hashes' \in [1 .. c -> Seq(Units) \cup {Poison}] /\ \A k \in 1 .. c : hashes'[k] = Poison
    BY <1>5
  <2> QED BY <1>1, <2>1, FunctionIsSequence
<1>9. ~bufCorrupt' => r = 0
  <2>1. r > 0 \/ r = 0
    BY <1>1
  <2> QED BY <1>5, <2>1, Zenon
<1>10. n % BlockUnits = 0 <=> c = 0 /\ r = 0
  BY Position
<1>11. ~openUnverified' => n % BlockUnits = 0
  <2>1. BlockStart(n) < n \/ n % BlockUnits = 0
    BY <1>6
  <2> QED BY <1>5, <2>1, Zenon
<1>12. n % BlockUnits = 0 => ~(r > 0) /\ ~(BlockStart(n) < n)
  BY <1>6, <1>10
<1> HIDE DEF w, r, c
<1>13. n % BlockUnits = 0 => ~bufCorrupt' /\ ~openUnverified'
  BY <1>5, <1>12, Zenon
<1>14. EvidenceInv'
  <2>1. buf' \in Seq(Delivered) /\ Len(buf') = logicalLength' % SectorUnits
    BY <1>5, <1>7 DEF r
  <2>2. hashes' \in Seq(Seq(Units) \cup {Poison}) /\ Len(hashes') = Whole(logicalLength') % HashesPerBlock
    BY <1>5, <1>8 DEF w, c
  <2>3. ~bufCorrupt' => Len(buf') = 0
    BY <1>7, <1>9
  <2>4. ~bufCorrupt' /\ ~openUnverified' => Len(hashes') = 0
    BY <1>8, <1>10, <1>11
  <2> QED BY <1>8, <2>1, <2>2, <2>3, <2>4 DEF EvidenceInv
<1> QED BY <1>5, <1>13, <1>14

\* A file cut at sector p, with or without a last sector of its own.
LEMMA CutFacts ==
    ASSUME NEW T, NEW f \in Seq(T), DataSector(<<>>) \in T, NEW p \in Nat, p <= Len(f), NEW out \in Seq(T)
    PROVE  LET g == WriteAt(SubSeq(f, 1, p), p, out)
           IN  /\ g \in Seq(T) /\ Len(g) = p + Len(out)
               /\ \A x \in 1 .. p : g[x] = f[x]
               /\ \A k \in 1 .. Len(out) : g[p + k] = out[k]
<1> DEFINE e == SubSeq(f, 1, p)  g == WriteAt(e, p, out)
<1>1. e \in Seq(T) /\ Len(e) = p /\ \A x \in 1 .. p : e[x] = f[x]
  BY PrefixFacts
<1>2. Len(out) \in Nat /\ DataSector(<<>>) \in T
  BY SequenceFacts
<1> HIDE DEF e
<1>3. g \in Seq(T) /\ Len(g) = p + Len(out)
  <2>1. g \in Seq(T) /\ Len(g) \in {Len(e), p + Len(out)} /\ Len(g) >= Len(e) /\ Len(g) >= p + Len(out)
    BY <1>1, <1>2, WriteAtFacts
  <2> HIDE DEF g
  <2> QED BY <1>1, <1>2, <2>1
<1>4. \A x \in 1 .. p : g[x] = f[x]
  <2> TAKE x \in 1 .. p
  <2>1. x \in 1 .. Len(e) /\ x <= p
    BY <1>1
  <2>2. g[x] = e[x]
    BY <1>1, <1>2, <2>1, WriteAtOld
  <2> QED BY <1>1, <2>2
<1>5. \A k \in 1 .. Len(out) : g[p + k] = out[k]
  <2> TAKE k \in 1 .. Len(out)
  <2> QED BY <1>1, <1>2, WriteAtNew
<1> HIDE DEF g
<1> QED BY <1>3, <1>4, <1>5 DEF g, e

\* A ragged sector that keeps r units of another.
LEMMA RaggedSector ==
    ASSUME NEW U, Zero \in U, NEW bytes \in Seq(U), Len(bytes) = SectorUnits, NEW r \in Nat, r <= SectorUnits
    PROVE  DataSector(SubSeq(bytes, 1, r)) \in [kind : {"data"}, units : [1 .. SectorUnits -> U]]
<1> DEFINE u == SubSeq(bytes, 1, r)
<1>1. u \in Seq(U) /\ Len(u) = r
  BY PrefixFacts
<1> HIDE DEF u
<1>2. DataSector(u) \in [kind : {"data"}, units : [1 .. SectorUnits -> U]]
  BY <1>1, DataSectorFacts
<1> QED BY <1>2 DEF u

\* The evidence TruncateTo keeps: what the old evidence proved of the retained block.
LEMMA RetainedEvidence ==
    ASSUME NEW s \in Seq(Values), NEW m \in Nat, m <= Len(s), NEW v \in Seq(Values), Len(v) = m - BlockStart(m),
           \A k \in 1 .. Len(v) : v[k] = s[BlockStart(m) + k],
           LET whole == (m - BlockStart(m)) \div SectorUnits
           IN  /\ logicalLength' = m
               /\ hashes' = [i \in 1 .. whole |-> SubSeq(v, (i - 1) * SectorUnits + 1, i * SectorUnits)]
               /\ buf' = SubSeq(v, whole * SectorUnits + 1, Len(v))
               /\ bufCorrupt' = FALSE /\ openUnverified' = FALSE,
           stream' = SubSeq(s, 1, m)
    PROVE  EvidenceInv'
<1> DEFINE w == Whole(m)  r == m % SectorUnits  c == w % HashesPerBlock  b == m \div BlockUnits  st == BlockStart(m)
           d == SectorUnits  t == SubSeq(s, 1, m)
<1>1. /\ w \in Nat /\ r \in Nat /\ r < d /\ m = w * d + r /\ b \in Nat /\ m % BlockUnits = c * d + r
      /\ d \in Nat \ {0} /\ c \in Nat
  BY Position, Numbers, EvidenceTypes
<1>2. /\ st \in Nat /\ st <= m /\ m - st = c * d + r /\ (m - st) \div d = c /\ st + c * d = w * d
      /\ \A k \in Nat : st + k * d = (b * HashesPerBlock + k) * d
  BY <1>1, BlockSplit
<1>3. /\ logicalLength' = m /\ hashes' = [i \in 1 .. c |-> SubSeq(v, (i - 1) * d + 1, i * d)]
      /\ buf' = SubSeq(v, c * d + 1, Len(v)) /\ bufCorrupt' = FALSE /\ openUnverified' = FALSE
  BY <1>2
<1>4. t \in Seq(Values) /\ Len(t) = m /\ \A k \in 1 .. m : t[k] = s[k]
  BY PrefixFacts
<1>5. Len(v) = c * d + r /\ \A k \in 1 .. Len(v) : v[k] = s[st + k]
  BY <1>2
<1>6. stream' = t
  OBVIOUS
<1>7. c * d \in Nat /\ Len(v) \in Nat
  <2>1. c * d \in Nat
    BY <1>1, Multiples
  <2>2. Len(v) \in Nat
    BY SequenceFacts
  <2> QED BY <2>1, <2>2
<1>8. \A k \in 1 .. c : (b * HashesPerBlock + k - 1) \in Nat /\ (b * HashesPerBlock + k - 1 + 1) * d <= m
  BY OpenPlace
<1> HIDE DEF w, r, c, b, st, d, t
<1>9. buf' \in Seq(Values) /\ Len(buf') = r /\ \A j \in 1 .. r : buf'[j] = t[w * d + j]
  <2> DEFINE a == c * d  z == Len(v)
  <2>0. a \in Nat /\ z \in Nat /\ z = a + r /\ r \in Nat
    BY <1>1, <1>5, <1>7
  <2>1. a \in Nat /\ z \in Nat /\ a <= z /\ z - a = r
    <3> HIDE DEF a, z
    <3> QED BY <2>0
  <2>2. st + a = w * d /\ w * d \in Nat
    BY <1>1, <1>2
  <2>3. buf' = SubSeq(v, a + 1, z)
    BY <1>3
  <2>4. \A k \in 1 .. z : v[k] = s[st + k]
    BY <1>5
  <2>5. m = w * d + r /\ z = a + r
    BY <1>1, <1>5
  <2> HIDE DEF a
  <2>6. /\ SubSeq(v, a + 1, z) \in Seq(Values) /\ Len(SubSeq(v, a + 1, z)) = z - a
        /\ \A i \in 1 .. z - a : SubSeq(v, a + 1, z)[i] = v[a + i]
    BY <2>1, SliceFacts
  <2> HIDE DEF z
  <2>7. \A j \in 1 .. r : v[a + j] = t[w * d + j]
    <3> TAKE j \in 1 .. r
    <3>1. a + j \in 1 .. z /\ st + (a + j) = w * d + j /\ w * d + j \in 1 .. m
      BY <1>1, <1>2, <2>1, <2>2, <2>5
    <3> QED BY <1>4, <2>4, <3>1
  <2> QED BY <2>1, <2>3, <2>6, <2>7
<1>10. ASSUME NEW k \in 1 .. c
       PROVE  /\ hashes'[k] = SectorOf(t, b * HashesPerBlock + k - 1)
              /\ SectorOf(t, b * HashesPerBlock + k - 1) \in Seq(Units)
              /\ SectorOf(t, b * HashesPerBlock + k - 1) \in Seq(Delivered)
  <2> DEFINE i == b * HashesPerBlock + k - 1  a == (k - 1) * d  z == k * d
  <2>1. i \in Nat /\ (i + 1) * d <= Len(t) /\ (i + 1) * SectorUnits <= Len(t)
    BY <1>4, <1>8, <1>10 DEF d
  <2>2. k - 1 \in Nat /\ k \in Nat /\ k <= c
    BY <1>1, <1>10
  <2>3. a \in Nat /\ z \in Nat /\ z = a + d /\ z <= c * d
    BY <1>1, <2>2, Multiples
  <2>4. z <= Len(v) /\ z - a = d /\ a <= z
    <3> DEFINE cd == c * d
    <3>1. cd \in Nat /\ Len(v) = cd + r /\ z <= cd /\ r \in Nat /\ d \in Nat /\ a \in Nat /\ z \in Nat /\ z = a + d
      BY <1>1, <1>5, <1>7, <2>3
    <3> HIDE DEF cd, a, z
    <3> QED BY <3>1
  <2>5. hashes'[k] = SubSeq(v, a + 1, z)
    BY <1>3, <1>10
  <2>6. st + a = i * d /\ i * d \in Nat
    <3>1. st + a = (b * HashesPerBlock + (k - 1)) * d
      BY <1>2, <2>2
    <3>2. b * HashesPerBlock + (k - 1) = i
      BY <1>1, <2>2, Numbers
    <3> QED BY <1>1, <2>1, <3>1, <3>2
  <2>7. /\ SectorOf(t, i) \in Seq(Values) /\ SectorOf(t, i) \in Seq(Units) /\ SectorOf(t, i) \in Seq(Delivered)
        /\ Len(SectorOf(t, i)) = d /\ \A j \in 1 .. d : SectorOf(t, i)[j] = t[i * d + j]
    BY <1>4, <2>1, SectorOfFacts DEF d
  <2> DEFINE x == SectorOf(t, i)
  <2>8. (i + 1) * d = i * d + d
    BY <1>1, <2>1, Multiples
  <2> HIDE DEF i, a, z
  <2>9. \A j \in 1 .. d : x[j] = v[a + j]
    <3> TAKE j \in 1 .. d
    <3>1. a + j \in 1 .. Len(v) /\ st + (a + j) = i * d + j /\ i * d + j \in 1 .. m
      <4> DEFINE id == i * d
      <4>1. id \in Nat /\ id + d <= m /\ st + a = id /\ st \in Nat /\ m \in Nat
        BY <1>2, <1>4, <2>1, <2>6, <2>8
      <4>2. a \in Nat /\ z \in Nat /\ z = a + d /\ z <= Len(v) /\ Len(v) \in Nat /\ d \in Nat
        BY <1>1, <1>7, <2>3, <2>4
      <4> HIDE DEF id
      <4>3. j \in Nat /\ j >= 1 /\ j <= d
        BY <4>2
      <4>4. a + j \in 1 .. Len(v)
        <5> DEFINE lv == Len(v)
        <5>1. a \in Nat /\ a + d <= lv /\ lv \in Nat /\ d \in Nat
          BY <4>2
        <5> HIDE DEF lv
        <5>2. a + j \in 1 .. lv
          BY <4>3, <5>1
        <5> QED BY <5>2 DEF lv
      <4>5. st + (a + j) = id + j /\ id + j \in 1 .. m
        BY <4>1, <4>2, <4>3
      <4> QED BY <4>4, <4>5 DEF id
    <3>2. x[j] = t[i * d + j] /\ v[a + j] = s[st + (a + j)]
      BY <1>5, <2>7, <3>1
    <3> QED BY <1>4, <3>1, <3>2
  <2>10. SubSeq(v, a + 1, z) = x
    <3> HIDE DEF x
    <3>1. x \in Seq(Values) /\ Len(x) = z - a /\ \A j \in 1 .. z - a : x[j] = v[a + j]
      BY <2>4, <2>7, <2>9 DEF x
    <3> QED BY <2>3, <2>4, <3>1, SliceIs, ZenonT(40)
  <2> QED BY <2>5, <2>7, <2>10 DEF i
<1>11. hashes' \in Seq(Seq(Units) \cup {Poison}) /\ Len(hashes') = c
  <2>1. hashes' \in [1 .. c -> Seq(Units) \cup {Poison}]
    BY <1>3, <1>10
  <2> QED BY <1>1, <2>1, FunctionIsSequence
<1>12. buf' \in Seq(Delivered)
  BY <1>9, UnitFacts
<1>13. \A k \in 1 .. c : hashes'[k] # Poison /\ hashes'[k] = SectorOf(t, b * HashesPerBlock + k - 1)
                         /\ (b * HashesPerBlock + k - 1 + 1) * d <= Len(t)
  BY <1>4, <1>8, <1>10, Markers
<1>14. /\ Len(buf') = logicalLength' % SectorUnits /\ Len(hashes') = Whole(logicalLength') % HashesPerBlock
       /\ \A k \in 1 .. Len(hashes') :
             /\ hashes'[k] # Poison
             /\ (((logicalLength' \div BlockUnits) * HashesPerBlock + k - 1) + 1) * SectorUnits <= Len(stream')
             /\ hashes'[k] = SectorOf(stream', (logicalLength' \div BlockUnits) * HashesPerBlock + k - 1)
       /\ \A j \in 1 .. Len(buf') : buf'[j] = stream'[Whole(logicalLength') * SectorUnits + j]
  BY <1>3, <1>6, <1>9, <1>11, <1>13 DEF w, r, c, b, d
<1> QED BY <1>11, <1>12, <1>14 DEF EvidenceInv

-----------------------------------------------------------------------------
(* The invariant is kept: TruncateTo.                                      *)

\* protectPrefixLocked only widens the protected range.
LEMMA ProtectFacts ==
    ASSUME TypeOK, NEW start \in Nat, Protect(start)
    PROVE  undoActive' = TRUE /\ undoStart' \in Nat /\ undoStart' <= start
<1>1. undoStart \in Nat
  BY DEF TypeOK
<1>2. CASE undoActive /\ start >= undoStart
  BY <1>1, <1>2 DEF Protect
<1>3. CASE ~(undoActive /\ start >= undoStart)
  BY <1>1, <1>3 DEF Protect
<1> QED BY <1>2, <1>3

\* A block begins no later than any of its sectors.
LEMMA BlockPhysicalFacts ==
    ASSUME NEW n \in Nat
    PROVE  /\ BlockPhysical(n) \in Nat /\ BlockPhysical(n) >= 1 /\ BlockPhysical(n) <= CalcPhysical(Whole(n))
           /\ CalcPhysical(Whole(n)) = BlockPhysical(n) + (Whole(n) % HashesPerBlock)
           /\ CalcPhysical(Whole(n)) \in Nat /\ CalcPhysical(Whole(n)) >= 1
<1> DEFINE w == Whole(n)  b == n \div BlockUnits  x == b * (HashesPerBlock + 1)  c == w % HashesPerBlock
<1>1. b \in Nat /\ w \in Nat /\ b = w \div HashesPerBlock /\ BlockPhysical(n) = 1 + x
  BY Position
<1>2. x \in Nat
  BY <1>1, Numbers, Multiples
<1>3. c \in Nat /\ CalcPhysical(w) = 1 + x + c
  BY <1>1, SectorPlace
<1> HIDE DEF x, c, w
<1>4. BlockPhysical(n) \in Nat /\ BlockPhysical(n) >= 1 /\ BlockPhysical(n) <= CalcPhysical(w)
      /\ CalcPhysical(w) = BlockPhysical(n) + c /\ CalcPhysical(w) \in Nat /\ CalcPhysical(w) >= 1
  BY <1>1, <1>2, <1>3
<1> QED BY <1>4 DEF w, c

\* A longer length needs no fewer sectors.
LEMMA HoldingOrdered ==
    ASSUME NEW m \in Nat, NEW n \in Nat, m <= n
    PROVE  Holding(m) <= Holding(n)
<1> DEFINE x == m + SectorUnits - 1  y == n + SectorUnits - 1
<1>1. x \in Nat /\ y \in Nat /\ x <= y
  BY Numbers
<1> HIDE DEF x, y
<1>2. x \div SectorUnits <= y \div SectorUnits
  BY <1>1, Numbers, DivOrdered
<1> QED BY <1>2 DEF Holding, x, y

\* A committed file has room for every prefix of its stream.
LEMMA PrefixRoom ==
    ASSUME NEW f, NEW s, NEW r, ImageInv(f, s, r), NEW m \in Nat, m <= Len(s)
    PROVE  /\ CalcPhysical(Whole(m)) <= Len(f)
           /\ m % SectorUnits # 0 => CalcPhysical(Whole(m)) < Len(f)
           /\ m % SectorUnits # 0 /\ Whole(m) = Whole(Len(s)) => Len(s) % SectorUnits # 0
<1> DEFINE n == Len(s)  w == Whole(m)  v == Whole(n)
<1>1. n \in Nat /\ Len(f) \in Nat /\ Len(f) = CalcPhysical(v) + (IF n % BlockUnits = 0 THEN 0 ELSE 2)
  BY SequenceFacts DEF ImageInv
<1>2. w \in Nat /\ v \in Nat /\ w <= v /\ CalcPhysical(w) \in Nat /\ CalcPhysical(v) \in Nat
  BY <1>1, Counts, WholeFacts, SectorPlace
<1>3. m % SectorUnits # 0 /\ w = v => n % SectorUnits # 0
  <2> DEFINE x == w * SectorUnits  y == v * SectorUnits  p == m % SectorUnits  q == n % SectorUnits
  <2>1. m = x + p /\ n = y + q /\ p \in Nat /\ q \in Nat
    BY <1>1, Position
  <2>2. x \in Nat /\ y \in Nat
    BY <1>2, Numbers, Multiples
  <2>3. w = v => x = y
    OBVIOUS
  <2> HIDE DEF x, y, p, q, n, w, v
  <2>4. p # 0 /\ w = v => q # 0
    BY <2>1, <2>2, <2>3 DEF n
  <2> QED BY <2>4 DEF p, q
<1>4. n % SectorUnits # 0 => n % BlockUnits # 0
  BY <1>1, Position
<1>5. w < v => CalcPhysical(w) < CalcPhysical(v)
  BY <1>2, SectorsInOrder
<1> HIDE DEF n, w, v
<1>6. CalcPhysical(w) <= Len(f) /\ (m % SectorUnits # 0 => CalcPhysical(w) < Len(f))
  <2>1. CASE w < v
    BY <1>1, <1>2, <1>5, <2>1
  <2>2. CASE w = v
    BY <1>1, <1>2, <1>3, <1>4, <2>2
  <2> QED BY <1>2, <2>1, <2>2
<1> QED BY <1>3, <1>6 DEF n, w, v

\* Without decay the sector a ragged prefix ends in is a data sector.
LEMMA PrefixSector ==
    ASSUME NEW f, NEW s, ImageInv(f, s, 0), NEW m \in Nat, m <= Len(s), m % SectorUnits # 0
    PROVE  Bytes(f[CalcPhysical(Whole(m)) + 1]) \in Seq(Units) /\ Len(Bytes(f[CalcPhysical(Whole(m)) + 1])) = SectorUnits
<1> DEFINE n == Len(s)  w == Whole(m)  x == f[CalcPhysical(w) + 1]
<1>1. s \in Seq(Values) /\ n \in Nat /\ Faithful(f, s)
  BY SequenceFacts DEF ImageInv
<1>2. w \in Nat /\ Whole(n) \in Nat /\ w <= Whole(n)
  BY <1>1, Counts, WholeFacts
<1>3. \E u \in Seq(Units) : Len(u) <= SectorUnits /\ x = DataSector(u)
  <2>1. CASE w < Whole(n)
    <3>1. x = DataSector(SectorOf(s, w))
      BY <1>1, <1>2, <2>1 DEF Faithful
    <3>2. (w + 1) * SectorUnits <= n
      BY <1>1, <1>2, <2>1, WholeFacts
    <3>3. SectorOf(s, w) \in Seq(Units) /\ Len(SectorOf(s, w)) = SectorUnits
      BY <1>1, <1>2, <3>2, SectorOfFacts
    <3> QED BY <3>1, <3>3, Numbers
  <2>2. CASE w = Whole(n)
    <3>1. n % SectorUnits # 0
      BY <2>2, PrefixRoom
    <3>2. x = DataSector(Edge(s))
      BY <2>2, <3>1 DEF ImageInv
    <3>3. Edge(s) \in Seq(Units) /\ Len(Edge(s)) = n % SectorUnits /\ n % SectorUnits <= SectorUnits
      BY <1>1, EdgeFacts, Position, Numbers
    <3> QED BY <3>2, <3>3
  <2> QED BY <1>2, <2>1, <2>2
<1> HIDE DEF x
<1>4. PICK u \in Seq(Units) : Len(u) <= SectorUnits /\ x = DataSector(u)
  BY <1>3
<1>5. Bytes(x) = x.units /\ x \in [kind : {"data"}, units : [1 .. SectorUnits -> Units]]
  BY <1>4, UnitFacts, DataSectorFacts
<1>6. Bytes(x) \in [1 .. SectorUnits -> Units]
  BY <1>5
<1>7. Bytes(x) \in Seq(Units) /\ Len(Bytes(x)) = SectorUnits
  BY <1>6, Numbers, FunctionIsSequence
<1> QED BY <1>7 DEF x

\* The file TruncateTo leaves: the sectors of the retained units and nothing else.
LEMMA Shortened ==
    ASSUME NEW f, NEW s, NEW r, ImageInv(f, s, r), NEW m \in Nat, m <= Len(s), NEW g,
           g = WriteAt(SubSeq(f, 1, CalcPhysical(Whole(m))), CalcPhysical(Whole(m)),
                       IF m % SectorUnits = 0 THEN <<>>
                       ELSE <<DataSector(SubSeq(Bytes(f[CalcPhysical(Whole(m)) + 1]), 1, m % SectorUnits))>>)
    PROVE  /\ g \in Seq(Stored) /\ g[1] = Super
           /\ Len(g) = CalcPhysical(Whole(m)) + (IF m % SectorUnits = 0 THEN 0 ELSE 1)
           /\ Honest(g, SubSeq(s, 1, m), m)
           /\ r = 0 => Faithful(g, SubSeq(s, 1, m))
           /\ \A x \in 1 .. CalcPhysical(Whole(m)) : g[x] = f[x]
<1> DEFINE w == Whole(m)  p == CalcPhysical(w)  t == SubSeq(s, 1, m)  bytes == Bytes(f[p + 1])
           last == DataSector(SubSeq(bytes, 1, m % SectorUnits))
           out == IF m % SectorUnits = 0 THEN <<>> ELSE <<last>>
<1>1. f \in Seq(Stored) /\ f[1] = Super /\ s \in Seq(Values) /\ Len(s) \in Nat /\ Len(f) \in Nat /\ Honest(f, s, Len(s))
  BY SequenceFacts DEF ImageInv
<1>2. w \in Nat /\ p \in Nat /\ p >= 1 /\ p <= Len(f) /\ (m % SectorUnits # 0 => p + 1 \in 1 .. Len(f))
  <2>1. w \in Nat /\ p \in Nat /\ p >= 1
    BY Counts, SectorPlace
  <2>2. p <= Len(f) /\ (m % SectorUnits # 0 => p < Len(f))
    BY PrefixRoom
  <2> QED BY <1>1, <2>1, <2>2
<1>3. t \in Seq(Values) /\ Len(t) = m /\ \A k \in 1 .. m : t[k] = s[k]
  BY <1>1, PrefixFacts
<1>4. m % SectorUnits \in Nat /\ m % SectorUnits <= SectorUnits
  BY Position, Numbers
<1>5. g = WriteAt(SubSeq(f, 1, p), p, out)
  OBVIOUS
<1>6. out \in Seq(Stored) /\ Len(out) = (IF m % SectorUnits = 0 THEN 0 ELSE 1)
  <2>1. CASE m % SectorUnits = 0
    BY <2>1, EmptySeq
  <2>2. CASE m % SectorUnits # 0
    <3>1. bytes \in Seq(Delivered) /\ Len(bytes) = SectorUnits
      BY <1>1, <1>2, <2>2, SequenceFacts, BytesFacts
    <3>2. Zero \in Delivered
      BY UnitFacts
    <3> HIDE DEF bytes
    <3>3. last \in [kind : {"data"}, units : [1 .. SectorUnits -> Delivered]]
      BY <1>4, <3>1, <3>2, RaggedSector
    <3>4. last \in Stored
      BY <3>3 DEF Stored, Sectors
    <3> HIDE DEF last
    <3> QED BY <2>2, <3>4
  <2> QED BY <2>1, <2>2
<1>7. r = 0 => f \in Seq(SectorValues) /\ out \in Seq(SectorValues) /\ Faithful(f, s)
  <2> SUFFICES ASSUME r = 0 PROVE f \in Seq(SectorValues) /\ out \in Seq(SectorValues) /\ Faithful(f, s)
    OBVIOUS
  <2>1. Faithful(f, s) /\ f \in Seq(SectorValues)
    BY DEF ImageInv, Faithful
  <2>2. CASE m % SectorUnits = 0
    BY <2>1, <2>2, EmptySeq
  <2>3. CASE m % SectorUnits # 0
    <3>1. bytes \in Seq(Units) /\ Len(bytes) = SectorUnits
      BY <2>3, PrefixSector
    <3>2. Zero \in Units
      BY UnitFacts
    <3> HIDE DEF bytes
    <3>3. last \in [kind : {"data"}, units : [1 .. SectorUnits -> Units]]
      BY <1>4, <3>1, <3>2, RaggedSector
    <3>4. last \in SectorValues
      BY <3>3 DEF SectorValues, Sectors
    <3> HIDE DEF last
    <3> QED BY <2>1, <2>3, <3>4
  <2> QED BY <2>2, <2>3
<1> HIDE DEF out, bytes, last
<1>8. /\ g \in Seq(Stored) /\ Len(g) = p + Len(out) /\ \A x \in 1 .. p : g[x] = f[x]
  <2> HIDE DEF p
  <2>1. DataSector(<<>>) \in Stored
    BY FreshSectors
  <2>0. f \in Seq(Stored) /\ out \in Seq(Stored) /\ p \in Nat /\ p <= Len(f)
    BY <1>1, <1>2, <1>6
  <2>2. LET e == WriteAt(SubSeq(f, 1, p), p, out)
        IN  /\ e \in Seq(Stored) /\ Len(e) = p + Len(out)
            /\ \A x \in 1 .. p : e[x] = f[x]
            /\ \A k \in 1 .. Len(out) : e[p + k] = out[k]
    BY ONLY <2>0, <2>1, CutFacts
  <2> QED BY <1>5, <2>2
<1>9. r = 0 => g \in Seq(SectorValues)
  BY <1>2, <1>5, <1>7, FreshSectors, CutFacts
<1>10. g[1] = Super
  <2> HIDE DEF p
  <2>1. 1 \in 1 .. p
    BY <1>2
  <2> QED BY <1>1, <1>8, <2>1
<1>11. p <= Len(g)
  BY <1>2, <1>6, <1>8
<1> HIDE DEF t
<1>12. Honest(g, t, m)
  <2>1. m <= Len(s) /\ m <= Len(t) /\ Len(s) \in Nat
    BY <1>1, <1>3
  <2>2. \A x \in 1 .. CalcPhysical(Whole(m)) : g[x] = f[x]
    BY <1>8
  <2>3. CalcPhysical(Whole(m)) <= Len(f) /\ CalcPhysical(Whole(m)) <= Len(g)
    BY <1>2, <1>11
  <2>4. f \in Seq(Stored) /\ g \in Seq(Stored) /\ s \in Seq(Values) /\ t \in Seq(Values) /\ Honest(f, s, Len(s))
    BY <1>1, <1>3, <1>8
  <2> QED BY <1>3, <2>1, <2>2, <2>3, <2>4, HonestKept
<1>13. r = 0 => Faithful(g, t)
  <2> SUFFICES ASSUME r = 0 PROVE Faithful(g, t)
    OBVIOUS
  <2>1. /\ \A i \in 0 .. Whole(m) - 1 : g[CalcPhysical(i) + 1] = DataSector(SectorOf(t, i))
        /\ \A b \in 0 .. (m \div BlockUnits) - 1 : g[hashSectorPhys(b) + 1] = HashSector(b, BlockHashes(t, b))
    <3>1. m <= Len(s) /\ m <= Len(t) /\ s \in Seq(Values) /\ t \in Seq(Values) /\ Faithful(f, s)
      BY <1>1, <1>3, <1>7
    <3>2. \A x \in 1 .. CalcPhysical(Whole(m)) : g[x] = f[x]
      BY <1>8
    <3>3. \A k \in 1 .. m : t[k] = s[k]
      BY <1>3
    <3>4. m \in Nat /\ f \in Seq(Stored) /\ g \in Seq(Stored)
      BY <1>1, <1>8
    <3> QED BY ONLY <3>1, <3>2, <3>3, <3>4, FaithfulKept
  <2> QED BY <1>3, <1>9, <2>1 DEF Faithful
<1> QED BY <1>6, <1>8, <1>10, <1>12, <1>13 DEF t

\* TruncateTo keeps the invariant: what it retains of the open block is proved or refused.
LEMMA TruncateToInv ==
    ASSUME PlogInv, TruncateTo
    PROVE  PlogInv'
<1> DEFINE m == recorded  t == SubSeq(stream, 1, m)  v == ReadRange(BlockStart(m), m)  p == CalcPhysical(Whole(m))
           g == WriteAt(SubSeq(file, 1, p), p,
                        IF m % SectorUnits = 0 THEN <<>>
                        ELSE <<DataSector(SubSeq(Bytes(file[p + 1]), 1, m % SectorUnits))>>)
<1>1. TypeOK /\ AcceptInv /\ CursorInv /\ EvidenceInv /\ FileInv /\ UndoInv /\ rot <= MaxRot /\ acked = recorded
  BY DEF PlogInv, TruncateTo
<1>2. /\ phase = "opened" /\ phase' = "reconciled" /\ logicalLength > m
      /\ Protect(BlockPhysical(m)) /\ file' = g /\ stream' = t
      /\ UNCHANGED <<accept, acked, recorded, faults, rot>>
  BY DEF TruncateTo, Whole
<1>3. IF v = Bitrot THEN rebuildOpenBlock(g, m)
      ELSE LET whole == (m - BlockStart(m)) \div SectorUnits
           IN  /\ logicalLength' = m
               /\ hashes' = [i \in 1 .. whole |-> SubSeq(v, (i - 1) * SectorUnits + 1, i * SectorUnits)]
               /\ buf' = SubSeq(v, whole * SectorUnits + 1, Len(v))
               /\ bufCorrupt' = FALSE /\ openUnverified' = FALSE /\ loadedFromTrailer' = TRUE
  BY DEF TruncateTo, Whole
<1>4. m \in Nat /\ logicalLength \in Nat /\ Len(stream) \in Nat /\ m <= Len(stream) /\ stream \in Seq(Values) /\ acked \in Nat
  BY <1>1, MemoryFacts DEF AcceptInv, TypeOK
<1>5. ImageInv(file, stream, rot) /\ Len(stream) <= MaxUnits
  BY <1>1, <1>2 DEF FileInv, CursorInv
<1>6. t \in Seq(Values) /\ Len(t) = m /\ \A k \in 1 .. m : t[k] = stream[k]
  BY <1>4, PrefixFacts
<1>7. /\ g \in Seq(Stored) /\ g[1] = Super /\ Len(g) = p + (IF m % SectorUnits = 0 THEN 0 ELSE 1)
      /\ Honest(g, t, m) /\ (rot = 0 => Faithful(g, t))
  BY <1>4, <1>5, Shortened
<1>8. p \in Nat /\ p >= 1 /\ BlockPhysical(m) \in Nat /\ BlockPhysical(m) <= p
  BY <1>4, BlockPhysicalFacts
<1>9. /\ EvidenceInv' /\ logicalLength' = m
      /\ bufCorrupt' \in BOOLEAN /\ openUnverified' \in BOOLEAN /\ loadedFromTrailer' \in BOOLEAN
      /\ rot = 0 => ~bufCorrupt' /\ ~openUnverified' /\ loadedFromTrailer'
  <2>1. BlockStart(m) \in Nat /\ BlockStart(m) <= m /\ m <= logicalLength
    BY <1>2, <1>4, BlockSplit
  <2>2. CASE v = Bitrot
    <3>1. rebuildOpenBlock(g, m)
      BY <1>3, <2>2
    <3>2. m % SectorUnits # 0 => p < Len(g)
      BY <1>7, <1>8
    <3> HIDE DEF g
    <3>3. EvidenceInv' /\ logicalLength' = m /\ loadedFromTrailer' = FALSE /\ bufCorrupt' \in BOOLEAN /\ openUnverified' \in BOOLEAN
      BY <1>4, <1>7, <3>1, <3>2, RebuiltEvidence
    <3>4. rot # 0
      <4> SUFFICES ASSUME rot = 0 PROVE FALSE
        OBVIOUS
      <4>1. \A i \in 0 .. Holding(logicalLength) - 1 : ReadSector(i) # Bitrot
        BY <1>1, ReadExact
      <4>2. Holding(m) \in Nat /\ Holding(logicalLength) \in Nat /\ Holding(m) <= Holding(logicalLength)
        BY <1>4, <2>1, HoldingOrdered, HoldingCounts
      <4>3. \A i \in 0 .. Holding(m) - 1 : (i + 1) * SectorUnits > BlockStart(m) => ReadSector(i) # Bitrot
        <5> DEFINE x == Holding(m)  y == Holding(logicalLength)
        <5>1. x \in Nat /\ y \in Nat /\ x <= y
          BY <4>2
        <5> HIDE DEF x, y
        <5>2. 0 .. x - 1 \subseteq 0 .. y - 1
          BY <5>1
        <5> QED BY <4>1, <5>2 DEF x, y
      <4>4. ReadRange(BlockStart(m), m) # Bitrot
        BY <1>1, <1>4, <2>1, <4>3, ReadRangeIs
      <4> QED BY <2>2, <4>4
    <3> QED BY <3>3, <3>4
  <2>3. CASE v # Bitrot
    <3>1. /\ v \in Seq(Values) /\ Len(v) = m - BlockStart(m)
          /\ \A k \in 1 .. m - BlockStart(m) : v[k] = stream[BlockStart(m) + k]
      BY <1>1, <1>4, <2>1, <2>3, ReadRangeIs
    <3> HIDE DEF v
    <3>2. EvidenceInv'
      BY <1>2, <1>3, <1>4, <2>3, <3>1, RetainedEvidence
    <3> QED BY <1>3, <2>3, <3>2
  <2> QED BY <2>2, <2>3
<1>10. undoActive' = TRUE /\ undoStart' \in Nat /\ undoStart' <= BlockPhysical(m)
  BY <1>1, <1>2, <1>8, ProtectFacts
<1> HIDE DEF g, v, t
<1>11. TypeOK'
  <2>1. Len(buf') < SectorUnits /\ Len(hashes') < HashesPerBlock
    BY <1>4, <1>9, EvidenceTypes DEF EvidenceInv
  <2>2. Len(file') >= 1
    BY <1>2, <1>7, <1>8
  <2>3. logicalLength' \in 0 .. MaxUnits + BlockUnits
    BY <1>4, <1>5, <1>9, Numbers
  <2> QED BY <1>1, <1>2, <1>6, <1>9, <1>10, <2>1, <2>2, <2>3 DEF TypeOK
<1>12. AcceptInv'
  BY <1>1, <1>2, <1>4, <1>6 DEF AcceptInv
<1>13. CursorInv'
  <2>1. Len(file') >= p /\ (m % SectorUnits # 0 => Len(file') > p)
    BY <1>2, <1>7, <1>8
  <2>2. Len(stream') <= MaxUnits /\ Len(stream') = m
    BY <1>2, <1>4, <1>5, <1>6, Numbers
  <2> QED BY <1>2, <1>9, <2>1, <2>2 DEF CursorInv
<1>14. FileInv'
  BY <1>2, <1>7, <1>9 DEF FileInv
<1>15. UndoInv'
  BY <1>8, <1>9, <1>10 DEF UndoInv
<1> QED BY <1>1, <1>2, <1>9, <1>11, <1>12, <1>13, <1>14, <1>15 DEF PlogInv

-----------------------------------------------------------------------------
(* The invariant is kept: Open.                                            *)

\* Where a committed file ends, counted in blocks.
LEMMA ImagePlace ==
    ASSUME NEW f, NEW s, NEW q, ImageInv(f, s, q)
    PROVE  LET n == Len(s)
               b == n \div BlockUnits
               c == Whole(n) % HashesPerBlock
               x == b * (HashesPerBlock + 1)
           IN  /\ n \in Nat /\ n <= MaxUnits /\ s \in Seq(Values) /\ f \in Seq(Stored) /\ Len(f) \in Nat /\ f[1] = Super
               /\ b \in Nat /\ c \in Nat /\ c < HashesPerBlock /\ x \in Nat
               /\ CalcPhysical(Whole(n)) = 1 + x + c
               /\ n % BlockUnits = 0 => Len(f) = 1 + x /\ c = 0
               /\ n % BlockUnits # 0 => Len(f) = 3 + x + c
               /\ Len(f) >= 1 /\ LastOf(f) \in Stored
<1> DEFINE n == Len(s)  w == Whole(n)  b == n \div BlockUnits  c == w % HashesPerBlock  x == b * (HashesPerBlock + 1)
<1>1. s \in Seq(Values) /\ n \in Nat /\ f \in Seq(Stored) /\ Len(f) \in Nat /\ n <= MaxUnits /\ f[1] = Super
  BY SequenceFacts DEF ImageInv
<1>2. b \in Nat /\ w \in Nat /\ b = w \div HashesPerBlock /\ (n % BlockUnits = 0 => c = 0)
  BY <1>1, Position
<1>3. c \in Nat /\ c < HashesPerBlock /\ CalcPhysical(w) = 1 + x + c
  BY <1>2, SectorPlace
<1>4. x \in Nat
  BY <1>2, Numbers, Multiples
<1>5. Len(f) = CalcPhysical(w) + (IF n % BlockUnits = 0 THEN 0 ELSE 2)
  BY DEF ImageInv
<1> HIDE DEF x, c, b, w, n
<1>6. (n % BlockUnits = 0 => Len(f) = 1 + x /\ c = 0) /\ (n % BlockUnits # 0 => Len(f) = 3 + x + c) /\ Len(f) >= 1
  BY <1>2, <1>3, <1>4, <1>5
<1>7. LastOf(f) \in Stored
  BY <1>1, <1>6, SequenceFacts DEF LastOf
<1> QED BY <1>1, <1>2, <1>3, <1>4, <1>6, <1>7 DEF x, c, b, w, n

\* The kinds of sectors are told apart.
LEMMA Kinds ==
    /\ Rotten.kind # "trailer" /\ \A b, h : HashSector(b, h).kind # "trailer"
    /\ \A s \in Seq(Values) : Rotten # TrailerOf(s)
<1>1. Rotten.kind = "rot" /\ \A b, h : HashSector(b, h).kind = "hash"
  BY DEF Rotten, HashSector
<1>2. \A s \in Seq(Values) : TrailerOf(s).kind = "trailer"
  BY TrailerFacts
<1> QED BY <1>1, <1>2

\* CalcLogical of the superblock, b blocks and c sectors more.
LEMMA CalcLogicalFacts ==
    ASSUME NEW b \in Nat, NEW c \in Nat, c <= HashesPerBlock, NEW p, p = 1 + b * (HashesPerBlock + 1) + c
    PROVE  CalcLogical(p) = b * BlockUnits + c * SectorUnits
<1> DEFINE x == b * (HashesPerBlock + 1)  y == p - 1  d == HashesPerBlock + 1
<1>1. x \in Nat /\ d \in Nat \ {0} /\ c < d
  BY Numbers, Multiples
<1>2. p = 1 + x + c
  OBVIOUS
<1>3. y = x + c /\ ~(p < 1)
  <2> HIDE DEF x
  <2> QED BY <1>1, <1>2
<1>4. y = b * d + c
  BY <1>3
<1> HIDE DEF y, d
<1>5. y \div d = b /\ y % d = c
  <2>1. (b * d + c) \div d = b /\ (b * d + c) % d = c
    BY <1>1, DivUnique
  <2> QED BY <1>4, <2>1
<1>6. CalcLogical(p) = IF p < 1 THEN 0 ELSE (y \div d) * BlockUnits + (y % d) * SectorUnits
  BY DEF CalcLogical, y, d
<1> QED BY <1>3, <1>5, <1>6

\* A committed file that ends with a complete block has no trailer, and its size
\* gives its length.
LEMMA AlignedImage ==
    ASSUME NEW f, NEW s, NEW q, ImageInv(f, s, q), Len(s) % BlockUnits = 0
    PROVE  ~TrailerRecognised(f) /\ CalcLogical(Len(f)) = Len(s)
<1> DEFINE n == Len(s)  b == n \div BlockUnits  x == b * (HashesPerBlock + 1)
<1>1. n \in Nat /\ b \in Nat /\ x \in Nat /\ Len(f) = 1 + x /\ Len(f) \in Nat
  BY ImagePlace
<1>2. ~TrailerRecognised(f)
  <2>1. CASE b = 0
    <3>1. x = 0
      BY <2>1, Numbers
    <3>2. ~(Len(f) >= 3)
      <4> HIDE DEF x
      <4> QED BY <1>1, <3>1
    <3> QED BY <3>2 DEF TrailerRecognised
  <2>2. CASE b # 0
    <3> DEFINE e == b - 1  y == e * (HashesPerBlock + 1)
    <3>1. e \in Nat /\ b = e + 1 /\ e \in 0 .. b - 1
      <4> HIDE DEF b
      <4> QED BY <1>1, <2>2
    <3>2. y \in Nat /\ x = y + (HashesPerBlock + 1)
      <4> HIDE DEF e, b
      <4>1. HashesPerBlock + 1 \in Nat
        BY Numbers
      <4>2. (e + 1) * (HashesPerBlock + 1) = e * (HashesPerBlock + 1) + (HashesPerBlock + 1)
        BY <3>1, <4>1, Multiples
      <4>3. e * (HashesPerBlock + 1) \in Nat
        BY <3>1, <4>1, Multiples
      <4> QED BY <3>1, <4>2, <4>3
    <3>3. hashSectorPhys(e) = 1 + y + HashesPerBlock
      BY <3>1, HashPlace
    <3>4. hashSectorPhys(e) + 1 = Len(f) /\ ~(hashSectorPhys(e) >= Len(f))
      <4> HIDE DEF x, y, e
      <4> QED BY <1>1, <3>2, <3>3, Numbers
    <3>5. f[hashSectorPhys(e) + 1] = Rotten \/ f[hashSectorPhys(e) + 1] = HashSector(e, BlockHashes(s, e))
      <4>1. Honest(f, s, n)
        BY DEF ImageInv
      <4> HIDE DEF e
      <4> QED BY <3>1, <3>4, <4>1 DEF Honest
    <3>6. LastOf(f).kind # "trailer"
      BY <3>4, <3>5, Kinds DEF LastOf
    <3> QED BY <3>6 DEF TrailerRecognised
  <2> QED BY <2>1, <2>2
<1>3. CalcLogical(Len(f)) = b * BlockUnits + 0 * SectorUnits
  <2>1. Len(f) = 1 + b * (HashesPerBlock + 1) + 0
    BY <1>1
  <2>2. 0 \in Nat /\ 0 <= HashesPerBlock
    BY Numbers
  <2> HIDE DEF b
  <2> QED BY <1>1, <2>1, <2>2, CalcLogicalFacts
<1>4. n = b * BlockUnits
  <2>1. n = b * BlockUnits + (n % BlockUnits) /\ n % BlockUnits = 0
    BY <1>1, Numbers, DivMod, ZenonT(40)
  <2>2. b * BlockUnits \in Nat
    BY <1>1, Numbers, Multiples
  <2> QED BY <2>1, <2>2
<1>5. b * BlockUnits + 0 * SectorUnits = b * BlockUnits
  <2>1. b * BlockUnits \in Nat /\ 0 * SectorUnits = 0
    BY <1>1, Numbers, Multiples
  <2> QED BY <2>1
<1> QED BY <1>2, <1>3, <1>4, <1>5

\* A committed file whose trailer decayed: the size gives the next whole sector
\* after the trailer, or the end of the block.
LEMMA LostTrailer ==
    ASSUME NEW f, NEW s, NEW q, ImageInv(f, s, q), Len(s) % BlockUnits # 0, LastOf(f) = Rotten
    PROVE  LET n == Len(s)
               v == CalcLogical(Len(f))
           IN  /\ ~TrailerRecognised(f) /\ q # 0
               /\ v \in Nat /\ v > n /\ v <= MaxUnits + BlockUnits /\ v % SectorUnits = 0
               /\ Honest(f, s, v)
               /\ v % BlockUnits = 0 => Len(f) <= CalcPhysical(Whole(v))
<1> DEFINE n == Len(s)  b == n \div BlockUnits  c == Whole(n) % HashesPerBlock  x == b * (HashesPerBlock + 1)
           h == HashesPerBlock  d == SectorUnits  v == CalcLogical(Len(f))
           e == IF c + 2 <= h THEN c + 2 ELSE h
<1>1. /\ n \in Nat /\ n <= MaxUnits /\ b \in Nat /\ c \in Nat /\ c < h /\ x \in Nat /\ Len(f) = 3 + x + c /\ Len(f) \in Nat
      /\ s \in Seq(Values) /\ f \in Seq(Stored)
  BY ImagePlace
<1>2. h \in Nat \ {0} /\ d \in Nat \ {0} /\ BlockUnits = h * d /\ BlockUnits \in Nat \ {0} /\ MaxUnits \in Nat
  BY Numbers
<1>3. ~TrailerRecognised(f)
  BY Kinds DEF TrailerRecognised
<1>4. q # 0
  <2>1. q = 0 => LastOf(f) = TrailerOf(s)
    BY DEF ImageInv
  <2> QED BY <1>1, <2>1, Kinds
<1>5. Honest(f, s, n)
  BY DEF ImageInv
<1>6. n = b * BlockUnits + c * d + (n % d) /\ n % d \in Nat /\ n % d < d
  <2>1. n = b * BlockUnits + (n % BlockUnits) /\ n % BlockUnits = c * d + (n % d) /\ n % d \in Nat /\ n % d < d
    <3>1. n = b * BlockUnits + (n % BlockUnits)
      BY <1>1, <1>2, DivMod
    <3> QED BY <1>1, <3>1, Position
  <2>2. b * BlockUnits \in Nat /\ c * d \in Nat
    BY <1>1, <1>2, Multiples
  <2> DEFINE y == b * BlockUnits  z == c * d  u == n % d  k == n % BlockUnits
  <2>3. n = y + k /\ k = z + u /\ y \in Nat /\ z \in Nat /\ u \in Nat
    BY <2>1, <2>2
  <2> HIDE DEF y, z, u, k
  <2>4. n = y + z + u
    BY <2>3
  <2> QED BY <2>1, <2>4 DEF y, z, u
<1> HIDE DEF b, c
<1>7. e \in Nat /\ e <= h /\ c + 1 <= e
  <2> HIDE DEF h
  <2> QED BY <1>1, <1>2
<1>8. v = b * BlockUnits + e * d
  <2>1. CASE c + 2 <= h
    <3> DEFINE g == c + 2
    <3>1. g \in Nat /\ g <= HashesPerBlock /\ Len(f) = 1 + b * (HashesPerBlock + 1) + g /\ e = g
      <4>1. g \in Nat /\ g <= h /\ Len(f) = 1 + x + g /\ e = g
        <5> HIDE DEF h, x
        <5> QED BY <1>1, <1>2, <2>1
      <4> QED BY <4>1
    <3> HIDE DEF g, e
    <3>2. CalcLogical(Len(f)) = b * BlockUnits + g * SectorUnits
      BY <1>1, <3>1, CalcLogicalFacts
    <3> QED BY <3>1, <3>2
  <2>2. CASE ~(c + 2 <= h)
    <3> DEFINE a == b + 1
    <3>1. a \in Nat /\ x + h + 1 = a * (h + 1)
      <4>1. h + 1 \in Nat /\ a \in Nat
        BY <1>1, <1>2
      <4>2. (b + 1) * (h + 1) = b * (h + 1) + (h + 1)
        BY <1>1, <4>1, Multiples
      <4>3. x + (h + 1) = a * (h + 1)
        BY <4>2
      <4>4. x + h + 1 = x + (h + 1)
        <5> HIDE DEF x, h
        <5> QED BY <1>1, <1>2
      <4> QED BY <4>1, <4>3, <4>4
    <3>2. Len(f) = 1 + (x + h + 1) + 0 /\ e = h
      <4> HIDE DEF h, x
      <4> QED BY <1>1, <1>2, <2>2
    <3>3. Len(f) = 1 + a * (HashesPerBlock + 1) + 0
      BY <3>1, <3>2
    <3>4. 0 \in Nat /\ 0 <= HashesPerBlock
      BY <1>2
    <3> HIDE DEF a
    <3>5. CalcLogical(Len(f)) = a * BlockUnits + 0 * SectorUnits
      BY <3>1, <3>3, <3>4, CalcLogicalFacts
    <3>6. a * BlockUnits = b * BlockUnits + BlockUnits /\ a * BlockUnits \in Nat
      BY <1>1, <1>2, Multiples DEF a
    <3>7. 0 * SectorUnits = 0
      BY <1>2
    <3>8. CalcLogical(Len(f)) = b * BlockUnits + h * d
      <4>1. CalcLogical(Len(f)) = a * BlockUnits
        BY <3>5, <3>6, <3>7
      <4> QED BY <1>2, <3>6, <4>1
    <3> QED BY <3>2, <3>8
  <2> QED BY <2>1, <2>2
<1> HIDE DEF e
<1>9. b * BlockUnits \in Nat /\ e * d \in Nat /\ c * d \in Nat /\ c * d + d <= e * d /\ e * d <= BlockUnits
  <2>1. b * BlockUnits \in Nat /\ e * d \in Nat /\ c * d \in Nat
    BY <1>1, <1>2, <1>7, Multiples
  <2>2. e * d <= h * d
    BY <1>2, <1>7, Multiples
  <2>3. c < e
    <3> QED BY <1>1, <1>7
  <2>4. c * d + d <= e * d
    BY <1>1, <1>2, <1>7, <2>3, Multiples
  <2> QED BY <1>2, <2>1, <2>2, <2>4
<1>10. v \in Nat /\ v > n /\ v <= MaxUnits + BlockUnits
  <2> DEFINE y == b * BlockUnits  z == e * d  u == c * d  t == n % d
  <2>1. n = y + u + t /\ t \in Nat /\ t < d /\ y \in Nat /\ z \in Nat /\ u \in Nat /\ u + d <= z /\ z <= BlockUnits /\ v = y + z
    BY <1>6, <1>8, <1>9
  <2> HIDE DEF y, z, u, t, v, n, d
  <2> QED BY <1>1, <1>2, <2>1
<1>11. v = (b * h + e) * d /\ b * h + e \in Nat
  <2>1. b * BlockUnits = (b * h) * d
    <3> HIDE DEF h, d
    <3>1. b * (h * d) = (b * h) * d
      BY <1>1, <1>2
    <3> QED BY <1>2, <3>1
  <2>2. b * h \in Nat
    BY <1>1, <1>2, Multiples
  <2>3. (b * h + e) * d = (b * h) * d + e * d
    <3> DEFINE bh == b * h
    <3> HIDE DEF bh, d
    <3>1. bh \in Nat /\ e \in Nat /\ d \in Nat
      BY <1>2, <1>7, <2>2 DEF bh
    <3>2. (bh + e) * d = bh * d + e * d
      BY <3>1
    <3> QED BY <3>2 DEF bh
  <2>4. b * h + e \in Nat
    BY <1>7, <2>2
  <2> QED BY <1>8, <2>1, <2>3, <2>4
<1>12. Whole(v) = b * h + e /\ v % SectorUnits = 0
  <2> DEFINE i == b * h + e
  <2>1. i \in Nat /\ v = i * SectorUnits /\ i * SectorUnits \in Nat
    BY <1>10, <1>11
  <2> HIDE DEF i, v
  <2>2. Whole(i * SectorUnits + 0) = i /\ (i * SectorUnits + 0) % SectorUnits = 0
    <3>1. 0 \in Nat /\ 0 < SectorUnits
      BY <1>2
    <3> QED BY <2>1, <3>1, WholeOf
  <2>3. i * SectorUnits + 0 = v
    BY <2>1
  <2> QED BY <2>2, <2>3 DEF i
\* The block that CalcLogical may wrongly count as complete has no hash sector.
<1>13. hashSectorPhys(b) = 1 + x + h /\ (e = h => Len(f) \in {hashSectorPhys(b), hashSectorPhys(b) + 1})
  <2>1. hashSectorPhys(b) = 1 + x + h
    BY <1>1, HashPlace
  <2> HIDE DEF x, h
  <2> QED BY <1>1, <1>2, <2>1 DEF e
<1>14. e < h => v \div BlockUnits = b /\ v % BlockUnits # 0
  <2> SUFFICES ASSUME e < h PROVE v \div BlockUnits = b /\ v % BlockUnits # 0
    OBVIOUS
  <2>1. e * d < BlockUnits
    <3>1. e * d + d <= h * d
      BY <1>2, <1>7, Multiples
    <3> DEFINE y == e * d  z == h * d
    <3>2. y \in Nat /\ y + d <= z /\ z \in Nat /\ d \in Nat \ {0} /\ BlockUnits = z
      BY <1>2, <1>9, <3>1
    <3> HIDE DEF y, z, d
    <3>3. y < z
      BY <3>2
    <3> QED BY <3>2, <3>3 DEF y
  <2>2. (b * BlockUnits + e * d) \div BlockUnits = b /\ (b * BlockUnits + e * d) % BlockUnits = e * d
    <3> DEFINE y == e * d
    <3>1. y \in Nat /\ y < BlockUnits
      BY <1>9, <2>1
    <3> HIDE DEF y
    <3>2. (b * BlockUnits + y) \div BlockUnits = b /\ (b * BlockUnits + y) % BlockUnits = y
      <4>1. b \in Nat /\ BlockUnits \in Nat \ {0} /\ y \in Nat /\ y < BlockUnits
        BY <1>1, <1>2, <3>1
      <4> QED BY ONLY <4>1, DivUnique
    <3> QED BY <3>2 DEF y
  <2>3. e * d # 0
    <3> DEFINE y == e * d  z == c * d
    <3>1. y \in Nat /\ z \in Nat /\ z + d <= y /\ d \in Nat \ {0}
      BY <1>2, <1>9
    <3> HIDE DEF y, z, d
    <3>2. y # 0
      BY <3>1
    <3> QED BY <3>2 DEF y
  <2> QED BY <1>8, <2>2, <2>3
<1>15. e = h => v \div BlockUnits = b + 1
  <2> SUFFICES ASSUME e = h PROVE v \div BlockUnits = b + 1
    OBVIOUS
  <2>1. v = b * BlockUnits + BlockUnits
    BY <1>2, <1>8
  <2>2. (b + 1) * BlockUnits + 0 = b * BlockUnits + BlockUnits /\ b + 1 \in Nat
    BY <1>1, <1>2, Multiples
  <2>3. 0 \in Nat /\ 0 < BlockUnits
    BY <1>2
  <2>4. ((b + 1) * BlockUnits + 0) \div BlockUnits = b + 1
    BY <1>2, <2>2, <2>3, DivUnique
  <2> QED BY <2>1, <2>2, <2>4
<1>16. Honest(f, s, v)
  <2> SUFFICES ASSUME NEW k \in 0 .. (v \div BlockUnits) - 1
               PROVE  \/ hashSectorPhys(k) >= Len(f)
                      \/ f[hashSectorPhys(k) + 1] = Rotten
                      \/ (k + 1) * BlockUnits <= Len(s) /\ f[hashSectorPhys(k) + 1] = HashSector(k, BlockHashes(s, k))
    BY DEF Honest
  <2>1. k \in 0 .. b - 1 \/ (k = b /\ e = h)
    <3> HIDE DEF v, h
    <3>1. e < h \/ e = h
      BY <1>2, <1>7
    <3> QED BY <1>1, <1>14, <1>15, <3>1
  <2>2. CASE k \in 0 .. b - 1
    BY <1>5, <2>2 DEF Honest, b
  <2>3. CASE k = b /\ e = h
    <3>1. hashSectorPhys(b) \in Nat
      BY <1>1, HashPlace
    <3>2. hashSectorPhys(b) >= Len(f) \/ hashSectorPhys(b) + 1 = Len(f)
      BY <1>1, <1>13, <2>3, <3>1
    <3> QED BY <2>3, <3>2 DEF LastOf
  <2> QED BY <2>1, <2>2, <2>3
<1>17. v % BlockUnits = 0 => Len(f) <= CalcPhysical(Whole(v))
  <2> SUFFICES ASSUME v % BlockUnits = 0 PROVE Len(f) <= CalcPhysical(Whole(v))
    OBVIOUS
  <2>1. e = h
    <3> HIDE DEF h, v
    <3> QED BY <1>2, <1>7, <1>14
  <2>2. CalcPhysical(Whole(v)) \in Nat /\ hashSectorPhys(b) \in Nat
    BY <1>1, <1>10, Counts, SectorPlace, HashPlace
  <2>3. Whole(v) \div HashesPerBlock = b + 1
    BY <1>10, <1>15, <2>1, Position
  <2>4. hashSectorPhys(b) < CalcPhysical(Whole(v))
    <3>1. b < Whole(v) \div HashesPerBlock /\ Whole(v) \in Nat
      <4>1. Whole(v) \in Nat
        BY <1>10, Counts
      <4>2. b < b + 1
        BY <1>1
      <4> QED BY <2>3, <4>1, <4>2
    <3> QED BY <1>1, <3>1, HashInOrder
  <2>5. Len(f) = hashSectorPhys(b) \/ Len(f) = hashSectorPhys(b) + 1
    BY <1>13, <2>1
  <2> DEFINE y == CalcPhysical(Whole(v))  z == hashSectorPhys(b)
  <2> HIDE DEF y, z
  <2>6. Len(f) <= y
    BY <2>2, <2>4, <2>5 DEF y, z
  <2> QED BY <2>6 DEF y
<1> QED BY <1>3, <1>4, <1>10, <1>12, <1>16, <1>17

\* A committed file whose trailer is there: it is recognised and gives the exact
\* length, and it is believed only when it vouches for the ragged units.
LEMMA FoundTrailer ==
    ASSUME NEW f, NEW s, NEW q, ImageInv(f, s, q), Len(s) % BlockUnits # 0,
           LastOf(f) \in {TrailerOf(s), [TrailerOf(s) EXCEPT !.mac = <<>>]}
    PROVE  /\ TrailerRecognised(f) /\ TrailerCount(f) = Whole(Len(s)) % HashesPerBlock
           /\ TrailerBlock(f) = Len(s) \div BlockUnits /\ TrailerLength(f) = Len(s)
           /\ LastOf(f).hashes = OpenHashes(s) /\ LastOf(f).raggedLen = Len(s) % SectorUnits
           /\ Ragged(f) \in Seq(Delivered) /\ Len(Ragged(f)) = Len(s) % SectorUnits
           /\ TrailerIntact(f) => Ragged(f) = Edge(s)
           /\ q = 0 => TrailerIntact(f)
<1> DEFINE n == Len(s)  w == Whole(n)  b == n \div BlockUnits  c == w % HashesPerBlock  r == n % SectorUnits
           x == b * (HashesPerBlock + 1)  d == HashesPerBlock + 1
<1>1. /\ n \in Nat /\ b \in Nat /\ c \in Nat /\ c < HashesPerBlock /\ x \in Nat /\ Len(f) = 3 + x + c /\ Len(f) \in Nat
      /\ s \in Seq(Values) /\ f \in Seq(Stored)
  BY ImagePlace
<1>2. LastOf(f).kind = "trailer" /\ LastOf(f).hashes = OpenHashes(s) /\ LastOf(f).raggedLen = r
  BY <1>1, TrailerFacts
<1>3. TrailerCount(f) = c
  BY <1>1, <1>2, OpenHashesFacts DEF TrailerCount
<1>4. TrailerStart(f) = x
  <2> HIDE DEF c, x
  <2> QED BY <1>1, <1>3 DEF TrailerStart
<1>5. x % d = 0 /\ x \div d = b
  <2>1. d \in Nat \ {0} /\ 0 \in Nat /\ 0 < d
    BY Numbers
  <2> HIDE DEF b, d
  <2>2. (b * d + 0) \div d = b /\ (b * d + 0) % d = 0
    <3>1. b \in Nat
      BY <1>1
    <3> QED BY ONLY <2>1, <3>1, DivUnique
  <2>3. b * d + 0 = x
    BY <1>1 DEF d
  <2> QED BY <2>2, <2>3
<1>6. r \in Nat /\ r < SectorUnits /\ w \in Nat /\ (c # 0 \/ r # 0) /\ b = w \div HashesPerBlock
  BY <1>1, Position
<1>7. TrailerRecognised(f)
  <2>1. Len(f) >= 3 /\ x >= 0
    <3> HIDE DEF x, c
    <3> QED BY <1>1
  <2>2. TrailerStart(f) % (HashesPerBlock + 1) = 0
    BY <1>4, <1>5
  <2> HIDE DEF x, c, r, d
  <2> QED BY <1>1, <1>2, <1>3, <1>4, <1>6, <2>1, <2>2 DEF TrailerRecognised
<1>8. TrailerBlock(f) = b
  BY <1>4, <1>5 DEF TrailerBlock
<1>9. TrailerLength(f) = n
  <2>1. TrailerLength(f) = b * BlockUnits + c * SectorUnits + r
    BY <1>2, <1>3, <1>8 DEF TrailerLength
  <2>2. n = b * BlockUnits + (n % BlockUnits) /\ b * BlockUnits \in Nat
    BY <1>1, Numbers, DivMod, Multiples, ZenonT(40)
  <2>3. n % BlockUnits = c * SectorUnits + r /\ c * SectorUnits \in Nat
    BY <1>1, Position, Numbers, Multiples
  <2> DEFINE y == b * BlockUnits  z == c * SectorUnits  k == n % BlockUnits
  <2>4. TrailerLength(f) = y + z + r /\ n = y + k /\ k = z + r /\ y \in Nat /\ z \in Nat
    BY <2>1, <2>2, <2>3
  <2> HIDE DEF y, z, k, r
  <2> QED BY <1>6, <2>4
<1>10. b * HashesPerBlock + c = w
  BY <1>6, SectorPlace
<1>11. Ragged(f) = IF r = 0 THEN <<>> ELSE SubSeq(Bytes(f[CalcPhysical(w) + 1]), 1, r)
  BY <1>2, <1>3, <1>8, <1>10 DEF Ragged
<1>12. CalcPhysical(w) + 1 \in 1 .. Len(f)
  <2>1. CalcPhysical(w) = 1 + x + c
    BY ImagePlace
  <2> HIDE DEF x, c, w
  <2> QED BY <1>1, <2>1
<1> DEFINE bytes == Bytes(f[CalcPhysical(w) + 1])
<1>13. bytes \in Seq(Delivered) /\ Len(bytes) = SectorUnits
  BY <1>1, <1>12, SequenceFacts, BytesFacts
<1>14. Ragged(f) \in Seq(Delivered) /\ Len(Ragged(f)) = r
  <2>1. CASE r = 0
    BY <1>11, <2>1, EmptySeq
  <2>2. CASE r # 0
    <3>1. Ragged(f) = SubSeq(bytes, 1, r)
      BY <1>11, <2>2
    <3>2. r <= Len(bytes)
      BY <1>6, <1>13, Numbers
    <3> HIDE DEF bytes, r
    <3> QED BY <1>6, <1>13, <3>1, <3>2, PrefixFacts
  <2> QED BY <2>1, <2>2
<1>15. TrailerIntact(f) <=> LastOf(f).mac = <<b, OpenHashes(s), Ragged(f)>>
  BY <1>2, <1>8 DEF TrailerIntact
<1>16. TrailerOf(s).mac = <<b, OpenHashes(s), Edge(s)>> /\ [TrailerOf(s) EXCEPT !.mac = <<>>].mac = <<>>
  BY <1>1, TrailerFacts
<1>17. TrailerIntact(f) => Ragged(f) = Edge(s)
  <2> DEFINE oh == OpenHashes(s)  rg == Ragged(f)  ed == Edge(s)
  <2> HIDE DEF oh, rg, ed, b
  <2>1. <<b, oh, rg>> # <<>>
    OBVIOUS
  <2>2. <<b, oh, rg>> = <<b, oh, ed>> => rg = ed
    OBVIOUS
  <2>3. LastOf(f).mac = <<b, oh, ed>> \/ LastOf(f).mac = <<>>
    BY <1>16 DEF oh, ed
  <2> QED BY <1>15, <2>1, <2>2, <2>3 DEF oh, rg, ed
<1>18. q = 0 => TrailerIntact(f)
  <2> SUFFICES ASSUME q = 0 PROVE TrailerIntact(f)
    OBVIOUS
  <2>1. LastOf(f) = TrailerOf(s) /\ (r # 0 => f[CalcPhysical(w) + 1] = DataSector(Edge(s)))
    BY DEF ImageInv
  <2>2. Edge(s) \in Seq(Units) /\ Edge(s) \in Seq(Delivered) /\ Len(Edge(s)) = r
    BY <1>1, EdgeFacts
  <2>3. Ragged(f) = Edge(s)
    <3>1. CASE r = 0
      BY <1>11, <2>2, <3>1, EmptySeq
    <3>2. CASE r # 0
      <4>1. \A i \in 1 .. r : bytes[i] = Edge(s)[i]
        <5>1. Len(Edge(s)) <= SectorUnits /\ Zero \in Units
          BY <1>6, <2>2, UnitFacts, Numbers
        <5>2. /\ Bytes(DataSector(Edge(s))) = DataSector(Edge(s)).units
              /\ \A i \in 1 .. Len(Edge(s)) : DataSector(Edge(s)).units[i] = Edge(s)[i]
          BY <2>2, <5>1, DataSectorFacts
        <5> QED BY <2>1, <2>2, <3>2, <5>2
      <4>2. Ragged(f) = SubSeq(bytes, 0 + 1, r)
        <5>1. Ragged(f) = SubSeq(bytes, 1, r)
          BY <1>11, <3>2, Zenon
        <5>2. 0 + 1 = 1
          OBVIOUS
        <5> QED BY <5>1, <5>2, Zenon
      <4> HIDE DEF bytes, r
      <4>3. SubSeq(bytes, 0 + 1, r) = Edge(s)
        <5> DEFINE ed == Edge(s)
        <5>1. ed \in Seq(Delivered) /\ Len(ed) = r - 0 /\ 0 \in Nat /\ 0 <= r /\ r <= Len(bytes)
          BY <1>6, <1>13, <2>2, Numbers
        <5>2. \A i \in 1 .. r - 0 : ed[i] = bytes[0 + i]
          BY <1>6, <4>1
        <5> HIDE DEF ed
        <5>3. SubSeq(bytes, 0 + 1, r) = ed
          BY <1>6, <1>13, <5>1, <5>2, SliceIs
        <5> QED BY <5>3 DEF ed
      <4> QED BY <4>2, <4>3
    <3> QED BY <3>1, <3>2
  <2> QED BY <1>15, <1>16, <2>1, <2>3
<1> QED BY <1>2, <1>3, <1>7, <1>8, <1>9, <1>14, <1>17, <1>18

\* What memory holds after a reload of a committed file.
LEMMA ReloadFacts ==
    ASSUME NEW f, NEW s, NEW q, ImageInv(f, s, q), reload(f), stream' = s
    PROVE  /\ EvidenceInv' /\ logicalLength' \in Nat /\ logicalLength' <= MaxUnits + BlockUnits
           /\ bufCorrupt' \in BOOLEAN /\ openUnverified' \in BOOLEAN /\ loadedFromTrailer' \in BOOLEAN
           /\ logicalLength' = Len(s) \/ (q # 0 /\ logicalLength' > Len(s) /\ logicalLength' % SectorUnits = 0)
           /\ Honest(f, s, logicalLength')
           /\ q = 0 => ~bufCorrupt' /\ ~openUnverified' /\ (~loadedFromTrailer' => logicalLength' % BlockUnits = 0)
           /\ logicalLength' % BlockUnits = 0 => Len(f) <= CalcPhysical(Whole(logicalLength'))
<1> DEFINE n == Len(s)
<1>1. n \in Nat /\ n <= MaxUnits /\ f \in Seq(Stored) /\ s \in Seq(Values) /\ Honest(f, s, n) /\ Len(f) \in Nat
  BY ImagePlace DEF ImageInv
<1>2. n <= MaxUnits + BlockUnits
  BY <1>1, Numbers
<1>3. CASE n % BlockUnits = 0
  <2>1. ~TrailerRecognised(f) /\ CalcLogical(Len(f)) = n
    BY <1>3, AlignedImage
  <2>2. rebuildOpenBlock(f, n)
    BY <2>1 DEF reload, recoverFromTrailer, FallbackLength
  <2>3. n % SectorUnits = 0
    BY <1>1, <1>3, Position
  <2>4. /\ EvidenceInv' /\ logicalLength' = n /\ loadedFromTrailer' = FALSE /\ bufCorrupt' \in BOOLEAN /\ openUnverified' \in BOOLEAN
        /\ ~bufCorrupt' /\ ~openUnverified'
    BY <1>1, <1>3, <2>2, <2>3, RebuiltEvidence
  <2>5. Len(f) <= CalcPhysical(Whole(n))
    <3>1. Len(f) = CalcPhysical(Whole(n)) + 0 /\ CalcPhysical(Whole(n)) \in Nat
      BY <1>1, <1>3, Counts, SectorPlace DEF ImageInv
    <3> QED BY <3>1
  <2> QED BY <1>1, <1>2, <1>3, <2>4, <2>5
<1>4. CASE n % BlockUnits # 0 /\ LastOf(f) = Rotten
  <2> DEFINE v == CalcLogical(Len(f))
  <2>1. /\ ~TrailerRecognised(f) /\ q # 0 /\ v \in Nat /\ v > n /\ v <= MaxUnits + BlockUnits /\ v % SectorUnits = 0
        /\ Honest(f, s, v) /\ (v % BlockUnits = 0 => Len(f) <= CalcPhysical(Whole(v)))
    BY <1>4, LostTrailer
  <2>2. rebuildOpenBlock(f, v)
    BY <2>1 DEF reload, recoverFromTrailer, FallbackLength
  <2> HIDE DEF v
  <2>3. EvidenceInv' /\ logicalLength' = v /\ loadedFromTrailer' = FALSE /\ bufCorrupt' \in BOOLEAN /\ openUnverified' \in BOOLEAN
    BY <1>1, <2>1, <2>2, RebuiltEvidence
  <2> QED BY <2>1, <2>3
<1>5. CASE n % BlockUnits # 0 /\ LastOf(f) # Rotten
  <2> DEFINE c == Whole(n) % HashesPerBlock  r == n % SectorUnits
  <2>1. /\ TrailerRecognised(f) /\ TrailerCount(f) = c /\ TrailerLength(f) = n
        /\ LastOf(f).hashes = OpenHashes(s) /\ LastOf(f).raggedLen = r
        /\ Ragged(f) \in Seq(Delivered) /\ Len(Ragged(f)) = r
        /\ (TrailerIntact(f) => Ragged(f) = Edge(s)) /\ (q = 0 => TrailerIntact(f))
    <3>1. LastOf(f) \in {TrailerOf(s), [TrailerOf(s) EXCEPT !.mac = <<>>]}
      BY <1>5 DEF ImageInv
    <3> QED BY <1>5, <3>1, FoundTrailer
  <2>2. r \in Nat /\ r < SectorUnits /\ c \in Nat /\ c < HashesPerBlock
    BY <1>1, EvidenceTypes
  <2>3. /\ logicalLength' = n /\ EvidenceInv'
        /\ bufCorrupt' \in BOOLEAN /\ openUnverified' \in BOOLEAN /\ loadedFromTrailer' \in BOOLEAN
        /\ TrailerIntact(f) => ~bufCorrupt' /\ ~openUnverified' /\ loadedFromTrailer'
    <3>1. CASE TrailerIntact(f)
      <4>1. /\ logicalLength' = n /\ buf' = Edge(s) /\ hashes' = OpenHashes(s)
            /\ bufCorrupt' = FALSE /\ openUnverified' = FALSE /\ loadedFromTrailer' = TRUE
        BY <2>1, <3>1 DEF reload, recoverFromTrailer
      <4>2. Edge(s) \in Seq(Delivered) /\ Len(Edge(s)) = r /\ \A j \in 1 .. r : Edge(s)[j] = s[Whole(n) * SectorUnits + j]
        BY <1>1, EdgeFacts
      <4>3. /\ OpenHashes(s) \in Seq(Seq(Units)) /\ Len(OpenHashes(s)) = c
            /\ \A k \in 1 .. c : OpenHashes(s)[k] = SectorOf(s, (n \div BlockUnits) * HashesPerBlock + k - 1)
        BY <1>1, OpenHashesFacts
      <4>4. \A k \in 1 .. c : ((n \div BlockUnits) * HashesPerBlock + k - 1 + 1) * SectorUnits <= n
        BY <1>1, OpenPlace
      <4>5. OpenHashes(s) \in Seq(Seq(Units) \cup {Poison}) /\ \A k \in 1 .. c : OpenHashes(s)[k] # Poison
        <5>1. \A k \in 1 .. c : OpenHashes(s)[k] \in Seq(Units)
          BY <4>3, SequenceFacts
        <5>2. Poison \notin Seq(Units)
          BY Markers, UnitFacts
        <5>3. OpenHashes(s) \in Seq(Seq(Units) \cup {Poison})
          BY <4>3
        <5> QED BY <5>1, <5>2, <5>3
      <4> DEFINE oh == OpenHashes(s)  ed == Edge(s)
      <4>6. /\ logicalLength' = n /\ buf' = ed /\ hashes' = oh /\ bufCorrupt' = FALSE /\ openUnverified' = FALSE
            /\ ed \in Seq(Delivered) /\ Len(ed) = n % SectorUnits
            /\ oh \in Seq(Seq(Units) \cup {Poison}) /\ Len(oh) = Whole(n) % HashesPerBlock
            /\ \A j \in 1 .. Len(ed) : ed[j] = s[Whole(n) * SectorUnits + j]
            /\ \A k \in 1 .. Len(oh) : /\ oh[k] # Poison
                                       /\ oh[k] = SectorOf(s, (n \div BlockUnits) * HashesPerBlock + k - 1)
                                       /\ ((n \div BlockUnits) * HashesPerBlock + k - 1 + 1) * SectorUnits <= Len(s)
        BY <4>1, <4>2, <4>3, <4>4, <4>5
      <4> HIDE DEF oh, ed, n
      <4>7. EvidenceInv'
        BY <4>6 DEF EvidenceInv
      <4> QED BY <4>1, <4>7
    <3>2. CASE ~TrailerIntact(f) /\ r > 0
      <4>1. /\ logicalLength' = n /\ buf' = Ragged(f) /\ hashes' = [i \in 1 .. c |-> Poison]
            /\ bufCorrupt' = TRUE /\ openUnverified' = FALSE /\ loadedFromTrailer' = TRUE
        BY <2>1, <3>2 DEF reload, recoverFromTrailer
      <4>2. hashes' \in Seq(Seq(Units) \cup {Poison}) /\ Len(hashes') = c /\ \A k \in 1 .. c : hashes'[k] = Poison
        <5>1. hashes' \in [1 .. c -> Seq(Units) \cup {Poison}]
          BY <4>1
        <5> QED BY <2>2, <4>1, <5>1, FunctionIsSequence
      <4>3. EvidenceInv'
        BY <2>1, <4>1, <4>2 DEF EvidenceInv
      <4> QED BY <3>2, <4>1, <4>3
    <3>3. CASE ~TrailerIntact(f) /\ ~(r > 0)
      <4>1. rebuildOpenBlock(f, n)
        BY <2>1, <3>3 DEF reload, recoverFromTrailer, FallbackLength
      <4>2. n % SectorUnits = 0
        BY <2>2, <3>3
      <4>3. EvidenceInv' /\ logicalLength' = n /\ loadedFromTrailer' = FALSE /\ bufCorrupt' \in BOOLEAN /\ openUnverified' \in BOOLEAN
        BY <1>1, <4>1, <4>2, RebuiltEvidence
      <4> QED BY <3>3, <4>3
    <3> QED BY <3>1, <3>2, <3>3
  <2> QED BY <1>1, <1>2, <1>5, <2>1, <2>3
<1> QED BY <1>3, <1>4, <1>5

\* Open keeps the invariant, whichever accepted image it finds.
LEMMA OpenInv ==
    ASSUME PlogInv, Open
    PROVE  PlogInv'
<1>1. TypeOK /\ AcceptInv /\ rot <= MaxRot
  BY DEF PlogInv
<1>2. PICK a \in accept : /\ a.image[1] = Super /\ file' = a.image /\ stream' = a.stream /\ accept' = {a}
                          /\ reload(a.image)
  BY DEF Open
<1>3. /\ phase' = "opened" /\ undoActive' = FALSE /\ undoStart' = 0 /\ acked' = recorded
      /\ UNCHANGED <<recorded, faults, rot>>
  BY DEF Open
<1> DEFINE f == a.image  s == a.stream
<1>4. ImageInv(f, s, rot) /\ acked <= Len(s) /\ recorded <= acked /\ rot \in Nat /\ acked \in Nat /\ recorded \in Nat
  BY <1>1 DEF AcceptInv, TypeOK
<1>5. /\ EvidenceInv' /\ logicalLength' \in Nat /\ logicalLength' <= MaxUnits + BlockUnits
      /\ bufCorrupt' \in BOOLEAN /\ openUnverified' \in BOOLEAN /\ loadedFromTrailer' \in BOOLEAN
      /\ logicalLength' = Len(s) \/ (rot # 0 /\ logicalLength' > Len(s) /\ logicalLength' % SectorUnits = 0)
      /\ Honest(f, s, logicalLength')
      /\ rot = 0 => ~bufCorrupt' /\ ~openUnverified' /\ (~loadedFromTrailer' => logicalLength' % BlockUnits = 0)
      /\ logicalLength' % BlockUnits = 0 => Len(f) <= CalcPhysical(Whole(logicalLength'))
  BY <1>2, <1>4, ReloadFacts
<1>6. /\ Len(s) \in Nat /\ Len(s) <= MaxUnits /\ s \in Seq(Values) /\ f \in Seq(Stored) /\ f[1] = Super
      /\ Len(f) \in Nat /\ Len(f) >= 1
  BY <1>4, ImagePlace
<1>7. CalcPhysical(Whole(Len(s))) <= Len(f)
  BY <1>4, <1>6, PrefixRoom
<1>8. file' = f /\ stream' = s
  BY <1>2
<1> HIDE DEF f, s
<1>9. TypeOK'
  <2>1. Len(buf') < SectorUnits /\ Len(hashes') < HashesPerBlock
    BY <1>5, EvidenceTypes DEF EvidenceInv
  <2>2. logicalLength' \in 0 .. MaxUnits + BlockUnits
    BY <1>5, Numbers
  <2> QED BY <1>1, <1>3, <1>5, <1>6, <1>8, <2>1, <2>2 DEF TypeOK
<1>10. AcceptInv'
  <2>1. recorded' <= acked' /\ acked' <= Len(stream')
    BY <1>3, <1>4, <1>6, <1>8
  <2>2. \A e \in accept' : ImageInv(e.image, e.stream, rot') /\ acked' <= Len(e.stream) /\ e.stream = stream'
    BY <1>2, <1>3, <1>4, <2>1 DEF f, s
  <2> QED BY <2>1, <2>2 DEF AcceptInv
<1>11. CursorInv'
  <2>1. rot # 0 => rot > 0
    BY <1>4
  <2> QED BY <1>3, <1>5, <1>6, <1>7, <1>8, <2>1 DEF CursorInv
<1>12. Faithful(f, s) \/ rot # 0
  BY <1>4 DEF ImageInv
<1>13. FileInv'
  BY <1>3, <1>4, <1>5, <1>6, <1>8, <1>12 DEF FileInv
<1>14. UndoInv'
  BY <1>3, <1>5, <1>8 DEF UndoInv
<1> QED BY <1>1, <1>3, <1>5, <1>9, <1>10, <1>11, <1>13, <1>14 DEF PlogInv

-----------------------------------------------------------------------------
(* The invariant is kept: appends.                                         *)

\* With no flag raised, the evidence in memory is that of the stream.
LEMMA MemoryTrue ==
    ASSUME TypeOK, EvidenceInv, logicalLength = Len(stream), ~bufCorrupt, ~openUnverified
    PROVE  hashes = OpenHashes(stream) /\ buf = Edge(stream)
<1> DEFINE n == Len(stream)  c == Whole(n) % HashesPerBlock  r == n % SectorUnits
<1>1. stream \in Seq(Values) /\ n \in Nat /\ c \in Nat /\ r \in Nat
  BY MemoryFacts, EvidenceTypes
<1>2. hashes = OpenHashes(stream)
  <2> DEFINE oh == OpenHashes(stream)
  <2>1. /\ oh \in Seq(Seq(Units)) /\ Len(oh) = c
        /\ \A k \in 1 .. c : oh[k] = SectorOf(stream, (n \div BlockUnits) * HashesPerBlock + k - 1)
    BY <1>1, OpenHashesFacts
  <2>2. hashes \in Seq(Seq(Units) \cup {Poison}) /\ Len(hashes) = c
    BY DEF EvidenceInv
  <2>3. \A k \in 1 .. c : hashes[k] = SectorOf(stream, (n \div BlockUnits) * HashesPerBlock + k - 1)
    BY DEF EvidenceInv
  <2> HIDE DEF oh
  <2>4. oh \in Seq(Seq(Units) \cup {Poison})
    BY <2>1
  <2>5. \A k \in 1 .. Len(hashes) : hashes[k] = oh[k]
    BY <2>1, <2>2, <2>3
  <2>6. hashes = oh
    BY <2>1, <2>2, <2>4, <2>5, SeqEqual
  <2> QED BY <2>6 DEF oh
<1>3. buf = Edge(stream)
  <2> DEFINE ed == Edge(stream)
  <2>1. ed \in Seq(Delivered) /\ Len(ed) = r /\ \A j \in 1 .. r : ed[j] = stream[Whole(n) * SectorUnits + j]
    BY <1>1, EdgeFacts
  <2>2. buf \in Seq(Delivered) /\ Len(buf) = r /\ \A j \in 1 .. r : buf[j] = stream[Whole(n) * SectorUnits + j]
    BY DEF EvidenceInv
  <2> HIDE DEF ed
  <2>3. \A k \in 1 .. Len(buf) : buf[k] = ed[k]
    BY <2>1, <2>2
  <2>4. buf = ed
    BY <2>1, <2>2, <2>3, SeqEqual
  <2> QED BY <2>4 DEF ed
<1> QED BY <1>2, <1>3

\* EnsureAppend: the stream grows by the part of the data that was not there.
LEMMA Appended ==
    ASSUME PlogInv, NEW offset \in Nat, NEW data \in Seq(Values), Appendable(offset, data)
    PROVE  LET t   == SubSeq(stream, 1, offset) \o data
               rem == Remainder(offset, data)
               n   == Len(stream)
           IN  /\ n \in Nat /\ n = logicalLength /\ t \in Seq(Values) /\ Len(t) \in Nat /\ Len(t) <= MaxUnits
               /\ rem \in Seq(Values) /\ Len(rem) \in Nat /\ Len(rem) >= 1 /\ Len(t) = n + Len(rem)
               /\ \A k \in 1 .. n : t[k] = stream[k]
               /\ \A k \in 1 .. Len(rem) : t[n + k] = rem[k]
<1> DEFINE pre == SubSeq(stream, 1, offset)  t == pre \o data  rem == Remainder(offset, data)  n == Len(stream)
           z == Len(data)  o == n - offset
<1>1. TypeOK /\ CursorInv /\ EvidenceInv /\ FileInv /\ phase = "mounted"
  BY DEF PlogInv, Appendable
<1>2. n = logicalLength /\ n \in Nat /\ stream \in Seq(Values)
  BY <1>1, MemoryFacts DEF CursorInv
<1>3. offset <= n /\ offset + z > n /\ offset + z <= MaxUnits
  BY <1>2 DEF Appendable
<1>4. z \in Nat /\ o \in Nat /\ o <= z /\ offset + o = n
  <2>1. z \in Nat
    BY SequenceFacts
  <2> HIDE DEF n, z
  <2> QED BY <1>2, <1>3, <2>1
<1>5. pre \in Seq(Values) /\ Len(pre) = offset /\ \A k \in 1 .. offset : pre[k] = stream[k]
  BY <1>2, <1>3, PrefixFacts
<1>6. /\ t \in Seq(Values) /\ Len(t) = offset + z
      /\ \A k \in 1 .. offset : t[k] = pre[k]
      /\ \A k \in 1 .. z : t[offset + k] = data[k]
  <2> HIDE DEF pre
  <2>1. pre \in Seq(Values) /\ data \in Seq(Values) /\ Len(pre) = offset
    BY <1>5
  <2>2. /\ pre \o data \in Seq(Values) /\ Len(pre \o data) = Len(pre) + Len(data)
        /\ \A k \in 1 .. Len(pre) : (pre \o data)[k] = pre[k]
        /\ \A k \in 1 .. Len(data) : (pre \o data)[Len(pre) + k] = data[k]
    BY ONLY <2>1, ConcatFacts, Zenon
  <2> QED BY <2>1, <2>2, Zenon
<1>7. rem \in Seq(Values) /\ Len(rem) = z - o /\ \A k \in 1 .. z - o : rem[k] = data[o + k]
  <2>1. rem = SubSeq(data, o + 1, z)
    BY <1>2 DEF Remainder
  <2> HIDE DEF rem, o
  <2> QED BY <1>4, <2>1, SliceFacts
<1> HIDE DEF pre, t, rem
<1>8. ASSUME NEW k \in 1 .. n PROVE t[k] = stream[k]
  <2>1. CASE k <= offset
    <3>1. k \in 1 .. offset
      BY <1>2, <2>1
    <3> QED BY <1>5, <1>6, <3>1
  <2>2. CASE ~(k <= offset)
    <3> DEFINE i == k - offset
    <3>1. i \in 1 .. o /\ i \in 1 .. z /\ offset + i = k /\ offset < n
      <4> HIDE DEF n, z
      <4> QED BY <1>2, <1>4, <2>2
    <3> DEFINE v == ReadRange(offset, logicalLength)
    <3>2. v # Bitrot /\ v = SubSeq(data, 1, o)
      BY <1>2, <3>1 DEF Appendable
    <3>3. \A j \in 1 .. logicalLength - offset : v[j] = stream[offset + j]
      <4>1. logicalLength \in Nat /\ offset <= logicalLength /\ logicalLength <= logicalLength /\ logicalLength <= Len(stream)
        BY <1>2, <1>3
      <4> QED BY <1>1, <3>2, <4>1, ReadRangeIs
    <3>4. v[i] = stream[offset + i]
      BY <1>2, <3>1, <3>3
    <3>5. SubSeq(data, 1, o)[i] = data[i]
      <4> HIDE DEF o, i
      <4> QED BY <1>4, <3>1, PrefixFacts
    <3>6. t[offset + i] = data[i]
      BY <1>6, <3>1
    <3> HIDE DEF i, v, o
    <3> QED BY <3>1, <3>2, <3>4, <3>5, <3>6
  <2> QED BY <2>1, <2>2
<1>9. ASSUME NEW k \in 1 .. Len(rem) PROVE t[n + k] = rem[k]
  <2> DEFINE i == o + k
  <2>1. k \in 1 .. z - o /\ i \in 1 .. z /\ offset + i = n + k
    <3> HIDE DEF n, z, o
    <3> QED BY <1>2, <1>4, <1>7, <1>9
  <2>2. t[offset + i] = data[i] /\ rem[k] = data[i]
    BY <1>6, <1>7, <2>1
  <2> HIDE DEF i
  <2> QED BY <2>1, <2>2
<1>10. Len(rem) \in Nat /\ Len(rem) >= 1 /\ Len(t) = n + Len(rem) /\ Len(t) \in Nat /\ Len(t) <= MaxUnits
  <2> DEFINE lr == Len(rem)  lt == Len(t)
  <2>1. lr = z - o /\ lt = offset + z
    BY <1>6, <1>7
  <2>2. MaxUnits \in Nat
    BY Numbers
  <2> HIDE DEF n, z, o, lr, lt
  <2>3. lr \in Nat /\ lr >= 1 /\ lt = n + lr /\ lt \in Nat /\ lt <= MaxUnits
    BY <1>2, <1>3, <1>4, <2>1, <2>2
  <2> QED BY <2>3 DEF lr, lt
<1> QED BY <1>2, <1>6, <1>7, <1>8, <1>9, <1>10 DEF t, pre, rem

\* What a file keeps that is changed only behind the sealed sectors, when the
\* stream only grows.
LEMMA SealedKept ==
    ASSUME TypeOK, CursorInv, EvidenceInv, FileInv, logicalLength = Len(stream),
           NEW g \in Seq(Stored), CalcPhysical(Whole(logicalLength)) <= Len(g),
           \A x \in 1 .. CalcPhysical(Whole(logicalLength)) : g[x] = file[x],
           NEW t \in Seq(Values), logicalLength <= Len(t), \A k \in 1 .. logicalLength : t[k] = stream[k]
    PROVE  /\ g[1] = Super /\ Honest(g, t, logicalLength)
           /\ rot = 0 =>
                /\ \A i \in 0 .. Whole(logicalLength) - 1 : g[CalcPhysical(i) + 1] = DataSector(SectorOf(t, i))
                /\ \A b \in 0 .. (logicalLength \div BlockUnits) - 1 :
                      g[hashSectorPhys(b) + 1] = HashSector(b, BlockHashes(t, b))
<1> DEFINE n == logicalLength  p == CalcPhysical(Whole(n))
<1>1. n \in Nat /\ stream \in Seq(Values) /\ file \in Seq(Stored) /\ file[1] = Super /\ Honest(file, stream, n) /\ p <= Len(file)
  BY MemoryFacts DEF FileInv, CursorInv
<1>2. p \in Nat /\ p >= 1
  BY <1>1, BlockPhysicalFacts
<1>3. g[1] = Super
  <2>1. 1 \in 1 .. p
    BY <1>2
  <2> QED BY <1>1, <2>1
<1>4. n <= n /\ n <= Len(stream)
  BY <1>1
<1>5. Honest(g, t, n)
  BY <1>1, <1>4, HonestKept
<1>6. rot = 0 => Faithful(file, stream)
  BY DEF FileInv
<1>7. rot = 0 =>
        /\ \A i \in 0 .. Whole(n) - 1 : g[CalcPhysical(i) + 1] = DataSector(SectorOf(t, i))
        /\ \A b \in 0 .. (n \div BlockUnits) - 1 : g[hashSectorPhys(b) + 1] = HashSector(b, BlockHashes(t, b))
  <2> SUFFICES ASSUME rot = 0
               PROVE  /\ \A i \in 0 .. Whole(n) - 1 : g[CalcPhysical(i) + 1] = DataSector(SectorOf(t, i))
                      /\ \A b \in 0 .. (n \div BlockUnits) - 1 : g[hashSectorPhys(b) + 1] = HashSector(b, BlockHashes(t, b))
    OBVIOUS
  <2>1. /\ file \in Seq(Stored) /\ g \in Seq(Stored) /\ stream \in Seq(Values) /\ t \in Seq(Values)
        /\ n \in Nat /\ n <= Len(stream) /\ n <= Len(t) /\ Faithful(file, stream)
        /\ \A x \in 1 .. CalcPhysical(Whole(n)) : g[x] = file[x]
        /\ \A k \in 1 .. n : t[k] = stream[k]
    BY <1>1, <1>4, <1>6
  <2> QED BY ONLY <2>1, FaithfulKept, SMTT(20)
<1> QED BY <1>3, <1>5, <1>7

\* The open sector and what an append adds to it are the stream from the last
\* sealed sector on.
LEMMA OpenUnits ==
    ASSUME PlogInv, NEW offset \in Nat, NEW data \in Seq(Values), Appendable(offset, data)
    PROVE  LET t   == SubSeq(stream, 1, offset) \o data
               rem == Remainder(offset, data)
               n   == Len(stream)
               u   == buf \o rem
           IN  /\ u \in Seq(Values) /\ Len(u) = (n % SectorUnits) + Len(rem)
               /\ \A j \in 1 .. (n % SectorUnits) + Len(rem) : u[j] = t[Whole(n) * SectorUnits + j]
<1> DEFINE t == SubSeq(stream, 1, offset) \o data  rem == Remainder(offset, data)  n == Len(stream)
           w == Whole(n)  r == n % SectorUnits  u == buf \o rem  k == Len(rem)
<1>2. TypeOK /\ EvidenceInv /\ ~bufCorrupt /\ ~openUnverified
  BY DEF PlogInv, Appendable
<1>3. /\ n \in Nat /\ n = logicalLength /\ rem \in Seq(Values) /\ k \in Nat
      /\ \A i \in 1 .. n : t[i] = stream[i]
      /\ \A i \in 1 .. k : t[n + i] = rem[i]
  BY Appended
<1>4. buf = Edge(stream) /\ stream \in Seq(Values)
  BY <1>2, <1>3, MemoryTrue, MemoryFacts
<1>5. buf \in Seq(Values) /\ Len(buf) = r /\ \A j \in 1 .. r : buf[j] = stream[w * SectorUnits + j]
  BY <1>4, EdgeFacts
<1>6. w \in Nat /\ r \in Nat /\ n = w * SectorUnits + r /\ w * SectorUnits \in Nat
  BY <1>3, Position, Numbers, Multiples
<1>8. /\ u \in Seq(Values) /\ Len(u) = r + k
      /\ \A i \in 1 .. r : u[i] = buf[i]
      /\ \A i \in 1 .. k : u[r + i] = rem[i]
  <2>1. buf \in Seq(Values) /\ rem \in Seq(Values) /\ Len(buf) = r
    BY <1>3, <1>5
  <2> HIDE DEF rem
  <2>2. /\ buf \o rem \in Seq(Values) /\ Len(buf \o rem) = Len(buf) + Len(rem)
        /\ \A i \in 1 .. Len(buf) : (buf \o rem)[i] = buf[i]
        /\ \A i \in 1 .. Len(rem) : (buf \o rem)[Len(buf) + i] = rem[i]
    BY ONLY <2>1, ConcatFacts, Zenon
  <2> QED BY <2>1, <2>2, Zenon
<1>9. ASSUME NEW j \in 1 .. r + k PROVE u[j] = t[w * SectorUnits + j]
  <2> DEFINE x == w * SectorUnits
  <2>1. x \in Nat /\ n = x + r
    BY <1>6
  <2> HIDE DEF x, n, r, k, t, u, rem
  <2>2. CASE j <= r
    <3>1. j \in 1 .. r /\ x + j \in 1 .. n
      BY <1>3, <1>6, <1>9, <2>1, <2>2
    <3> QED BY <1>3, <1>5, <1>8, <3>1 DEF x
  <2>3. CASE ~(j <= r)
    <3> DEFINE i == j - r
    <3>1. i \in 1 .. k /\ r + i = j /\ n + i = x + j
      BY <1>3, <1>6, <1>9, <2>1, <2>3
    <3> HIDE DEF i
    <3>2. u[r + i] = rem[i] /\ t[n + i] = rem[i]
      BY <1>3, <1>8, <3>1
    <3> QED BY <3>1, <3>2 DEF x
  <2> QED BY <2>2, <2>3
<1> QED BY <1>8, <1>9

\* An append that fits in the open sector keeps the invariant.
LEMMA AppendBufferedInv ==
    ASSUME PlogInv, NEW offset \in Nat, NEW data \in Seq(Values), AppendBuffered(offset, data)
    PROVE  PlogInv'
<1> DEFINE t == SubSeq(stream, 1, offset) \o data  rem == Remainder(offset, data)  n == Len(stream)  m == Len(t)
           w == Whole(n)  r == n % SectorUnits  u == buf \o rem  k == Len(rem)
<1>1. TypeOK /\ AcceptInv /\ CursorInv /\ EvidenceInv /\ FileInv /\ UndoInv /\ rot <= MaxRot /\ phase = "mounted"
  BY DEF PlogInv, AppendBuffered, Appendable
<1>2. /\ Appendable(offset, data) /\ Len(buf) + k < SectorUnits /\ buf' = u /\ logicalLength' = logicalLength + k /\ stream' = t
      /\ UNCHANGED <<file, accept, phase, undoActive, undoStart, hashes, bufCorrupt, openUnverified, loadedFromTrailer,
                     acked, recorded, faults, rot>>
  BY DEF AppendBuffered, undoVars
<1>3. /\ n \in Nat /\ n = logicalLength /\ t \in Seq(Values) /\ m \in Nat /\ m <= MaxUnits
      /\ rem \in Seq(Values) /\ k \in Nat /\ k >= 1 /\ m = n + k
      /\ \A i \in 1 .. n : t[i] = stream[i]
      /\ \A i \in 1 .. k : t[n + i] = rem[i]
  BY <1>2, Appended
<1>4. hashes = OpenHashes(stream) /\ buf = Edge(stream) /\ ~bufCorrupt /\ ~openUnverified
  <2>1. ~bufCorrupt /\ ~openUnverified
    BY <1>2 DEF Appendable
  <2> QED BY <1>1, <1>3, <2>1, MemoryTrue
<1>5. /\ buf \in Seq(Values) /\ Len(buf) = r /\ \A j \in 1 .. r : buf[j] = stream[w * SectorUnits + j]
      /\ stream \in Seq(Values)
  BY <1>1, <1>4, MemoryFacts, EdgeFacts
<1>6. w \in Nat /\ r \in Nat /\ n = w * SectorUnits + r /\ w * SectorUnits \in Nat /\ w \div HashesPerBlock = n \div BlockUnits
  BY <1>3, Position, Numbers, Multiples
<1>7. Whole(m) = w /\ m % SectorUnits = r + k /\ r + k < SectorUnits /\ m \div BlockUnits = n \div BlockUnits /\ m % BlockUnits # 0
  <2> DEFINE x == w * SectorUnits  v == r + k
  <2>1. v \in Nat /\ v < SectorUnits /\ m = x + v /\ v # 0
    <3> HIDE DEF x, n, m, k, r
    <3>1. n = x + r /\ x \in Nat
      BY <1>6 DEF x
    <3>2. r \in Nat /\ k \in Nat /\ k >= 1 /\ r + k < SectorUnits /\ m = n + k /\ n \in Nat
      BY <1>2, <1>3, <1>5, <1>6
    <3> QED BY ONLY <3>1, <3>2, Numbers DEF v
  <2> HIDE DEF v, m, w
  <2>2. Whole(w * SectorUnits + v) = w /\ (w * SectorUnits + v) % SectorUnits = v
    BY <1>6, <2>1, WholeOf
  <2>3. Whole(m) = w /\ m % SectorUnits = v
    BY <2>1, <2>2
  <2>4. m \div BlockUnits = w \div HashesPerBlock /\ m % BlockUnits # 0
    BY <1>3, <2>1, <2>3, Position
  <2> QED BY <1>6, <2>1, <2>3, <2>4 DEF v
<1>8. u \in Seq(Values) /\ Len(u) = r + k /\ \A j \in 1 .. r + k : u[j] = t[w * SectorUnits + j]
  BY <1>2, OpenUnits
<1> HIDE DEF t, u, rem, m, k
<1>9. EvidenceInv'
  <2>1. u \in Seq(Delivered)
    BY <1>8, UnitFacts
  <2>2. \A i \in 1 .. Len(hashes) :
           LET j == (n \div BlockUnits) * HashesPerBlock + i - 1
           IN  hashes[i] # Poison /\ (j + 1) * SectorUnits <= m /\ hashes[i] = SectorOf(t, j)
    <3> TAKE i \in 1 .. Len(hashes)
    <3> DEFINE j == (n \div BlockUnits) * HashesPerBlock + i - 1
    <3>1. hashes[i] # Poison /\ hashes[i] = SectorOf(stream, j)
      BY <1>1, <1>3, <1>4 DEF EvidenceInv
    <3>2. j \in Nat /\ (j + 1) * SectorUnits <= n
      <4>1. i \in 1 .. Whole(n) % HashesPerBlock
        BY <1>1, <1>3 DEF EvidenceInv
      <4> QED BY <1>3, <4>1, OpenPlace
    <3> HIDE DEF j, n
    <3>3. SectorOf(t, j) = SectorOf(stream, j)
      BY <1>3, <3>2, SectorOfSame, ZenonT(40)
    <3>4. (j + 1) * SectorUnits <= m
      <4> DEFINE y == (j + 1) * SectorUnits
      <4>1. y \in Nat /\ y <= n
        BY <3>2, Numbers, Multiples
      <4> HIDE DEF y
      <4>2. y <= m
        BY <1>3, <4>1
      <4> QED BY <4>2 DEF y
    <3> QED BY <3>1, <3>3, <3>4 DEF j
  <2>3. logicalLength' = m /\ Len(stream') = m
    BY <1>2, <1>3 DEF m
  <2>4. Len(hashes) = Whole(m) % HashesPerBlock /\ hashes \in Seq(Seq(Units) \cup {Poison})
    BY <1>1, <1>3, <1>7 DEF EvidenceInv
  <2>5. \A i \in 1 .. Len(hashes) : hashes[i] # Poison /\ hashes[i] = SectorOf(t, (m \div BlockUnits) * HashesPerBlock + i - 1)
              /\ ((m \div BlockUnits) * HashesPerBlock + i - 1 + 1) * SectorUnits <= Len(stream')
    BY <1>7, <2>2, <2>3
  <2>6. Len(u) = m % SectorUnits /\ \A j \in 1 .. Len(u) : u[j] = t[Whole(m) * SectorUnits + j]
    BY <1>7, <1>8
  <2> HIDE DEF n, r, w
  <2> QED BY <1>2, <1>4, <2>1, <2>3, <2>4, <2>5, <2>6 DEF EvidenceInv
<1>10. /\ Honest(file, t, n)
       /\ rot = 0 =>
            /\ \A i \in 0 .. Whole(n) - 1 : file[CalcPhysical(i) + 1] = DataSector(SectorOf(t, i))
            /\ \A b \in 0 .. (n \div BlockUnits) - 1 : file[hashSectorPhys(b) + 1] = HashSector(b, BlockHashes(t, b))
  <2>1. file \in Seq(Stored) /\ CalcPhysical(Whole(n)) <= Len(file)
    BY <1>1, <1>3, SectorPlace DEF FileInv, CursorInv
  <2>2. n <= Len(t)
    BY <1>3 DEF m
  <2> QED BY <1>1, <1>3, <2>1, <2>2, SealedKept
<1>11. FileInv'
  <2>1. Honest(file, t, m)
    BY <1>7, <1>10 DEF Honest
  <2>2. rot = 0 => Faithful(file, t)
    <3>1. rot = 0 => file \in Seq(SectorValues)
      BY <1>1 DEF FileInv, Faithful
    <3> QED BY <1>7, <1>10, <3>1 DEF Faithful, m
  <2>3. logicalLength' = m
    BY <1>2, <1>3
  <2> QED BY <1>1, <1>2, <1>4, <2>1, <2>2, <2>3 DEF FileInv
<1>12. CursorInv'
  <2>1. logicalLength' = Len(stream') /\ Len(stream') = m
    BY <1>2, <1>3 DEF m
  <2>2. Len(file) >= CalcPhysical(Whole(m))
    BY <1>1, <1>7 DEF CursorInv
  <2> QED BY <1>1, <1>2, <1>3, <2>1, <2>2 DEF CursorInv
<1>13. UndoInv'
  <2>1. logicalLength' = m /\ Whole(m) = Whole(logicalLength)
    BY <1>2, <1>3, <1>7
  <2> QED BY <1>1, <1>2, <1>7, <2>1 DEF UndoInv
<1>14. TypeOK'
  <2>1. Len(buf') < SectorUnits /\ logicalLength' = m /\ Len(file') >= 1
    BY <1>1, <1>2, <1>3, <1>7, <1>8 DEF TypeOK
  <2>2. m \in 0 .. MaxUnits + BlockUnits
    <3>1. m \in Nat /\ m <= MaxUnits
      BY <1>3
    <3> QED BY ONLY <3>1, Numbers
  <2> QED BY <1>1, <1>2, <1>3, <2>1, <2>2 DEF TypeOK
<1>15. AcceptInv'
  <2>1. acked \in Nat /\ acked <= n /\ acked <= m
    BY <1>1, <1>3 DEF AcceptInv, TypeOK
  <2>2. \A i \in 1 .. acked : t[i] = stream[i]
    BY <1>3, <2>1
  <2> QED BY <1>1, <1>2, <2>1, <2>2 DEF AcceptInv, m
<1> QED BY <1>1, <1>2, <1>9, <1>11, <1>12, <1>13, <1>14, <1>15 DEF PlogInv

\* The units u take the stream t from the sealed sector w on.
Continues(u, t, w) ==
    /\ t \in Seq(Values) /\ u \in Seq(Values) /\ w \in Nat
    /\ Len(t) = w * SectorUnits + Len(u)
    /\ \A j \in 1 .. Len(u) : u[j] = t[w * SectorUnits + j]

\* Memory holds the hashes of the open block's sectors before w.
Known(t, w) ==
    /\ Len(hashes) = w % HashesPerBlock
    /\ \A k \in 1 .. w % HashesPerBlock : hashes[k] = SectorOf(t, (w \div HashesPerBlock) * HashesPerBlock + k - 1)

\* How many sectors a sealing write completes, and what stays open.
LEMMA SealedCount ==
    ASSUME NEW u, NEW t, NEW w, Continues(u, t, w)
    PROVE  /\ Len(u) \in Nat /\ Len(t) \in Nat /\ Len(u) \div SectorUnits \in Nat
           /\ Whole(Len(t)) = w + (Len(u) \div SectorUnits) /\ Len(t) % SectorUnits = Len(u) % SectorUnits
<1> DEFINE d == SectorUnits  z == Len(u) \div d  r == Len(u) % d
<1>1. w \in Nat /\ Len(u) \in Nat /\ Len(t) \in Nat /\ Len(t) = w * d + Len(u)
  BY SequenceFacts DEF Continues
<1>2. z \in Nat /\ r \in Nat /\ r < d /\ Len(u) = z * d + r /\ d \in Nat
  BY <1>1, Numbers, DivMod
<1> HIDE DEF z, r, d
<1>3. (w + z) * d = w * d + z * d /\ w * d \in Nat /\ z * d \in Nat
  <2>1. (w + z) * d = w * d + z * d
    BY <1>1, <1>2
  <2> QED BY <1>1, <1>2, <2>1, Multiples
<1>4. Len(t) = (w + z) * d + r
  <2> DEFINE x == w * d  y == z * d  v == (w + z) * d
  <2>1. Len(t) = x + Len(u) /\ Len(u) = y + r /\ v = x + y /\ x \in Nat /\ y \in Nat
    BY <1>1, <1>2, <1>3
  <2> HIDE DEF x, y, v
  <2>2. Len(t) = v + r
    BY <1>2, <2>1
  <2> QED BY <2>2 DEF v
<1>5. Whole((w + z) * SectorUnits + r) = w + z /\ ((w + z) * SectorUnits + r) % SectorUnits = r
  <2> DEFINE a == w + z
  <2>1. a \in Nat /\ r \in Nat /\ r < SectorUnits
    BY <1>1, <1>2 DEF d
  <2> HIDE DEF a
  <2>2. Whole(a * SectorUnits + r) = a /\ (a * SectorUnits + r) % SectorUnits = r
    BY ONLY <2>1, WholeOf
  <2> QED BY <2>2 DEF a
<1> QED BY <1>1, <1>2, <1>4, <1>5 DEF z, r, d

\* One sector's worth of the units.
LEMMA SealedSlice ==
    ASSUME NEW u, NEW t, NEW w, Continues(u, t, w), NEW i \in w .. w + (Len(u) \div SectorUnits) - 1
    PROVE  /\ SubSeq(u, (i - w) * SectorUnits + 1, (i - w + 1) * SectorUnits) = SectorOf(t, i)
           /\ i \in Nat /\ (i + 1) * SectorUnits <= Len(t)
<1> DEFINE d == SectorUnits  z == Len(u) \div d  e == i - w  a == e * d  b == (e + 1) * d  x == w * d  y == i * d
<1>1. w \in Nat /\ t \in Seq(Values) /\ u \in Seq(Values) /\ Len(t) = x + Len(u) /\ \A j \in 1 .. Len(u) : u[j] = t[x + j]
  BY DEF Continues
<1>2. Len(u) \in Nat /\ Len(t) \in Nat /\ z \in Nat /\ Whole(Len(t)) = w + z /\ d \in Nat \ {0}
  BY SealedCount, Numbers
<1>3. i \in Nat /\ e \in Nat /\ e < z /\ i = w + e /\ i < Whole(Len(t))
  <2>1. i \in w .. w + z - 1
    OBVIOUS
  <2> HIDE DEF z
  <2> QED BY <1>1, <1>2, <2>1
<1>4. (i + 1) * SectorUnits <= Len(t)
  BY <1>2, <1>3, WholeFacts
<1>5. b <= Len(u)
  BY <1>2, <1>3, DivLess
<1>6. a \in Nat /\ b = a + d /\ b \in Nat /\ x \in Nat /\ y \in Nat
  BY <1>1, <1>2, <1>3, Multiples
<1>7. y = x + a
  <2> HIDE DEF e, d, z
  <2>1. (w + e) * d = w * d + e * d
    BY <1>1, <1>2, <1>3
  <2> QED BY <1>3, <2>1
<1>8. SectorOf(t, i) \in Seq(Values) /\ Len(SectorOf(t, i)) = d /\ \A j \in 1 .. d : SectorOf(t, i)[j] = t[y + j]
  BY <1>1, <1>3, <1>4, SectorOfFacts
<1> DEFINE so == SectorOf(t, i)
<1> HIDE DEF so, a, b, x, y, d, e, z
<1>9. \A j \in 1 .. d : so[j] = u[a + j]
  <2> TAKE j \in 1 .. d
  <2>1. a + j \in 1 .. Len(u) /\ x + (a + j) = y + j
    <3> DEFINE l == Len(u)
    <3>1. l \in Nat /\ b <= l /\ a \in Nat /\ b = a + d /\ x \in Nat /\ y = x + a /\ d \in Nat
      BY <1>2, <1>5, <1>6, <1>7
    <3> HIDE DEF l
    <3>2. a + j \in 1 .. l /\ x + (a + j) = y + j
      BY ONLY <3>1, j \in 1 .. d
    <3> QED BY <3>2 DEF l
  <2>2. u[a + j] = t[x + (a + j)]
    BY <1>1, <2>1
  <2>3. so[j] = t[y + j]
    BY <1>8 DEF so
  <2> QED BY <2>1, <2>2, <2>3
<1>10. SubSeq(u, a + 1, b) = so
  <2>1. /\ u \in Seq(Values) /\ a \in Nat /\ b \in Nat /\ a <= b /\ b <= Len(u) /\ so \in Seq(Values) /\ Len(so) = b - a
        /\ b - a = d
    BY <1>1, <1>2, <1>5, <1>6, <1>8 DEF so
  <2>2. \A j \in 1 .. b - a : so[j] = u[a + j]
    BY <1>9, <2>1
  <2> QED BY ONLY <2>1, <2>2, SliceIs
<1> QED BY <1>3, <1>4, <1>10 DEF so, a, b, e, d

\* Sector places are told apart by their order.
LEMMA PlacesOrdered ==
    ASSUME NEW i \in Nat, NEW j \in Nat
    PROVE  /\ CalcPhysical(i) \in Nat /\ CalcPhysical(j) \in Nat
           /\ CalcPhysical(i) < CalcPhysical(j) <=> i < j
           /\ CalcPhysical(i) <= CalcPhysical(j) <=> i <= j
<1>1. CalcPhysical(i) \in Nat /\ CalcPhysical(j) \in Nat
  BY SectorPlace
<1>2. i < j => CalcPhysical(i) < CalcPhysical(j)
  BY SectorsInOrder
<1>3. j < i => CalcPhysical(j) < CalcPhysical(i)
  BY SectorsInOrder
<1>4. i = j => CalcPhysical(i) = CalcPhysical(j)
  OBVIOUS
<1> DEFINE x == CalcPhysical(i)  y == CalcPhysical(j)
<1> HIDE DEF x, y
<1>5. (x < y <=> i < j) /\ (x <= y <=> i <= j)
  BY <1>1, <1>2, <1>3, <1>4 DEF x, y
<1> QED BY <1>1, <1>5 DEF x, y

\* The sectors a sealing write emits, place by place.
LEMMA SealedShape ==
    ASSUME NEW u, NEW t, NEW w, Continues(u, t, w), Known(t, w), Len(u) >= SectorUnits
    PROVE  LET z   == Len(u) \div SectorUnits
               out == SealedSectors(u, w)
               p   == CalcPhysical(w)
               cs  == [i \in w .. w + z - 1 |-> SectorOf(t, i)]
           IN  /\ p \in Nat /\ z \in Nat /\ z >= 1
               /\ out = [k \in 1 .. CalcPhysical(w + z) - p |->
                           LET q     == p + k - 2
                               block == q \div (HashesPerBlock + 1)
                               pos   == q % (HashesPerBlock + 1)
                           IN  IF pos = HashesPerBlock
                               THEN HashSector(block, [i \in 1 .. HashesPerBlock |->
                                       IF block * HashesPerBlock + i - 1 >= w THEN cs[block * HashesPerBlock + i - 1]
                                       ELSE hashes[((block * HashesPerBlock + i - 1) % HashesPerBlock) + 1]])
                               ELSE DataSector(cs[block * HashesPerBlock + pos])]
<1> DEFINE z == Len(u) \div SectorUnits  out == SealedSectors(u, w)  p == CalcPhysical(w)  last == w + z - 1
           cs == [i \in w .. w + z - 1 |-> SectorOf(t, i)]
           contents == [i \in w .. last |-> SubSeq(u, (i - w) * SectorUnits + 1, (i - w + 1) * SectorUnits)]
           to == CalcPhysical(last) + (IF (last + 1) % HashesPerBlock = 0 THEN 1 ELSE 0)
<1>1. w \in Nat /\ Len(u) \in Nat /\ z \in Nat
  BY SealedCount DEF Continues
<1>2. z >= 1
  <2>1. 0 < z <=> (0 + 1) * SectorUnits <= Len(u)
    BY <1>1, Numbers, DivLess
  <2>2. (0 + 1) * SectorUnits = SectorUnits
    BY Numbers
  <2> HIDE DEF z
  <2> QED BY <1>1, <2>1, <2>2
<1>3. contents = cs
  <2>1. \A i \in w .. last : SubSeq(u, (i - w) * SectorUnits + 1, (i - w + 1) * SectorUnits) = SectorOf(t, i)
    BY SealedSlice
  <2> QED BY <2>1
<1>4. to - p + 1 = CalcPhysical(w + z) - p /\ p \in Nat
  <2>1. last \in Nat /\ last + 1 = w + z
    <3> HIDE DEF z
    <3> QED BY <1>1, <1>2
  <2>2. CalcPhysical(last) \in Nat /\ p \in Nat
    BY <1>1, <2>1, SectorPlace
  <2> HIDE DEF last
  <2>3. /\ (last + 1) % HashesPerBlock # 0 => CalcPhysical(last + 1) = CalcPhysical(last) + 1
        /\ (last + 1) % HashesPerBlock = 0 => CalcPhysical(last + 1) = CalcPhysical(last) + 2
    BY <2>1, NextSector
  <2>4. CalcPhysical(last + 1) = to + 1 /\ to \in Nat
    BY <2>2, <2>3
  <2>5. CalcPhysical(w + z) = to + 1
    BY <2>1, <2>4
  <2> HIDE DEF to, p
  <2> QED BY <2>2, <2>4, <2>5
<1>5. out = [k \in 1 .. to - p + 1 |->
               LET q     == p + k - 2
                   block == q \div (HashesPerBlock + 1)
                   pos   == q % (HashesPerBlock + 1)
               IN  IF pos = HashesPerBlock
                   THEN HashSector(block, [i \in 1 .. HashesPerBlock |->
                           IF block * HashesPerBlock + i - 1 >= w THEN contents[block * HashesPerBlock + i - 1]
                           ELSE hashes[((block * HashesPerBlock + i - 1) % HashesPerBlock) + 1]])
                   ELSE DataSector(contents[block * HashesPerBlock + pos])]
  BY DEF SealedSectors
<1> HIDE DEF contents, cs, to, p, z, out
<1>6. out = [k \in 1 .. CalcPhysical(w + z) - p |->
               LET q     == p + k - 2
                   block == q \div (HashesPerBlock + 1)
                   pos   == q % (HashesPerBlock + 1)
               IN  IF pos = HashesPerBlock
                   THEN HashSector(block, [i \in 1 .. HashesPerBlock |->
                           IF block * HashesPerBlock + i - 1 >= w THEN cs[block * HashesPerBlock + i - 1]
                           ELSE hashes[((block * HashesPerBlock + i - 1) % HashesPerBlock) + 1]])
                   ELSE DataSector(cs[block * HashesPerBlock + pos])]
  BY <1>3, <1>4, <1>5, Zenon
<1> QED BY <1>1, <1>2, <1>4, <1>6 DEF cs, p, z, out

\* A data sector of a sealing write.
LEMMA SealedData ==
    ASSUME NEW u, NEW t, NEW w, Continues(u, t, w), Known(t, w), Len(u) >= SectorUnits,
           NEW j \in w .. w + (Len(u) \div SectorUnits) - 1
    PROVE  LET k == CalcPhysical(j) - CalcPhysical(w) + 1
           IN  /\ k \in 1 .. CalcPhysical(w + (Len(u) \div SectorUnits)) - CalcPhysical(w)
               /\ SealedSectors(u, w)[k] = DataSector(SectorOf(t, j))
<1> DEFINE z == Len(u) \div SectorUnits  p == CalcPhysical(w)  pz == CalcPhysical(w + z)  x == CalcPhysical(j)
           k == x - p + 1  cs == [i \in w .. w + z - 1 |-> SectorOf(t, i)]  d == HashesPerBlock + 1
<1>1. w \in Nat /\ z \in Nat /\ z >= 1
  BY SealedShape, SealedCount DEF Continues
<1>2. j \in Nat /\ w <= j /\ j < w + z /\ w + z \in Nat
  <2>1. j \in w .. w + z - 1
    OBVIOUS
  <2> HIDE DEF z
  <2> QED BY <1>1, <2>1
<1>3. p \in Nat /\ x \in Nat /\ pz \in Nat /\ p <= x /\ x < pz
  BY <1>1, <1>2, PlacesOrdered
<1>4. k \in 1 .. pz - p /\ p + k - 2 = x - 1
  <2> HIDE DEF p, pz, x
  <2> QED BY <1>3
<1>5. /\ (x - 1) \div d = j \div HashesPerBlock /\ (x - 1) % d = j % HashesPerBlock
      /\ j % HashesPerBlock # HashesPerBlock
      /\ j = (j \div HashesPerBlock) * HashesPerBlock + (j % HashesPerBlock)
  <2>1. j % HashesPerBlock < HashesPerBlock /\ j % HashesPerBlock \in Nat
    BY <1>2, SectorPlace
  <2>2. j % HashesPerBlock # HashesPerBlock
    <3> DEFINE m == j % HashesPerBlock
    <3> HIDE DEF m
    <3>1. m # HashesPerBlock
      BY <2>1, Numbers DEF m
    <3> QED BY <3>1 DEF m
  <2> QED BY <1>2, <2>2, SectorPlace
<1>6. SealedSectors(u, w)[k] =
         LET q     == p + k - 2
             block == q \div (HashesPerBlock + 1)
             pos   == q % (HashesPerBlock + 1)
         IN  IF pos = HashesPerBlock
             THEN HashSector(block, [i \in 1 .. HashesPerBlock |->
                     IF block * HashesPerBlock + i - 1 >= w THEN cs[block * HashesPerBlock + i - 1]
                     ELSE hashes[((block * HashesPerBlock + i - 1) % HashesPerBlock) + 1]])
             ELSE DataSector(cs[block * HashesPerBlock + pos])
  <2> DEFINE F(e) == LET q     == p + e - 2
                         block == q \div (HashesPerBlock + 1)
                         pos   == q % (HashesPerBlock + 1)
                     IN  IF pos = HashesPerBlock
                         THEN HashSector(block, [i \in 1 .. HashesPerBlock |->
                                 IF block * HashesPerBlock + i - 1 >= w THEN cs[block * HashesPerBlock + i - 1]
                                 ELSE hashes[((block * HashesPerBlock + i - 1) % HashesPerBlock) + 1]])
                         ELSE DataSector(cs[block * HashesPerBlock + pos])
  <2>1. SealedSectors(u, w) = [e \in 1 .. pz - p |-> F(e)]
    BY SealedShape
  <2> HIDE DEF F, k
  <2>2. SealedSectors(u, w)[k] = F(k)
    BY <1>4, <2>1
  <2> QED BY <2>2 DEF F
<1>7. SealedSectors(u, w)[k] = DataSector(cs[j])
  <2> HIDE DEF cs, k, p, x
  <2> QED BY <1>4, <1>5, <1>6
<1>8. cs[j] = SectorOf(t, j)
  OBVIOUS
<1> QED BY <1>4, <1>7, <1>8

\* The hash sector of a block that a sealing write completes.
LEMMA SealedHash ==
    ASSUME NEW u, NEW t, NEW w, Continues(u, t, w), Known(t, w), Len(u) >= SectorUnits,
           NEW b \in Nat, w \div HashesPerBlock <= b, b < (w + (Len(u) \div SectorUnits)) \div HashesPerBlock
    PROVE  LET k == hashSectorPhys(b) - CalcPhysical(w) + 1
           IN  /\ k \in 1 .. CalcPhysical(w + (Len(u) \div SectorUnits)) - CalcPhysical(w)
               /\ SealedSectors(u, w)[k] = HashSector(b, BlockHashes(t, b))
<1> DEFINE z == Len(u) \div SectorUnits  p == CalcPhysical(w)  pz == CalcPhysical(w + z)  x == hashSectorPhys(b)
           k == x - p + 1  cs == [i \in w .. w + z - 1 |-> SectorOf(t, i)]  d == HashesPerBlock + 1
           G(i) == IF b * HashesPerBlock + i - 1 >= w THEN cs[b * HashesPerBlock + i - 1]
                   ELSE hashes[((b * HashesPerBlock + i - 1) % HashesPerBlock) + 1]
<1>1. w \in Nat /\ z \in Nat /\ z >= 1 /\ w + z \in Nat
  <2>1. w \in Nat /\ z \in Nat /\ z >= 1
    BY SealedShape, SealedCount DEF Continues
  <2> HIDE DEF z
  <2> QED BY <2>1
<1>2. p \in Nat /\ x \in Nat /\ pz \in Nat /\ p < x /\ x < pz
  BY <1>1, SectorPlace, HashPlace, HashInOrder
<1>3. k \in 1 .. pz - p /\ p + k - 2 = x - 1
  <2> HIDE DEF p, pz, x
  <2> QED BY <1>2
<1>4. (x - 1) \div d = b /\ (x - 1) % d = HashesPerBlock
  BY HashPlace
<1>5. SealedSectors(u, w)[k] =
         LET q     == p + k - 2
             block == q \div (HashesPerBlock + 1)
             pos   == q % (HashesPerBlock + 1)
         IN  IF pos = HashesPerBlock
             THEN HashSector(block, [i \in 1 .. HashesPerBlock |->
                     IF block * HashesPerBlock + i - 1 >= w THEN cs[block * HashesPerBlock + i - 1]
                     ELSE hashes[((block * HashesPerBlock + i - 1) % HashesPerBlock) + 1]])
             ELSE DataSector(cs[block * HashesPerBlock + pos])
  <2> DEFINE F(e) == LET q     == p + e - 2
                         block == q \div (HashesPerBlock + 1)
                         pos   == q % (HashesPerBlock + 1)
                     IN  IF pos = HashesPerBlock
                         THEN HashSector(block, [i \in 1 .. HashesPerBlock |->
                                 IF block * HashesPerBlock + i - 1 >= w THEN cs[block * HashesPerBlock + i - 1]
                                 ELSE hashes[((block * HashesPerBlock + i - 1) % HashesPerBlock) + 1]])
                         ELSE DataSector(cs[block * HashesPerBlock + pos])
  <2>1. SealedSectors(u, w) = [e \in 1 .. pz - p |-> F(e)]
    BY SealedShape
  <2> HIDE DEF F, k
  <2>2. SealedSectors(u, w)[k] = F(k)
    BY <1>3, <2>1
  <2> QED BY <2>2 DEF F
<1>6. SealedSectors(u, w)[k] = HashSector(b, [i \in 1 .. HashesPerBlock |-> G(i)])
  <2> HIDE DEF cs, k, p, x
  <2> QED BY <1>3, <1>4, <1>5
<1>7. ASSUME NEW i \in 1 .. HashesPerBlock PROVE G(i) = SectorOf(t, b * HashesPerBlock + i - 1)
  <2> DEFINE j == b * HashesPerBlock + i - 1  bh == b * HashesPerBlock
  <2>1. j \in Nat /\ j \div HashesPerBlock = b /\ j % HashesPerBlock = i - 1
    BY InBlock
  <2>2. CASE j >= w
    <3>1. j < w + z
      <4>1. (b + 1) * HashesPerBlock <= w + z
        BY <1>1, Numbers, DivLess
      <4>2. (b + 1) * HashesPerBlock = bh + HashesPerBlock /\ bh \in Nat
        BY Numbers, Multiples
      <4> HIDE DEF bh, z
      <4>3. bh + i - 1 < w + z
        BY <1>1, <4>1, <4>2, Numbers
      <4> QED BY <4>3 DEF bh
    <3>2. j \in w .. w + z - 1
      <4> HIDE DEF j, z
      <4> QED BY <1>1, <2>1, <2>2, <3>1
    <3>3. cs[j] = SectorOf(t, j)
      BY <3>2
    <3> QED BY <2>2, <3>3
  <2>3. CASE ~(j >= w)
    <3>1. j < w /\ w \div HashesPerBlock \in Nat
      <4> HIDE DEF j
      <4>1. j < w
        BY <1>1, <2>1, <2>3
      <4> QED BY <1>1, <4>1, SectorPlace
    <3>2. w \div HashesPerBlock = b
      <4>1. b <= w \div HashesPerBlock
        <5> HIDE DEF j
        <5>1. j <= w
          BY <1>1, <2>1, <3>1
        <5>2. j \div HashesPerBlock <= w \div HashesPerBlock
          BY <1>1, <2>1, <5>1, Numbers, DivOrdered
        <5> QED BY <2>1, <5>2
      <4> DEFINE wb == w \div HashesPerBlock
      <4>2. wb \in Nat /\ b <= wb /\ wb <= b
        BY <3>1, <4>1
      <4> HIDE DEF wb
      <4>3. wb = b
        BY <4>2
      <4> QED BY <4>3 DEF wb
    <3>3. i \in 1 .. w % HashesPerBlock
      <4> DEFINE wm == w % HashesPerBlock
      <4>1. w = bh + wm /\ wm \in Nat /\ bh \in Nat
        BY <1>1, <3>2, SectorPlace, Numbers, Multiples
      <4>2. bh + i - 1 < w
        BY <3>1
      <4> HIDE DEF bh, wm
      <4>3. i \in 1 .. wm
        BY <1>1, <4>1, <4>2, Numbers
      <4> QED BY <4>3 DEF wm
    <3>4. hashes[i] = SectorOf(t, b * HashesPerBlock + i - 1)
      BY <3>2, <3>3 DEF Known
    <3>5. (j % HashesPerBlock) + 1 = i
      BY <2>1
    <3> QED BY <2>3, <3>4, <3>5
  <2> QED BY <2>2, <2>3
<1>8. [i \in 1 .. HashesPerBlock |-> G(i)] = BlockHashes(t, b)
  <2> HIDE DEF G
  <2> QED BY <1>7 DEF BlockHashes
<1> QED BY <1>3, <1>6, <1>8

\* A sealing write emits the sectors up to the next one to be sealed.
LEMMA SealedTypes ==
    ASSUME NEW u, NEW t, NEW w, Continues(u, t, w), Known(t, w), Len(u) >= SectorUnits
    PROVE  /\ SealedSectors(u, w) \in Seq(SectorValues) /\ SealedSectors(u, w) \in Seq(Stored)
           /\ Len(SealedSectors(u, w)) = CalcPhysical(w + (Len(u) \div SectorUnits)) - CalcPhysical(w)
           /\ CalcPhysical(w) < CalcPhysical(w + (Len(u) \div SectorUnits))
<1> DEFINE z == Len(u) \div SectorUnits  p == CalcPhysical(w)  pz == CalcPhysical(w + z)  out == SealedSectors(u, w)
<1>1. w \in Nat /\ z \in Nat /\ z >= 1 /\ t \in Seq(Values)
  BY SealedShape, SealedCount DEF Continues
<1>2. w + z \in Nat /\ w < w + z
  <2> HIDE DEF z
  <2> QED BY <1>1
<1>3. p \in Nat /\ pz \in Nat /\ p >= 1 /\ p < pz
  BY <1>1, <1>2, SectorPlace, SectorsInOrder
<1>4. out = [k \in 1 .. pz - p |-> out[k]]
  <2>1. DOMAIN out = 1 .. pz - p
    BY SealedShape
  <2>2. out = [k \in DOMAIN out |-> out[k]]
    BY SealedShape
  <2> HIDE DEF out
  <2> QED BY <2>1, <2>2
<1>5. ASSUME NEW k \in 1 .. pz - p PROVE out[k] \in SectorValues
  <2> DEFINE x == p + k - 1  q == (x - 1) \div (HashesPerBlock + 1)  c == (x - 1) % (HashesPerBlock + 1)
             j == q * HashesPerBlock + c
  <2>1. x \in Nat /\ x >= 1 /\ p <= x /\ x < pz /\ x - p + 1 = k
    <3> HIDE DEF p, pz
    <3> QED BY <1>3, <1>5
  <2>2. /\ q \in Nat /\ c \in Nat /\ c <= HashesPerBlock
        /\ c = HashesPerBlock => x = hashSectorPhys(q)
        /\ c < HashesPerBlock => x = CalcPhysical(j) /\ j \in Nat
    <3> HIDE DEF x
    <3> QED BY <2>1, Classify
  <2> HIDE DEF x, q, c, j
  <2>3. CASE c = HashesPerBlock
    <3>1. x = hashSectorPhys(q) /\ hashSectorPhys(q) \in Nat
      BY <2>2, <2>3, HashPlace
    <3>2. w \div HashesPerBlock \in Nat /\ (w + z) \div HashesPerBlock \in Nat
      BY <1>1, <1>2, SectorPlace
    <3>3. w \div HashesPerBlock <= q /\ q < (w + z) \div HashesPerBlock
      <4>1. q < w \div HashesPerBlock => hashSectorPhys(q) < p
        BY <1>1, <2>2, HashInOrder
      <4>2. q >= (w + z) \div HashesPerBlock => hashSectorPhys(q) > pz
        BY <1>2, <2>2, HashInOrder
      <4> DEFINE wb == w \div HashesPerBlock  wz == (w + z) \div HashesPerBlock
      <4>3. wb \in Nat /\ wz \in Nat /\ (q < wb => x < p) /\ (q >= wz => x > pz)
        BY <3>1, <3>2, <4>1, <4>2
      <4> HIDE DEF wb, wz, p, pz
      <4>4. wb <= q /\ q < wz
        BY <1>3, <2>1, <2>2, <4>3
      <4> QED BY <4>4 DEF wb, wz
    <3>4. out[k] = HashSector(q, BlockHashes(t, q))
      <4>1. out[hashSectorPhys(q) - p + 1] = HashSector(q, BlockHashes(t, q))
        BY <2>2, <3>3, SealedHash
      <4> QED BY <2>1, <3>1, <4>1
    <3>5. (q + 1) * BlockUnits <= Len(t)
      <4>1. Whole(Len(t)) = w + z /\ Len(t) \in Nat
        BY SealedCount
      <4>2. q < Len(t) \div BlockUnits
        BY <3>3, <4>1, Position
      <4> QED BY <2>2, <4>1, <4>2, WholeFacts
    <3> QED BY <1>1, <2>2, <3>4, <3>5, BlockHashesFacts
  <2>4. CASE c # HashesPerBlock
    <3>1. x = CalcPhysical(j) /\ j \in Nat
      BY <2>2, <2>4, Numbers
    <3>2. w <= j /\ j < w + z
      <4>1. (p <= CalcPhysical(j) <=> w <= j) /\ (CalcPhysical(j) < pz <=> j < w + z)
        BY <1>1, <1>2, <3>1, PlacesOrdered
      <4> QED BY <2>1, <3>1, <4>1
    <3>3. j \in w .. w + z - 1
      <4> HIDE DEF z
      <4> QED BY <1>1, <3>1, <3>2
    <3>4. out[k] = DataSector(SectorOf(t, j))
      <4>1. out[CalcPhysical(j) - p + 1] = DataSector(SectorOf(t, j))
        BY <3>3, SealedData
      <4> QED BY <2>1, <3>1, <4>1
    <3>5. SectorOf(t, j) \in Seq(Units) /\ Len(SectorOf(t, j)) <= SectorUnits
      <4>1. (j + 1) * SectorUnits <= Len(t)
        BY <3>3, SealedSlice
      <4> QED BY <1>1, <3>1, <4>1, SectorOfFacts, Numbers
    <3>6. DataSector(SectorOf(t, j)) \in [kind : {"data"}, units : [1 .. SectorUnits -> Units]]
      BY <3>5, UnitFacts, DataSectorFacts
    <3> QED BY <3>4, <3>6 DEF SectorValues, Sectors
  <2> QED BY <2>3, <2>4
<1>6. out \in [1 .. pz - p -> SectorValues] /\ pz - p \in Nat
  <2>1. pz - p \in Nat
    <3> HIDE DEF p, pz
    <3> QED BY <1>3
  <2> HIDE DEF out
  <2> QED BY <1>4, <1>5, <2>1
<1>7. out \in Seq(SectorValues) /\ Len(out) = pz - p
  <2> DEFINE l == pz - p
  <2> HIDE DEF out, l
  <2>1. out \in [1 .. l -> SectorValues] /\ l \in Nat
    BY <1>6 DEF l
  <2>2. out \in Seq(SectorValues) /\ Len(out) = l
    BY ONLY <2>1, FunctionIsSequence
  <2> QED BY <2>2 DEF l
<1>8. out \in Seq(Stored)
  <2> HIDE DEF out
  <2> QED BY <1>7, SectorValuesStored
<1> QED BY <1>3, <1>7, <1>8

\* The hashes writeLocked keeps are those of the block that is open afterwards.
LEMMA SealedHashes ==
    ASSUME NEW u, NEW t, NEW w, Continues(u, t, w), Known(t, w)
    PROVE  HashesAfter(u, w) = OpenHashes(t)
<1> DEFINE z == Len(u) \div SectorUnits  v == w + z  h == HashesPerBlock  open == (v \div h) * h
           ha == HashesAfter(u, w)  n == Len(t)
<1>1. w \in Nat /\ z \in Nat /\ t \in Seq(Values) /\ Whole(n) = v /\ n \in Nat
  BY SealedCount DEF Continues
<1>2. v \in Nat /\ w <= v
  <2> HIDE DEF z
  <2> QED BY <1>1
<1>3. n \div BlockUnits = v \div h /\ v \div h \in Nat /\ v % h \in Nat /\ v = open + (v % h) /\ open \in Nat
  <2>1. n \div BlockUnits = v \div h
    BY <1>1, Position
  <2> HIDE DEF v
  <2> QED BY <1>2, <2>1, SectorPlace, Numbers, Multiples
<1>4. w + z - open = v % h
  <2> DEFINE m == v % h
  <2>1. w + z = open + m /\ open \in Nat /\ m \in Nat
    BY <1>3
  <2> HIDE DEF z, open, m
  <2>2. w + z - open = m
    BY <1>1, <2>1
  <2> QED BY <2>2 DEF m
<1>5. ha = [k \in 1 .. w + z - open |->
              IF open + k - 1 >= w
              THEN SubSeq(u, (open + k - 1 - w) * SectorUnits + 1, (open + k - w) * SectorUnits)
              ELSE hashes[k]]
  BY DEF HashesAfter
<1>6. ASSUME NEW k \in 1 .. v % h
      PROVE  (IF open + k - 1 >= w
              THEN SubSeq(u, (open + k - 1 - w) * SectorUnits + 1, (open + k - w) * SectorUnits)
              ELSE hashes[k]) = SectorOf(t, open + k - 1)
  <2> DEFINE i == open + k - 1
  <2>1. i \in Nat /\ i < v /\ k \in Nat /\ k >= 1
    <3> DEFINE m == v % h
    <3>1. v = open + m /\ open \in Nat /\ m \in Nat /\ k \in 1 .. m
      BY <1>3, <1>6
    <3> HIDE DEF v, open, m
    <3> QED BY <3>1
  <2>2. CASE i >= w
    <3>1. i \in w .. w + z - 1
      <4>1. i < w + z /\ z \in Nat
        BY <1>1, <2>1
      <4> HIDE DEF i, z
      <4> QED BY <1>1, <2>1, <2>2, <4>1
    <3>2. SubSeq(u, (i - w) * SectorUnits + 1, (i - w + 1) * SectorUnits) = SectorOf(t, i)
      BY <3>1, SealedSlice
    <3>3. open + k - 1 - w = i - w /\ open + k - w = i - w + 1
      <4>1. open \in Nat
        BY <1>3
      <4> HIDE DEF open
      <4> QED BY <1>1, <2>1, <4>1
    <3> HIDE DEF open
    <3> QED BY <2>2, <3>2, <3>3
  <2>3. CASE ~(i >= w)
    <3>1. i < w /\ open <= w /\ w \div h \in Nat
      <4>1. open \in Nat /\ w \div h \in Nat
        BY <1>1, <1>3, SectorPlace
      <4> HIDE DEF open
      <4> QED BY <1>1, <2>1, <2>3, <4>1
    <3>2. v \div h = w \div h
      <4> DEFINE a == v \div h  b == w \div h
      <4>1. b <= a
        <5> HIDE DEF v
        <5> QED BY <1>1, <1>2, Numbers, DivOrdered
      <4>2. a <= b
        <5>1. open \div h = a
          <6>1. a \in Nat /\ h \in Nat \ {0} /\ 0 \in Nat /\ 0 < h
            BY <1>3, Numbers
          <6> HIDE DEF a
          <6>2. (a * h + 0) \div h = a
            BY ONLY <6>1, DivUnique
          <6>3. a * h + 0 = a * h
            BY <6>1, Multiples
          <6> QED BY <6>2, <6>3 DEF a
        <5>2. open \div h <= w \div h
          <6>1. open \in Nat
            BY <1>3
          <6> HIDE DEF open
          <6> QED BY <1>1, <3>1, <6>1, Numbers, DivOrdered
        <5> QED BY <5>1, <5>2
      <4>3. a \in Nat /\ b \in Nat
        BY <1>3, <3>1
      <4> HIDE DEF a, b
      <4>4. a = b
        BY <4>1, <4>2, <4>3
      <4> QED BY <4>4 DEF a, b
    <3>3. k \in 1 .. w % h
      <4> DEFINE m == w % h
      <4>1. w = (w \div h) * h + m /\ m \in Nat
        BY <1>1, SectorPlace
      <4>2. w = open + m /\ open \in Nat
        BY <1>3, <3>2, <4>1
      <4> HIDE DEF open, m
      <4>3. k \in 1 .. m
        BY <2>1, <3>1, <4>1, <4>2
      <4> QED BY <4>3 DEF m
    <3>4. hashes[k] = SectorOf(t, (w \div h) * h + k - 1)
      BY <3>3 DEF Known
    <3>5. (w \div h) * h + k - 1 = i
      BY <3>2
    <3> QED BY <2>3, <3>4, <3>5
  <2> QED BY <2>2, <2>3
<1>7. OpenHashes(t) = [k \in 1 .. v % h |-> SectorOf(t, open + k - 1)]
  BY <1>1, <1>3 DEF OpenHashes
<1>8. ha = [k \in 1 .. v % h |-> SectorOf(t, open + k - 1)]
  <2> DEFINE F(k) == IF open + k - 1 >= w
                     THEN SubSeq(u, (open + k - 1 - w) * SectorUnits + 1, (open + k - w) * SectorUnits)
                     ELSE hashes[k]
             E(k) == SectorOf(t, open + k - 1)
             m == v % h
  <2>1. ha = [k \in 1 .. m |-> F(k)]
    BY <1>4, <1>5
  <2>2. \A k \in 1 .. m : F(k) = E(k)
    BY <1>6
  <2> HIDE DEF F, E, m, ha
  <2>3. ha = [k \in 1 .. m |-> E(k)]
    BY <2>1, <2>2
  <2> QED BY <2>3 DEF E, m
<1> QED BY <1>7, <1>8

\* A step changes the file only from physical sector p on, and the journal covers it.
ProtectedFrom(p) ==
    /\ p \in Nat /\ p <= Len(file) /\ p <= Len(file')
    /\ \A x \in 1 .. p : file'[x] = file[x]
    /\ undoActive' /\ undoStart' <= p

\* A file that is written from sector p on.
LEMMA Written ==
    ASSUME NEW T, NEW f \in Seq(T), NEW out \in Seq(T), DataSector(<<>>) \in T, NEW p \in Nat, p <= Len(f)
    PROVE  LET g == WriteAt(f, p, out)
           IN  /\ g \in Seq(T) /\ Len(g) \in Nat /\ Len(g) >= Len(f) /\ Len(g) >= p + Len(out)
               /\ \A x \in 1 .. p : g[x] = f[x]
               /\ \A k \in 1 .. Len(out) : g[p + k] = out[k]
<1> DEFINE g == WriteAt(f, p, out)
<1>1. g \in Seq(T) /\ Len(g) \in Nat /\ Len(g) >= Len(f) /\ Len(g) >= p + Len(out)
  BY WriteAtFacts
<1>2. \A x \in 1 .. p : g[x] = f[x]
  <2> TAKE x \in 1 .. p
  <2>1. x \in 1 .. Len(f) /\ x <= p
    BY SequenceFacts
  <2> QED BY <2>1, WriteAtOld
<1>3. \A k \in 1 .. Len(out) : g[p + k] = out[k]
  <2> TAKE k \in 1 .. Len(out)
  <2> QED BY WriteAtNew
<1> HIDE DEF g
<1> QED BY <1>1, <1>2, <1>3 DEF g

\* The operands of writeLocked: the units continue the stream after the sealed
\* sectors, and memory holds the open block's hashes.
LEMMA Operands ==
    ASSUME PlogInv, NEW offset \in Nat, NEW data \in Seq(Values), Appendable(offset, data)
    PROVE  LET t == SubSeq(stream, 1, offset) \o data
               u == buf \o Remainder(offset, data)
           IN  Continues(u, t, Whole(logicalLength)) /\ Known(t, Whole(logicalLength))
<1> DEFINE t == SubSeq(stream, 1, offset) \o data  rem == Remainder(offset, data)  u == buf \o rem  n == Len(stream)
           w == Whole(n)  r == n % SectorUnits  k == Len(rem)
<1>1. TypeOK /\ EvidenceInv /\ ~bufCorrupt /\ ~openUnverified
  BY DEF PlogInv, Appendable
<1>2. /\ n \in Nat /\ n = logicalLength /\ t \in Seq(Values) /\ Len(t) \in Nat /\ k \in Nat /\ Len(t) = n + k
      /\ \A i \in 1 .. n : t[i] = stream[i]
  BY Appended
<1>3. u \in Seq(Values) /\ Len(u) = r + k /\ \A j \in 1 .. r + k : u[j] = t[w * SectorUnits + j]
  BY OpenUnits
<1>4. w \in Nat /\ r \in Nat /\ n = w * SectorUnits + r /\ w * SectorUnits \in Nat /\ n \div BlockUnits = w \div HashesPerBlock
  BY <1>2, Position, Numbers, Multiples
<1>5. hashes = OpenHashes(stream) /\ stream \in Seq(Values)
  BY <1>1, <1>2, MemoryTrue, MemoryFacts
<1> HIDE DEF t, u, rem
<1>6. Len(t) = w * SectorUnits + Len(u)
  <2> DEFINE x == w * SectorUnits
  <2> HIDE DEF x, n, r, k
  <2>1. Len(t) = x + (r + k)
    <3>1. Len(t) = n + k /\ n = x + r /\ x \in Nat /\ r \in Nat /\ k \in Nat
      BY <1>2, <1>4 DEF x
    <3> QED BY ONLY <3>1
  <2> QED BY <1>3, <2>1 DEF x
<1>7. Continues(u, t, w)
  BY <1>2, <1>3, <1>4, <1>6 DEF Continues
<1>8. Known(t, w)
  <2>1. /\ Len(hashes) = w % HashesPerBlock
        /\ \A i \in 1 .. w % HashesPerBlock : hashes[i] = SectorOf(stream, (n \div BlockUnits) * HashesPerBlock + i - 1)
    BY <1>5, OpenHashesFacts
  <2>2. \A i \in 1 .. w % HashesPerBlock : SectorOf(t, (n \div BlockUnits) * HashesPerBlock + i - 1)
                                             = SectorOf(stream, (n \div BlockUnits) * HashesPerBlock + i - 1)
    <3> TAKE i \in 1 .. w % HashesPerBlock
    <3> DEFINE j == (n \div BlockUnits) * HashesPerBlock + i - 1
    <3>1. j \in Nat /\ (j + 1) * SectorUnits <= n
      BY <1>2, OpenPlace
    <3> HIDE DEF j
    <3>2. SectorOf(t, j) = SectorOf(stream, j)
      BY <1>2, <3>1, SectorOfSame
    <3> QED BY <3>2 DEF j
  <2> QED BY <1>4, <2>1, <2>2 DEF Known
<1> QED BY <1>2, <1>7, <1>8 DEF t, u, rem

\* The file after a sealing write: everything the longer stream needs.
LEMMA SealedFile ==
    ASSUME TypeOK, CursorInv, EvidenceInv, FileInv, logicalLength = Len(stream),
           NEW u, NEW t, Continues(u, t, Whole(logicalLength)), Known(t, Whole(logicalLength)), Len(u) >= SectorUnits,
           logicalLength <= Len(t), \A k \in 1 .. logicalLength : t[k] = stream[k],
           NEW g, g = WriteAt(file, CalcPhysical(Whole(logicalLength)), SealedSectors(u, Whole(logicalLength)))
    PROVE  /\ Honest(g, t, Len(t)) /\ g[1] = Super /\ Len(g) \in Nat /\ Len(g) >= CalcPhysical(Whole(Len(t)))
           /\ rot = 0 => Faithful(g, t)
<1> DEFINE w == Whole(logicalLength)  z == Len(u) \div SectorUnits  p == CalcPhysical(w)  out == SealedSectors(u, w)
           pz == CalcPhysical(w + z)
<1>1. logicalLength \in Nat /\ w \in Nat /\ t \in Seq(Values) /\ z \in Nat /\ Whole(Len(t)) = w + z /\ Len(t) \in Nat
  BY MemoryFacts, SealedCount DEF Continues
<1>2. file \in Seq(Stored) /\ p <= Len(file) /\ p \in Nat /\ (rot = 0 => file \in Seq(SectorValues))
  <2>1. p \in Nat
    BY <1>1, SectorPlace
  <2> QED BY <2>1 DEF FileInv, CursorInv, Faithful
<1>3. out \in Seq(SectorValues) /\ out \in Seq(Stored) /\ Len(out) = pz - p /\ p < pz
  BY SealedTypes
<1>4. pz \in Nat /\ w + z \in Nat
  <2>1. w + z \in Nat
    <3> HIDE DEF w, z
    <3> QED BY <1>1
  <2> HIDE DEF w, z
  <2> QED BY <2>1, SectorPlace
<1>5. g = WriteAt(file, p, out)
  OBVIOUS
<1>6. DataSector(<<>>) \in Stored /\ DataSector(<<>>) \in SectorValues
  BY FreshSectors
<1> HIDE DEF out, p
<1>7. /\ g \in Seq(Stored) /\ Len(g) \in Nat /\ Len(g) >= Len(file) /\ Len(g) >= p + Len(out)
      /\ \A x \in 1 .. p : g[x] = file[x]
      /\ \A k \in 1 .. Len(out) : g[p + k] = out[k]
  <2>1. LET e == WriteAt(file, p, out)
        IN  /\ e \in Seq(Stored) /\ Len(e) \in Nat /\ Len(e) >= Len(file) /\ Len(e) >= p + Len(out)
            /\ \A x \in 1 .. p : e[x] = file[x]
            /\ \A k \in 1 .. Len(out) : e[p + k] = out[k]
    BY ONLY <1>2, <1>3, <1>6, Written
  <2> QED BY <1>5, <2>1, Zenon
<1>8. rot = 0 => g \in Seq(SectorValues)
  <2> SUFFICES ASSUME rot = 0 PROVE g \in Seq(SectorValues)
    OBVIOUS
  <2>1. file \in Seq(SectorValues) /\ out \in Seq(SectorValues)
    BY <1>2, <1>3
  <2>2. WriteAt(file, p, out) \in Seq(SectorValues)
    BY <1>2, <1>6, <2>1, WriteAtFacts
  <2> QED BY <1>5, <2>2
<1>9. Len(g) >= pz /\ p <= Len(g)
  <2> HIDE DEF pz
  <2>1. Len(out) = pz - p /\ p \in Nat /\ pz \in Nat /\ p < pz
    BY <1>2, <1>3, <1>4
  <2> QED BY <1>7, <2>1
<1>10. /\ g[1] = Super /\ Honest(g, t, logicalLength)
       /\ rot = 0 =>
            /\ \A i \in 0 .. w - 1 : g[CalcPhysical(i) + 1] = DataSector(SectorOf(t, i))
            /\ \A b \in 0 .. (logicalLength \div BlockUnits) - 1 : g[hashSectorPhys(b) + 1] = HashSector(b, BlockHashes(t, b))
  <2>1. CalcPhysical(Whole(logicalLength)) <= Len(g) /\ \A x \in 1 .. CalcPhysical(Whole(logicalLength)) : g[x] = file[x]
    BY <1>7, <1>9 DEF p
  <2> QED BY <1>1, <1>7, <2>1, SealedKept
<1>11. \A j \in w .. w + z - 1 : g[CalcPhysical(j) + 1] = DataSector(SectorOf(t, j))
  <2> TAKE j \in w .. w + z - 1
  <2> DEFINE k == CalcPhysical(j) - CalcPhysical(w) + 1
  <2>1. k \in 1 .. pz - CalcPhysical(w) /\ SealedSectors(u, w)[k] = DataSector(SectorOf(t, j))
    BY SealedData
  <2>2. j \in Nat
    BY SealedSlice
  <2>3. CalcPhysical(j) \in Nat /\ p = CalcPhysical(w)
    BY <2>2, SectorPlace DEF p
  <2>4. p + k = CalcPhysical(j) + 1
    <3> DEFINE y == CalcPhysical(j)
    <3>1. y \in Nat /\ p \in Nat /\ k = y - p + 1
      BY <1>2, <2>3
    <3> HIDE DEF y, k
    <3>2. p + k = y + 1
      BY ONLY <3>1
    <3> QED BY <3>2 DEF y
  <2>5. k \in 1 .. Len(out) /\ out[k] = DataSector(SectorOf(t, j))
    BY <1>3, <2>1, <2>3 DEF out
  <2> HIDE DEF k
  <2> QED BY <1>7, <2>4, <2>5
<1>12. ASSUME NEW b \in Nat, w \div HashesPerBlock <= b, b < (w + z) \div HashesPerBlock
       PROVE  g[hashSectorPhys(b) + 1] = HashSector(b, BlockHashes(t, b))
  <2> DEFINE k == hashSectorPhys(b) - CalcPhysical(w) + 1
  <2>1. k \in 1 .. pz - CalcPhysical(w) /\ SealedSectors(u, w)[k] = HashSector(b, BlockHashes(t, b))
    BY <1>12, SealedHash
  <2>2. hashSectorPhys(b) \in Nat /\ p = CalcPhysical(w)
    BY HashPlace DEF p
  <2>3. p + k = hashSectorPhys(b) + 1
    <3> DEFINE y == hashSectorPhys(b)
    <3>1. y \in Nat /\ p \in Nat /\ k = y - p + 1
      BY <1>2, <2>2
    <3> HIDE DEF y, k
    <3>2. p + k = y + 1
      BY ONLY <3>1
    <3> QED BY <3>2 DEF y
  <2>4. k \in 1 .. Len(out) /\ out[k] = HashSector(b, BlockHashes(t, b))
    BY <1>3, <2>1, <2>2 DEF out
  <2> HIDE DEF k
  <2> QED BY <1>7, <2>3, <2>4
<1>13. logicalLength \div BlockUnits = w \div HashesPerBlock /\ w \div HashesPerBlock \in Nat
       /\ Len(t) \div BlockUnits = (w + z) \div HashesPerBlock /\ (w + z) \div HashesPerBlock \in Nat
  <2>1. logicalLength \div BlockUnits = w \div HashesPerBlock /\ logicalLength \div BlockUnits \in Nat
    BY <1>1, Position
  <2>2. Len(t) \div BlockUnits = Whole(Len(t)) \div HashesPerBlock /\ Len(t) \div BlockUnits \in Nat
    BY <1>1, Position
  <2> HIDE DEF w, z
  <2> QED BY <1>1, <2>1, <2>2
<1>14. Honest(g, t, Len(t))
  <2> SUFFICES ASSUME NEW b \in 0 .. (Len(t) \div BlockUnits) - 1
               PROVE  \/ hashSectorPhys(b) >= Len(g)
                      \/ g[hashSectorPhys(b) + 1] = Rotten
                      \/ (b + 1) * BlockUnits <= Len(t) /\ g[hashSectorPhys(b) + 1] = HashSector(b, BlockHashes(t, b))
    BY DEF Honest
  <2> DEFINE wb == w \div HashesPerBlock  tb == (w + z) \div HashesPerBlock
  <2>1. b \in Nat /\ b < tb /\ b < Len(t) \div BlockUnits
    <3>1. tb \in Nat /\ b \in 0 .. tb - 1 /\ Len(t) \div BlockUnits = tb
      BY <1>13
    <3> HIDE DEF tb
    <3> QED BY <3>1
  <2>2. CASE b < wb
    <3>1. b \in 0 .. (logicalLength \div BlockUnits) - 1
      <4>1. wb \in Nat /\ logicalLength \div BlockUnits = wb
        BY <1>13
      <4> HIDE DEF wb
      <4>2. b \in 0 .. wb - 1
        BY <2>1, <2>2, <4>1
      <4> QED BY <4>1, <4>2
    <3> QED BY <1>10, <3>1 DEF Honest
  <2>3. CASE wb <= b
    <3>1. g[hashSectorPhys(b) + 1] = HashSector(b, BlockHashes(t, b))
      BY <1>12, <2>1, <2>3
    <3>2. (b + 1) * BlockUnits <= Len(t)
      BY <1>1, <2>1, WholeFacts
    <3> QED BY <3>1, <3>2
  <2>4. b < wb \/ wb <= b
    <3>1. wb \in Nat
      BY <1>13
    <3> HIDE DEF wb
    <3> QED BY <2>1, <3>1
  <2> QED BY <2>2, <2>3, <2>4
<1>15. rot = 0 => Faithful(g, t)
  <2> SUFFICES ASSUME rot = 0 PROVE Faithful(g, t)
    OBVIOUS
  <2>1. ASSUME NEW i \in 0 .. Whole(Len(t)) - 1 PROVE g[CalcPhysical(i) + 1] = DataSector(SectorOf(t, i))
    <3>1. i \in 0 .. w - 1 \/ i \in w .. w + z - 1
      <4> HIDE DEF w, z
      <4> QED BY <1>1, <2>1
    <3> QED BY <1>10, <1>11, <3>1
  <2>2. ASSUME NEW b \in 0 .. (Len(t) \div BlockUnits) - 1
        PROVE  g[hashSectorPhys(b) + 1] = HashSector(b, BlockHashes(t, b))
    <3> DEFINE wb == w \div HashesPerBlock  tb == (w + z) \div HashesPerBlock
    <3>1. wb \in Nat /\ tb \in Nat /\ logicalLength \div BlockUnits = wb /\ Len(t) \div BlockUnits = tb /\ b \in 0 .. tb - 1
      BY <1>13, <2>2
    <3> HIDE DEF wb, tb
    <3>2. b \in Nat /\ b < tb /\ (b \in 0 .. wb - 1 \/ wb <= b)
      BY <3>1
    <3>3. CASE b \in 0 .. wb - 1
      BY <1>10, <3>1, <3>3
    <3>4. CASE wb <= b
      BY <1>12, <3>2, <3>4 DEF wb, tb
    <3> QED BY <3>2, <3>3, <3>4
  <2> QED BY <1>8, <2>1, <2>2 DEF Faithful
<1>16. Len(g) >= CalcPhysical(Whole(Len(t)))
  BY <1>1, <1>9
<1> QED BY <1>7, <1>10, <1>14, <1>15, <1>16

\* A sealing append writes behind the sealed sectors, whole or torn.
LEMMA AppendSealingFile ==
    ASSUME PlogInv, NEW offset \in Nat, NEW data \in Seq(Values), AppendSealing(offset, data)
    PROVE  /\ file' \in Seq(Stored) /\ (rot = 0 => file' \in Seq(SectorValues))
           /\ ProtectedFrom(CalcPhysical(Whole(logicalLength))) /\ undoStart' \in Nat
<1> DEFINE w == Whole(logicalLength)  p == CalcPhysical(w)  u == buf \o Remainder(offset, data)  out == SealedSectors(u, w)
           t == SubSeq(stream, 1, offset) \o data
<1>1. TypeOK /\ CursorInv /\ EvidenceInv /\ FileInv /\ Appendable(offset, data) /\ logicalLength = Len(stream)
  <2>1. Appendable(offset, data) /\ phase = "mounted"
    BY DEF AppendSealing, Appendable
  <2> QED BY <2>1, Appended DEF PlogInv
<1>2. logicalLength \in Nat /\ sealed \div SectorUnits = w
  BY <1>1, MemoryFacts
<1>3. Protect(BlockPhysical(logicalLength))
  BY DEF AppendSealing
<1>4. BlockPhysical(logicalLength) \in Nat /\ BlockPhysical(logicalLength) <= p /\ p \in Nat /\ p >= 1
  BY <1>2, BlockPhysicalFacts
<1>5. undoActive' = TRUE /\ undoStart' \in Nat /\ undoStart' <= BlockPhysical(logicalLength)
  BY <1>1, <1>3, <1>4, ProtectFacts
<1>6. undoStart' <= p
  <2> DEFINE b == BlockPhysical(logicalLength)
  <2> HIDE DEF b, p
  <2> QED BY <1>4, <1>5 DEF b
<1>7. out \in Seq(SectorValues) /\ out \in Seq(Stored)
  <2>1. Continues(u, t, w) /\ Known(t, w)
    BY <1>1, Operands
  <2>2. Len(u) >= SectorUnits
    <3>1. Len(buf) + Len(Remainder(offset, data)) >= SectorUnits
      BY DEF AppendSealing
    <3>2. Len(u) = (Len(stream) % SectorUnits) + Len(Remainder(offset, data))
      BY <1>1, OpenUnits
    <3>3. Len(buf) = Len(stream) % SectorUnits
      BY <1>1, MemoryFacts
    <3> QED BY <3>1, <3>2, <3>3
  <2> HIDE DEF u, t, w
  <2> QED BY <2>1, <2>2, SealedTypes
<1>8. PICK o : /\ o \in Seq(SectorValues) /\ o \in Seq(Stored) /\ file' = WriteAt(file, p, o)
  <2>1. \/ file' = WriteAt(file, p, out)
        \/ \E m \in 0 .. Len(out) : file' = WriteAt(file, p, SubSeq(out, 1, m))
    BY <1>2 DEF AppendSealing
  <2> HIDE DEF out, p
  <2>2. \A m \in 0 .. Len(out) : SubSeq(out, 1, m) \in Seq(SectorValues) /\ SubSeq(out, 1, m) \in Seq(Stored)
    <3> TAKE m \in 0 .. Len(out)
    <3>1. m \in Nat /\ m <= Len(out)
      BY <1>7, SequenceFacts
    <3> QED BY <1>7, <3>1, PrefixFacts
  <2> QED BY <1>7, <2>1, <2>2
<1>9. file \in Seq(Stored) /\ p <= Len(file) /\ (rot = 0 => file \in Seq(SectorValues))
  BY <1>1 DEF FileInv, CursorInv, Faithful
<1>10. DataSector(<<>>) \in Stored /\ DataSector(<<>>) \in SectorValues
  BY FreshSectors
<1> HIDE DEF p, out, u
<1>11. file' \in Seq(Stored) /\ Len(file') \in Nat /\ Len(file') >= Len(file) /\ \A x \in 1 .. p : file'[x] = file[x]
  <2>1. LET e == WriteAt(file, p, o)
        IN  /\ e \in Seq(Stored) /\ Len(e) \in Nat /\ Len(e) >= Len(file) /\ Len(e) >= p + Len(o)
            /\ \A x \in 1 .. p : e[x] = file[x]
            /\ \A k \in 1 .. Len(o) : e[p + k] = o[k]
    BY ONLY <1>4, <1>8, <1>9, <1>10, Written
  <2> QED BY <1>8, <2>1, Zenon
<1>12. rot = 0 => file' \in Seq(SectorValues)
  <2> SUFFICES ASSUME rot = 0 PROVE file' \in Seq(SectorValues)
    OBVIOUS
  <2>1. WriteAt(file, p, o) \in Seq(SectorValues)
    BY <1>4, <1>8, <1>9, <1>10, WriteAtFacts
  <2> QED BY <1>8, <2>1
<1>13. p <= Len(file')
  <2>1. Len(file) \in Nat
    BY <1>9, SequenceFacts
  <2> QED BY <1>4, <1>9, <1>11, <2>1
<1>14. ProtectedFrom(p)
  BY <1>4, <1>5, <1>6, <1>9, <1>11, <1>13 DEF ProtectedFrom
<1> QED BY <1>5, <1>11, <1>12, <1>14 DEF p

\* A sealing append keeps the invariant when its write fails part way: the cursor
\* and the evidence are the old ones, and only unsealed sectors differ.
LEMMA TornAppendInv ==
    ASSUME PlogInv, NEW offset \in Nat, NEW data \in Seq(Values), AppendSealing(offset, data), Fault,
           UNCHANGED <<hashes, buf, logicalLength, stream>>
    PROVE  PlogInv'
<1> DEFINE p == CalcPhysical(Whole(logicalLength))
<1>1. /\ TypeOK /\ AcceptInv /\ CursorInv /\ EvidenceInv /\ FileInv /\ UndoInv /\ rot <= MaxRot /\ phase = "mounted"
      /\ logicalLength = Len(stream) /\ logicalLength \in Nat /\ stream \in Seq(Values)
  <2>1. Appendable(offset, data) /\ phase = "mounted"
    BY DEF AppendSealing, Appendable
  <2>2. TypeOK /\ AcceptInv /\ CursorInv /\ EvidenceInv /\ FileInv /\ UndoInv /\ rot <= MaxRot
    BY <2>1 DEF PlogInv
  <2> QED BY <2>1, <2>2, Appended, MemoryFacts
<1>2. /\ UNCHANGED <<accept, phase, bufCorrupt, openUnverified, loadedFromTrailer, acked, recorded, rot>>
      /\ faults' = faults + 1
  BY DEF AppendSealing, Fault
<1>3. /\ file' \in Seq(Stored) /\ (rot = 0 => file' \in Seq(SectorValues)) /\ undoStart' \in Nat
      /\ p \in Nat /\ p <= Len(file') /\ (\A x \in 1 .. p : file'[x] = file[x]) /\ undoActive' /\ undoStart' <= p
  BY AppendSealingFile DEF ProtectedFrom
<1>4. p >= 1 /\ undoActive' = TRUE
  <2>1. p >= 1
    BY <1>1, SectorPlace, Counts
  <2>2. undoActive' = TRUE
    BY DEF AppendSealing, Protect
  <2> QED BY <2>1, <2>2
<1>5. /\ file'[1] = Super /\ Honest(file', stream, logicalLength)
      /\ rot = 0 => Faithful(file', stream)
  <2> DEFINE g == file'
  <2>1. /\ g \in Seq(Stored) /\ CalcPhysical(Whole(logicalLength)) <= Len(g)
        /\ \A x \in 1 .. CalcPhysical(Whole(logicalLength)) : g[x] = file[x]
        /\ logicalLength <= Len(stream) /\ \A k \in 1 .. logicalLength : stream[k] = stream[k]
    BY <1>1, <1>3
  <2> HIDE DEF g
  <2>2. /\ g[1] = Super /\ Honest(g, stream, logicalLength)
        /\ rot = 0 =>
             /\ \A i \in 0 .. Whole(logicalLength) - 1 : g[CalcPhysical(i) + 1] = DataSector(SectorOf(stream, i))
             /\ \A b \in 0 .. (logicalLength \div BlockUnits) - 1 :
                   g[hashSectorPhys(b) + 1] = HashSector(b, BlockHashes(stream, b))
    BY <1>1, <2>1, SealedKept
  <2>3. rot = 0 => g \in Seq(SectorValues)
    BY <1>3 DEF g
  <2>4. rot = 0 => Faithful(g, stream)
    BY <1>1, <2>2, <2>3 DEF Faithful
  <2> QED BY <2>2, <2>4 DEF g
<1>6. TypeOK'
  <2>1. Len(file') >= 1
    <3>1. Len(file') \in Nat
      BY <1>3, SequenceFacts
    <3> HIDE DEF p
    <3> QED BY <1>3, <1>4, <3>1
  <2>2. faults' \in Nat
    BY <1>1, <1>2 DEF TypeOK
  <2> QED BY <1>1, <1>2, <1>3, <1>4, <2>1, <2>2 DEF TypeOK
<1>7. AcceptInv' /\ EvidenceInv'
  <2>1. AcceptInv'
    BY <1>1, <1>2 DEF AcceptInv
  <2>2. EvidenceInv'
    BY <1>1, <1>2 DEF EvidenceInv
  <2> QED BY <2>1, <2>2
<1>8. CursorInv'
  <2>1. Len(file') >= CalcPhysical(Whole(Len(stream)))
    <3>1. Len(file') \in Nat /\ p = CalcPhysical(Whole(Len(stream)))
      BY <1>1, <1>3, SequenceFacts
    <3> HIDE DEF p
    <3> QED BY <1>3, <3>1
  <2> QED BY <1>1, <1>2, <2>1 DEF CursorInv
<1>9. FileInv'
  BY <1>1, <1>2, <1>3, <1>5 DEF FileInv
<1>10. UndoInv'
  BY <1>2, <1>3, <1>4 DEF UndoInv
<1> QED BY <1>1, <1>2, <1>6, <1>7, <1>8, <1>9, <1>10 DEF PlogInv

\* A sealing append keeps the invariant.
LEMMA AppendSealingInv ==
    ASSUME PlogInv, NEW offset \in Nat, NEW data \in Seq(Values), AppendSealing(offset, data)
    PROVE  PlogInv'
<1> DEFINE t == SubSeq(stream, 1, offset) \o data  rem == Remainder(offset, data)  n == Len(stream)  m == Len(t)
           w == Whole(logicalLength)  u == buf \o rem  z == Len(u) \div SectorUnits  p == CalcPhysical(w)
<1>1. TypeOK /\ AcceptInv /\ CursorInv /\ EvidenceInv /\ FileInv /\ UndoInv /\ rot <= MaxRot /\ phase = "mounted"
  BY DEF PlogInv, AppendSealing, Appendable
<1>2. /\ Appendable(offset, data) /\ Len(buf) + Len(rem) >= SectorUnits
      /\ UNCHANGED <<accept, phase, bufCorrupt, openUnverified, loadedFromTrailer, acked, recorded, rot>>
  BY DEF AppendSealing
<1>3. sealed \div SectorUnits = w
  BY <1>1, MemoryFacts
<1>4. \/ /\ file' = WriteAt(file, p, SealedSectors(u, w)) /\ hashes' = HashesAfter(u, w)
         /\ buf' = SubSeq(u, z * SectorUnits + 1, Len(u)) /\ logicalLength' = logicalLength + Len(rem)
         /\ stream' = t /\ UNCHANGED faults
      \/ Fault /\ UNCHANGED <<hashes, buf, logicalLength, stream>>
  BY <1>3 DEF AppendSealing
<1>5. CASE Fault /\ UNCHANGED <<hashes, buf, logicalLength, stream>>
  BY <1>5, TornAppendInv
<1>6. CASE /\ file' = WriteAt(file, p, SealedSectors(u, w)) /\ hashes' = HashesAfter(u, w)
           /\ buf' = SubSeq(u, z * SectorUnits + 1, Len(u)) /\ logicalLength' = logicalLength + Len(rem)
           /\ stream' = t /\ UNCHANGED faults
  <2>1. /\ n \in Nat /\ n = logicalLength /\ t \in Seq(Values) /\ m \in Nat /\ m <= MaxUnits
        /\ Len(rem) \in Nat /\ m = n + Len(rem) /\ n <= m
        /\ \A i \in 1 .. n : t[i] = stream[i]
    <3>1. /\ n \in Nat /\ n = logicalLength /\ t \in Seq(Values) /\ m \in Nat /\ m <= MaxUnits
          /\ Len(rem) \in Nat /\ m = n + Len(rem)
          /\ \A i \in 1 .. n : t[i] = stream[i]
      BY <1>2, Appended
    <3> DEFINE k == Len(rem)
    <3>2. n \in Nat /\ k \in Nat /\ m = n + k
      BY <3>1
    <3> HIDE DEF n, m, k
    <3>3. n <= m
      BY <3>2
    <3> QED BY <3>1, <3>3 DEF n, m
  <2>2. Continues(u, t, w) /\ Known(t, w)
    BY <1>2, Operands
  <2>3. Len(u) >= SectorUnits
    <3>1. Len(u) = (Len(stream) % SectorUnits) + Len(rem)
      BY <1>2, OpenUnits
    <3>2. Len(buf) = Len(stream) % SectorUnits
      BY <1>1, <2>1, MemoryFacts
    <3> QED BY <1>2, <3>1, <3>2
  <2>4. logicalLength' = m /\ stream' = t
    BY <1>6, <2>1
  <2>5. ~bufCorrupt /\ ~openUnverified
    BY <1>2 DEF Appendable
  <2>6. undoActive' = TRUE /\ undoStart' \in Nat /\ undoStart' <= p /\ p \in Nat /\ file' \in Seq(Stored) /\ p >= 1
    <3>1. undoActive' = TRUE
      BY DEF AppendSealing, Protect
    <3>2. p >= 1
      BY <2>1, SectorPlace, Counts
    <3> QED BY <3>1, <3>2, AppendSealingFile DEF ProtectedFrom
  <2> DEFINE g == WriteAt(file, p, SealedSectors(u, w))
  <2> HIDE DEF t, u, rem
  <2>7. /\ Honest(g, t, m) /\ g[1] = Super /\ Len(g) \in Nat /\ Len(g) >= CalcPhysical(Whole(m))
        /\ rot = 0 => Faithful(g, t)
    BY <1>1, <2>1, <2>2, <2>3, SealedFile
  <2>8. file' = g
    BY <1>6
  <2>9. z \in Nat /\ Whole(m) = w + z /\ m % SectorUnits = Len(u) % SectorUnits /\ w \in Nat /\ Len(u) \in Nat
    BY <2>2, SealedCount DEF Continues
  <2>10. hashes' = OpenHashes(t)
    BY <1>6, <2>2, SealedHashes
  <2>11. buf' = Edge(t)
    <3> DEFINE d == SectorUnits  a == z * d  e == Edge(t)  l == Len(u)  r == l % d
    <3>1. l = a + r /\ r \in Nat /\ a \in Nat /\ d \in Nat
      BY <2>9, Numbers, DivMod, Multiples
    <3>2. e \in Seq(Values) /\ Len(e) = r /\ \A j \in 1 .. r : e[j] = t[(w + z) * d + j]
      <4>1. /\ Edge(t) \in Seq(Values) /\ Len(Edge(t)) = m % SectorUnits
            /\ \A j \in 1 .. m % SectorUnits : Edge(t)[j] = t[Whole(m) * SectorUnits + j]
        BY <2>1, EdgeFacts
      <4>2. Whole(m) = w + z /\ m % SectorUnits = r
        BY <2>9
      <4> HIDE DEF w, z, r, m
      <4> QED BY <4>1, <4>2, Zenon
    <3>3. u \in Seq(Values) /\ \A j \in 1 .. l : u[j] = t[w * d + j]
      BY <2>2 DEF Continues
    <3>4. (w + z) * d = w * d + a /\ w * d \in Nat
      <4> HIDE DEF z, w, d
      <4>1. (w + z) * d = w * d + z * d
        BY <2>9, <3>1
      <4> QED BY <2>9, <3>1, <4>1, Multiples
    <3> DEFINE x == w * d  y == (w + z) * d
    <3>5. x \in Nat /\ y = x + a
      BY <3>4
    <3>6. buf' = SubSeq(u, a + 1, l)
      BY <1>6
    <3> HIDE DEF a, e, l, r, x, y, d
    <3>7. a <= l /\ l - a = r /\ l \in Nat
      BY ONLY <3>1
    <3>8. \A j \in 1 .. l - a : e[j] = u[a + j]
      <4> TAKE j \in 1 .. l - a
      <4>1. j \in 1 .. r /\ a + j \in 1 .. l /\ x + (a + j) = y + j
        BY ONLY <3>1, <3>5, <3>7, j \in 1 .. l - a
      <4>2. e[j] = t[y + j]
        BY <3>2, <4>1 DEF y
      <4>3. u[a + j] = t[x + (a + j)]
        BY <3>3, <4>1 DEF x
      <4> QED BY <4>1, <4>2, <4>3
    <3>9. l = Len(u) /\ Len(e) = l - a
      BY <3>2, <3>7 DEF l
    <3>10. SubSeq(u, a + 1, l) = e
      <4>1. u \in Seq(Values) /\ e \in Seq(Values) /\ a \in Nat /\ l \in Nat /\ a <= l /\ l <= Len(u) /\ Len(e) = l - a
        BY <3>1, <3>2, <3>3, <3>7, <3>9
      <4> QED BY ONLY <3>8, <4>1, SliceIs
    <3> QED BY <3>6, <3>10 DEF e
  <2>12. EvidenceInv'
    <3>1. /\ Edge(t) \in Seq(Delivered) /\ Len(Edge(t)) = m % SectorUnits
          /\ \A j \in 1 .. m % SectorUnits : Edge(t)[j] = t[Whole(m) * SectorUnits + j]
      BY <2>1, EdgeFacts
    <3>2. /\ OpenHashes(t) \in Seq(Seq(Units)) /\ Len(OpenHashes(t)) = Whole(m) % HashesPerBlock
          /\ \A k \in 1 .. Whole(m) % HashesPerBlock :
                OpenHashes(t)[k] = SectorOf(t, (m \div BlockUnits) * HashesPerBlock + k - 1)
      BY <2>1, OpenHashesFacts
    <3>3. \A k \in 1 .. Whole(m) % HashesPerBlock : ((m \div BlockUnits) * HashesPerBlock + k - 1 + 1) * SectorUnits <= m
      BY <2>1, OpenPlace
    <3> DEFINE oh == OpenHashes(t)  e == Edge(t)
    <3>4. oh \in Seq(Seq(Units) \cup {Poison}) /\ \A k \in 1 .. Whole(m) % HashesPerBlock : oh[k] # Poison
      <4>1. \A k \in 1 .. Whole(m) % HashesPerBlock : oh[k] \in Seq(Units)
        BY <3>2, SequenceFacts
      <4>2. Poison \notin Seq(Units)
        BY Markers, UnitFacts
      <4>3. oh \in Seq(Seq(Units) \cup {Poison})
        BY <3>2
      <4> QED BY <4>1, <4>2, <4>3
    <3>5. /\ logicalLength' = m /\ stream' = t /\ Len(t) = m /\ buf' = e /\ hashes' = oh
          /\ bufCorrupt' = bufCorrupt /\ openUnverified' = openUnverified
          /\ e \in Seq(Delivered) /\ Len(e) = m % SectorUnits
          /\ Len(oh) = Whole(m) % HashesPerBlock
          /\ \A j \in 1 .. Len(e) : e[j] = t[Whole(m) * SectorUnits + j]
          /\ \A k \in 1 .. Len(oh) : /\ oh[k] # Poison
                                     /\ oh[k] = SectorOf(t, (m \div BlockUnits) * HashesPerBlock + k - 1)
                                     /\ ((m \div BlockUnits) * HashesPerBlock + k - 1 + 1) * SectorUnits <= Len(t)
      BY <1>2, <2>4, <2>10, <2>11, <3>1, <3>2, <3>3, <3>4
    <3> HIDE DEF oh, e, m
    <3> QED BY <3>4, <3>5 DEF EvidenceInv
  <2>13. TypeOK'
    <3>1. Len(buf') < SectorUnits /\ Len(hashes') < HashesPerBlock
      BY <2>1, <2>4, <2>12, EvidenceTypes DEF EvidenceInv
    <3>2. m \in 0 .. MaxUnits + BlockUnits
      <4>1. m \in Nat /\ m <= MaxUnits
        BY <2>1
      <4> HIDE DEF m
      <4> QED BY ONLY <4>1, Numbers
    <3>3. Len(file') >= 1
      <4>1. CalcPhysical(Whole(m)) \in Nat /\ CalcPhysical(Whole(m)) >= 1
        BY <2>1, SectorPlace, Counts
      <4> DEFINE y == CalcPhysical(Whole(m))
      <4>2. Len(file') \in Nat /\ Len(file') >= y /\ y \in Nat /\ y >= 1
        BY <2>7, <2>8, <4>1
      <4> HIDE DEF y
      <4> QED BY ONLY <4>2
    <3> HIDE DEF g, p
    <3> QED BY <1>1, <1>2, <1>6, <2>1, <2>4, <2>6, <3>1, <3>2, <3>3 DEF TypeOK
  <2>14. AcceptInv'
    <3>1. acked \in Nat /\ acked <= n /\ acked <= m
      <4>1. acked \in Nat /\ acked <= n
        BY <1>1 DEF AcceptInv, TypeOK
      <4> HIDE DEF n, m
      <4> QED BY <2>1, <4>1
    <3>2. \A i \in 1 .. acked : t[i] = stream[i]
      BY <2>1, <3>1
    <3> QED BY <1>1, <1>2, <2>4, <3>1, <3>2 DEF AcceptInv
  <2>15. CursorInv'
    <3> HIDE DEF g
    <3>1. logicalLength' = Len(stream') /\ Len(stream') <= MaxUnits /\ Len(file') >= CalcPhysical(Whole(Len(stream')))
      BY <2>1, <2>4, <2>7, <2>8
    <3> QED BY <1>1, <1>2, <3>1 DEF CursorInv
  <2>16. FileInv'
    <3> HIDE DEF g
    <3> QED BY <1>1, <1>2, <2>4, <2>5, <2>6, <2>7, <2>8 DEF FileInv
  <2>17. UndoInv'
    <3>1. CalcPhysical(Whole(m)) \in Nat /\ p <= CalcPhysical(Whole(m))
      <4>1. w <= w + z /\ w + z \in Nat
        <5> HIDE DEF w, z
        <5> QED BY <2>9
      <4>2. p <= CalcPhysical(w + z) /\ CalcPhysical(w + z) \in Nat
        BY <2>9, <4>1, PlacesOrdered
      <4> QED BY <2>9, <4>2
    <3> DEFINE y == CalcPhysical(Whole(m))
    <3>2. undoStart' <= y
      <4>1. y \in Nat /\ p \in Nat /\ p <= y /\ undoStart' \in Nat /\ undoStart' <= p
        BY <2>6, <3>1
      <4> HIDE DEF y, p
      <4> QED BY ONLY <4>1
    <3> QED BY <2>4, <2>6, <3>2 DEF UndoInv
  <2> QED BY <1>1, <1>2, <2>12, <2>13, <2>14, <2>15, <2>16, <2>17 DEF PlogInv
<1> QED BY <1>4, <1>5, <1>6

-----------------------------------------------------------------------------
(* The invariant is kept: Commit.                                          *)

\* The trailer is written exactly when the last block is not complete.
LEMMA TrailerNeeded ==
    ASSUME TypeOK, EvidenceInv
    PROVE  /\ wroteTrailer <=> logicalLength % BlockUnits # 0
           /\ Len(buf) > 0 <=> logicalLength % SectorUnits # 0
<1> DEFINE c == Whole(logicalLength) % HashesPerBlock  r == logicalLength % SectorUnits
<1>1. logicalLength \in Nat /\ Len(buf) = r /\ Len(hashes) = c /\ r \in Nat /\ c \in Nat
  BY MemoryFacts, EvidenceTypes
<1>2. logicalLength % BlockUnits = 0 <=> c = 0 /\ r = 0
  BY <1>1, Position
<1>3. wroteTrailer <=> c > 0 \/ r > 0
  BY <1>1 DEF wroteTrailer
<1> HIDE DEF c, r
<1>4. (c > 0 \/ r > 0 <=> ~(c = 0 /\ r = 0)) /\ (r > 0 <=> r # 0)
  BY <1>1
<1> QED BY <1>1, <1>2, <1>3, <1>4 DEF r

\* The file after each write of a Commit, in sectors of some set T.
LEMMA CommitFiles ==
    ASSUME PlogInv, phase = "mounted", ~bufCorrupt, ~openUnverified,
           NEW T, SectorValues \subseteq T, file \in Seq(T)
    PROVE  LET n == logicalLength
               p == CalcPhysical(Whole(n))
           IN  /\ p \in Nat /\ p <= Len(file)
               /\ \A k \in 1 .. 3 : /\ CommitWrites[k] \in Seq(T) /\ p <= Len(CommitWrites[k])
                                    /\ \A x \in 1 .. p : CommitWrites[k][x] = file[x]
               /\ Len(CommitWrites[3]) = p + (IF n % BlockUnits = 0 THEN 0 ELSE 2)
               /\ n % BlockUnits # 0 => CommitWrites[3][p + 2] = TrailerOf(stream)
               /\ n % SectorUnits # 0 => CommitWrites[3][p + 1] = DataSector(Edge(stream))
               /\ n % BlockUnits = 0 => CommitWrites[1] = file /\ CommitWrites[2] = file
<1> DEFINE n == logicalLength  p == CalcPhysical(Whole(n))  first == CalcPhysical(sealed \div SectorUnits)
           edge == <<DataSector(buf)>>  last == <<Trailer(sealed \div BlockUnits, hashes, buf)>>
           f1 == IF Len(buf) > 0 THEN WriteAt(file, first, edge) ELSE file
           f2 == IF wroteTrailer THEN WriteAt(f1, first + 1, last) ELSE f1
           f3 == TruncateFile(f2, IF wroteTrailer THEN first + 2 ELSE CalcPhysical(n \div SectorUnits))
<1>1. TypeOK /\ CursorInv /\ EvidenceInv /\ FileInv /\ n = Len(stream) /\ stream \in Seq(Values) /\ n \in Nat
  <2>1. TypeOK /\ CursorInv /\ EvidenceInv /\ FileInv
    BY DEF PlogInv
  <2> QED BY <2>1, MemoryFacts DEF CursorInv
<1>2. hashes = OpenHashes(stream) /\ buf = Edge(stream)
  BY <1>1, MemoryTrue
<1>3. first = p /\ sealed \div BlockUnits = n \div BlockUnits /\ CalcPhysical(n \div SectorUnits) = p
  BY <1>1, MemoryFacts DEF Whole
<1>4. p \in Nat /\ p >= 1 /\ p <= Len(file) /\ Len(file) \in Nat
  <2>1. p \in Nat /\ p >= 1
    BY <1>1, SectorPlace, Counts
  <2> QED BY <1>1, <2>1, SequenceFacts DEF CursorInv
<1>5. CommitWrites = <<f1, f2, f3>>
  BY DEF CommitWrites
<1>6. last = <<TrailerOf(stream)>> /\ edge = <<DataSector(Edge(stream))>>
  BY <1>1, <1>2, <1>3 DEF TrailerOf
<1>7. TrailerOf(stream) \in T /\ DataSector(Edge(stream)) \in T /\ DataSector(<<>>) \in T
  <2>1. TrailerOf(stream) \in SectorValues /\ DataSector(<<>>) \in SectorValues
    BY <1>1, TrailerFacts, FreshSectors
  <2>2. Edge(stream) \in Seq(Units) /\ Len(Edge(stream)) <= SectorUnits
    <3>1. Edge(stream) \in Seq(Units) /\ Len(Edge(stream)) = n % SectorUnits /\ n % SectorUnits < SectorUnits /\ n % SectorUnits \in Nat
      BY <1>1, EdgeFacts, Position
    <3> QED BY <3>1, Numbers
  <2>3. DataSector(Edge(stream)) \in [kind : {"data"}, units : [1 .. SectorUnits -> Units]]
    BY <2>2, UnitFacts, DataSectorFacts
  <2>4. DataSector(Edge(stream)) \in SectorValues
    BY <2>3 DEF SectorValues, Sectors
  <2> QED BY <2>1, <2>4
<1>8. edge \in Seq(T) /\ last \in Seq(T) /\ Len(edge) = 1 /\ Len(last) = 1 /\ edge[1] = DataSector(Edge(stream))
      /\ last[1] = TrailerOf(stream)
  <2> DEFINE e == DataSector(Edge(stream))  l == TrailerOf(stream)
  <2>1. e \in T /\ l \in T /\ edge = <<e>> /\ last = <<l>>
    BY <1>6, <1>7
  <2> HIDE DEF e, l, edge, last
  <2>2. edge \in Seq(T) /\ last \in Seq(T) /\ Len(edge) = 1 /\ Len(last) = 1 /\ edge[1] = e /\ last[1] = l
    BY <2>1
  <2> QED BY <2>2 DEF e, l
<1>9. (wroteTrailer <=> n % BlockUnits # 0) /\ (Len(buf) > 0 <=> n % SectorUnits # 0)
      /\ (n % SectorUnits # 0 => n % BlockUnits # 0)
  BY <1>1, TrailerNeeded, Position
<1> HIDE DEF edge, last, p, first
<1>10. /\ f1 \in Seq(T) /\ Len(f1) \in Nat /\ p <= Len(f1) /\ (\A x \in 1 .. p : f1[x] = file[x])
       /\ n % SectorUnits # 0 => Len(f1) >= p + 1 /\ f1[p + 1] = DataSector(Edge(stream))
       /\ n % SectorUnits = 0 => f1 = file
  <2>1. CASE n % SectorUnits = 0
    <3>1. f1 = file
      BY <1>9, <2>1
    <3> HIDE DEF f1
    <3> QED BY <1>4, <2>1, <3>1
  <2>2. CASE n % SectorUnits # 0
    <3>1. f1 = WriteAt(file, p, edge)
      BY <1>3, <1>9, <2>2
    <3>2. /\ WriteAt(file, p, edge) \in Seq(T) /\ Len(WriteAt(file, p, edge)) \in Nat
          /\ Len(WriteAt(file, p, edge)) >= Len(file) /\ Len(WriteAt(file, p, edge)) >= p + Len(edge)
      BY <1>4, <1>7, <1>8, WriteAtFacts
    <3>6. \A i \in 1 .. Len(file) : i <= p => WriteAt(file, p, edge)[i] = file[i]
      BY <1>4, <1>7, <1>8, WriteAtOld
    <3>7. \A k \in 1 .. Len(edge) : WriteAt(file, p, edge)[p + k] = edge[k]
      <4>1. DataSector(<<>>) \in T /\ file \in Seq(T) /\ edge \in Seq(T) /\ p \in Nat
        BY <1>4, <1>7, <1>8
      <4> QED BY ONLY <4>1, WriteAtAll
    <3>8. \A x \in 1 .. p : WriteAt(file, p, edge)[x] = file[x]
      <4> TAKE x \in 1 .. p
      <4>1. x \in 1 .. Len(file) /\ x <= p
        BY <1>4
      <4> QED BY <3>6, <4>1
    <3>3. /\ f1 \in Seq(T) /\ Len(f1) \in Nat /\ Len(f1) >= Len(file) /\ Len(f1) >= p + 1
          /\ \A x \in 1 .. p : f1[x] = file[x]
          /\ \A k \in 1 .. 1 : f1[p + k] = edge[k]
      BY <1>8, <3>1, <3>2, <3>7, <3>8, Zenon
    <3> HIDE DEF f1
    <3>4. f1[p + 1] = DataSector(Edge(stream))
      <4>1. 1 \in 1 .. 1
        OBVIOUS
      <4> QED BY <1>8, <3>3, <4>1
    <3>5. p <= Len(f1)
      BY <1>4, <3>3
    <3> QED BY <2>2, <3>3, <3>4, <3>5
  <2> QED BY <2>1, <2>2
<1> HIDE DEF f1
<1>11. /\ f2 \in Seq(T) /\ Len(f2) \in Nat /\ p <= Len(f2) /\ (\A x \in 1 .. p : f2[x] = file[x])
       /\ n % SectorUnits # 0 => f2[p + 1] = DataSector(Edge(stream))
       /\ n % BlockUnits # 0 => Len(f2) >= p + 2 /\ f2[p + 2] = TrailerOf(stream)
       /\ n % BlockUnits = 0 => f2 = file
  <2>1. CASE n % BlockUnits = 0
    <3>1. f2 = f1 /\ n % SectorUnits = 0
      BY <1>9, <2>1
    <3> HIDE DEF f2
    <3> QED BY <1>10, <2>1, <3>1
  <2>2. CASE n % BlockUnits # 0
    <3> DEFINE q == p + 1
    <3>1. f2 = WriteAt(f1, q, last) /\ q \in Nat
      BY <1>3, <1>4, <1>9, <2>2
    <3> HIDE DEF f2
    <3>2. /\ WriteAt(f1, q, last) \in Seq(T) /\ Len(WriteAt(f1, q, last)) \in Nat
          /\ Len(WriteAt(f1, q, last)) >= Len(f1) /\ Len(WriteAt(f1, q, last)) >= q + Len(last)
      BY <1>7, <1>8, <1>10, <3>1, WriteAtFacts
    <3>3. \A i \in 1 .. Len(f1) : i <= q => WriteAt(f1, q, last)[i] = f1[i]
      BY <1>7, <1>8, <1>10, <3>1, WriteAtOld
    <3>4. WriteAt(f1, q, last)[q + 1] = last[1]
      <4>1. \A k \in 1 .. Len(last) : WriteAt(f1, q, last)[q + k] = last[k]
        <5>1. DataSector(<<>>) \in T /\ f1 \in Seq(T) /\ last \in Seq(T) /\ q \in Nat
          BY <1>7, <1>8, <1>10, <3>1
        <5> HIDE DEF q
        <5> QED BY ONLY <5>1, WriteAtAll
      <4>2. 1 \in 1 .. Len(last)
        BY <1>8
      <4> QED BY <4>1, <4>2
    <3>5. f2 \in Seq(T) /\ Len(f2) \in Nat /\ Len(f2) >= Len(f1) /\ Len(f2) >= q + 1 /\ f2[q + 1] = TrailerOf(stream)
          /\ \A i \in 1 .. Len(f1) : i <= q => f2[i] = f1[i]
      BY <1>8, <3>1, <3>2, <3>3, <3>4, Zenon
    <3>6. q + 1 = p + 2 /\ p <= Len(f2)
      BY <1>4, <3>5
    <3>7. \A x \in 1 .. p : f2[x] = file[x]
      <4> TAKE x \in 1 .. p
      <4>1. x \in 1 .. Len(f1) /\ x <= q
        BY <1>4, <1>10
      <4> QED BY <1>10, <3>5, <4>1
    <3>8. n % SectorUnits # 0 => f2[p + 1] = DataSector(Edge(stream))
      <4> SUFFICES ASSUME n % SectorUnits # 0 PROVE f2[p + 1] = DataSector(Edge(stream))
        OBVIOUS
      <4>1. q \in 1 .. Len(f1) /\ q <= q
        BY <1>4, <1>10
      <4> QED BY <1>10, <3>5, <4>1
    <3>9. Len(f2) >= p + 2 /\ f2[p + 2] = TrailerOf(stream)
      BY <3>5, <3>6
    <3> QED BY <2>2, <3>5, <3>6, <3>7, <3>8, <3>9
  <2> QED BY <2>1, <2>2
<1> HIDE DEF f2
<1> DEFINE e == IF n % BlockUnits = 0 THEN p ELSE p + 2
<1>12. f3 = TruncateFile(f2, e) /\ e \in Nat /\ e <= Len(f2) /\ p <= e
  BY <1>3, <1>4, <1>9, <1>11
<1>13. f3 \in Seq(T) /\ Len(f3) = e /\ \A i \in 1 .. e : f3[i] = f2[i]
  <2> HIDE DEF f3, e
  <2>1. TruncateFile(f2, e) \in Seq(T) /\ Len(TruncateFile(f2, e)) = e /\ \A i \in 1 .. e : TruncateFile(f2, e)[i] = f2[i]
    BY <1>7, <1>11, <1>12, TruncateFacts
  <2> QED BY <1>12, <2>1
<1> HIDE DEF f3
<1>14. /\ p <= Len(f3) /\ (\A x \in 1 .. p : f3[x] = file[x]) /\ Len(f3) = p + (IF n % BlockUnits = 0 THEN 0 ELSE 2)
       /\ n % BlockUnits # 0 => f3[p + 2] = TrailerOf(stream)
       /\ n % SectorUnits # 0 => f3[p + 1] = DataSector(Edge(stream))
  <2>1. Len(f3) = p + (IF n % BlockUnits = 0 THEN 0 ELSE 2) /\ p <= Len(f3)
    BY <1>4, <1>12, <1>13
  <2>2. \A x \in 1 .. p : f3[x] = file[x]
    <3> TAKE x \in 1 .. p
    <3>1. x \in 1 .. e
      BY <1>4, <1>12
    <3> QED BY <1>11, <1>13, <3>1
  <2>3. n % BlockUnits # 0 => p + 2 \in 1 .. e /\ p + 1 \in 1 .. e
    BY <1>4
  <2> HIDE DEF e
  <2> QED BY <1>9, <1>11, <1>13, <2>1, <2>2, <2>3
<1>15. CommitWrites[1] = f1 /\ CommitWrites[2] = f2 /\ CommitWrites[3] = f3
  BY <1>5
<1>16. \A k \in 1 .. 3 : /\ CommitWrites[k] \in Seq(T) /\ p <= Len(CommitWrites[k])
                          /\ \A x \in 1 .. p : CommitWrites[k][x] = file[x]
  <2> TAKE k \in 1 .. 3
  <2>1. CASE k = 1
    BY <1>10, <1>15, <2>1
  <2>2. CASE k = 2
    BY <1>11, <1>15, <2>2
  <2>3. CASE k = 3
    BY <1>13, <1>14, <1>15, <2>3
  <2> QED BY <2>1, <2>2, <2>3
<1>17. n % BlockUnits = 0 => f1 = file
  BY <1>9, <1>10
<1> QED BY <1>4, <1>11, <1>14, <1>15, <1>16, <1>17 DEF p

\* Commit writes behind the sealed sectors, under the journal's protection unless
\* the file already ends there, and leaves the committed image when no write fails.
LEMMA CommitPrepareFile ==
    ASSUME PlogInv, CommitPrepare
    PROVE  LET n == logicalLength
               p == CalcPhysical(Whole(n))
           IN  /\ file' \in Seq(Stored) /\ (rot = 0 => file' \in Seq(SectorValues))
               /\ undoStart' \in Nat /\ undoActive' \in BOOLEAN
               /\ p \in Nat /\ p >= 1 /\ p <= Len(file) /\ p <= Len(file') /\ \A x \in 1 .. p : file'[x] = file[x]
               /\ n % BlockUnits # 0 => undoActive' = TRUE /\ undoStart' <= p
               /\ n % BlockUnits = 0 => UNCHANGED undoVars /\ (file' = file \/ Len(file') = p)
               /\ \/ phase' = "mounted"
                  \/ /\ phase' = "committing"
                     /\ Len(file') = p + (IF n % BlockUnits = 0 THEN 0 ELSE 2)
                     /\ n % BlockUnits # 0 => file'[p + 2] = TrailerOf(stream)
                     /\ n % SectorUnits # 0 => file'[p + 1] = DataSector(Edge(stream))
<1> DEFINE n == logicalLength  p == CalcPhysical(Whole(n))
<1>1. TypeOK /\ CursorInv /\ EvidenceInv /\ FileInv /\ phase = "mounted" /\ ~bufCorrupt /\ ~openUnverified /\ n \in Nat
  <2>1. phase = "mounted" /\ ~bufCorrupt /\ ~openUnverified
    BY DEF CommitPrepare
  <2>2. TypeOK /\ CursorInv /\ EvidenceInv /\ FileInv
    BY <2>1 DEF PlogInv
  <2> QED BY <2>1, <2>2, MemoryFacts
<1>2. \/ file' = CommitWrites[3] /\ phase' = "committing"
      \/ (file' = CommitWrites[1] \/ file' = CommitWrites[2]) /\ phase' = "mounted"
  <2>1. \/ file' = CommitWrites[3] /\ phase' = "committing"
        \/ (\E k \in 1 .. 2 : file' = CommitWrites[k]) /\ phase' = "mounted"
    BY <1>1 DEF CommitPrepare
  <2>2. \A k \in 1 .. 2 : k = 1 \/ k = 2
    OBVIOUS
  <2> QED BY <2>1, <2>2, Zenon
<1>3. p \in Nat /\ p >= 1
  BY <1>1, SectorPlace, Counts
<1>4. /\ p <= Len(file)
      /\ \A k \in 1 .. 3 : /\ CommitWrites[k] \in Seq(Stored) /\ p <= Len(CommitWrites[k])
                           /\ \A x \in 1 .. p : CommitWrites[k][x] = file[x]
      /\ Len(CommitWrites[3]) = p + (IF n % BlockUnits = 0 THEN 0 ELSE 2)
      /\ n % BlockUnits # 0 => CommitWrites[3][p + 2] = TrailerOf(stream)
      /\ n % SectorUnits # 0 => CommitWrites[3][p + 1] = DataSector(Edge(stream))
      /\ n % BlockUnits = 0 => CommitWrites[1] = file /\ CommitWrites[2] = file
  <2>1. SectorValues \subseteq Stored /\ file \in Seq(Stored)
    BY <1>1, SectorValuesStored DEF FileInv
  <2> QED BY <1>1, <2>1, CommitFiles
<1>5. rot = 0 => \A k \in 1 .. 3 : CommitWrites[k] \in Seq(SectorValues)
  <2> SUFFICES ASSUME rot = 0 PROVE \A k \in 1 .. 3 : CommitWrites[k] \in Seq(SectorValues)
    OBVIOUS
  <2>1. SectorValues \subseteq SectorValues /\ file \in Seq(SectorValues)
    BY <1>1 DEF FileInv, Faithful
  <2> QED BY <1>1, <2>1, CommitFiles
<1>6. PICK k \in 1 .. 3 : file' = CommitWrites[k] /\ ((phase' = "committing" /\ k = 3) \/ (phase' = "mounted" /\ k # 3))
  <2>1. 1 \in 1 .. 3 /\ 2 \in 1 .. 3 /\ 3 \in 1 .. 3 /\ 1 # 3 /\ 2 # 3
    OBVIOUS
  <2> QED BY <1>2, <2>1, Zenon
<1>7. k = 1 \/ k = 2 \/ k = 3
  OBVIOUS
<1>8. /\ n % BlockUnits # 0 => undoActive' = TRUE /\ undoStart' <= p /\ undoStart' \in Nat
      /\ n % BlockUnits = 0 => UNCHANGED undoVars
  <2>1. wroteTrailer <=> n % BlockUnits # 0
    BY <1>1, TrailerNeeded
  <2>2. IF wroteTrailer THEN Protect(BlockPhysical(sealed)) ELSE UNCHANGED undoVars
    BY DEF CommitPrepare
  <2>3. CASE n % BlockUnits = 0
    BY <2>1, <2>2, <2>3
  <2>4. CASE n % BlockUnits # 0
    <3> DEFINE b == BlockPhysical(n)
    <3>1. BlockPhysical(sealed) = b /\ b \in Nat /\ b <= p
      BY <1>1, MemoryFacts, BlockPhysicalFacts
    <3>2. Protect(b)
      BY <2>1, <2>2, <2>4, <3>1
    <3> HIDE DEF b, p
    <3>3. undoActive' = TRUE /\ undoStart' \in Nat /\ undoStart' <= b
      BY <1>1, <3>1, <3>2, ProtectFacts
    <3>4. undoStart' <= p
      BY <1>3, <3>1, <3>3
    <3> QED BY <2>4, <3>3, <3>4
  <2> QED BY <2>3, <2>4
<1>9. undoStart' \in Nat /\ undoActive' \in BOOLEAN
  <2>1. CASE n % BlockUnits = 0
    BY <1>1, <1>8, <2>1 DEF TypeOK, undoVars
  <2>2. CASE n % BlockUnits # 0
    BY <1>8, <2>2
  <2> QED BY <2>1, <2>2
<1> HIDE DEF p
<1>10. /\ file' \in Seq(Stored) /\ (rot = 0 => file' \in Seq(SectorValues))
       /\ p <= Len(file') /\ \A x \in 1 .. p : file'[x] = file[x]
  BY <1>4, <1>5, <1>6, Zenon
<1>11. n % BlockUnits = 0 => file' = file \/ Len(file') = p
  <2> SUFFICES ASSUME n % BlockUnits = 0 PROVE file' = file \/ Len(file') = p
    OBVIOUS
  <2>1. Len(CommitWrites[3]) = p
    BY <1>3, <1>4
  <2> QED BY <1>4, <1>6, <1>7, <2>1, Zenon
<1>12. \/ phase' = "mounted"
       \/ /\ phase' = "committing"
          /\ Len(file') = p + (IF n % BlockUnits = 0 THEN 0 ELSE 2)
          /\ n % BlockUnits # 0 => file'[p + 2] = TrailerOf(stream)
          /\ n % SectorUnits # 0 => file'[p + 1] = DataSector(Edge(stream))
  BY <1>4, <1>6, Zenon
<1> QED BY <1>3, <1>4, <1>8, <1>9, <1>10, <1>11, <1>12 DEF p

\* Commit keeps the invariant up to its fsync.
LEMMA CommitPrepareInv ==
    ASSUME PlogInv, CommitPrepare
    PROVE  PlogInv'
<1> DEFINE n == logicalLength  p == CalcPhysical(Whole(n))
<1>1. /\ TypeOK /\ AcceptInv /\ CursorInv /\ EvidenceInv /\ FileInv /\ UndoInv /\ rot <= MaxRot /\ phase = "mounted"
      /\ n = Len(stream) /\ n \in Nat /\ stream \in Seq(Values) /\ ~bufCorrupt /\ ~openUnverified
  <2>1. phase = "mounted" /\ ~bufCorrupt /\ ~openUnverified
    BY DEF CommitPrepare
  <2>2. TypeOK /\ AcceptInv /\ CursorInv /\ EvidenceInv /\ FileInv /\ UndoInv /\ rot <= MaxRot
    BY <2>1 DEF PlogInv
  <2> QED BY <2>1, <2>2, MemoryFacts DEF CursorInv
<1>2. /\ UNCHANGED <<accept, plogVars, stream, acked, recorded, rot>> /\ faults' \in Nat
      /\ phase' \in {"mounted", "committing"}
  <2>1. faults' = faults \/ faults' = faults + 1
    BY DEF CommitPrepare, Fault
  <2>2. faults' \in Nat
    BY <1>1, <2>1 DEF TypeOK
  <2> QED BY <1>1, <2>2 DEF CommitPrepare
<1>3. /\ file' \in Seq(Stored) /\ (rot = 0 => file' \in Seq(SectorValues))
      /\ undoStart' \in Nat /\ undoActive' \in BOOLEAN
      /\ p \in Nat /\ p >= 1 /\ p <= Len(file) /\ p <= Len(file') /\ \A x \in 1 .. p : file'[x] = file[x]
      /\ n % BlockUnits # 0 => undoActive' = TRUE /\ undoStart' <= p
      /\ n % BlockUnits = 0 => UNCHANGED undoVars /\ (file' = file \/ Len(file') = p)
      /\ \/ phase' = "mounted"
         \/ /\ phase' = "committing"
            /\ Len(file') = p + (IF n % BlockUnits = 0 THEN 0 ELSE 2)
            /\ n % BlockUnits # 0 => file'[p + 2] = TrailerOf(stream)
            /\ n % SectorUnits # 0 => file'[p + 1] = DataSector(Edge(stream))
  BY CommitPrepareFile
<1>4. /\ file'[1] = Super /\ Honest(file', stream, n)
      /\ rot = 0 => Faithful(file', stream)
  <2> DEFINE g == file'
  <2>1. /\ g \in Seq(Stored) /\ CalcPhysical(Whole(logicalLength)) <= Len(g)
        /\ \A x \in 1 .. CalcPhysical(Whole(logicalLength)) : g[x] = file[x]
        /\ logicalLength <= Len(stream) /\ \A k \in 1 .. logicalLength : stream[k] = stream[k]
    BY <1>1, <1>3
  <2> HIDE DEF g
  <2>2. /\ g[1] = Super /\ Honest(g, stream, logicalLength)
        /\ rot = 0 =>
             /\ \A i \in 0 .. Whole(logicalLength) - 1 : g[CalcPhysical(i) + 1] = DataSector(SectorOf(stream, i))
             /\ \A b \in 0 .. (logicalLength \div BlockUnits) - 1 :
                   g[hashSectorPhys(b) + 1] = HashSector(b, BlockHashes(stream, b))
    BY <1>1, <2>1, SealedKept
  <2>3. rot = 0 => g \in Seq(SectorValues)
    BY <1>3 DEF g
  <2>4. rot = 0 => Faithful(g, stream)
    BY <1>1, <2>2, <2>3 DEF Faithful
  <2> QED BY <2>2, <2>4 DEF g
<1>5. Len(file') \in Nat
  BY <1>3, SequenceFacts
<1>6. phase' = "committing" => ImageInv(file', stream, rot)
  <2> SUFFICES ASSUME phase' = "committing" PROVE ImageInv(file', stream, rot)
    OBVIOUS
  <2>1. /\ Len(file') = p + (IF n % BlockUnits = 0 THEN 0 ELSE 2)
        /\ n % BlockUnits # 0 => file'[p + 2] = TrailerOf(stream)
        /\ n % SectorUnits # 0 => file'[p + 1] = DataSector(Edge(stream))
    BY <1>3
  <2>2. n % BlockUnits # 0 => LastOf(file') = TrailerOf(stream)
    <3>1. n % BlockUnits # 0 => Len(file') = p + 2
      BY <2>1
    <3> HIDE DEF p
    <3> QED BY <2>1, <3>1 DEF LastOf
  <2>3. n <= MaxUnits
    BY <1>1 DEF CursorInv
  <2>4. /\ Len(stream) <= MaxUnits
        /\ Len(file') = CalcPhysical(Whole(Len(stream))) + (IF Len(stream) % BlockUnits = 0 THEN 0 ELSE 2)
        /\ Honest(file', stream, Len(stream))
        /\ Len(stream) % BlockUnits # 0 => LastOf(file') = TrailerOf(stream)
        /\ Len(stream) % SectorUnits # 0 => file'[CalcPhysical(Whole(Len(stream))) + 1] = DataSector(Edge(stream))
    <3>1. Len(stream) = n /\ CalcPhysical(Whole(n)) = p
      BY <1>1
    <3> HIDE DEF p, n
    <3> QED BY <1>4, <2>1, <2>2, <2>3, <3>1, Zenon
  <2> DEFINE g == file'
  <2>5. g \in Seq(Stored) /\ g[1] = Super /\ (rot = 0 => Faithful(g, stream))
    BY <1>3, <1>4
  <2>6. /\ Len(stream) <= MaxUnits
        /\ Len(g) = CalcPhysical(Whole(Len(stream))) + (IF Len(stream) % BlockUnits = 0 THEN 0 ELSE 2)
        /\ Honest(g, stream, Len(stream))
        /\ Len(stream) % BlockUnits # 0 => LastOf(g) = TrailerOf(stream)
        /\ Len(stream) % SectorUnits # 0 => g[CalcPhysical(Whole(Len(stream))) + 1] = DataSector(Edge(stream))
    BY <2>4
  <2> HIDE DEF g
  <2>7. ImageInv(g, stream, rot)
    <3>1. Len(stream) % BlockUnits # 0 =>
             LastOf(g) \in {Rotten, TrailerOf(stream), [TrailerOf(stream) EXCEPT !.mac = <<>>]}
      BY <2>6, Zenon
    <3> QED BY <1>1, <2>5, <2>6, <3>1, Zenon DEF ImageInv
  <2> QED BY <2>7 DEF g
<1>7. TypeOK'
  <2>1. Len(file') >= 1
    <3> HIDE DEF p
    <3> QED BY <1>3, <1>5
  <2>2. UNCHANGED <<logicalLength, buf, hashes, bufCorrupt, openUnverified, loadedFromTrailer>>
    BY <1>2 DEF plogVars
  <2> HIDE DEF p
  <2> QED BY <1>1, <1>2, <1>3, <2>1, <2>2 DEF TypeOK
<1>8. AcceptInv' /\ EvidenceInv'
  <2>1. AcceptInv'
    BY <1>1, <1>2 DEF AcceptInv
  <2>2. EvidenceInv'
    BY <1>1, <1>2 DEF EvidenceInv, plogVars
  <2> QED BY <2>1, <2>2
<1>9. CursorInv'
  <2>1. Len(file') >= CalcPhysical(Whole(Len(stream)))
    <3>1. p = CalcPhysical(Whole(Len(stream)))
      BY <1>1
    <3> HIDE DEF p
    <3> QED BY <1>3, <1>5, <3>1
  <2>2. logicalLength' = logicalLength /\ stream' = stream /\ rot' = rot
    BY <1>2 DEF plogVars
  <2> QED BY <1>1, <1>2, <2>1, <2>2 DEF CursorInv
<1>10. FileInv'
  <2>1. /\ logicalLength' = logicalLength /\ stream' = stream /\ rot' = rot
        /\ bufCorrupt' = bufCorrupt /\ openUnverified' = openUnverified
    BY <1>2 DEF plogVars
  <2>2. phase' \notin {"opened", "reconciled", "persisted"}
    BY <1>2
  <2> QED BY <1>1, <1>3, <1>4, <1>6, <2>1, <2>2 DEF FileInv
<1>11. UndoInv'
  <2>1. logicalLength' = n
    BY <1>2 DEF plogVars
  <2>2. undoActive' => undoStart' <= p
    <3>1. CASE n % BlockUnits = 0
      BY <1>1, <1>3, <3>1 DEF UndoInv, undoVars
    <3>2. CASE n % BlockUnits # 0
      BY <1>3, <3>2
    <3> QED BY <3>1, <3>2
  <2>3. ~undoActive' /\ n % BlockUnits = 0 => Len(file') <= p
    <3> SUFFICES ASSUME ~undoActive', n % BlockUnits = 0 PROVE Len(file') <= p
      OBVIOUS
    <3>1. undoActive' = undoActive /\ (file' = file \/ Len(file') = p)
      BY <1>3 DEF undoVars
    <3>2. Len(file) <= p
      BY <1>1, <3>1 DEF UndoInv
    <3> HIDE DEF p
    <3>3. CASE file' = file
      BY <3>2, <3>3
    <3>4. CASE Len(file') = p
      BY <1>3, <3>4
    <3> QED BY <3>1, <3>3, <3>4
  <2> QED BY <2>1, <2>2, <2>3 DEF UndoInv
<1> QED BY <1>1, <1>2, <1>7, <1>8, <1>9, <1>10, <1>11 DEF PlogInv

-----------------------------------------------------------------------------
(* The invariant, and what it gives.                                       *)

\* An append is one of the two actions, at an offset and with a sequence of values.
LEMMA AppendsStep ==
    ASSUME TypeOK, Appends
    PROVE  \E offset \in Nat : \E data \in Seq(Values) : AppendBuffered(offset, data) \/ AppendSealing(offset, data)
<1>1. PICK n \in 1 .. MaxAppend : \E data \in [1 .. n -> Values] : \E back \in 0 .. n - 1 :
         back <= logicalLength /\ (AppendBuffered(logicalLength - back, data) \/ AppendSealing(logicalLength - back, data))
  BY Zenon DEF Appends
<1>2. PICK data \in [1 .. n -> Values] : \E back \in 0 .. n - 1 :
         back <= logicalLength /\ (AppendBuffered(logicalLength - back, data) \/ AppendSealing(logicalLength - back, data))
  BY <1>1, Zenon
<1>3. PICK back \in 0 .. n - 1 :
         back <= logicalLength /\ (AppendBuffered(logicalLength - back, data) \/ AppendSealing(logicalLength - back, data))
  BY <1>2, Zenon
<1>4. n \in Nat /\ back \in Nat /\ logicalLength \in Nat
  BY Numbers DEF TypeOK
<1>5. logicalLength - back \in Nat
  BY <1>3, <1>4
<1>6. data \in Seq(Values)
  BY <1>4, FunctionIsSequence
<1> QED BY <1>3, <1>5, <1>6, Zenon

\* Every step keeps the invariant.
LEMMA NextInv ==
    ASSUME PlogInv, [Next]_vars
    PROVE  PlogInv'
<1>1. CASE UNCHANGED vars
  BY <1>1, StutterInv
<1>2. CASE Open
  BY <1>2, OpenInv
<1>3. CASE TruncateTo
  BY <1>3, TruncateToInv
<1>4. CASE TruncateToSame
  BY <1>4, TruncateToSameInv
<1>5. CASE RecoverHashes
  BY <1>5, RecoverHashesInv
<1>6. CASE Appends
  <2>1. TypeOK
    BY DEF PlogInv
  <2>2. PICK offset \in Nat, data \in Seq(Values) : AppendBuffered(offset, data) \/ AppendSealing(offset, data)
    BY <1>6, <2>1, AppendsStep
  <2> QED BY <2>2, AppendBufferedInv, AppendSealingInv
<1>7. CASE CommitPrepare
  BY <1>7, CommitPrepareInv
<1>8. CASE CommitPersist
  BY <1>8, CommitPersistInv
<1>9. CASE CommitAcknowledge
  BY <1>9, CommitAcknowledgeInv
<1>10. CASE CommitFails
  BY <1>10, CommitFailsInv
<1>11. CASE Record
  BY <1>11, RecordInv
<1>12. CASE Crash
  BY <1>12, CrashInv
<1>13. CASE Rot
  BY <1>13, RotInv
<1> QED BY <1>1, <1>2, <1>3, <1>4, <1>5, <1>6, <1>7, <1>8, <1>9, <1>10, <1>11, <1>12, <1>13 DEF Next

\* The invariant of the physical log holds in every reachable state.
THEOREM PlogInvariance == Spec => []PlogInv
<1>1. Init => PlogInv
  BY InitInv
<1>2. PlogInv /\ [Next]_vars => PlogInv'
  BY NextInv
<1> QED BY <1>1, <1>2, PTL DEF Spec

\* A read fails or returns the units that were appended, whatever decayed and
\* whatever geometry the reload fell back to (readLocked).
THEOREM ReadsAreTrue == Spec => []NeverWrongBytes
<1>1. PlogInv => NeverWrongBytes
  <2> SUFFICES ASSUME PlogInv, phase # "closed", NEW i \in 0 .. Holding(logicalLength) - 1
               PROVE  ReadSector(i) \in {Bitrot, Truth(i)}
    BY DEF NeverWrongBytes
  <2>1. TypeOK /\ CursorInv /\ EvidenceInv /\ FileInv
    BY DEF PlogInv
  <2>2. stream \in Seq(Values) /\ Holding(logicalLength) \in Nat
    BY <2>1, MemoryFacts, HoldingCounts
  <2>3. i \in Nat /\ i < Holding(logicalLength)
    BY <2>2
  <2>4. \/ ReadSector(i) = Bitrot
        \/ i < Whole(logicalLength) /\ (i + 1) * SectorUnits <= Len(stream) /\ ReadSector(i) = SectorOf(stream, i)
        \/ i = Whole(logicalLength) /\ logicalLength = Len(stream) /\ ReadSector(i) = Edge(stream)
    BY <2>1, <2>3, ReadSectorIs
  <2>5. /\ (i + 1) * SectorUnits <= Len(stream) => Truth(i) = SectorOf(stream, i)
        /\ i = Whole(Len(stream)) => Truth(i) = Edge(stream)
    BY <2>2, <2>3, TruthFacts
  <2> QED BY <2>4, <2>5, Zenon
<1> QED BY <1>1, PlogInvariance, PTL

\* With no decay the length is exact and every appended unit is readable, after any
\* failed append, failed Commit, crash and mount.
THEOREM IntactReadable == Spec => []IntactPlogReadable
<1>1. PlogInv => IntactPlogReadable
  <2> SUFFICES ASSUME PlogInv, rot = 0, phase # "closed"
               PROVE  logicalLength = Len(stream) /\ ReadRange(0, logicalLength) = stream
    BY DEF IntactPlogReadable
  <2> DEFINE n == logicalLength  r == ReadRange(0, n)
  <2>1. TypeOK /\ CursorInv /\ EvidenceInv /\ FileInv
    BY DEF PlogInv
  <2>2. n \in Nat /\ stream \in Seq(Values) /\ n = Len(stream) /\ \A i \in 0 .. Holding(n) - 1 : ReadSector(i) # Bitrot
    BY <2>1, MemoryFacts, ReadExact
  <2>3. 0 \in Nat /\ 0 <= n /\ n <= logicalLength /\ n <= Len(stream)
    BY <2>2
  <2>4. /\ r \in Seq(Values) /\ Len(r) = n - 0
        /\ \A k \in 1 .. n - 0 : r[k] = stream[0 + k]
    BY <2>1, <2>2, <2>3, ReadRangeIs
  <2> HIDE DEF r
  <2>5. Len(r) = Len(stream) /\ \A k \in 1 .. Len(r) : r[k] = stream[k]
    <3>1. n - 0 = n /\ \A k \in 1 .. n : 0 + k = k
      BY <2>2
    <3> QED BY <2>2, <2>4, <3>1
  <2>6. r = stream
    BY <2>2, <2>4, <2>5, SeqEqual
  <2> QED BY <2>2, <2>6 DEF r
<1> QED BY <1>1, PlogInvariance, PTL

\* Two streams that agree on a prefix have it in common.
LEMMA SamePrefix ==
    ASSUME NEW s \in Seq(Values), NEW t \in Seq(Values), NEW m \in Nat, m <= Len(s), m <= Len(t),
           \A k \in 1 .. m : t[k] = s[k]
    PROVE  SubSeq(t, 1, m) = SubSeq(s, 1, m)
<1> DEFINE a == SubSeq(s, 1, m)  b == SubSeq(t, 1, m)
<1>1. /\ a \in Seq(Values) /\ b \in Seq(Values) /\ Len(a) = m /\ Len(b) = m
      /\ \A k \in 1 .. m : a[k] = s[k] /\ b[k] = t[k]
  BY PrefixFacts
<1> HIDE DEF a, b
<1>2. b = a
  BY <1>1, SeqEqual
<1> QED BY <1>2 DEF a, b

\* The catalog's length is never beyond the stream, and every step keeps the prefix.
LEMMA PrefixStep ==
    ASSUME PlogInv, [Next]_vars
    PROVE  Len(stream') >= recorded /\ SubSeq(stream', 1, recorded) = SubSeq(stream, 1, recorded)
<1>1. /\ TypeOK /\ stream \in Seq(Values) /\ Len(stream) \in Nat /\ recorded \in Nat /\ acked \in Nat
      /\ recorded <= acked /\ acked <= Len(stream) /\ recorded <= Len(stream)
  <2>1. TypeOK /\ AcceptInv
    BY DEF PlogInv
  <2>2. stream \in Seq(Values) /\ Len(stream) \in Nat /\ recorded \in Nat /\ acked \in Nat
    BY <2>1 DEF TypeOK
  <2> QED BY <2>1, <2>2 DEF AcceptInv
<1>2. CASE UNCHANGED stream
  BY <1>1, <1>2
<1>3. CASE Open
  <2>1. PICK a \in accept : stream' = a.stream
    BY <1>3 DEF Open
  <2>2. /\ a.stream \in Seq(Values) /\ acked <= Len(a.stream) /\ \A k \in 1 .. acked : a.stream[k] = stream[k]
    BY DEF PlogInv, AcceptInv, ImageInv
  <2>3. Len(stream') \in Nat /\ stream' \in Seq(Values) /\ recorded <= Len(stream')
        /\ \A k \in 1 .. recorded : stream'[k] = stream[k]
    BY <1>1, <2>1, <2>2
  <2> QED BY <1>1, <2>3, SamePrefix
<1>4. CASE TruncateTo
  <2>1. stream' = SubSeq(stream, 1, recorded)
    BY <1>4 DEF TruncateTo
  <2>2. /\ stream' \in Seq(Values) /\ Len(stream') = recorded /\ \A k \in 1 .. recorded : stream'[k] = stream[k]
    BY <1>1, <2>1, PrefixFacts
  <2> QED BY <1>1, <2>2, SamePrefix
<1>5. CASE Appends
  <2>1. PICK offset \in Nat, data \in Seq(Values) : AppendBuffered(offset, data) \/ AppendSealing(offset, data)
    BY <1>1, <1>5, AppendsStep
  <2>2. Appendable(offset, data) /\ (stream' = stream \/ stream' = SubSeq(stream, 1, offset) \o data)
    BY <2>1 DEF AppendBuffered, AppendSealing
  <2> DEFINE t == SubSeq(stream, 1, offset) \o data
  <2>3. t \in Seq(Values) /\ Len(t) \in Nat /\ Len(t) >= Len(stream) /\ \A k \in 1 .. Len(stream) : t[k] = stream[k]
    <3> DEFINE rem == Remainder(offset, data)
    <3>1. /\ t \in Seq(Values) /\ Len(t) \in Nat /\ Len(rem) \in Nat /\ Len(t) = Len(stream) + Len(rem)
          /\ \A k \in 1 .. Len(stream) : t[k] = stream[k]
      BY <2>2, Appended
    <3> HIDE DEF t, rem
    <3> QED BY <1>1, <3>1
  <2>4. CASE stream' = stream
    BY <1>2, <2>4
  <2>5. CASE stream' = t
    <3> HIDE DEF t
    <3>1. stream' \in Seq(Values) /\ recorded <= Len(stream') /\ \A k \in 1 .. recorded : stream'[k] = stream[k]
      BY <1>1, <2>3, <2>5
    <3> QED BY <1>1, <2>3, <2>5, <3>1, SamePrefix
  <2> QED BY <2>2, <2>4, <2>5
<1>6. CASE TruncateToSame \/ RecoverHashes \/ CommitPrepare \/ CommitPersist \/ CommitAcknowledge \/ CommitFails
           \/ Record \/ Crash \/ Rot
  <2>1. UNCHANGED stream
    BY <1>6 DEF TruncateToSame, RecoverHashes, CommitPrepare, CommitPersist, CommitAcknowledge, CommitFails,
                Record, Crash, Rot
  <2> QED BY <1>2, <2>1
<1>7. CASE UNCHANGED vars
  BY <1>2, <1>7 DEF vars
<1> QED BY <1>3, <1>4, <1>5, <1>6, <1>7 DEF Next

\* The prefix the catalog records is never lost and never changes (Commit before
\* SetVlogLength, TruncateTo down to the recorded length only).
THEOREM RecordedStable == Spec => RecordedPrefixStable
<1>1. PlogInv /\ [Next]_vars => [Len(stream') >= recorded /\ SubSeq(stream', 1, recorded) = SubSeq(stream, 1, recorded)]_vars
  BY PrefixStep
<1> QED BY <1>1, PlogInvariance, PTL DEF Spec, RecordedPrefixStable

-----------------------------------------------------------------------------
(* The plog and its journal.                                               *)

\* What happens to sector i is covered.
Covered(i) == Sector(file', i) # Sector(file, i) => undoActive' /\ i - 1 >= undoStart'

\* A file that is protected from sector p on is covered everywhere.
LEMMA ProtectedCovered ==
    ASSUME NEW p, ProtectedFrom(p), undoStart' \in Nat, Len(file) \in Nat, Len(file') \in Nat, NEW i \in Nat, i >= 1
    PROVE  Covered(i)
<1>1. p \in Nat /\ p <= Len(file) /\ p <= Len(file') /\ (\A x \in 1 .. p : file'[x] = file[x]) /\ undoActive' /\ undoStart' <= p
  BY DEF ProtectedFrom
<1>2. CASE i <= p
  <2>1. i \in 1 .. p /\ i <= Len(file) /\ i <= Len(file')
    BY <1>1, <1>2
  <2>2. Sector(file', i) = Sector(file, i)
    BY <1>1, <2>1 DEF Sector
  <2> QED BY <2>2 DEF Covered
<1>3. CASE i > p
  <2>1. i - 1 >= undoStart'
    BY <1>1, <1>3
  <2> QED BY <1>1, <2>1 DEF Covered
<1> QED BY <1>1, <1>2, <1>3

\* TruncateTo changes only sectors from the recorded length on, and protects them.
LEMMA TruncateToProtected ==
    ASSUME PlogInv, TruncateTo
    PROVE  ProtectedFrom(CalcPhysical(Whole(recorded))) /\ undoStart' \in Nat
<1> DEFINE m == recorded  p == CalcPhysical(Whole(m))
<1>1. TypeOK /\ AcceptInv /\ FileInv /\ ImageInv(file, stream, rot) /\ m \in Nat /\ m <= Len(stream)
  <2>1. TypeOK /\ AcceptInv /\ FileInv /\ phase = "opened"
    BY DEF PlogInv, TruncateTo
  <2>2. ImageInv(file, stream, rot)
    BY <2>1 DEF FileInv
  <2>3. m \in Nat /\ acked \in Nat /\ Len(stream) \in Nat
    BY <2>1 DEF TypeOK
  <2> QED BY <2>1, <2>2, <2>3 DEF AcceptInv
<1>2. Protect(BlockPhysical(m))
  BY DEF TruncateTo
<1>3. file' = WriteAt(SubSeq(file, 1, p), p, IF m % SectorUnits = 0 THEN <<>>
                      ELSE <<DataSector(SubSeq(Bytes(file[p + 1]), 1, m % SectorUnits))>>)
  BY DEF TruncateTo, Whole
<1>4. /\ file' \in Seq(Stored) /\ Len(file') = p + (IF m % SectorUnits = 0 THEN 0 ELSE 1)
      /\ \A x \in 1 .. p : file'[x] = file[x]
  <2> DEFINE g == file'
  <2>1. g = WriteAt(SubSeq(file, 1, CalcPhysical(Whole(m))), CalcPhysical(Whole(m)),
                    IF m % SectorUnits = 0 THEN <<>>
                    ELSE <<DataSector(SubSeq(Bytes(file[CalcPhysical(Whole(m)) + 1]), 1, m % SectorUnits))>>)
    BY <1>3
  <2> HIDE DEF g
  <2>2. /\ g \in Seq(Stored) /\ Len(g) = CalcPhysical(Whole(m)) + (IF m % SectorUnits = 0 THEN 0 ELSE 1)
        /\ \A x \in 1 .. CalcPhysical(Whole(m)) : g[x] = file[x]
    BY <1>1, <2>1, Shortened
  <2> QED BY <2>2 DEF g
<1>5. p <= Len(file)
  BY <1>1, PrefixRoom
<1>6. BlockPhysical(m) \in Nat /\ BlockPhysical(m) <= p /\ p \in Nat
  BY <1>1, BlockPhysicalFacts
<1>7. undoActive' = TRUE /\ undoStart' \in Nat /\ undoStart' <= BlockPhysical(m)
  BY <1>1, <1>2, <1>6, ProtectFacts
<1> DEFINE b == BlockPhysical(m)
<1>8. undoStart' <= p
  <2> HIDE DEF b, p
  <2>1. b \in Nat /\ b <= p /\ p \in Nat /\ undoStart' \in Nat /\ undoStart' <= b
    BY <1>6, <1>7 DEF b
  <2> QED BY ONLY <2>1
<1> HIDE DEF p
<1>9. p <= Len(file')
  BY <1>4, <1>6
<1> QED BY <1>4, <1>5, <1>6, <1>7, <1>8, <1>9 DEF ProtectedFrom, p

\* Commit changes only sectors the journal covers, or none when it writes no trailer
\* and the file already ends at the cursor.
LEMMA CommitCovered ==
    ASSUME PlogInv, CommitPrepare, NEW i \in Nat, i >= 1
    PROVE  Covered(i)
<1> DEFINE n == logicalLength  p == CalcPhysical(Whole(n))
<1>1. /\ file' \in Seq(Stored) /\ undoStart' \in Nat
      /\ p \in Nat /\ p <= Len(file) /\ p <= Len(file') /\ \A x \in 1 .. p : file'[x] = file[x]
      /\ n % BlockUnits # 0 => undoActive' = TRUE /\ undoStart' <= p
      /\ n % BlockUnits = 0 => UNCHANGED undoVars /\ (file' = file \/ Len(file') = p)
  BY CommitPrepareFile
<1>2. FileInv /\ UndoInv
  BY DEF PlogInv, CommitPrepare
<1>3. Len(file) \in Nat /\ Len(file') \in Nat
  <2>1. file \in Seq(Stored)
    BY <1>2 DEF FileInv
  <2> QED BY <1>1, <2>1, SequenceFacts
<1>4. n % BlockUnits = 0 => undoActive' = undoActive /\ undoStart' = undoStart
  BY <1>1 DEF undoVars
<1>5. CASE undoActive'
  <2>1. undoStart' <= p
    <3>1. CASE n % BlockUnits = 0
      BY <1>2, <1>4, <1>5, <3>1 DEF UndoInv
    <3>2. CASE n % BlockUnits # 0
      BY <1>1, <3>2
    <3> QED BY <3>1, <3>2
  <2> HIDE DEF p
  <2>2. ProtectedFrom(p)
    BY <1>1, <1>5, <2>1 DEF ProtectedFrom
  <2> QED BY <1>1, <1>3, <2>2, ProtectedCovered
<1>6. CASE ~undoActive'
  <2>1. n % BlockUnits = 0
    BY <1>1, <1>6
  <2>2. Len(file) <= p
    BY <1>2, <1>4, <1>6, <2>1 DEF UndoInv
  <2> HIDE DEF p
  <2>3. Len(file) = p /\ Len(file') = p
    BY <1>1, <1>3, <2>1, <2>2
  <2>4. Sector(file', i) = Sector(file, i)
    <3>1. CASE i <= p
      <4>1. i \in 1 .. p
        BY <1>1, <3>1
      <4> QED BY <1>1, <2>3, <3>1, <4>1 DEF Sector
    <3>2. CASE ~(i <= p)
      BY <2>3, <3>2 DEF Sector
    <3> QED BY <3>1, <3>2
  <2> QED BY <2>4 DEF Covered
<1> QED BY <1>5, <1>6

\* Every step of an open plog covers what it changes.
LEMMA CoveredStep ==
    ASSUME PlogInv, PlogInv', [Next]_vars, phase # "closed", NEW i \in Nat, i >= 1
    PROVE  Covered(i)
<1>1. TypeOK /\ FileInv /\ file \in Seq(Stored) /\ Len(file) \in Nat
  <2>1. TypeOK /\ FileInv
    BY DEF PlogInv
  <2>2. file \in Seq(Stored)
    BY <2>1 DEF FileInv
  <2> QED BY <2>1, <2>2, SequenceFacts
<1>2. CASE file' = file
  BY <1>2 DEF Covered
<1>3. CASE phase' # "closed" /\ \E p \in Nat : ProtectedFrom(p)
  <2>1. PICK p \in Nat : ProtectedFrom(p)
    BY <1>3
  <2>2. undoStart' \in Nat /\ file' \in Seq(Stored)
    BY <1>3 DEF PlogInv, TypeOK, FileInv
  <2>3. Len(file') \in Nat
    BY <2>2, SequenceFacts
  <2> QED BY <1>1, <2>1, <2>2, <2>3, ProtectedCovered
<1>4. CASE TruncateTo
  <2>1. ProtectedFrom(CalcPhysical(Whole(recorded))) /\ phase' # "closed"
    BY <1>4, TruncateToProtected DEF TruncateTo
  <2>2. CalcPhysical(Whole(recorded)) \in Nat
    BY <2>1 DEF ProtectedFrom
  <2> QED BY <1>3, <2>1, <2>2
<1>5. CASE Appends
  <2>1. PICK offset \in Nat, data \in Seq(Values) : AppendBuffered(offset, data) \/ AppendSealing(offset, data)
    BY <1>1, <1>5, AppendsStep
  <2>2. CASE AppendBuffered(offset, data)
    BY <1>2, <2>2 DEF AppendBuffered
  <2>3. CASE AppendSealing(offset, data)
    <3>1. ProtectedFrom(CalcPhysical(Whole(logicalLength))) /\ phase' = phase
      BY <2>3, AppendSealingFile DEF AppendSealing
    <3>2. CalcPhysical(Whole(logicalLength)) \in Nat
      BY <3>1 DEF ProtectedFrom
    <3> QED BY <1>3, <3>1, <3>2
  <2> QED BY <2>1, <2>2, <2>3
<1>6. CASE CommitPrepare
  BY <1>6, CommitCovered
<1>7. CASE TruncateToSame \/ RecoverHashes \/ CommitPersist \/ CommitAcknowledge \/ CommitFails \/ Record \/ Crash
           \/ Rot \/ UNCHANGED vars
  <2>1. file' = file
    BY <1>7 DEF TruncateToSame, RecoverHashes, CommitPersist, CommitAcknowledge, CommitFails, Record, Crash, Rot, vars
  <2> QED BY <1>2, <2>1
<1>8. ~Open
  BY DEF Open
<1> QED BY <1>4, <1>5, <1>6, <1>7, <1>8 DEF Next

\* No append, truncation or commit changes a sector outside the range the rollback
\* journal covers (protectPrefixLocked before every write): what UndoJournal assumes.
THEOREM JournalCoversWrites == Spec => WritesStayProtected
<1>1. ASSUME PlogInv, PlogInv', [Next]_vars, phase # "closed",
             NEW i \in 1 .. (IF Len(file) > Len(file') THEN Len(file) ELSE Len(file'))
      PROVE  Sector(file', i) # Sector(file, i) => undoActive' /\ i - 1 >= undoStart'
  <2>1. i \in Nat /\ i >= 1
    OBVIOUS
  <2>2. Covered(i)
    BY <1>1, <2>1, CoveredStep
  <2> QED BY <2>2 DEF Covered
<1>2. PlogInv /\ PlogInv' /\ [Next]_vars =>
        [phase # "closed" =>
           \A i \in 1 .. (IF Len(file) > Len(file') THEN Len(file) ELSE Len(file')) :
              Sector(file', i) # Sector(file, i) => undoActive' /\ i - 1 >= undoStart']_vars
  BY <1>1
<1> QED BY <1>2, PlogInvariance, PTL DEF Spec, WritesStayProtected

\* The steps that a caller sees as edits, or not at all: the plog stays open and what
\* a recovery may show stays as it was.
LEMMA OpenStep ==
    ASSUME \/ TruncateTo \/ TruncateToSame \/ RecoverHashes \/ CommitPrepare \/ CommitFails \/ Record
           \/ \E offset \in Nat : \E data \in Seq(Values) : AppendBuffered(offset, data) \/ AppendSealing(offset, data)
    PROVE  phase # "closed" /\ phase' # "closed" /\ accept' = accept
<1>1. CASE TruncateTo
  BY <1>1 DEF TruncateTo
<1>2. CASE TruncateToSame
  BY <1>2 DEF TruncateToSame
<1>3. CASE RecoverHashes
  BY <1>3 DEF RecoverHashes
<1>4. CASE CommitPrepare
  BY <1>4 DEF CommitPrepare
<1>5. CASE CommitFails
  BY <1>5 DEF CommitFails
<1>6. CASE Record
  BY <1>6 DEF Record
<1>7. ASSUME NEW offset \in Nat, NEW data \in Seq(Values), AppendBuffered(offset, data)
      PROVE  phase # "closed" /\ phase' # "closed" /\ accept' = accept
  BY <1>7 DEF AppendBuffered, Appendable
<1>8. ASSUME NEW offset \in Nat, NEW data \in Seq(Values), AppendSealing(offset, data)
      PROVE  phase # "closed" /\ phase' # "closed" /\ accept' = accept
  BY <1>8 DEF AppendSealing, Appendable
<1> QED BY <1>1, <1>2, <1>3, <1>4, <1>5, <1>6, <1>7, <1>8

\* Until a sector decays, every step is a step of CommitContract on what a caller sees
\* of the plog, or invisible: openPlogFile shows an image a recovery may show, and only a
\* Commit adds one or makes it the only one.
THEOREM PlogRefinement == Spec => UsesContract
<1>1. Init => Contract!ContractInit
  <2> SUFFICES ASSUME Init PROVE Contract!ContractInit
    OBVIOUS
  <2>1. {a.image : a \in accept} = {<<Super>>} /\ <<Super>> \in Seq(SectorValues)
    BY FreshSectors DEF Init
  <2>2. phase = "closed"
    BY DEF Init
  <2> QED BY <2>1, <2>2 DEF Contract!ContractInit
<1>2. ASSUME PlogInv, PlogInv', [Next]_vars, rot' = 0 PROVE [Contract!ContractNext]_(Contract!contractVars)
  <2>1. TypeOK /\ rot \in Nat /\ rot' = 0
    BY <1>2 DEF PlogInv, TypeOK
  <2>2. CASE UNCHANGED vars
    BY <2>2 DEF vars, Contract!contractVars
  <2>3. CASE phase # "closed" /\ phase' # "closed" /\ accept' = accept
    <3>1. file' \in Seq(SectorValues)
      BY <1>2, <2>1, <2>3 DEF PlogInv, FileInv, Faithful
    <3>2. Contract!Edit
      BY <2>3, <3>1 DEF Contract!Edit
    <3> QED BY <3>2 DEF Contract!ContractNext
  <2>4. CASE TruncateTo \/ TruncateToSame \/ RecoverHashes \/ CommitPrepare \/ CommitFails \/ Record
    BY <2>3, <2>4, OpenStep
  <2>5. CASE Appends
    BY <2>1, <2>3, <2>5, AppendsStep, OpenStep
  <2>6. CASE Open
    <3>1. PICK a \in accept : file' = a.image /\ accept' = {a}
      BY <2>6 DEF Open
    <3>2. phase = "closed" /\ phase' # "closed"
      BY <2>6 DEF Open
    <3>3. {b.image : b \in accept'} = {file'} /\ file' \in {b.image : b \in accept}
      BY <3>1
    <3>4. Contract!Recover
      BY <3>2, <3>3 DEF Contract!Recover
    <3> QED BY <3>4 DEF Contract!ContractNext
  <2>7. CASE CommitPersist
    <3>1. phase # "closed" /\ phase' # "closed" /\ file' = file /\ accept' = accept \cup {[image |-> file, stream |-> stream]}
      BY <2>7 DEF CommitPersist
    <3>2. {b.image : b \in accept'} = {b.image : b \in accept} \cup {file}
      <4> DEFINE e == [image |-> file, stream |-> stream]
      <4>1. e.image = file /\ accept' = accept \cup {e}
        BY <3>1
      <4> HIDE DEF e
      <4> QED BY <4>1, Zenon
    <3>3. Contract!Persist
      BY <3>1, <3>2 DEF Contract!Persist
    <3> QED BY <3>3 DEF Contract!ContractNext
  <2>8. CASE CommitAcknowledge
    <3>1. phase = "persisted" /\ phase' # "closed" /\ file' = file /\ accept' = {[image |-> file, stream |-> stream]}
      BY <2>8 DEF CommitAcknowledge
    <3>2. [image |-> file, stream |-> stream] \in accept
      BY <1>2, <3>1 DEF PlogInv, FileInv
    <3>3. {b.image : b \in accept'} = {file} /\ file \in {b.image : b \in accept}
      BY <3>1, <3>2
    <3>4. Contract!Acknowledge
      BY <3>1, <3>3 DEF Contract!Acknowledge
    <3> QED BY <3>4 DEF Contract!ContractNext
  <2>9. CASE Crash
    <3>1. phase # "closed" /\ phase' = "closed" /\ accept' = accept
      BY <2>9 DEF Crash
    <3>2. Contract!Lose
      BY <3>1 DEF Contract!Lose
    <3> QED BY <3>2 DEF Contract!ContractNext
  <2>10. ~Rot
    BY <2>1 DEF Rot
  <2> QED BY <1>2, <2>2, <2>4, <2>5, <2>6, <2>7, <2>8, <2>9, <2>10 DEF Next
<1>3. ASSUME PlogInv, PlogInv', [Next]_vars
      PROVE  [rot' = 0 => [Contract!ContractNext]_(Contract!contractVars)]_vars
  BY <1>2, <1>3
<1> QED BY <1>1, <1>3, PlogInvariance, PTL DEF Spec, UsesContract

=============================================================================
