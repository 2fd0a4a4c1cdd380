------------------------- MODULE DiskManagerProofs ---------------------------
(***************************************************************************)
(* Theorems about DiskManager, for every geometry.                         *)
(***************************************************************************)
EXTENDS DiskManager, Induction, SequenceTheorems, FiniteSetTheorems, TLAPS

-----------------------------------------------------------------------------
(* The geometry.                                                           *)

LEMMA Sizes ==
  /\ SURFACES \in Nat \ {0} /\ TRACKS_PER_SURFACE \in Nat \ {0}
  /\ SECTORS_PER_TRACK \in Nat \ {0} /\ SECTORS_PER_BLOCK \in Nat \ {0}
  /\ TOTAL_SECTORS \in Nat /\ TOTAL_BLOCKS \in Nat
  /\ SECTORS_PER_TRACK * SURFACES \in Nat \ {0}
<1>1. /\ SURFACES \in Nat \ {0} /\ TRACKS_PER_SURFACE \in Nat \ {0}
      /\ SECTORS_PER_TRACK \in Nat \ {0} /\ SECTORS_PER_BLOCK \in Nat \ {0}
  BY GeometryAssumption
<1>2. TOTAL_SECTORS \in Nat
  BY <1>1 DEF TOTAL_SECTORS
<1>3. TOTAL_BLOCKS \in Nat
  BY <1>1, <1>2 DEF TOTAL_BLOCKS
<1> QED BY <1>1, <1>2, <1>3

\* Division with remainder, both ways.
LEMMA Division ==
  ASSUME NEW x \in Nat, NEW m \in Nat \ {0}
  PROVE  /\ x \div m \in Nat /\ x % m \in 0 .. m - 1
         /\ x = m * (x \div m) + (x % m)
OBVIOUS

LEMMA QuotientAndRest ==
  ASSUME NEW m \in Nat \ {0}, NEW q \in Nat, NEW r \in 0 .. m - 1,
         NEW p \in Nat, NEW s \in 0 .. m - 1, m * q + r = m * p + s
  PROVE  q = p /\ r = s
OBVIOUS

LEMMA DivisionTwice ==
  ASSUME NEW x \in Nat, NEW a \in Nat \ {0}, NEW b \in Nat \ {0}
  PROVE  x \div (b * a) = (x \div a) \div b
OBVIOUS

\* The places of the sectors.
Places == [c : 0 .. TRACKS_PER_SURFACE - 1, s : 0 .. SECTORS_PER_TRACK - 1, h : 0 .. SURFACES - 1]

\* The walk goes over every sector, to a different one at each step.
LEMMA PositionFacts ==
  /\ \A n \in 0 .. TOTAL_SECTORS - 1 : Position(n) \in Places
  /\ \A n, m \in 0 .. TOTAL_SECTORS - 1 : Position(n) = Position(m) => n = m
<1>1. ASSUME NEW n \in 0 .. TOTAL_SECTORS - 1
      PROVE  /\ n = SURFACES * (n \div SURFACES) + (n % SURFACES)
             /\ n \div SURFACES \in Nat /\ n % SURFACES \in 0 .. SURFACES - 1
             /\ n \div SURFACES = SECTORS_PER_TRACK * (n \div (SECTORS_PER_TRACK * SURFACES))
                                    + ((n \div SURFACES) % SECTORS_PER_TRACK)
             /\ n \div (SECTORS_PER_TRACK * SURFACES) \in Nat
             /\ (n \div SURFACES) % SECTORS_PER_TRACK \in 0 .. SECTORS_PER_TRACK - 1
  <2>1. n \in Nat
    BY Sizes
  <2> DEFINE q == n \div SURFACES
  <2>2. n = SURFACES * q + (n % SURFACES) /\ q \in Nat /\ n % SURFACES \in 0 .. SURFACES - 1
    BY <2>1, Sizes, Division
  <2>3. n \div (SECTORS_PER_TRACK * SURFACES) = q \div SECTORS_PER_TRACK
    BY <2>1, Sizes, DivisionTwice
  <2> HIDE DEF q
  <2>4. /\ q = SECTORS_PER_TRACK * (q \div SECTORS_PER_TRACK) + (q % SECTORS_PER_TRACK)
        /\ q \div SECTORS_PER_TRACK \in Nat
        /\ q % SECTORS_PER_TRACK \in 0 .. SECTORS_PER_TRACK - 1
    BY <2>2, Sizes, Division
  <2> QED BY <2>2, <2>3, <2>4 DEF q
<1>2. ASSUME NEW n \in 0 .. TOTAL_SECTORS - 1
      PROVE  n \div (SECTORS_PER_TRACK * SURFACES) < TRACKS_PER_SURFACE
  <2> DEFINE m == SECTORS_PER_TRACK * SURFACES
             q == n \div m
  <2>1. TOTAL_SECTORS = m * TRACKS_PER_SURFACE
    BY Sizes DEF TOTAL_SECTORS
  <2>2. m \in Nat \ {0} /\ q \in Nat /\ m * q <= n
    <3>1. m \in Nat \ {0} /\ n \in Nat
      BY Sizes
    <3> HIDE DEF m
    <3>2. n \div m \in Nat /\ n % m \in 0 .. m - 1 /\ n = m * (n \div m) + (n % m)
      BY <3>1, Division
    <3>3. m * (n \div m) \in Nat
      BY <3>1, <3>2
    <3> QED BY <3>1, <3>2, <3>3
  <2> HIDE DEF m, q
  <2>3. m * q < m * TRACKS_PER_SURFACE
    BY <2>1, <2>2, Sizes
  <2>4. q < TRACKS_PER_SURFACE
    BY <2>2, <2>3, Sizes
  <2> QED BY <2>4 DEF q, m
<1>3. ASSUME NEW n \in 0 .. TOTAL_SECTORS - 1 PROVE Position(n) \in Places
  <2>1. n \div (SECTORS_PER_TRACK * SURFACES) \in 0 .. TRACKS_PER_SURFACE - 1
    BY <1>1, <1>2, Sizes
  <2> QED BY <1>1, <2>1 DEF Position, Places
<1>4. ASSUME NEW n \in 0 .. TOTAL_SECTORS - 1, NEW m \in 0 .. TOTAL_SECTORS - 1,
             Position(n) = Position(m)
      PROVE  n = m
  <2>1. /\ n \div (SECTORS_PER_TRACK * SURFACES) = m \div (SECTORS_PER_TRACK * SURFACES)
        /\ (n \div SURFACES) % SECTORS_PER_TRACK = (m \div SURFACES) % SECTORS_PER_TRACK
        /\ n % SURFACES = m % SURFACES
    BY <1>4 DEF Position
  <2>2. n \div SURFACES = m \div SURFACES
    BY <1>1, <2>1
  <2> QED BY <1>1, <2>1, <2>2
<1> QED BY <1>3, <1>4

\* Every place has an address of its own.
LEMMA LbaFacts ==
  /\ \A at \in Places : Lba(at) \in Lbas
  /\ \A at, to \in Places : Lba(at) = Lba(to) => at = to
<1>1. ASSUME NEW at \in Places
      PROVE  /\ at.c \in Nat /\ at.c < TRACKS_PER_SURFACE
             /\ at.h \in 0 .. SURFACES - 1 /\ at.s \in 0 .. SECTORS_PER_TRACK - 1
             /\ SURFACES * at.c + at.h \in Nat
             /\ Lba(at) = SECTORS_PER_TRACK * (SURFACES * at.c + at.h) + at.s
  BY Sizes DEF Lba, Places
<1>2. ASSUME NEW at \in Places PROVE Lba(at) \in Lbas
  <2> DEFINE track == SURFACES * at.c + at.h
             tracks == TRACKS_PER_SURFACE * SURFACES
  <2>1. track \in Nat /\ tracks \in Nat
    BY <1>1, Sizes
  <2>2. track + 1 <= tracks
    <3>1. at.c + 1 <= TRACKS_PER_SURFACE /\ at.c \in Nat
      BY <1>1, Sizes
    <3>2. SURFACES * (at.c + 1) <= SURFACES * TRACKS_PER_SURFACE
      BY <3>1, Sizes
    <3>3. SURFACES * (at.c + 1) = SURFACES * at.c + SURFACES
      BY <3>1, Sizes
    <3> QED BY <1>1, <3>1, <3>2, <3>3, Sizes
  <2>3. TOTAL_SECTORS = SECTORS_PER_TRACK * tracks
    BY Sizes DEF TOTAL_SECTORS
  <2>4. Lba(at) = SECTORS_PER_TRACK * track + at.s
    BY <1>1
  <2>5. at.s \in 0 .. SECTORS_PER_TRACK - 1
    BY <1>1
  <2> HIDE DEF track, tracks
  <2>6. SECTORS_PER_TRACK * (track + 1) <= SECTORS_PER_TRACK * tracks
    BY <2>1, <2>2, Sizes
  <2>7. SECTORS_PER_TRACK * (track + 1) = SECTORS_PER_TRACK * track + SECTORS_PER_TRACK
    BY <2>1, Sizes
  <2>8. SECTORS_PER_TRACK * track \in Nat
    BY <2>1, Sizes
  <2> QED BY <2>3, <2>4, <2>5, <2>6, <2>7, <2>8, Sizes DEF Lbas
<1>3. ASSUME NEW at \in Places, NEW to \in Places, Lba(at) = Lba(to) PROVE at = to
  <2>1. SURFACES * at.c + at.h = SURFACES * to.c + to.h /\ at.s = to.s
    <3> DEFINE q == SURFACES * at.c + at.h
               p == SURFACES * to.c + to.h
    <3>1. /\ q \in Nat /\ p \in Nat
          /\ at.s \in 0 .. SECTORS_PER_TRACK - 1 /\ to.s \in 0 .. SECTORS_PER_TRACK - 1
          /\ SECTORS_PER_TRACK * q + at.s = SECTORS_PER_TRACK * p + to.s
      BY <1>1, <1>3
    <3> HIDE DEF q, p
    <3>2. q = p /\ at.s = to.s
      BY <3>1, Sizes, QuotientAndRest
    <3> QED BY <3>2 DEF q, p
  <2>2. at.c = to.c /\ at.h = to.h
    <3>1. at.c \in Nat /\ at.h \in 0 .. SURFACES - 1 /\ to.c \in Nat /\ to.h \in 0 .. SURFACES - 1
      BY <1>1
    <3> DEFINE c == at.c
               h == at.h
               d == to.c
               g == to.h
    <3>2. c \in Nat /\ d \in Nat /\ h \in 0 .. SURFACES - 1 /\ g \in 0 .. SURFACES - 1
      BY <3>1
    <3>3. SURFACES * c + h = SURFACES * d + g
      BY <2>1
    <3> HIDE DEF c, h, d, g
    <3>4. c = d /\ h = g
      BY <3>2, <3>3, Sizes, QuotientAndRest
    <3> QED BY <3>4 DEF c, d, h, g
  <2> QED BY <2>1, <2>2 DEF Places
<1> QED BY <1>2, <1>3
-----------------------------------------------------------------------------
(* The vertical order.                                                     *)

LEMMA StepsAreFinite ==
  /\ IsFiniteSet(Steps) /\ Cardinality(Steps) \in Nat /\ Cardinality(Steps) <= TOTAL_SECTORS
  /\ \A n \in Nat : Rank(n) \in Nat /\ IsFiniteSet({m \in Steps : m < n})
<1>1. /\ IsFiniteSet(0 .. TOTAL_SECTORS - 1)
      /\ Cardinality(0 .. TOTAL_SECTORS - 1) = TOTAL_SECTORS
  <2>1. Cardinality(0 .. TOTAL_SECTORS - 1) =
          IF 0 > TOTAL_SECTORS - 1 THEN 0 ELSE TOTAL_SECTORS - 1 - 0 + 1
    BY Sizes, FS_Interval
  <2> QED BY Sizes, FS_Interval, <2>1
<1>2. Steps \subseteq 0 .. TOTAL_SECTORS - 1
  BY DEF Steps
<1>3. IsFiniteSet(Steps) /\ Cardinality(Steps) \in Nat /\ Cardinality(Steps) <= TOTAL_SECTORS
  BY <1>1, <1>2, FS_Subset, FS_CardinalityType
<1>4. ASSUME NEW n \in Nat PROVE Rank(n) \in Nat /\ IsFiniteSet({m \in Steps : m < n})
  <2>1. {m \in Steps : m < n} \subseteq Steps
    OBVIOUS
  <2> QED BY <1>3, <2>1, FS_Subset, FS_CardinalityType DEF Rank
<1> QED BY <1>3, <1>4

\* The rank of a step counts the steps before it.
LEMMA RankFacts ==
  /\ Rank(0) = 0
  /\ Rank(TOTAL_SECTORS) = Cardinality(Steps)
  /\ \A n \in Nat : Rank(n + 1) = IF n \in Steps THEN Rank(n) + 1 ELSE Rank(n)
  /\ \A n \in Steps : Rank(n) < Cardinality(Steps)
<1>1. \A n \in Steps : n \in Nat /\ n < TOTAL_SECTORS
  BY Sizes DEF Steps
<1>2. {m \in Steps : m < 0} = {} /\ {m \in Steps : m < TOTAL_SECTORS} = Steps
  BY <1>1
<1>3. Rank(0) = 0 /\ Rank(TOTAL_SECTORS) = Cardinality(Steps)
  BY <1>2, FS_EmptySet DEF Rank
<1>4. ASSUME NEW n \in Nat
      PROVE  Rank(n + 1) = IF n \in Steps THEN Rank(n) + 1 ELSE Rank(n)
  <2> DEFINE before == {m \in Steps : m < n}
  <2>1. IsFiniteSet(before) /\ n \notin before
    BY StepsAreFinite
  <2>2. CASE n \in Steps
    <3>1. {m \in Steps : m < n + 1} = before \cup {n}
      <4>1. \A m \in Steps : m < n + 1 <=> m < n \/ m = n
        BY <1>1
      <4> QED BY <2>2, <4>1
    <3> HIDE DEF before
    <3>2. Cardinality(before \cup {n}) = Cardinality(before) + 1
      BY <2>1, FS_AddElement
    <3> QED BY <2>2, <3>1, <3>2 DEF Rank, before
  <2>3. CASE n \notin Steps
    <3>1. {m \in Steps : m < n + 1} = before
      BY <1>1, <2>3
    <3> QED BY <2>3, <3>1 DEF Rank
  <2> QED BY <2>2, <2>3
<1>5. ASSUME NEW n \in Steps PROVE Rank(n) < Cardinality(Steps)
  <2> DEFINE before == {m \in Steps : m < n}
  <2>1. before \cup {n} \subseteq Steps /\ n \notin before /\ IsFiniteSet(before) /\ n \in Nat
    BY <1>1, StepsAreFinite
  <2> HIDE DEF before
  <2>2. Cardinality(before \cup {n}) = Cardinality(before) + 1
    BY <2>1, FS_AddElement
  <2>3. Cardinality(before \cup {n}) <= Cardinality(Steps)
    BY <2>1, StepsAreFinite, FS_Subset
  <2>4. Rank(n) = Cardinality(before) /\ Rank(n) \in Nat
    BY <2>1, StepsAreFinite DEF Rank, before
  <2> QED BY <2>2, <2>3, <2>4, StepsAreFinite
<1> QED BY <1>3, <1>4, <1>5

\* Two steps have two ranks.
LEMMA RanksDiffer ==
  ASSUME NEW n \in Steps, NEW m \in Steps, Rank(n) = Rank(m)
  PROVE  n = m
<1>1. ASSUME NEW i \in Steps, NEW j \in Steps, i < j PROVE Rank(i) < Rank(j)
  <2> DEFINE before == {k \in Steps : k < i}
             more == {k \in Steps : k < j}
  <2>1. i \in Nat /\ j \in Nat
    BY Sizes DEF Steps
  <2>2. before \cup {i} \subseteq more /\ i \notin before /\ IsFiniteSet(before) /\ IsFiniteSet(more)
    BY <1>1, <2>1, StepsAreFinite DEF Steps
  <2> HIDE DEF before, more
  <2>3. Cardinality(before \cup {i}) = Cardinality(before) + 1
    BY <2>2, FS_AddElement
  <2>4. Cardinality(before \cup {i}) <= Cardinality(more)
    BY <2>2, FS_Subset
  <2>5. Rank(i) = Cardinality(before) /\ Rank(j) = Cardinality(more) /\ Rank(i) \in Nat /\ Rank(j) \in Nat
    BY <2>1, StepsAreFinite DEF Rank, before, more
  <2> QED BY <2>3, <2>4, <2>5
<1>2. n \in Nat /\ m \in Nat /\ Rank(n) \in Nat
  <2>1. n \in Nat /\ m \in Nat
    BY Sizes DEF Steps
  <2> QED BY <2>1, StepsAreFinite
<1> QED BY <1>1, <1>2

\* The place of every rank, and the step that has it.
LEMMA VerticalOrderFacts ==
  /\ Len(VerticalOrder) = Cardinality(Steps)
  /\ \A n \in Steps : Rank(n) + 1 \in 1 .. Len(VerticalOrder)
                        /\ VerticalOrder[Rank(n) + 1] = Position(n)
  /\ \A i \in 1 .. Len(VerticalOrder) : \E n \in Steps : Rank(n) = i - 1
<1>1. Len(VerticalOrder) = Cardinality(Steps)
  BY StepsAreFinite DEF VerticalOrder
<1>2. ASSUME NEW n \in Steps
      PROVE  Rank(n) + 1 \in 1 .. Len(VerticalOrder) /\ VerticalOrder[Rank(n) + 1] = Position(n)
  <2>1. n \in Nat /\ Rank(n) \in Nat /\ Rank(n) < Cardinality(Steps)
    <3>1. n \in Nat
      BY Sizes DEF Steps
    <3> QED BY <3>1, StepsAreFinite, RankFacts
  <2>2. Rank(n) + 1 \in 1 .. Cardinality(Steps) /\ (Rank(n) + 1) - 1 = Rank(n)
    BY <2>1, StepsAreFinite
  <2>3. (CHOOSE m \in Steps : Rank(m) = (Rank(n) + 1) - 1) = n
    <3>1. \E m \in Steps : Rank(m) = (Rank(n) + 1) - 1
      BY <2>2
    <3> DEFINE m == CHOOSE m \in Steps : Rank(m) = (Rank(n) + 1) - 1
    <3>2. m \in Steps /\ Rank(m) = (Rank(n) + 1) - 1
      BY <3>1
    <3> HIDE DEF m
    <3>3. m = n
      BY <2>2, <3>2, RanksDiffer
    <3> QED BY <3>3 DEF m
  <2>4. VerticalOrder[Rank(n) + 1] = Position(CHOOSE m \in Steps : Rank(m) = (Rank(n) + 1) - 1)
    BY <2>2 DEF VerticalOrder
  <2> QED BY <1>1, <2>2, <2>3, <2>4
<1>3. ASSUME NEW i \in 1 .. Len(VerticalOrder) PROVE \E n \in Steps : Rank(n) = i - 1
  <2> DEFINE good == {n \in Nat : \A k \in 1 .. Rank(n) : \E m \in Steps : Rank(m) = k - 1}
  <2>1. 0 \in good
    BY RankFacts
  <2>2. ASSUME NEW n \in 0 .. TOTAL_SECTORS - 1, n \in good PROVE n + 1 \in good
    <3>1. n \in Nat /\ Rank(n) \in Nat
      <4>1. n \in Nat
        BY Sizes
      <4> QED BY <4>1, StepsAreFinite
    <3>2. CASE n \in Steps
      <4>1. Rank(n + 1) = Rank(n) + 1
        BY <3>1, <3>2, RankFacts
      <4>2. ASSUME NEW k \in 1 .. Rank(n + 1) PROVE \E m \in Steps : Rank(m) = k - 1
        <5>1. CASE k \in 1 .. Rank(n)
          BY <2>2, <5>1
        <5>2. CASE k = Rank(n) + 1
          BY <3>1, <3>2, <5>2
        <5> QED BY <3>1, <4>1, <5>1, <5>2
      <4> QED BY <3>1, <4>2
    <3>3. CASE n \notin Steps
      <4>1. Rank(n + 1) = Rank(n)
        BY <3>1, <3>3, RankFacts
      <4> QED BY <2>2, <3>1, <4>1
    <3> QED BY <3>2, <3>3
  <2> HIDE DEF good
  <2>3. \A n \in 0 .. TOTAL_SECTORS : n \in good
    BY <2>1, <2>2, Sizes, SetInduction
  <2>4. TOTAL_SECTORS \in good
    BY <2>3, Sizes
  <2> QED BY <1>1, <2>4, RankFacts DEF good
<1> QED BY <1>1, <1>2, <1>3
-----------------------------------------------------------------------------
(* The block map.                                                          *)

\* Sector i of the blocks in order, every block after the other.
SectorAt(i) == Lba(VerticalOrder[i])

\* An entry of the map for the sectors after the first k.
Entry(bits, k, entry) ==
  /\ Len(entry.sectors) = SECTORS_PER_BLOCK
  /\ \A i \in 1 .. SECTORS_PER_BLOCK : entry.sectors[i] = SectorAt(k + i)
  /\ entry.used <=> \E i \in 1 .. SECTORS_PER_BLOCK : entry.sectors[i] \in bits

Entries == [used : BOOLEAN, sectors : Seq(Lbas)]
Walks == [blocks : Seq(Entries), block : Seq(Lbas), used : BOOLEAN]

\* The blocks and the piece of a block made of the first k sectors in that order.
Pieces(bits, k, walk) ==
  /\ walk \in Walks
  /\ Len(walk.block) < SECTORS_PER_BLOCK
  /\ k = SECTORS_PER_BLOCK * Len(walk.blocks) + Len(walk.block)
  /\ \A j \in 1 .. Len(walk.blocks) : Entry(bits, SECTORS_PER_BLOCK * (j - 1), walk.blocks[j])
  /\ \A i \in 1 .. Len(walk.block) :
       walk.block[i] = SectorAt(SECTORS_PER_BLOCK * Len(walk.blocks) + i)
  /\ walk.used <=> \E i \in 1 .. Len(walk.block) : walk.block[i] \in bits

\* Group adds the next sector to them.
LEMMA GroupFacts ==
  ASSUME NEW bits \in SUBSET Lbas, NEW k \in Nat, NEW walk, Pieces(bits, k, walk),
         NEW lba \in Lbas, lba = SectorAt(k + 1)
  PROVE  Pieces(bits, k + 1, Group(walk, lba, lba \in bits))
<1> DEFINE B == SECTORS_PER_BLOCK
           entries == walk.blocks
           piece == walk.block
           n == Len(entries)
           m == Len(piece)
           done == B * n
           used == walk.used \/ lba \in bits
           block == Append(piece, lba)
           entry == [used |-> used, sectors |-> block]
<1>1. /\ B \in Nat \ {0} /\ n \in Nat /\ m \in Nat /\ m < B /\ done \in Nat /\ k = done + m
      /\ entries \in Seq(Entries) /\ piece \in Seq(Lbas)
  BY Sizes DEF Pieces, Walks
<1>2. /\ block \in Seq(Lbas) /\ Len(block) = m + 1 /\ block[m + 1] = lba
      /\ \A i \in 1 .. m : block[i] = piece[i]
  <2> HIDE DEF piece
  <2> QED BY <1>1
<1>3. used \in BOOLEAN
  OBVIOUS
<1>4. used <=> \E i \in 1 .. m + 1 : block[i] \in bits
  <2>1. walk.used <=> \E i \in 1 .. m : piece[i] \in bits
    BY DEF Pieces
  <2>2. used <=> (\E i \in 1 .. m : piece[i] \in bits) \/ lba \in bits
    BY <2>1, Zenon
  <2> HIDE DEF piece, block, m, used
  <2>3. m + 1 \in 1 .. m + 1 /\ \A i : i \in 1 .. m + 1 <=> i \in 1 .. m \/ i = m + 1
    BY <1>1
  <2>4. (\E i \in 1 .. m + 1 : block[i] \in bits) <=> (\E i \in 1 .. m : piece[i] \in bits) \/ lba \in bits
    BY ONLY <1>2, <2>3, Zenon
  <2> QED BY ONLY <2>2, <2>4, Zenon
<1>5. \A i \in 1 .. m + 1 : block[i] = SectorAt(done + i)
  <2>1. \A i \in 1 .. m : piece[i] = SectorAt(done + i)
    BY DEF Pieces
  <2>2. lba = SectorAt(done + (m + 1))
    <3>1. k + 1 = done + (m + 1)
      <4> HIDE DEF done, m
      <4> QED BY <1>1
    <3> QED BY <3>1
  <2> HIDE DEF piece, block, m, done
  <2> SUFFICES ASSUME NEW i \in 1 .. m + 1 PROVE block[i] = SectorAt(done + i)
    OBVIOUS
  <2>3. CASE i \in 1 .. m
    BY <1>2, <2>1, <2>3
  <2>4. CASE i = m + 1
    BY <1>2, <2>2, <2>4
  <2> QED BY <1>1, <2>3, <2>4
<1>6. \A j \in 1 .. n : Entry(bits, B * (j - 1), entries[j])
  BY DEF Pieces
<1>7. CASE m + 1 = B
  <2> DEFINE after == [blocks |-> Append(entries, entry), block |-> <<>>, used |-> FALSE]
  <2>1. Group(walk, lba, lba \in bits) = after
    BY <1>2, <1>7 DEF Group
  <2>2. entry.used = used /\ entry.sectors = block
    OBVIOUS
  <2>3. entry \in Entries
    <3> HIDE DEF used, block
    <3> QED BY <1>2, <1>3 DEF Entries
  <2>4. after.blocks = Append(entries, entry) /\ after.block = <<>> /\ after.used = FALSE
    OBVIOUS
  <2>5. /\ Append(entries, entry) \in Seq(Entries)
        /\ Len(Append(entries, entry)) = n + 1
        /\ \A j \in 1 .. n : Append(entries, entry)[j] = entries[j]
        /\ Append(entries, entry)[n + 1] = entry
    <3> HIDE DEF entry, entries
    <3> QED BY <1>1, <2>3
  <2>6. <<>> \in Seq(Lbas) /\ Len(<<>>) = 0
    OBVIOUS
  <2>7. after \in Walks
    BY <2>5, <2>6 DEF Walks
  <2>8. B * ((n + 1) - 1) = done
    BY <1>1
  <2>9. k + 1 = B * (n + 1) + 0
    <3>1. B * (n + 1) = done + B
      BY <1>1
    <3> HIDE DEF done, m, B, n
    <3> QED BY <1>1, <1>7, <3>1
  <2>10. Entry(bits, done, entry)
    <3> HIDE DEF done, block, used, entry, m
    <3> QED BY <1>2, <1>4, <1>5, <1>7, <2>2 DEF Entry
  <2> HIDE DEF entry, entries, n, done, after
  <2>11. ASSUME NEW j \in 1 .. n + 1 PROVE Entry(bits, B * (j - 1), after.blocks[j])
    <3>1. CASE j \in 1 .. n
      BY <1>6, <2>4, <2>5, <3>1
    <3>2. CASE j = n + 1
      BY <2>4, <2>5, <2>8, <2>10, <3>2
    <3> QED BY <1>1, <3>1, <3>2
  <2>12. Len(after.blocks) = n + 1 /\ Len(after.block) = 0 /\ ~after.used
    BY <2>4, <2>5, <2>6
  <2>13. /\ k + 1 = B * Len(after.blocks) + Len(after.block) /\ Len(after.block) < B
         /\ \A j \in 1 .. Len(after.blocks) : Entry(bits, B * (j - 1), after.blocks[j])
    <3> HIDE DEF m
    <3> QED BY <1>1, <2>9, <2>11, <2>12
  <2>14. 1 .. Len(after.block) = {}
    BY <2>12
  <2>15. Pieces(bits, k + 1, after)
    <3>1. \A i \in 1 .. Len(after.block) :
            after.block[i] = SectorAt(B * Len(after.blocks) + i)
      BY <2>14
    <3>2. after.used <=> \E i \in 1 .. Len(after.block) : after.block[i] \in bits
      BY <2>12, <2>14
    <3> QED BY <2>7, <2>13, <3>1, <3>2, Zenon DEF Pieces
  <2> QED BY <2>1, <2>15
<1>8. CASE m + 1 # B
  <2> DEFINE after == [walk EXCEPT !.block = block, !.used = used]
  <2>1. Group(walk, lba, lba \in bits) = after
    BY <1>2, <1>8 DEF Group
  <2>2. walk \in Walks
    BY DEF Pieces
  <2>3. after \in Walks /\ after.blocks = entries /\ after.block = block /\ after.used = used
    <3> HIDE DEF block, used
    <3> QED BY <1>2, <1>3, <2>2 DEF Walks
  <2>4. k + 1 = done + (m + 1) /\ m + 1 < B
    <3> HIDE DEF done, m, B
    <3> QED BY <1>1, <1>8
  <2>5. Len(after.blocks) = n /\ Len(after.block) = m + 1
    <3> HIDE DEF entries, block, used, m, after
    <3> QED BY <1>2, <2>3
  <2>6. done = B * n
    OBVIOUS
  <2>7. \A i \in 1 .. Len(after.block) : after.block[i] = SectorAt(B * Len(after.blocks) + i)
    <3> HIDE DEF entries, block, used, m, n, done, after
    <3> QED BY <1>5, <2>3, <2>5, <2>6
  <2>8. after.used <=> \E i \in 1 .. Len(after.block) : after.block[i] \in bits
    <3> HIDE DEF entries, block, used, m, n, done, after
    <3> QED BY <1>4, <2>3, <2>5
  <2>9. \A j \in 1 .. Len(after.blocks) : Entry(bits, B * (j - 1), after.blocks[j])
    <3> HIDE DEF entries, block, used, m, n, done, after
    <3> QED BY <1>6, <2>3, <2>5
  <2>10. k + 1 = B * Len(after.blocks) + Len(after.block) /\ Len(after.block) < B
    <3> HIDE DEF entries, block, used, m, n, done, after
    <3> QED BY <2>4, <2>5, <2>6
  <2> HIDE DEF after
  <2>11. Pieces(bits, k + 1, after)
    BY <2>3, <2>7, <2>8, <2>9, <2>10, Zenon DEF Pieces
  <2> QED BY <2>1, <2>11
<1> QED BY <1>7, <1>8

\* One step more of a walk over the sectors.
LEMMA GroupType ==
  ASSUME NEW walk \in Walks, NEW lba \in Lbas, NEW bit \in BOOLEAN
  PROVE  Group(walk, lba, bit) \in Walks
<1> DEFINE used == walk.used \/ bit
           block == Append(walk.block, lba)
           entry == [used |-> used, sectors |-> block]
<1>1. used \in BOOLEAN /\ block \in Seq(Lbas) /\ walk.blocks \in Seq(Entries)
  BY DEF Walks
<1>2. entry \in Entries
  <2> HIDE DEF used, block
  <2> QED BY <1>1 DEF Entries
<1>3. [blocks |-> Append(walk.blocks, entry), block |-> <<>>, used |-> FALSE] \in Walks
  <2> HIDE DEF entry
  <2>1. Append(walk.blocks, entry) \in Seq(Entries) /\ <<>> \in Seq(Lbas)
    BY <1>1, <1>2
  <2> QED BY <2>1 DEF Walks
<1>4. [walk EXCEPT !.block = block, !.used = used] \in Walks
  <2> HIDE DEF used, block
  <2> QED BY <1>1 DEF Walks
<1> QED BY <1>3, <1>4 DEF Group

\* create_free_block_map is the last place of a walk over all the sectors.
LEMMA MapIsWalk ==
  ASSUME NEW bits \in SUBSET Lbas
  PROVE  \E walk \in [0 .. TOTAL_SECTORS -> Walks] :
           /\ create_free_block_map(bits) = walk[TOTAL_SECTORS].blocks
           /\ walk[0] = [blocks |-> <<>>, block |-> <<>>, used |-> FALSE]
           /\ \A n \in 1 .. TOTAL_SECTORS :
                walk[n] = IF IsReserved(Position(n - 1)) THEN walk[n - 1]
                          ELSE Group(walk[n - 1], Lba(Position(n - 1)), Lba(Position(n - 1)) \in bits)
<1> DEFINE first == [blocks |-> <<>>, block |-> <<>>, used |-> FALSE]
           Step(n, place) ==
             IF IsReserved(Position(n - 1)) THEN place
             ELSE Group(place, Lba(Position(n - 1)), Lba(Position(n - 1)) \in bits)
           Body(w) == [n \in 0 .. TOTAL_SECTORS |-> IF n = 0 THEN first ELSE Step(n, w[n - 1])]
           step == [x \in (1 .. TOTAL_SECTORS) \X Walks |-> Step(x[1], x[2])]
           walk == CHOOSE w : w = Body(w)
<1>1. create_free_block_map(bits) = walk[TOTAL_SECTORS].blocks
  BY DEF create_free_block_map
<1>2. first \in Walks
  BY DEF Walks
<1>3. ASSUME NEW n \in 1 .. TOTAL_SECTORS, NEW place \in Walks PROVE Step(n, place) \in Walks
  <2>1. n - 1 \in 0 .. TOTAL_SECTORS - 1
    BY Sizes
  <2>2. Lba(Position(n - 1)) \in Lbas
    BY <2>1, PositionFacts, LbaFacts
  <2> DEFINE lba == Lba(Position(n - 1))
             bit == lba \in bits
  <2>3. lba \in Lbas /\ bit \in BOOLEAN
    BY <2>2
  <2> HIDE DEF lba, bit
  <2>4. Group(place, lba, bit) \in Walks
    BY <2>3, GroupType
  <2> QED BY <2>4 DEF lba, bit
<1> HIDE DEF first, Step
<1>4. step \in [(1 .. TOTAL_SECTORS) \X Walks -> Walks]
  BY <1>3
<1>5. PICK w : IsWalkOf(w, TOTAL_SECTORS, Walks, first, step)
  <2>1. IsStep(step, TOTAL_SECTORS, Walks) /\ TOTAL_SECTORS \in Nat
    BY <1>4, Sizes DEF IsStep
  <2> HIDE DEF step
  <2> QED BY <1>2, <2>1, WalkExists, Zenon
<1>6. \A n \in 1 .. TOTAL_SECTORS : w[n] = Step(n, w[n - 1])
  <2> SUFFICES ASSUME NEW n \in 1 .. TOTAL_SECTORS PROVE w[n] = Step(n, w[n - 1])
    OBVIOUS
  <2>1. n - 1 \in 0 .. TOTAL_SECTORS
    BY Sizes
  <2>2. w[n - 1] \in Walks
    BY <1>5, <2>1 DEF IsWalkOf
  <2>3. <<n, w[n - 1]>> \in (1 .. TOTAL_SECTORS) \X Walks
    BY <2>2
  <2> QED BY <1>5, <2>3 DEF IsWalkOf
<1>7. w = Body(w)
  BY <1>5, <1>6, Sizes DEF IsWalkOf
<1>8. walk = Body(walk)
  <2> HIDE DEF Body
  <2> QED BY <1>7
<1>9. /\ walk[0] = first
      /\ \A n \in 1 .. TOTAL_SECTORS : walk[n] = Step(n, walk[n - 1])
  <2> HIDE DEF walk
  <2> QED BY <1>8, Sizes
<1>10. DOMAIN walk = 0 .. TOTAL_SECTORS /\ walk = [n \in 0 .. TOTAL_SECTORS |-> walk[n]]
  <2> HIDE DEF walk
  <2> QED BY <1>8
<1>11. walk \in [0 .. TOTAL_SECTORS -> Walks]
  <2> HIDE DEF walk
  <2> DEFINE good == {n \in Nat : walk[n] \in Walks}
  <2>1. 0 \in good
    BY <1>2, <1>9
  <2>2. ASSUME NEW n \in 0 .. TOTAL_SECTORS - 1, n \in good PROVE n + 1 \in good
    <3>1. n + 1 \in 1 .. TOTAL_SECTORS /\ (n + 1) - 1 = n /\ n + 1 \in Nat
      BY Sizes
    <3>2. walk[n + 1] = Step(n + 1, walk[n])
      BY <1>9, <3>1
    <3> QED BY <1>3, <2>2, <3>1, <3>2
  <2> HIDE DEF good
  <2>3. \A n \in 0 .. TOTAL_SECTORS : n \in good
    BY <2>1, <2>2, Sizes, SetInduction
  <2> QED BY <1>10, <2>3 DEF good
<1> HIDE DEF walk
<1> QED BY <1>1, <1>9, <1>11 DEF first, Step

\* The map is the vertical order cut in blocks, with a block in use if one of its
\* sectors is.
LEMMA MapFacts ==
  ASSUME NEW bits \in SUBSET Lbas
  PROVE  /\ create_free_block_map(bits) \in Seq(Entries)
         /\ Len(create_free_block_map(bits)) = N_BLOCKS
         /\ \A j \in 1 .. N_BLOCKS :
              Entry(bits, SECTORS_PER_BLOCK * (j - 1), create_free_block_map(bits)[j])
<1> DEFINE first == [blocks |-> <<>>, block |-> <<>>, used |-> FALSE]
<1>1. PICK walk \in [0 .. TOTAL_SECTORS -> Walks] :
        /\ create_free_block_map(bits) = walk[TOTAL_SECTORS].blocks
        /\ walk[0] = first
        /\ \A n \in 1 .. TOTAL_SECTORS :
             walk[n] = IF IsReserved(Position(n - 1)) THEN walk[n - 1]
                       ELSE Group(walk[n - 1], Lba(Position(n - 1)), Lba(Position(n - 1)) \in bits)
  BY MapIsWalk
<1> DEFINE good == {n \in Nat : Pieces(bits, Rank(n), walk[n])}
<1>2. 0 \in good
  <2>1. /\ first \in Walks /\ first.blocks = <<>> /\ first.block = <<>> /\ ~first.used
    BY DEF Walks
  <2> HIDE DEF first
  <2>2. /\ Len(first.blocks) = 0 /\ Len(first.block) = 0
        /\ 1 .. Len(first.blocks) = {} /\ 1 .. Len(first.block) = {}
    BY <2>1
  <2>3. Pieces(bits, 0, first)
    BY <2>1, <2>2, Sizes DEF Pieces
  <2> QED BY <1>1, <2>3, RankFacts
<1>3. ASSUME NEW n \in 0 .. TOTAL_SECTORS - 1, n \in good PROVE n + 1 \in good
  <2>1. n \in Nat /\ n + 1 \in 1 .. TOTAL_SECTORS /\ (n + 1) - 1 = n
    BY Sizes
  <2>2. Rank(n) \in Nat
    BY <2>1, StepsAreFinite
  <2>3. Pieces(bits, Rank(n), walk[n])
    BY <1>3
  <2>4. CASE n \in Steps
    <3> DEFINE lba == Lba(Position(n))
    <3>1. lba \in Lbas
      BY PositionFacts, LbaFacts
    <3>2. lba = SectorAt(Rank(n) + 1)
      BY <2>4, VerticalOrderFacts DEF SectorAt
    <3>3. walk[n + 1] = Group(walk[n], lba, lba \in bits)
      BY <1>1, <2>1, <2>4 DEF Steps
    <3> HIDE DEF lba
    <3>4. Pieces(bits, Rank(n) + 1, Group(walk[n], lba, lba \in bits))
      BY <2>2, <2>3, <3>1, <3>2, GroupFacts
    <3>5. Rank(n + 1) = Rank(n) + 1
      BY <2>1, <2>4, RankFacts
    <3> QED BY <2>1, <3>3, <3>4, <3>5
  <2>5. CASE n \notin Steps
    <3>1. walk[n + 1] = walk[n]
      BY <1>1, <2>1, <2>5 DEF Steps
    <3>2. Rank(n + 1) = Rank(n)
      BY <2>1, <2>5, RankFacts
    <3> QED BY <2>1, <2>3, <3>1, <3>2
  <2> QED BY <2>4, <2>5
<1> HIDE DEF good
<1>4. \A n \in 0 .. TOTAL_SECTORS : n \in good
  BY <1>2, <1>3, Sizes, SetInduction
<1> DEFINE last == walk[TOTAL_SECTORS]
<1>5. Pieces(bits, Len(VerticalOrder), last)
  BY <1>4, Sizes, RankFacts, VerticalOrderFacts DEF good
<1> HIDE DEF last
<1> DEFINE k == Len(VerticalOrder)
           B == SECTORS_PER_BLOCK
           m == Len(last.blocks)
           rest == Len(last.block)
<1>6. /\ last.blocks \in Seq(Entries) /\ m \in Nat /\ rest \in Nat /\ rest < B /\ B \in Nat \ {0}
      /\ k = B * m + rest /\ k \in Nat
  BY <1>5, Sizes, StepsAreFinite, VerticalOrderFacts DEF Pieces, Walks
<1>7. m = k \div B
  <2> HIDE DEF k, B, m, rest
  <2>1. k \div B \in Nat /\ k % B \in 0 .. B - 1 /\ k = B * (k \div B) + (k % B)
    BY <1>6, Division
  <2>2. rest \in 0 .. B - 1
    BY <1>6
  <2> DEFINE q == k \div B
             r == k % B
  <2>3. B * m + rest = B * q + r /\ q \in Nat /\ r \in 0 .. B - 1
    BY <1>6, <2>1
  <2> HIDE DEF q, r
  <2>4. m = q
    BY <1>6, <2>2, <2>3, QuotientAndRest
  <2> QED BY <2>4 DEF q
<1>8. m = N_BLOCKS
  BY <1>7 DEF N_BLOCKS
<1> QED BY <1>1, <1>5, <1>6, <1>8 DEF Pieces, last
-----------------------------------------------------------------------------
(* The sectors of the blocks.                                              *)

\* The blocks of the map are no more than TOTAL_BLOCKS, which counts the reserved
\* sectors too.
LEMMA BlocksAreFew == N_BLOCKS \in Nat /\ N_BLOCKS <= TOTAL_BLOCKS
<1> DEFINE k == Len(VerticalOrder)
           m == SECTORS_PER_BLOCK
           N == TOTAL_SECTORS
<1>1. k \in Nat /\ N \in Nat /\ k <= N /\ m \in Nat \ {0}
  BY Sizes, StepsAreFinite, VerticalOrderFacts
<1> HIDE DEF k, m, N
<1>2. /\ k \div m \in Nat /\ k % m \in 0 .. m - 1 /\ k = m * (k \div m) + (k % m)
      /\ N \div m \in Nat /\ N % m \in 0 .. m - 1 /\ N = m * (N \div m) + (N % m)
  BY <1>1, Division
<1>3. k \div m <= N \div m
  <2> SUFFICES ASSUME N \div m < k \div m PROVE FALSE
    BY <1>2
  <2>1. m * ((N \div m) + 1) <= m * (k \div m)
    BY <1>1, <1>2
  <2>2. m * ((N \div m) + 1) = m * (N \div m) + m
    BY <1>1, <1>2
  <2> QED BY <1>1, <1>2, <2>1, <2>2
<1> QED BY <1>2, <1>3 DEF k, m, N, N_BLOCKS, TOTAL_BLOCKS

\* A block's sector number i is one of the vertical order.
LEMMA PlaceInOrder ==
  ASSUME NEW b \in BlockIds, NEW i \in 1 .. SECTORS_PER_BLOCK
  PROVE  b * SECTORS_PER_BLOCK + i \in 1 .. Len(VerticalOrder)
<1> DEFINE k == Len(VerticalOrder)
           m == SECTORS_PER_BLOCK
           n == k \div m
<1>1. k \in Nat /\ m \in Nat \ {0}
  BY Sizes, StepsAreFinite, VerticalOrderFacts
<1>2. b \in 0 .. n - 1
  BY DEF BlockIds, N_BLOCKS
<1> HIDE DEF k, m
<1>3. n \in Nat /\ m * n <= k
  <2>1. n \in Nat /\ k % m \in 0 .. m - 1 /\ k = m * n + (k % m)
    BY <1>1, Division
  <2>2. m * n \in Nat
    BY <1>1, <2>1
  <2> QED BY <1>1, <2>1, <2>2
<1> HIDE DEF n
<1>4. b \in Nat /\ b + 1 <= n
  BY <1>2, <1>3
<1>5. m * (b + 1) <= m * n
  BY <1>1, <1>3, <1>4
<1>6. m * (b + 1) = b * m + m /\ b * m \in Nat
  BY <1>1, <1>4
<1>7. i \in 1 .. m
  BY DEF m
<1>8. b * m + i \in 1 .. k
  BY <1>1, <1>3, <1>5, <1>6, <1>7
<1> QED BY <1>8 DEF m, k

\* What is at a place of the order: a sector that is not reserved, there only.
LEMMA SectorAtFacts ==
  /\ \A i \in 1 .. Len(VerticalOrder) :
       SectorAt(i) \in Lbas /\ \E n \in Steps : SectorAt(i) = Lba(Position(n))
  /\ \A i, j \in 1 .. Len(VerticalOrder) : SectorAt(i) = SectorAt(j) => i = j
<1>1. ASSUME NEW i \in 1 .. Len(VerticalOrder)
      PROVE  \E n \in Steps : Rank(n) = i - 1 /\ SectorAt(i) = Lba(Position(n))
  <2>1. PICK n \in Steps : Rank(n) = i - 1
    BY VerticalOrderFacts
  <2>2. i = Rank(n) + 1
    BY <2>1
  <2> QED BY <2>1, <2>2, VerticalOrderFacts DEF SectorAt
<1>2. \A n \in Steps : Position(n) \in Places /\ Lba(Position(n)) \in Lbas
  BY PositionFacts, LbaFacts DEF Steps
<1>3. ASSUME NEW i \in 1 .. Len(VerticalOrder), NEW j \in 1 .. Len(VerticalOrder),
             SectorAt(i) = SectorAt(j)
      PROVE  i = j
  <2>1. PICK n \in Steps : Rank(n) = i - 1 /\ SectorAt(i) = Lba(Position(n))
    BY <1>1
  <2>2. PICK m \in Steps : Rank(m) = j - 1 /\ SectorAt(j) = Lba(Position(m))
    BY <1>1
  <2>3. Position(n) = Position(m)
    BY <1>2, <1>3, <2>1, <2>2, LbaFacts
  <2>4. n = m
    BY <2>3, PositionFacts DEF Steps
  <2> QED BY <2>1, <2>2, <2>4
<1> QED BY <1>1, <1>2, <1>3

\* A block is a sequence of sectors, and no sector is twice in the blocks.
LEMMA SectorsOfBlockFacts ==
  /\ \A b \in BlockIds : SectorsOfBlock(b) \in [1 .. SECTORS_PER_BLOCK -> Lbas]
  /\ \A b, c \in BlockIds, i, j \in 1 .. SECTORS_PER_BLOCK :
       SectorsOfBlock(b)[i] = SectorsOfBlock(c)[j] => b = c /\ i = j
<1>1. \A b \in BlockIds, i \in 1 .. SECTORS_PER_BLOCK :
        /\ SectorsOfBlock(b)[i] = SectorAt(b * SECTORS_PER_BLOCK + i)
        /\ SectorAt(b * SECTORS_PER_BLOCK + i) \in Lbas
  BY PlaceInOrder, SectorAtFacts DEF SectorsOfBlock, SectorAt
<1>2. ASSUME NEW b \in BlockIds PROVE SectorsOfBlock(b) \in [1 .. SECTORS_PER_BLOCK -> Lbas]
  BY <1>1 DEF SectorsOfBlock
<1>3. ASSUME NEW b \in BlockIds, NEW c \in BlockIds,
             NEW i \in 1 .. SECTORS_PER_BLOCK, NEW j \in 1 .. SECTORS_PER_BLOCK,
             SectorsOfBlock(b)[i] = SectorsOfBlock(c)[j]
      PROVE  b = c /\ i = j
  <2> DEFINE m == SECTORS_PER_BLOCK
  <2>1. b * m + i = c * m + j
    BY <1>1, <1>3, PlaceInOrder, SectorAtFacts
  <2>2. /\ m \in Nat \ {0} /\ b \in Nat /\ c \in Nat
        /\ i - 1 \in 0 .. m - 1 /\ j - 1 \in 0 .. m - 1 /\ i \in Nat /\ j \in Nat
    BY Sizes DEF BlockIds
  <2> HIDE DEF m
  <2>3. m * b + (i - 1) = m * c + (j - 1)
    BY <2>1, <2>2
  <2> DEFINE r == i - 1
             s == j - 1
  <2>4. r \in 0 .. m - 1 /\ s \in 0 .. m - 1 /\ m * b + r = m * c + s
    BY <2>2, <2>3
  <2> HIDE DEF r, s
  <2>5. b = c /\ r = s
    BY <2>2, <2>4, QuotientAndRest
  <2> QED BY <2>2, <2>5 DEF r, s
<1> QED BY <1>2, <1>3

\* The sectors of a block.
LEMMA RangeOfBlock ==
  ASSUME NEW b \in BlockIds
  PROVE  /\ Range(SectorsOfBlock(b)) = {SectorsOfBlock(b)[i] : i \in 1 .. SECTORS_PER_BLOCK}
         /\ Range(SectorsOfBlock(b)) \subseteq Lbas
         /\ Range(SectorsOfBlock(b)) # {}
         /\ \A c \in BlockIds \ {b} : Range(SectorsOfBlock(b)) \cap Range(SectorsOfBlock(c)) = {}
<1>1. \A c \in BlockIds : SectorsOfBlock(c) \in [1 .. SECTORS_PER_BLOCK -> Lbas]
  BY SectorsOfBlockFacts
<1>2. \A c \in BlockIds :
        Range(SectorsOfBlock(c)) = {SectorsOfBlock(c)[i] : i \in 1 .. SECTORS_PER_BLOCK}
  BY <1>1 DEF Range
<1>3. 1 \in 1 .. SECTORS_PER_BLOCK
  BY Sizes
<1>4. Range(SectorsOfBlock(b)) \subseteq Lbas /\ Range(SectorsOfBlock(b)) # {}
  <2>1. SectorsOfBlock(b)[1] \in Range(SectorsOfBlock(b))
    BY <1>2, <1>3
  <2>2. \A i \in 1 .. SECTORS_PER_BLOCK : SectorsOfBlock(b)[i] \in Lbas
    BY <1>1
  <2>3. Range(SectorsOfBlock(b)) = {SectorsOfBlock(b)[i] : i \in 1 .. SECTORS_PER_BLOCK}
    BY <1>2
  <2> QED BY <2>1, <2>2, <2>3
<1>5. ASSUME NEW c \in BlockIds \ {b}
      PROVE  Range(SectorsOfBlock(b)) \cap Range(SectorsOfBlock(c)) = {}
  BY <1>2, SectorsOfBlockFacts
<1> QED BY <1>2, <1>4, <1>5

\* create_free_block_map gives every block its sectors and its flag.
LEMMA MapOfBits ==
  ASSUME NEW bits \in SUBSET Lbas
  PROVE  /\ DOMAIN create_free_block_map(bits) = 1 .. N_BLOCKS
         /\ \A b \in BlockIds :
              /\ create_free_block_map(bits)[b + 1]
                   \in [used : BOOLEAN, sectors : [1 .. SECTORS_PER_BLOCK -> Lbas]]
              /\ create_free_block_map(bits)[b + 1].sectors = SectorsOfBlock(b)
              /\ create_free_block_map(bits)[b + 1].used <=> Range(SectorsOfBlock(b)) \cap bits # {}
<1> DEFINE map == create_free_block_map(bits)
<1>1. map \in Seq(Entries) /\ Len(map) = N_BLOCKS
  BY MapFacts
<1>2. DOMAIN map = 1 .. N_BLOCKS
  <2> HIDE DEF map
  <2> QED BY <1>1
<1>3. ASSUME NEW b \in BlockIds
      PROVE  /\ map[b + 1] \in [used : BOOLEAN, sectors : [1 .. SECTORS_PER_BLOCK -> Lbas]]
             /\ map[b + 1].sectors = SectorsOfBlock(b)
             /\ map[b + 1].used <=> Range(SectorsOfBlock(b)) \cap bits # {}
  <2> DEFINE entry == map[b + 1]
             m == SECTORS_PER_BLOCK
  <2>1. b + 1 \in 1 .. N_BLOCKS /\ (b + 1) - 1 = b /\ b \in Nat
    BY BlocksAreFew DEF BlockIds
  <2>2. Entry(bits, m * ((b + 1) - 1), entry)
    BY <2>1, MapFacts
  <2>3. Entry(bits, b * m, entry)
    <3>1. m * ((b + 1) - 1) = b * m
      BY <2>1, Sizes
    <3> QED BY <2>2, <3>1
  <2>4. entry \in Entries
    <3> HIDE DEF map
    <3> QED BY <1>1, <2>1
  <2> HIDE DEF entry, map
  <2>5. /\ entry.sectors \in [1 .. m -> Lbas]
        /\ \A i \in 1 .. m : entry.sectors[i] = SectorAt(b * m + i)
        /\ entry.used <=> \E i \in 1 .. m : entry.sectors[i] \in bits
    BY <2>3, <2>4, Sizes DEF Entry, Entries
  <2>6. entry.sectors = SectorsOfBlock(b)
    BY <2>5, SectorsOfBlockFacts DEF SectorsOfBlock, SectorAt
  <2>7. entry.used <=> Range(SectorsOfBlock(b)) \cap bits # {}
    <3>1. \A i \in 1 .. m : entry.sectors[i] \in bits <=> SectorsOfBlock(b)[i] \in bits
      BY <2>6
    <3>2. Range(SectorsOfBlock(b)) = {SectorsOfBlock(b)[i] : i \in 1 .. m}
      BY RangeOfBlock
    <3>3. Range(SectorsOfBlock(b)) \cap bits # {} <=>
            \E i \in 1 .. m : SectorsOfBlock(b)[i] \in bits
      BY <3>2
    <3> QED BY <2>5, <3>1, <3>3
  <2>8. entry \in [used : BOOLEAN, sectors : [1 .. m -> Lbas]]
    BY <2>4, <2>5 DEF Entries
  <2> QED BY <2>6, <2>7, <2>8 DEF entry
<1> QED BY <1>2, <1>3

\* With tracks of two sectors or more, sectors 0 and 1 are the two reserved places.
LEMMA ReservedIsNoBlock ==
  ASSUME SECTORS_PER_TRACK > 1, NEW b \in BlockIds
  PROVE  0 \notin Range(SectorsOfBlock(b)) /\ 1 \notin Range(SectorsOfBlock(b))
<1> SUFFICES ASSUME NEW i \in 1 .. SECTORS_PER_BLOCK, SectorsOfBlock(b)[i] \in {0, 1}
             PROVE  FALSE
  BY RangeOfBlock
<1>1. SectorsOfBlock(b)[i] = SectorAt(b * SECTORS_PER_BLOCK + i)
  BY DEF SectorsOfBlock, SectorAt
<1>2. PICK n \in Steps : SectorAt(b * SECTORS_PER_BLOCK + i) = Lba(Position(n))
  BY PlaceInOrder, SectorAtFacts
<1> DEFINE at == Position(n)
<1>3. at \in Places /\ ~IsReserved(at)
  BY PositionFacts DEF Steps
<1>4. Lba(at) \in {0, 1}
  BY <1>1, <1>2
<1> HIDE DEF at
<1> DEFINE track == (at.c * SURFACES) + at.h
           s == at.s
<1>5. at.c \in Nat /\ at.h \in Nat /\ s \in Nat /\ track \in Nat /\ at.c * SURFACES \in Nat
  BY <1>3, Sizes DEF Places
<1>6. Lba(at) = track * SECTORS_PER_TRACK + s
  BY DEF Lba
<1>7. track = 0
  <2> SUFFICES ASSUME track > 0 PROVE FALSE
    BY <1>5
  <2> HIDE DEF track, s
  <2>1. track * SECTORS_PER_TRACK >= SECTORS_PER_TRACK
    BY <1>5, Sizes
  <2> QED BY <1>4, <1>5, <1>6, <2>1, Sizes
<1>8. s \in {0, 1}
  <2> HIDE DEF track, s
  <2>1. 0 * SECTORS_PER_TRACK = 0
    BY Sizes
  <2> QED BY <1>4, <1>5, <1>6, <1>7, <2>1
<1>9. at.c = 0 /\ at.h = 0
  BY <1>5, <1>7, Sizes
<1> QED BY <1>3, <1>8, <1>9 DEF IsReserved
-----------------------------------------------------------------------------
(* The search for a free block.                                            *)

\* The free blocks before the k-th, and how many.
FreeBefore(k) == {f \in BlockIds : f < k /\ ~Block(f).used}
FreeCount(k) == Cardinality(FreeBefore(k))

LEMMA FreeCountFacts ==
  /\ \A k \in Nat : FreeCount(k) \in Nat /\ FreeCount(k) <= FreeCount(N_BLOCKS)
  /\ \A k \in BlockIds :
       FreeCount(k + 1) = IF Block(k).used THEN FreeCount(k) ELSE FreeCount(k) + 1
<1>1. IsFiniteSet(BlockIds) /\ \A b \in BlockIds : b \in Nat /\ b < N_BLOCKS
  BY BlocksAreFew, FS_Interval DEF BlockIds
<1>2. \A k \in Nat : IsFiniteSet(FreeBefore(k)) /\ FreeBefore(k) \subseteq FreeBefore(N_BLOCKS)
  <2> SUFFICES ASSUME NEW k \in Nat
               PROVE  IsFiniteSet(FreeBefore(k)) /\ FreeBefore(k) \subseteq FreeBefore(N_BLOCKS)
    OBVIOUS
  <2>1. FreeBefore(k) \subseteq BlockIds
    BY DEF FreeBefore
  <2>2. FreeBefore(k) \subseteq FreeBefore(N_BLOCKS)
    BY <1>1 DEF FreeBefore
  <2> QED BY <1>1, <2>1, <2>2, FS_Subset
<1>3. ASSUME NEW k \in Nat PROVE FreeCount(k) \in Nat /\ FreeCount(k) <= FreeCount(N_BLOCKS)
  <2>1. /\ IsFiniteSet(FreeBefore(k)) /\ IsFiniteSet(FreeBefore(N_BLOCKS))
        /\ FreeBefore(k) \subseteq FreeBefore(N_BLOCKS)
    BY <1>2, BlocksAreFew
  <2> QED BY <2>1, FS_Subset, FS_CardinalityType DEF FreeCount
<1>4. ASSUME NEW k \in BlockIds
      PROVE  FreeCount(k + 1) = IF Block(k).used THEN FreeCount(k) ELSE FreeCount(k) + 1
  <2>1. k \in Nat /\ \A f \in BlockIds : f < k + 1 <=> f < k \/ f = k
    BY <1>1
  <2>2. CASE Block(k).used
    <3>1. FreeBefore(k + 1) = FreeBefore(k)
      BY <2>1, <2>2 DEF FreeBefore
    <3> QED BY <2>2, <3>1 DEF FreeCount
  <2>3. CASE ~Block(k).used
    <3>1. FreeBefore(k + 1) = FreeBefore(k) \cup {k} /\ k \notin FreeBefore(k)
      <4>1. k \notin FreeBefore(k)
        BY <2>1 DEF FreeBefore
      <4>2. \A f \in BlockIds : f \in FreeBefore(k + 1) <=> f \in FreeBefore(k) \/ f = k
        BY <2>1, <2>3 DEF FreeBefore
      <4>3. FreeBefore(k) \subseteq BlockIds /\ FreeBefore(k + 1) \subseteq BlockIds
        BY DEF FreeBefore
      <4> QED BY <4>1, <4>2, <4>3
    <3>2. IsFiniteSet(FreeBefore(k))
      BY <1>2, <2>1
    <3>3. Cardinality(FreeBefore(k) \cup {k}) = Cardinality(FreeBefore(k)) + 1
      BY <3>1, <3>2, FS_AddElement
    <3> QED BY <2>3, <3>1, <3>3 DEF FreeCount
  <2> QED BY <2>2, <2>3
<1> QED BY <1>3, <1>4

\* What the search gives from block i on.
LEMMA SearchIsLoop ==
  \E from :
    /\ \A ith : get_free_block(ith) = from[0][ith]
    /\ \A i \in 0 .. TOTAL_BLOCKS, n \in 0 .. TOTAL_BLOCKS :
         from[i][n] = IF i = TOTAL_BLOCKS THEN NULL_BLOCK
                      ELSE IF i >= Len(blocks) THEN TOTAL_BLOCKS + 1
                      ELSE IF Block(i).used THEN from[i + 1][n]
                      ELSE IF n = 0 THEN i
                      ELSE from[i + 1][n - 1]
<1> DEFINE T == TOTAL_BLOCKS
           V == [0 .. T -> Nat]
           \* The row of block i from that of the next.
           Row(i, after) ==
             [n \in 0 .. T |->
                IF i = T THEN NULL_BLOCK
                ELSE IF i >= Len(blocks) THEN T + 1
                ELSE IF Block(i).used THEN after[n]
                ELSE IF n = 0 THEN i
                ELSE after[n - 1]]
           Body(f) == [i \in 0 .. T |-> Row(i, f[i + 1])]
           from == CHOOSE f : f = Body(f)
<1>1. \A ith : get_free_block(ith) = from[0][ith]
  BY DEF get_free_block
<1>2. ASSUME NEW i \in 0 .. T, NEW after \in V PROVE Row(i, after) \in V
  <2>1. i \in Nat /\ T \in Nat /\ NULL_BLOCK \in Nat
    BY Sizes DEF NULL_BLOCK
  <2>2. ASSUME NEW n \in 0 .. T, n # 0 PROVE n - 1 \in 0 .. T
    BY <2>1, <2>2
  <2> QED BY <2>1, <2>2
<1> DEFINE zeros == [n \in 0 .. T |-> 0]
           first == Row(T, zeros)
<1>3. first \in V
  <2>1. zeros \in V /\ T \in 0 .. T
    BY Sizes
  <2> HIDE DEF zeros, Row, V
  <2> QED BY <1>2, <2>1
<1> DEFINE step == [x \in (1 .. T) \X V |-> Row(T - x[1], x[2])]
<1>4. \A after : Row(T, after) = first
  OBVIOUS
<1> HIDE DEF Row
<1>5. step \in [(1 .. T) \X V -> V]
  <2>1. \A k \in 1 .. T : T - k \in 0 .. T
    BY Sizes
  <2> QED BY <1>2, <2>1
<1>6. PICK w : IsWalkOf(w, T, V, first, step)
  <2>1. T \in Nat /\ IsStep(step, T, V)
    BY <1>5, Sizes DEF IsStep
  <2> HIDE DEF step, V, first, zeros, from, Body, T
  <2> QED BY <1>3, <1>5, <2>1, WalkExists, Zenon
<1>7. \A k \in 1 .. T : w[k] = Row(T - k, w[k - 1])
  <2> SUFFICES ASSUME NEW k \in 1 .. T PROVE w[k] = Row(T - k, w[k - 1])
    OBVIOUS
  <2> HIDE DEF V
  <2>1. w[k - 1] \in V
    <3>1. k - 1 \in 0 .. T
      BY Sizes
    <3> QED BY <1>6, <3>1 DEF IsWalkOf
  <2>2. <<k, w[k - 1]>> \in (1 .. T) \X V
    BY <2>1
  <2> QED BY <1>6, <2>2 DEF IsWalkOf
<1> DEFINE f == [i \in 0 .. T |-> w[T - i]]
<1>8. f = Body(f)
  <2> SUFFICES ASSUME NEW i \in 0 .. T PROVE f[i] = Row(i, f[i + 1])
    OBVIOUS
  <2>1. i \in Nat /\ T \in Nat /\ i <= T
    BY Sizes
  <2>2. CASE i = T
    <3>1. T - i = 0
      BY <2>1, <2>2
    <3>2. f[i] = first
      BY <1>6, <3>1 DEF IsWalkOf
    <3> QED BY <1>4, <2>2, <3>2
  <2>3. CASE i # T
    <3>1. /\ T - i \in 1 .. T /\ T - (T - i) = i /\ (T - i) - 1 = T - (i + 1)
          /\ i + 1 \in 0 .. T
      BY <2>1, <2>3
    <3>2. f[i] = w[T - i] /\ f[i + 1] = w[T - (i + 1)]
      BY <3>1
    <3> HIDE DEF f
    <3>3. w[T - i] = Row(T - (T - i), w[(T - i) - 1])
      BY <1>7, <3>1
    <3> QED BY <3>1, <3>2, <3>3
  <2> QED BY <2>2, <2>3
<1>9. from = Body(from)
  <2> HIDE DEF Body, f
  <2> QED BY <1>8
<1>10. \A i \in 0 .. T : from[i] = Row(i, from[i + 1])
  <2> HIDE DEF from
  <2> QED BY <1>9
<1> HIDE DEF from
<1>11. ASSUME NEW i \in 0 .. T, NEW n \in 0 .. T
       PROVE  from[i][n] = IF i = T THEN NULL_BLOCK
                           ELSE IF i >= Len(blocks) THEN T + 1
                           ELSE IF Block(i).used THEN from[i + 1][n]
                           ELSE IF n = 0 THEN i
                           ELSE from[i + 1][n - 1]
  <2> DEFINE after == from[i + 1]
  <2>1. from[i] = Row(i, after)
    BY <1>10
  <2> HIDE DEF after
  <2>2. Row(i, after)[n] = IF i = T THEN NULL_BLOCK
                           ELSE IF i >= Len(blocks) THEN T + 1
                           ELSE IF Block(i).used THEN after[n]
                           ELSE IF n = 0 THEN i
                           ELSE after[n - 1]
    BY DEF Row
  <2> QED BY <2>1, <2>2 DEF after
<1> QED BY <1>1, <1>11

\* The blocks a DiskManager object has in memory.
BlockEntries == [used : BOOLEAN, sectors : [1 .. SECTORS_PER_BLOCK -> Lbas]]

LEMMA BlockFacts ==
  ASSUME blocks \in [1 .. N_BLOCKS -> BlockEntries]
  PROVE  /\ Len(blocks) = N_BLOCKS
         /\ \A b \in BlockIds : b + 1 \in 1 .. N_BLOCKS /\ Block(b) \in BlockEntries
<1>1. N_BLOCKS \in Nat
  BY BlocksAreFew
<1>2. Len(blocks) = N_BLOCKS
  BY <1>1
<1>3. \A b \in BlockIds : b + 1 \in 1 .. N_BLOCKS
  BY <1>1 DEF BlockIds
<1> QED BY <1>2, <1>3 DEF Block

\* The search passes over n free blocks and gives the next one; with no more of them
\* it runs off the map, or past the last block.
LEMMA SearchFacts ==
  ASSUME blocks \in [1 .. N_BLOCKS -> BlockEntries], NEW n \in 0 .. TOTAL_BLOCKS
  PROVE  IF n < FreeCount(N_BLOCKS)
         THEN /\ get_free_block(n) \in BlockIds
              /\ ~Block(get_free_block(n)).used
              /\ FreeCount(get_free_block(n)) = n
         ELSE get_free_block(n) = IF N_BLOCKS < TOTAL_BLOCKS THEN TOTAL_BLOCKS + 1 ELSE NULL_BLOCK
<1> DEFINE T == TOTAL_BLOCKS
           N == N_BLOCKS
           Nothing == IF N < T THEN T + 1 ELSE NULL_BLOCK
           IsFound(b, k) ==
             IF k < FreeCount(N)
             THEN b \in BlockIds /\ ~Block(b).used /\ FreeCount(b) = k
             ELSE b = Nothing
<1>1. /\ N \in Nat /\ T \in Nat /\ N <= T /\ Len(blocks) = N /\ BlockIds = 0 .. N - 1
      /\ NULL_BLOCK = T
  BY Sizes, BlocksAreFew, BlockFacts DEF BlockIds, NULL_BLOCK
<1>2. PICK from :
        /\ \A ith : get_free_block(ith) = from[0][ith]
        /\ \A i \in 0 .. T, k \in 0 .. T :
             from[i][k] = IF i = T THEN NULL_BLOCK
                          ELSE IF i >= Len(blocks) THEN T + 1
                          ELSE IF Block(i).used THEN from[i + 1][k]
                          ELSE IF k = 0 THEN i
                          ELSE from[i + 1][k - 1]
  BY SearchIsLoop
<1> HIDE DEF T, N
<1>3. \A k \in 0 .. T : from[N][k] = Nothing
  BY <1>1, <1>2
<1>4. FreeCount(N) \in Nat /\ \A k \in Nat : FreeCount(k) \in Nat /\ FreeCount(k) <= FreeCount(N)
  BY <1>1, FreeCountFacts DEF N
<1> DEFINE good == {d \in Nat : \A k \in 0 .. T : IsFound(from[N - d][k], FreeCount(N - d) + k)}
<1>5. 0 \in good
  <2>1. \A k \in 0 .. T : ~(FreeCount(N) + k < FreeCount(N)) /\ N - 0 = N
    BY <1>1, <1>4
  <2> QED BY <1>3, <2>1
<1> HIDE DEF Nothing
<1>6. ASSUME NEW d \in 0 .. N - 1, d \in good PROVE d + 1 \in good
  <2> DEFINE i == N - (d + 1)
  <2>1. /\ i \in 0 .. N - 1 /\ i + 1 = N - d /\ i \in 0 .. T /\ i # T /\ i < N /\ i \in Nat
        /\ i + 1 \in Nat /\ d + 1 \in Nat
    BY <1>1
  <2>2. i \in BlockIds
    BY <1>1, <2>1
  <2> HIDE DEF i
  <2>3. \A k \in 0 .. T : IsFound(from[i + 1][k], FreeCount(i + 1) + k)
    BY <1>6, <2>1
  <2>4. FreeCount(i) \in Nat /\ FreeCount(i + 1) \in Nat /\ FreeCount(i + 1) <= FreeCount(N)
    BY <1>4, <2>1
  <2>5. ASSUME NEW k \in 0 .. T PROVE IsFound(from[i][k], FreeCount(i) + k)
    <3>1. from[i][k] = IF Block(i).used THEN from[i + 1][k]
                       ELSE IF k = 0 THEN i
                       ELSE from[i + 1][k - 1]
      BY <1>1, <1>2, <2>1
    <3>2. CASE Block(i).used
      <4>1. FreeCount(i + 1) = FreeCount(i) /\ from[i][k] = from[i + 1][k]
        BY <2>2, <3>1, <3>2, FreeCountFacts
      <4> HIDE DEF IsFound
      <4> QED BY <2>3, <4>1
    <3>3. CASE ~Block(i).used /\ k = 0
      <4>1. FreeCount(i + 1) = FreeCount(i) + 1 /\ from[i][k] = i
        BY <2>2, <3>1, <3>3, FreeCountFacts
      <4> DEFINE c == FreeCount(i)
                 all == FreeCount(N)
      <4>2. c \in Nat /\ all \in Nat /\ c + 1 <= all
        BY <1>4, <2>4, <4>1
      <4> HIDE DEF c, all
      <4>3. c + k = c /\ c < all
        BY <3>3, <4>2
      <4> QED BY <2>2, <3>3, <4>1, <4>3 DEF c, all
    <3>4. CASE ~Block(i).used /\ k # 0
      <4>1. FreeCount(i + 1) = FreeCount(i) + 1 /\ from[i][k] = from[i + 1][k - 1]
        BY <2>2, <3>1, <3>4, FreeCountFacts
      <4>2. k - 1 \in 0 .. T /\ FreeCount(i + 1) + (k - 1) = FreeCount(i) + k
        BY <1>1, <2>4, <3>4, <4>1
      <4>3. IsFound(from[i + 1][k - 1], FreeCount(i + 1) + (k - 1))
        BY <2>3, <4>2
      <4> HIDE DEF IsFound
      <4> QED BY <4>1, <4>2, <4>3
    <3> QED BY <3>2, <3>3, <3>4
  <2> HIDE DEF IsFound
  <2> QED BY <2>1, <2>5 DEF i
<1> HIDE DEF good
<1>7. \A d \in 0 .. N : d \in good
  BY <1>1, <1>5, <1>6, SetInduction
<1>8. IsFound(from[0][n], FreeCount(0) + n)
  <2>1. N \in good /\ N - N = 0
    BY <1>1, <1>7
  <2> HIDE DEF IsFound
  <2>2. n \in 0 .. T
    BY DEF T
  <2> QED BY <2>1, <2>2 DEF good
<1>9. FreeCount(0) = 0
  <2>1. FreeBefore(0) = {}
    BY <1>1 DEF FreeBefore
  <2> QED BY <2>1, FS_EmptySet DEF FreeCount
<1>10. FreeCount(0) + n = n
  BY <1>9, Sizes
<1>11. IsFound(get_free_block(n), n)
  <2> HIDE DEF IsFound
  <2> QED BY <1>2, <1>8, <1>10
<1> QED BY <1>11 DEF N, T, Nothing
-----------------------------------------------------------------------------
(* The inductive invariant.                                                *)

\* The write of a block that is under way.
Writes ==
  [op : {"write_block"}, block : BlockIds, image : Bytes, n : 0 .. SECTORS_PER_BLOCK,
   before : [1 .. SECTORS_PER_BLOCK -> Bytes]]

BusyOK == busy = Idle \/ busy = Storing \/ busy \in Writes

\* A map cut as the walk cuts it.
IsCut(map) ==
  /\ map \in [1 .. N_BLOCKS -> BlockEntries]
  /\ \A b \in BlockIds : map[b + 1].sectors = SectorsOfBlock(b)

MapIsCut == running => IsCut(blocks)

DiskTypes ==
  /\ sectors \in [Lbas -> Bytes]
  /\ bitmap_file \in SUBSET Lbas
  /\ running \in BOOLEAN
  /\ free_space_bitmap \in SUBSET Lbas
  /\ crashed \in BOOLEAN
  /\ ~running => busy = Idle

DiskInv == DiskTypes /\ BusyOK /\ MapIsCut /\ WrittenIsMarked

\* The flags agree with the bits also while a block is being written, but for that
\* block.
FlagsAgree ==
  running =>
    \A b \in BlockIds :
      ~(busy.op = "write_block" /\ busy.block = b) =>
        (Block(b).used <=> Range(SectorsOfBlock(b)) \cap free_space_bitmap # {})

\* The operations are told apart by their names.
LEMMA Operations ==
  /\ Idle.op = "idle" /\ Storing.op = "store_fsb"
  /\ \A w \in Writes : w.op = "write_block"
  /\ Idle # Storing /\ Idle \notin Writes /\ Storing \notin Writes
  /\ BusyOK => /\ busy.op \in {"idle", "store_fsb", "write_block"}
               /\ busy.op = "write_block" => busy \in Writes
<1>1. Idle.op = "idle" /\ Storing.op = "store_fsb" /\ \A w \in Writes : w.op = "write_block"
  BY DEF Idle, Storing, Writes
<1>2. Idle # Storing /\ Idle \notin Writes /\ Storing \notin Writes
  BY <1>1
<1> QED BY <1>1, <1>2 DEF BusyOK

LEMMA CutFacts ==
  ASSUME NEW map, IsCut(map)
  PROVE  /\ DOMAIN map = 1 .. N_BLOCKS
         /\ \A b \in BlockIds : b + 1 \in 1 .. N_BLOCKS /\ map[b + 1] \in BlockEntries
<1>1. \A b \in BlockIds : b + 1 \in 1 .. N_BLOCKS
  BY BlocksAreFew DEF BlockIds
<1> QED BY <1>1 DEF IsCut

LEMMA NewMapIsCut ==
  ASSUME NEW bits \in SUBSET Lbas
  PROVE  IsCut(create_free_block_map(bits))
<1> DEFINE map == create_free_block_map(bits)
<1>1. map \in Seq(Entries) /\ Len(map) = N_BLOCKS
  BY MapFacts
<1>2. \A b \in BlockIds : map[b + 1] \in BlockEntries /\ map[b + 1].sectors = SectorsOfBlock(b)
  BY MapOfBits DEF BlockEntries
<1>3. \A j \in 1 .. N_BLOCKS : j - 1 \in BlockIds /\ (j - 1) + 1 = j
  BY BlocksAreFew DEF BlockIds
<1> HIDE DEF map
<1>4. \A j \in 1 .. N_BLOCKS : map[j] \in BlockEntries
  BY <1>2, <1>3
<1>5. map \in [1 .. N_BLOCKS -> BlockEntries]
  BY <1>1, <1>4
<1>6. IsCut(map)
  BY <1>2, <1>5 DEF IsCut
<1> QED BY <1>6 DEF map

\* Setting the flag of a block leaves the rest of the map as it was.
LEMMA MarkedMapIsCut ==
  ASSUME NEW map, IsCut(map), NEW b \in BlockIds
  PROVE  LET marked == [map EXCEPT ![b + 1].used = TRUE]
         IN  /\ IsCut(marked)
             /\ marked[b + 1].used = TRUE
             /\ \A c \in BlockIds \ {b} : marked[c + 1] = map[c + 1]
<1> DEFINE marked == [map EXCEPT ![b + 1].used = TRUE]
           entry == [map[b + 1] EXCEPT !.used = TRUE]
<1>1. \A c \in BlockIds :
        /\ c + 1 \in 1 .. N_BLOCKS /\ map[c + 1] \in BlockEntries
        /\ map[c + 1].sectors = SectorsOfBlock(c)
  BY CutFacts DEF IsCut
<1>2. entry \in BlockEntries /\ entry.used = TRUE /\ entry.sectors = map[b + 1].sectors
  BY <1>1 DEF BlockEntries
<1>3. map \in [1 .. N_BLOCKS -> BlockEntries]
  BY DEF IsCut
<1>4. marked = [map EXCEPT ![b + 1] = entry]
  OBVIOUS
<1> HIDE DEF entry, marked
<1>5. marked \in [1 .. N_BLOCKS -> BlockEntries] /\ marked[b + 1] = entry
  BY <1>1, <1>2, <1>3, <1>4
<1>6. \A c \in BlockIds \ {b} : c + 1 # b + 1
  BY BlocksAreFew DEF BlockIds
<1>7. \A c \in BlockIds \ {b} : marked[c + 1] = map[c + 1]
  BY <1>1, <1>3, <1>4, <1>6
<1>8. \A c \in BlockIds : marked[c + 1].sectors = SectorsOfBlock(c)
  BY <1>1, <1>2, <1>5, <1>7
<1>9. IsCut(marked)
  BY <1>5, <1>8 DEF IsCut
<1> QED BY <1>2, <1>5, <1>7, <1>9 DEF marked

LEMMA InvariantTypes == DiskInv => TypeOK
<1> SUFFICES ASSUME DiskInv PROVE TypeOK
  OBVIOUS
<1>1. running => /\ DOMAIN blocks = 1 .. N_BLOCKS
                 /\ \A b \in BlockIds :
                      Block(b) \in [used : BOOLEAN, sectors : [1 .. SECTORS_PER_BLOCK -> Lbas]]
  BY CutFacts DEF DiskInv, MapIsCut, Block, BlockEntries
<1>2. busy.op \in {"idle", "store_fsb", "write_block"}
  BY Operations DEF DiskInv
<1> QED BY <1>1, <1>2 DEF TypeOK, DiskInv, DiskTypes

\* A block that the search gives is one, and free.
LEMMA FirstFreeBlock ==
  ASSUME running, MapIsCut, get_free_block(0) < NULL_BLOCK
  PROVE  get_free_block(0) \in BlockIds /\ ~Block(get_free_block(0)).used
<1>1. blocks \in [1 .. N_BLOCKS -> BlockEntries]
  BY DEF MapIsCut, IsCut
<1>2. 0 \in 0 .. TOTAL_BLOCKS
  BY Sizes
<1>3. ~(TOTAL_BLOCKS + 1 < NULL_BLOCK) /\ ~(NULL_BLOCK < NULL_BLOCK)
  BY Sizes DEF NULL_BLOCK
<1>4. IF 0 < FreeCount(N_BLOCKS)
      THEN get_free_block(0) \in BlockIds /\ ~Block(get_free_block(0)).used
      ELSE get_free_block(0) = IF N_BLOCKS < TOTAL_BLOCKS THEN TOTAL_BLOCKS + 1 ELSE NULL_BLOCK
  BY <1>1, <1>2, SearchFacts
<1> QED BY <1>3, <1>4

\* What set_block_used does.
LEMMA SetBlockUsedFacts ==
  ASSUME IsCut(blocks), free_space_bitmap \in SUBSET Lbas, NEW b \in BlockIds, set_block_used(b)
  PROVE  /\ IsCut(blocks')
         /\ free_space_bitmap' = free_space_bitmap \cup Range(SectorsOfBlock(b))
         /\ free_space_bitmap' \in SUBSET Lbas
         /\ Block(b)'.used = TRUE
         /\ \A c \in BlockIds \ {b} : Block(c)' = Block(c)
<1>1. Block(b).sectors = SectorsOfBlock(b)
  BY DEF IsCut, Block
<1>2. free_space_bitmap' = free_space_bitmap \cup Range(SectorsOfBlock(b))
  BY <1>1 DEF set_block_used
<1>3. free_space_bitmap' \in SUBSET Lbas
  BY <1>2, RangeOfBlock
<1>4. blocks' = [blocks EXCEPT ![b + 1].used = TRUE]
  BY DEF set_block_used
<1>5. /\ IsCut(blocks') /\ blocks'[b + 1].used = TRUE
      /\ \A c \in BlockIds \ {b} : blocks'[c + 1] = blocks[c + 1]
  BY <1>4, MarkedMapIsCut
<1> QED BY <1>2, <1>3, <1>5 DEF Block

\* The sector WriteNextSector writes, and the write after it.
LEMMA NextSectorFacts ==
  ASSUME DiskInv, WriteNextSector
  PROVE  /\ running /\ busy \in Writes /\ busy' \in Writes
         /\ busy'.block = busy.block /\ busy'.before = busy.before
         /\ WriteSector(SectorsOfBlock(busy.block)[busy.n + 1], busy.image)
         /\ SectorsOfBlock(busy.block)[busy.n + 1] \in Range(SectorsOfBlock(busy.block))
         /\ SectorsOfBlock(busy.block)[busy.n + 1] \in Lbas
         /\ busy.block \in BlockIds /\ busy.image \in Bytes
<1>1. busy \in Writes
  BY Operations DEF DiskInv, WriteNextSector
<1>2. running
  <2>1. busy # Idle
    BY <1>1, Operations
  <2> QED BY <2>1 DEF DiskInv, DiskTypes
<1>3. busy.n + 1 \in 1 .. SECTORS_PER_BLOCK /\ busy.block \in BlockIds /\ busy.image \in Bytes
  BY <1>1, Sizes DEF Writes, WriteNextSector
<1>4. busy' \in Writes /\ busy'.block = busy.block /\ busy'.before = busy.before
  BY <1>1, <1>3, Sizes DEF Writes, WriteNextSector
<1>5. Block(busy.block).sectors = SectorsOfBlock(busy.block)
  BY <1>2, <1>3 DEF DiskInv, MapIsCut, IsCut, Block
<1>6. WriteSector(SectorsOfBlock(busy.block)[busy.n + 1], busy.image)
  BY <1>5 DEF WriteNextSector
<1>7. SectorsOfBlock(busy.block)[busy.n + 1] \in Range(SectorsOfBlock(busy.block))
  BY <1>3, RangeOfBlock
<1>8. SectorsOfBlock(busy.block)[busy.n + 1] \in Lbas
  BY <1>3, <1>7, RangeOfBlock
<1> QED BY <1>1, <1>2, <1>3, <1>4, <1>6, <1>7, <1>8

\* What WriteSector does.
LEMMA WriteSectorFacts ==
  ASSUME DiskTypes, NEW lba \in Lbas, NEW bytes \in Bytes, WriteSector(lba, bytes)
  PROVE  /\ sectors' \in [Lbas -> Bytes] /\ free_space_bitmap' \in SUBSET Lbas
         /\ \A l \in Lbas \ {lba} : sectors'[l] = sectors[l]
         /\ ~crashed /\ running /\ WrittenIsMarked =>
              {l \in Lbas : sectors'[l] # Zero} \subseteq free_space_bitmap'
<1>1. /\ sectors' = [sectors EXCEPT ![lba] = bytes] /\ sectors \in [Lbas -> Bytes]
      /\ free_space_bitmap' = free_space_bitmap \cup {lba} /\ free_space_bitmap \in SUBSET Lbas
  BY DEF WriteSector, DiskTypes
<1>2. sectors' \in [Lbas -> Bytes] /\ free_space_bitmap' \in SUBSET Lbas
  BY <1>1
<1>3. \A l \in Lbas \ {lba} : sectors'[l] = sectors[l]
  BY <1>1
<1>4. ASSUME ~crashed, running, WrittenIsMarked
      PROVE  {l \in Lbas : sectors'[l] # Zero} \subseteq free_space_bitmap'
  BY <1>1, <1>3, <1>4 DEF WrittenIsMarked
<1> QED BY <1>2, <1>3, <1>4

\* Sector 1 exists.
LEMMA DirectorySector == 1 \in Lbas /\ 0 \in Lbas
  BY GeometryAssumption, Sizes DEF Lbas, TOTAL_SECTORS

LEMMA DiskInitInv == Init => DiskInv
<1> SUFFICES ASSUME Init PROVE DiskInv
  OBVIOUS
<1>1. DiskTypes
  BY GeometryAssumption DEF Init, DiskTypes
<1>2. BusyOK /\ MapIsCut
  BY DEF Init, BusyOK, MapIsCut
<1>3. WrittenIsMarked
  BY DEF Init, WrittenIsMarked
<1> QED BY <1>1, <1>2, <1>3 DEF DiskInv

LEMMA DiskNextInv == DiskInv /\ [Next]_vars => DiskInv'
<1> SUFFICES ASSUME DiskInv, [Next]_vars PROVE DiskInv'
  OBVIOUS
<1>1. DiskTypes /\ BusyOK /\ MapIsCut /\ WrittenIsMarked
  BY DEF DiskInv
<1>2. CASE LoadDisk
  <2>1. bitmap_file' \in SUBSET Lbas /\ free_space_bitmap' = bitmap_file'
    BY <1>1, <1>2 DEF LoadDisk, DiskTypes
  <2>2. IsCut(blocks')
    BY <1>2, <2>1, NewMapIsCut DEF LoadDisk
  <2>3. DiskTypes'
    BY <1>1, <1>2, <2>1 DEF LoadDisk, DiskTypes
  <2>4. BusyOK' /\ MapIsCut'
    BY <1>2, <2>2 DEF LoadDisk, BusyOK, MapIsCut
  <2>5. WrittenIsMarked'
    BY <1>1, <1>2 DEF LoadDisk, WrittenIsMarked
  <2> QED BY <2>3, <2>4, <2>5 DEF DiskInv
<1>3. CASE NewDisk
  <2>1. IsCut(blocks')
    BY <1>3, NewMapIsCut DEF NewDisk
  <2>2. DiskTypes'
    BY <1>1, <1>3, GeometryAssumption DEF NewDisk, DiskTypes
  <2>3. BusyOK' /\ MapIsCut'
    BY <1>3, <2>1 DEF NewDisk, BusyOK, MapIsCut
  <2>4. WrittenIsMarked'
    BY <1>3 DEF NewDisk, WrittenIsMarked
  <2> QED BY <2>2, <2>3, <2>4 DEF DiskInv
<1>4. CASE CloseDisk
  <2>1. DiskTypes'
    BY <1>1, <1>4 DEF CloseDisk, DiskTypes
  <2>2. BusyOK' /\ MapIsCut'
    BY <1>4 DEF CloseDisk, BusyOK, MapIsCut
  <2>3. WrittenIsMarked'
    BY <1>1, <1>4 DEF CloseDisk, WrittenIsMarked
  <2> QED BY <2>1, <2>2, <2>3 DEF DiskInv
<1>5. CASE Crash
  <2>1. DiskTypes'
    BY <1>1, <1>5 DEF Crash, DiskTypes, fileVars
  <2>2. BusyOK' /\ MapIsCut' /\ WrittenIsMarked'
    BY <1>5 DEF Crash, BusyOK, MapIsCut, WrittenIsMarked
  <2> QED BY <2>1, <2>2 DEF DiskInv
<1>6. ASSUME NEW b \in BlockIds, NEW image \in Bytes \ {Zero}, BeginWriteBlock(b, image)
      PROVE  DiskInv'
  <2>1. BlockContent(b) \in [1 .. SECTORS_PER_BLOCK -> Bytes]
    BY <1>1, SectorsOfBlockFacts DEF BlockContent, DiskTypes
  <2>2. busy' \in Writes
    BY <1>6, <2>1, Sizes DEF BeginWriteBlock, Writing, Writes
  <2>3. DiskTypes'
    BY <1>1, <1>6 DEF BeginWriteBlock, DiskTypes, fileVars, memoryVars
  <2>4. BusyOK' /\ MapIsCut'
    BY <1>1, <1>6, <2>2 DEF BeginWriteBlock, BusyOK, MapIsCut, memoryVars
  <2>5. WrittenIsMarked'
    BY <1>1, <1>6 DEF BeginWriteBlock, WrittenIsMarked, fileVars, memoryVars
  <2> QED BY <2>3, <2>4, <2>5 DEF DiskInv
<1>7. CASE WriteNextSector
  <2> DEFINE lba == SectorsOfBlock(busy.block)[busy.n + 1]
  <2>1. /\ running /\ busy' \in Writes /\ lba \in Lbas /\ busy.image \in Bytes
        /\ WriteSector(lba, busy.image)
    BY <1>7, NextSectorFacts
  <2>2. UNCHANGED <<bitmap_file, running, blocks, crashed>>
    BY <1>7 DEF WriteNextSector
  <2> HIDE DEF lba
  <2>3. /\ sectors' \in [Lbas -> Bytes] /\ free_space_bitmap' \in SUBSET Lbas
        /\ ~crashed => {l \in Lbas : sectors'[l] # Zero} \subseteq free_space_bitmap'
    BY <1>1, <2>1, WriteSectorFacts
  <2>4. DiskTypes'
    BY <1>1, <2>1, <2>2, <2>3 DEF DiskTypes
  <2>5. BusyOK' /\ MapIsCut'
    BY <1>1, <2>1, <2>2 DEF BusyOK, MapIsCut
  <2>6. WrittenIsMarked'
    BY <2>1, <2>2, <2>3 DEF WrittenIsMarked
  <2> QED BY <2>4, <2>5, <2>6 DEF DiskInv
<1>8. CASE EndWriteBlock
  <2>1. busy \in Writes /\ busy.block \in BlockIds /\ running
    <3>1. busy \in Writes /\ busy # Idle
      BY <1>1, <1>8, Operations DEF EndWriteBlock
    <3> QED BY <1>1, <3>1 DEF Writes, DiskTypes
  <2>2. /\ IsCut(blocks') /\ free_space_bitmap' \in SUBSET Lbas
        /\ free_space_bitmap \subseteq free_space_bitmap'
    BY <1>1, <1>8, <2>1, SetBlockUsedFacts DEF EndWriteBlock, DiskTypes, MapIsCut
  <2>3. DiskTypes'
    BY <1>1, <1>8, <2>1, <2>2 DEF EndWriteBlock, DiskTypes, fileVars
  <2>4. BusyOK' /\ MapIsCut'
    BY <1>8, <2>2 DEF EndWriteBlock, BusyOK, MapIsCut
  <2>5. WrittenIsMarked'
    BY <1>1, <1>8, <2>1, <2>2 DEF EndWriteBlock, WrittenIsMarked, fileVars
  <2> QED BY <2>3, <2>4, <2>5 DEF DiskInv
<1>9. ASSUME NEW bytes \in Bytes \ {Zero}, WriteDirectory(bytes)
      PROVE  DiskInv'
  <2>1. running /\ WriteSector(1, bytes) /\ UNCHANGED <<bitmap_file, running, blocks, busy, crashed>>
    BY <1>9 DEF WriteDirectory
  <2>2. /\ sectors' \in [Lbas -> Bytes] /\ free_space_bitmap' \in SUBSET Lbas
        /\ ~crashed => {l \in Lbas : sectors'[l] # Zero} \subseteq free_space_bitmap'
    BY <1>1, <2>1, WriteSectorFacts, DirectorySector
  <2>3. DiskTypes'
    BY <1>1, <2>1, <2>2 DEF DiskTypes
  <2>4. BusyOK' /\ MapIsCut'
    BY <1>1, <2>1 DEF BusyOK, MapIsCut
  <2>5. WrittenIsMarked'
    BY <2>1, <2>2 DEF WrittenIsMarked
  <2> QED BY <2>3, <2>4, <2>5 DEF DiskInv
<1>10. CASE ReserveFreeBlock
  <2>1. running /\ get_free_block(0) \in BlockIds
    BY <1>1, <1>10, FirstFreeBlock DEF ReserveFreeBlock
  <2>2. /\ IsCut(blocks') /\ free_space_bitmap' \in SUBSET Lbas
        /\ free_space_bitmap \subseteq free_space_bitmap'
    BY <1>1, <1>10, <2>1, SetBlockUsedFacts DEF ReserveFreeBlock, DiskTypes, MapIsCut
  <2>3. DiskTypes'
    BY <1>1, <1>10, <2>1, <2>2 DEF ReserveFreeBlock, DiskTypes, fileVars
  <2>4. BusyOK' /\ MapIsCut'
    BY <1>1, <1>10, <2>2 DEF ReserveFreeBlock, BusyOK, MapIsCut
  <2>5. WrittenIsMarked'
    BY <1>1, <1>10, <2>1, <2>2 DEF ReserveFreeBlock, WrittenIsMarked, fileVars
  <2> QED BY <2>3, <2>4, <2>5 DEF DiskInv
<1>11. CASE OpenBitmapFile
  <2>1. DiskTypes'
    BY <1>1, <1>11 DEF OpenBitmapFile, DiskTypes, memoryVars
  <2>2. BusyOK' /\ MapIsCut'
    BY <1>1, <1>11 DEF OpenBitmapFile, BusyOK, MapIsCut, memoryVars
  <2>3. WrittenIsMarked'
    BY <1>1, <1>11 DEF OpenBitmapFile, WrittenIsMarked, memoryVars
  <2> QED BY <2>1, <2>2, <2>3 DEF DiskInv
<1>12. CASE WriteBitmapFile
  <2>1. running
    BY <1>1, <1>12, Operations DEF WriteBitmapFile, DiskTypes
  <2>2. DiskTypes'
    BY <1>1, <1>12, <2>1 DEF WriteBitmapFile, DiskTypes, memoryVars
  <2>3. BusyOK' /\ MapIsCut'
    BY <1>1, <1>12 DEF WriteBitmapFile, BusyOK, MapIsCut, memoryVars
  <2>4. WrittenIsMarked'
    BY <1>1, <1>12, <2>1 DEF WriteBitmapFile, WrittenIsMarked, memoryVars
  <2> QED BY <2>2, <2>3, <2>4 DEF DiskInv
<1>13. CASE UNCHANGED vars
  <2>1. DiskTypes' /\ BusyOK' /\ MapIsCut' /\ WrittenIsMarked'
    BY <1>1, <1>13 DEF vars, fileVars, memoryVars, DiskTypes, BusyOK, MapIsCut, WrittenIsMarked
  <2> QED BY <2>1 DEF DiskInv
<1> QED BY <1>2, <1>3, <1>4, <1>5, <1>6, <1>7, <1>8, <1>9, <1>10, <1>11, <1>12, <1>13 DEF Next

\* DiskInv holds in every state, whatever the geometry.
THEOREM DiskAlwaysInv == Spec => []DiskInv
<1>1. Init => DiskInv
  BY DiskInitInv
<1>2. DiskInv /\ [Next]_vars => DiskInv'
  BY DiskNextInv
<1> QED BY <1>1, <1>2, PTL DEF Spec
-----------------------------------------------------------------------------
(* What holds of every geometry.                                           *)

\* The disk, the bitmaps and the map in memory keep their types: what is given back by
\* create_free_block_map has N_BLOCKS blocks of SECTORS_PER_BLOCK sectors.
THEOREM DiskTypeCorrect == Spec => []TypeOK
<1>1. DiskInv => TypeOK
  BY InvariantTypes
<1> QED BY <1>1, DiskAlwaysInv, PTL

LEMMA InvariantIsVertical == DiskInv => BlockMapIsVertical
<1> SUFFICES ASSUME DiskInv, running PROVE BlockMapIsVertical
  BY DEF BlockMapIsVertical
<1>1. \A b \in BlockIds : Block(b).sectors = SectorsOfBlock(b)
  BY DEF DiskInv, MapIsCut, IsCut, Block
<1>2. \A b \in BlockIds : IsInjective(SectorsOfBlock(b))
  BY SectorsOfBlockFacts DEF IsInjective
<1>3. \A b, c \in BlockIds : b # c => Range(SectorsOfBlock(b)) \cap Range(SectorsOfBlock(c)) = {}
  BY RangeOfBlock
<1> QED BY <1>1, <1>2, <1>3 DEF BlockMapIsVertical

\* The map in memory is the vertical order cut in pieces: no sector is in two blocks,
\* and none is twice in one, on any number of surfaces, tracks and sectors.
THEOREM MapIsVertical == Spec => []BlockMapIsVertical
<1>1. DiskInv => BlockMapIsVertical
  BY InvariantIsVertical
<1> QED BY <1>1, DiskAlwaysInv, PTL

\* A sector that was written is marked, in memory while the disk is open and in the
\* file while it is not, until the process dies.
THEOREM WrittenStaysMarked == Spec => []WrittenIsMarked
<1>1. DiskInv => WrittenIsMarked
  BY DEF DiskInv
<1> QED BY <1>1, DiskAlwaysInv, PTL

LEMMA InvariantSearches == DiskInv => FreeBlockSearchAgrees
<1> SUFFICES ASSUME DiskInv, running, NEW n \in 0 .. TOTAL_BLOCKS
             PROVE  IF n < FreeCount(N_BLOCKS)
                    THEN /\ get_free_block(n) \in BlockIds /\ ~Block(get_free_block(n)).used
                         /\ FreeCount(get_free_block(n)) = n
                    ELSE get_free_block(n) = IF N_BLOCKS < TOTAL_BLOCKS THEN TOTAL_BLOCKS + 1
                                             ELSE NULL_BLOCK
  BY DEF FreeBlockSearchAgrees, FreeCount, FreeBefore
<1>1. blocks \in [1 .. N_BLOCKS -> BlockEntries]
  BY DEF DiskInv, MapIsCut, IsCut
<1> QED BY <1>1, SearchFacts

\* The loop of get_free_block gives the n-th free block for every n, and throws only
\* when the disk is full and its last block is incomplete.
THEOREM SearchIsRight == Spec => []FreeBlockSearchAgrees
<1>1. DiskInv => FreeBlockSearchAgrees
  BY InvariantSearches
<1> QED BY <1>1, DiskAlwaysInv, PTL
-----------------------------------------------------------------------------
(* What needs tracks of two sectors or more: on the others a block holds   *)
(* sector 1 (OneSectorTracks.cfg shows it).                                *)

\* The content of the blocks without a sector stays.
LEMMA OtherBlocks ==
  ASSUME DiskTypes, NEW b \in BlockIds, NEW lba, lba \notin Range(SectorsOfBlock(b)),
         \A l \in Lbas \ {lba} : sectors'[l] = sectors[l]
  PROVE  BlockContent(b)' = BlockContent(b)
<1>1. SectorsOfBlock(b)' = SectorsOfBlock(b)
  BY DEF SectorsOfBlock, VerticalOrder, Steps, Rank, Lba, Position, IsReserved
<1>2. \A i \in 1 .. SECTORS_PER_BLOCK :
        SectorsOfBlock(b)[i] \in Lbas /\ SectorsOfBlock(b)[i] # lba
  BY RangeOfBlock
<1> QED BY <1>1, <1>2 DEF BlockContent

\* Marking the sectors of block b does not mark another one.
LEMMA MarkingOne ==
  ASSUME NEW b \in BlockIds, NEW c \in BlockIds \ {b}, NEW bits,
         NEW more \in SUBSET Range(SectorsOfBlock(b))
  PROVE  Range(SectorsOfBlock(c)) \cap (bits \cup more) # {} <=>
           Range(SectorsOfBlock(c)) \cap bits # {}
  BY RangeOfBlock

\* One step keeps the flags, in a map cut as the walk cuts it.
LEMMA MarkBlock ==
  ASSUME DiskInv, FlagsAgree, running, busy = Idle \/ busy.op = "write_block",
         NEW b \in BlockIds, busy.op = "write_block" => busy.block = b,
         set_block_used(b), running'
  PROVE  \A c \in BlockIds :
           Block(c)'.used <=> Range(SectorsOfBlock(c)) \cap free_space_bitmap' # {}
<1>1. /\ free_space_bitmap' = free_space_bitmap \cup Range(SectorsOfBlock(b))
      /\ Block(b)'.used = TRUE
      /\ \A c \in BlockIds \ {b} : Block(c)' = Block(c)
  BY SetBlockUsedFacts DEF DiskInv, DiskTypes, MapIsCut
<1>2. Range(SectorsOfBlock(b)) \cap free_space_bitmap' # {}
  BY <1>1, RangeOfBlock
<1>3. \A c \in BlockIds \ {b} :
        Block(c)'.used <=> Range(SectorsOfBlock(c)) \cap free_space_bitmap # {}
  BY <1>1, Operations DEF FlagsAgree
<1>4. \A c \in BlockIds \ {b} :
        Range(SectorsOfBlock(c)) \cap free_space_bitmap' # {} <=>
          Range(SectorsOfBlock(c)) \cap free_space_bitmap # {}
  BY <1>1, MarkingOne
<1> QED BY <1>1, <1>2, <1>3, <1>4

LEMMA DiskNextFlags ==
  ASSUME SECTORS_PER_TRACK > 1
  PROVE  DiskInv /\ FlagsAgree /\ [Next]_vars => FlagsAgree'
<1> SUFFICES ASSUME DiskInv, FlagsAgree, [Next]_vars, running'
             PROVE  \A b \in BlockIds :
                      ~(busy'.op = "write_block" /\ busy'.block = b) =>
                        (Block(b)'.used <=> Range(SectorsOfBlock(b)) \cap free_space_bitmap' # {})
  BY DEF FlagsAgree, Block, SectorsOfBlock, VerticalOrder, Steps, Rank, Lba, Position, IsReserved
<1>1. DiskTypes /\ BusyOK /\ MapIsCut
  BY DEF DiskInv
<1>2. CASE LoadDisk
  <2>1. free_space_bitmap' \in SUBSET Lbas /\ blocks' = create_free_block_map(free_space_bitmap')
    BY <1>1, <1>2 DEF LoadDisk, DiskTypes
  <2> QED BY <2>1, MapOfBits DEF Block
<1>3. CASE NewDisk
  <2>1. free_space_bitmap' = {} /\ blocks' = create_free_block_map({})
    BY <1>3 DEF NewDisk
  <2> QED BY <2>1, MapOfBits DEF Block
<1>4. CASE CloseDisk
  BY <1>4 DEF CloseDisk
<1>5. CASE Crash
  BY <1>5 DEF Crash
<1>6. ASSUME NEW b \in BlockIds, NEW image \in Bytes \ {Zero}, BeginWriteBlock(b, image),
             NEW c \in BlockIds
      PROVE  Block(c)'.used <=> Range(SectorsOfBlock(c)) \cap free_space_bitmap' # {}
  BY <1>6, Operations DEF BeginWriteBlock, FlagsAgree, memoryVars, Block
<1>7. ASSUME WriteNextSector, NEW c \in BlockIds, ~(busy'.op = "write_block" /\ busy'.block = c)
      PROVE  Block(c)'.used <=> Range(SectorsOfBlock(c)) \cap free_space_bitmap' # {}
  <2> DEFINE lba == SectorsOfBlock(busy.block)[busy.n + 1]
  <2>1. /\ running /\ busy' \in Writes /\ busy'.block = busy.block
        /\ lba \in Range(SectorsOfBlock(busy.block)) /\ busy.block \in BlockIds
        /\ free_space_bitmap' = free_space_bitmap \cup {lba}
    BY <1>7, NextSectorFacts DEF WriteSector
  <2> HIDE DEF lba
  <2>2. c \in BlockIds \ {busy.block}
    BY <1>7, <2>1, Operations
  <2>3. Block(c)' = Block(c)
    BY <1>7 DEF WriteNextSector, Block
  <2>4. Block(c).used <=> Range(SectorsOfBlock(c)) \cap free_space_bitmap # {}
    BY <2>1, <2>2 DEF FlagsAgree
  <2>5. {lba} \in SUBSET Range(SectorsOfBlock(busy.block))
    BY <2>1
  <2> QED BY <2>1, <2>2, <2>3, <2>4, <2>5, MarkingOne
<1>8. CASE EndWriteBlock
  <2>1. busy \in Writes /\ busy # Idle /\ busy.op = "write_block"
    BY <1>1, <1>8, Operations DEF EndWriteBlock
  <2>2. running /\ busy.block \in BlockIds /\ set_block_used(busy.block)
    BY <1>1, <1>8, <2>1 DEF EndWriteBlock, DiskTypes, Writes
  <2> QED BY <2>1, <2>2, MarkBlock
<1>9. ASSUME NEW bytes \in Bytes \ {Zero}, WriteDirectory(bytes), NEW c \in BlockIds
      PROVE  Block(c)'.used <=> Range(SectorsOfBlock(c)) \cap free_space_bitmap' # {}
  <2>1. /\ running /\ busy = Idle /\ Block(c)' = Block(c)
        /\ free_space_bitmap' = free_space_bitmap \cup {1}
    BY <1>9 DEF WriteDirectory, WriteSector, Block
  <2>2. 1 \notin Range(SectorsOfBlock(c))
    BY ReservedIsNoBlock
  <2>3. Block(c).used <=> Range(SectorsOfBlock(c)) \cap free_space_bitmap # {}
    BY <2>1, Operations DEF FlagsAgree
  <2> QED BY <2>1, <2>2, <2>3
<1>10. CASE ReserveFreeBlock
  <2>1. /\ running /\ busy = Idle /\ get_free_block(0) \in BlockIds
        /\ set_block_used(get_free_block(0))
    BY <1>1, <1>10, FirstFreeBlock DEF ReserveFreeBlock
  <2> DEFINE b == get_free_block(0)
  <2>2. b \in BlockIds /\ set_block_used(b)
    BY <2>1
  <2> HIDE DEF b
  <2> QED BY <2>1, <2>2, Operations, MarkBlock
<1>11. ASSUME OpenBitmapFile, NEW c \in BlockIds
       PROVE  Block(c)'.used <=> Range(SectorsOfBlock(c)) \cap free_space_bitmap' # {}
  BY <1>11, Operations DEF OpenBitmapFile, FlagsAgree, memoryVars, Block
<1>12. ASSUME WriteBitmapFile, NEW c \in BlockIds
       PROVE  Block(c)'.used <=> Range(SectorsOfBlock(c)) \cap free_space_bitmap' # {}
  BY <1>12, Operations DEF WriteBitmapFile, FlagsAgree, memoryVars, Block
<1>13. CASE UNCHANGED vars
  BY <1>13 DEF vars, fileVars, memoryVars, FlagsAgree, Block
<1> QED BY <1>2, <1>3, <1>4, <1>5, <1>6, <1>7, <1>8, <1>9, <1>10, <1>11, <1>12, <1>13 DEF Next

\* FlagsAgree holds in every state of a disk with tracks of two sectors or more.
THEOREM DiskAlwaysFlags ==
  ASSUME SECTORS_PER_TRACK > 1
  PROVE  Spec => []FlagsAgree
<1>1. Init => FlagsAgree
  BY DEF Init, FlagsAgree
<1>2. DiskInv /\ FlagsAgree /\ [Next]_vars => FlagsAgree'
  BY DiskNextFlags
<1> QED BY <1>1, <1>2, DiskAlwaysInv, PTL DEF Spec

LEMMA FlagsMeanAgreement == DiskInv /\ FlagsAgree => MapAgreesWithBitmap
<1> SUFFICES ASSUME DiskInv, FlagsAgree, running, busy = Idle, NEW b \in BlockIds
             PROVE  Block(b).used <=> Range(Block(b).sectors) \cap free_space_bitmap # {}
  BY DEF MapAgreesWithBitmap
<1>1. Block(b).sectors = SectorsOfBlock(b)
  BY DEF DiskInv, MapIsCut, IsCut, Block
<1> QED BY <1>1, Operations DEF FlagsAgree

\* Between operations the flag of every block in memory is what a restart would compute
\* from the bitmap.
THEOREM FlagsAreTheBits ==
  ASSUME SECTORS_PER_TRACK > 1
  PROVE  Spec => []MapAgreesWithBitmap
<1>1. DiskInv /\ FlagsAgree => MapAgreesWithBitmap
  BY FlagsMeanAgreement
<1> QED BY <1>1, DiskAlwaysInv, DiskAlwaysFlags, PTL

\* A write of a block leaves the geometry and the directory of the tables alone.
THEOREM BlocksSpareTheDirectory ==
  ASSUME SECTORS_PER_TRACK > 1
  PROVE  Spec => DirectoryIsSafe
<1>1. DiskInv /\ [Next]_vars => [WriteNextSector => \A l \in {0, 1} : sectors'[l] = sectors[l]]_vars
  <2> SUFFICES ASSUME DiskInv, WriteNextSector, NEW l \in {0, 1}
               PROVE  sectors'[l] = sectors[l]
    OBVIOUS
  <2> DEFINE lba == SectorsOfBlock(busy.block)[busy.n + 1]
  <2>1. /\ lba \in Range(SectorsOfBlock(busy.block)) /\ lba \in Lbas /\ busy.block \in BlockIds
        /\ busy.image \in Bytes /\ WriteSector(lba, busy.image)
    BY NextSectorFacts
  <2>2. l \notin Range(SectorsOfBlock(busy.block))
    BY <2>1, ReservedIsNoBlock
  <2> HIDE DEF lba
  <2>3. l \in Lbas \ {lba}
    BY <2>1, <2>2, DirectorySector
  <2> QED BY <2>1, <2>3, WriteSectorFacts DEF DiskInv
<1> QED BY <1>1, DiskAlwaysInv, PTL DEF Spec, DirectoryIsSafe
-----------------------------------------------------------------------------
(* The disk implements BlockStore.                                         *)

\* What the store shows of the disk.
DiskOf ==
  [b \in BlockIds |->
     IF busy.op = "write_block" /\ busy.block = b THEN busy.before ELSE BlockContent(b)]
UsedOf == IF running THEN {b \in BlockIds : Block(b).used} ELSE UsedIn(bitmap_file)
SavedOf == UsedIn(bitmap_file)

\* The layout is the same before and after a step.
LEMMA LayoutStays ==
  /\ BlockIds' = BlockIds
  /\ \A b : SectorsOfBlock(b)' = SectorsOfBlock(b)
  /\ \A bits : UsedIn(bits)' = UsedIn(bits)
  BY DEF BlockIds, N_BLOCKS, SectorsOfBlock, VerticalOrder, Steps, Rank, Lba, Position, IsReserved, UsedIn

LEMMA ContentFacts ==
  ASSUME DiskInv
  PROVE  /\ \A b \in BlockIds : BlockContent(b) \in [1 .. SECTORS_PER_BLOCK -> Bytes]
         /\ DiskOf \in [BlockIds -> [1 .. SECTORS_PER_BLOCK -> Bytes]]
<1>1. ASSUME NEW b \in BlockIds PROVE BlockContent(b) \in [1 .. SECTORS_PER_BLOCK -> Bytes]
  <2>1. \A i \in 1 .. SECTORS_PER_BLOCK : SectorsOfBlock(b)[i] \in Lbas
    BY SectorsOfBlockFacts
  <2> QED BY <2>1 DEF BlockContent, DiskInv, DiskTypes
<1>2. busy.op = "write_block" => busy.before \in [1 .. SECTORS_PER_BLOCK -> Bytes]
  BY Operations DEF DiskInv, Writes
<1> QED BY <1>1, <1>2 DEF DiskOf

\* While nothing is being written the store knows the blocks whose sectors are marked.
LEMMA UsedIsMarked ==
  ASSUME DiskInv, FlagsAgree, running, busy.op # "write_block"
  PROVE  UsedOf = UsedIn(free_space_bitmap)
  BY DEF UsedOf, UsedIn, FlagsAgree

\* The steps of the store, over what it shows of the disk.
StoreWrite(b, v) ==
  DiskOf' = [DiskOf EXCEPT ![b] = v] /\ UsedOf' = UsedOf \cup {b} /\ SavedOf' = SavedOf
StoreReserve(b) == DiskOf' = DiskOf /\ UsedOf' = UsedOf \cup {b} /\ SavedOf' = SavedOf
StoreSave == DiskOf' = DiskOf /\ UsedOf' = UsedOf /\ SavedOf' = UsedOf
StoreUnsave == DiskOf' = DiskOf /\ UsedOf' = UsedOf /\ SavedOf' = {}
StoreCrash ==
  /\ DiskOf' \in [BlockIds -> [1 .. SECTORS_PER_BLOCK -> Bytes]]
  /\ \E b \in BlockIds : \A c \in BlockIds \ {b} : DiskOf'[c] = DiskOf[c]
  /\ UsedOf' = SavedOf /\ SavedOf' = SavedOf
Blank == [b \in BlockIds |-> [i \in 1 .. SECTORS_PER_BLOCK |-> Zero]]
StoreFormat == DiskOf' = Blank /\ UsedOf' = {} /\ SavedOf' \in {{}, UsedOf}
StoreStays == DiskOf' = DiskOf /\ UsedOf' = UsedOf /\ SavedOf' = SavedOf

LEMMA StoreSteps ==
  /\ DiskOf = Blank /\ UsedOf = {} /\ SavedOf = {} => Store!Init
  /\ \A b \in BlockIds, v \in [1 .. SECTORS_PER_BLOCK -> Bytes] : StoreWrite(b, v) => Store!Next
  /\ \A b \in BlockIds : StoreReserve(b) => Store!Next
  /\ StoreSave => Store!Next
  /\ StoreUnsave => Store!Next
  /\ StoreCrash => Store!Next
  /\ StoreFormat => Store!Next
  /\ StoreStays => UNCHANGED Store!storeVars
<1>1. DiskOf = Blank /\ UsedOf = {} /\ SavedOf = {} => Store!Init
  BY Zenon DEF Store!Init, DiskOf, UsedOf, SavedOf, Blank
<1>2. ASSUME NEW b \in BlockIds, NEW v \in [1 .. SECTORS_PER_BLOCK -> Bytes], StoreWrite(b, v)
      PROVE  Store!Next
  <2>1. Store!Write(b, v)
    BY <1>2, Zenon DEF StoreWrite, Store!Write, DiskOf, UsedOf, SavedOf
  <2> QED BY <2>1, Zenon DEF Store!Next
<1>3. ASSUME NEW b \in BlockIds, StoreReserve(b) PROVE Store!Next
  <2>1. Store!Reserve(b)
    BY <1>3, Zenon DEF StoreReserve, Store!Reserve, DiskOf, UsedOf, SavedOf
  <2> QED BY <2>1, Zenon DEF Store!Next
<1>4. StoreSave => Store!Save
  BY Zenon DEF StoreSave, Store!Save, DiskOf, UsedOf, SavedOf
<1>5. StoreUnsave => Store!Unsave
  BY Zenon DEF StoreUnsave, Store!Unsave, DiskOf, UsedOf, SavedOf
<1>6. StoreCrash => Store!Crash
  BY Zenon DEF StoreCrash, Store!Crash, DiskOf, UsedOf, SavedOf
<1>7. StoreFormat => Store!Format
  BY Zenon DEF StoreFormat, Store!Format, DiskOf, UsedOf, SavedOf, Blank
<1>8. StoreStays => UNCHANGED Store!storeVars
  BY DEF StoreStays, Store!storeVars, DiskOf, UsedOf, SavedOf
<1>9. Store!Save \/ Store!Unsave \/ Store!Crash \/ Store!Format => Store!Next
  BY Zenon DEF Store!Next
<1> QED BY <1>1, <1>2, <1>3, <1>4, <1>5, <1>6, <1>7, <1>8, <1>9, Zenon

\* set_block_used adds a block to those in use.
LEMMA MarkingUses ==
  ASSUME DiskInv, running, running', NEW b \in BlockIds, set_block_used(b)
  PROVE  UsedOf' = UsedOf \cup {b}
<1>1. IsCut(blocks) /\ free_space_bitmap \in SUBSET Lbas
  BY DEF DiskInv, DiskTypes, MapIsCut
<1>2. /\ Block(b)'.used = TRUE
      /\ \A c \in BlockIds \ {b} : Block(c)' = Block(c)
  BY <1>1, SetBlockUsedFacts
<1>3. UsedOf' = {c \in BlockIds : Block(c)'.used} /\ UsedOf = {c \in BlockIds : Block(c).used}
  BY LayoutStays DEF UsedOf
<1>4. \A c \in BlockIds : Block(c)'.used <=> Block(c).used \/ c = b
  BY <1>2
<1> QED BY <1>3, <1>4

\* Every step of the disk is a step of the store, or leaves it as it was.
LEMMA StepImplements ==
  ASSUME SECTORS_PER_TRACK > 1
  PROVE  DiskInv /\ FlagsAgree /\ DiskInv' /\ FlagsAgree' /\ [Next]_vars
           => [Store!Next]_Store!storeVars
<1> SUFFICES ASSUME DiskInv, FlagsAgree, DiskInv', FlagsAgree', [Next]_vars
             PROVE  Store!Next \/ UNCHANGED Store!storeVars
  OBVIOUS
<1>1. DiskTypes /\ BusyOK /\ MapIsCut
  BY DEF DiskInv
<1>2. running /\ busy = Idle => UsedOf = UsedIn(free_space_bitmap)
  BY UsedIsMarked, Operations
<1>3. running' /\ busy' = Idle => UsedOf' = UsedIn(free_space_bitmap')
  <2>1. running' => \A b \in BlockIds :
          ~(busy'.op = "write_block" /\ busy'.block = b) =>
            (Block(b)'.used <=> Range(SectorsOfBlock(b)) \cap free_space_bitmap' # {})
    BY LayoutStays DEF FlagsAgree
  <2>2. running' => UsedOf' = {b \in BlockIds : Block(b)'.used}
    BY LayoutStays DEF UsedOf
  <2> QED BY <2>1, <2>2, Operations DEF UsedIn
<1>4. ~running => UsedOf = SavedOf
  BY DEF UsedOf, SavedOf
<1>5. ~running' => UsedOf' = SavedOf'
  BY LayoutStays DEF UsedOf, SavedOf
<1>6. SavedOf' = UsedIn(bitmap_file')
  BY LayoutStays DEF SavedOf
<1>7. busy.op # "write_block" => DiskOf = [b \in BlockIds |-> BlockContent(b)]
  BY DEF DiskOf
<1>8. busy'.op # "write_block" => DiskOf' = [b \in BlockIds |-> BlockContent(b)']
  BY LayoutStays DEF DiskOf
<1>9. sectors' = sectors => \A b \in BlockIds : BlockContent(b)' = BlockContent(b)
  BY LayoutStays DEF BlockContent
<1>10. sectors' = sectors /\ busy.op # "write_block" /\ busy'.op # "write_block" => DiskOf' = DiskOf
  BY <1>7, <1>8, <1>9
<1>11. CASE LoadDisk
  <2>1. DiskOf' = DiskOf
    BY <1>10, <1>11, Operations DEF LoadDisk
  <2>2. UsedOf' = UsedIn(bitmap_file') /\ SavedOf' = UsedOf'
    BY <1>3, <1>6, <1>11 DEF LoadDisk
  <2>3. UsedIn(bitmap_file') = UsedOf
    BY <1>2, <1>4, <1>11 DEF LoadDisk, SavedOf
  <2> QED BY <2>1, <2>2, <2>3, StoreSteps DEF StoreSave
<1>12. CASE NewDisk
  <2>1. \A b \in BlockIds : BlockContent(b)' = [i \in 1 .. SECTORS_PER_BLOCK |-> Zero]
    <3> SUFFICES ASSUME NEW b \in BlockIds
                 PROVE  BlockContent(b)' = [i \in 1 .. SECTORS_PER_BLOCK |-> Zero]
      OBVIOUS
    <3>1. \A i \in 1 .. SECTORS_PER_BLOCK : SectorsOfBlock(b)[i] \in Lbas
      BY SectorsOfBlockFacts
    <3> QED BY <1>12, <3>1, LayoutStays DEF NewDisk, BlockContent
  <2>2. DiskOf' = Blank
    BY <1>8, <1>12, <2>1, Operations DEF NewDisk, Blank
  <2>3. UsedOf' = {}
    BY <1>3, <1>12 DEF NewDisk, UsedIn
  <2>4. SavedOf' \in {{}, UsedOf}
    BY <1>2, <1>6, <1>12 DEF NewDisk, UsedIn
  <2> QED BY <2>2, <2>3, <2>4, StoreSteps DEF StoreFormat
<1>13. CASE CloseDisk
  <2>1. DiskOf' = DiskOf
    BY <1>10, <1>13, Operations DEF CloseDisk
  <2>2. SavedOf' = UsedOf /\ UsedOf' = UsedOf
    BY <1>2, <1>5, <1>6, <1>13 DEF CloseDisk
  <2> QED BY <2>1, <2>2, StoreSteps DEF StoreSave
<1>14. CASE Crash
  <2>1. UsedOf' = SavedOf /\ SavedOf' = SavedOf
    BY <1>5, <1>6, <1>14 DEF Crash, fileVars, SavedOf
  <2>2. DiskOf' = [b \in BlockIds |-> BlockContent(b)]
    BY <1>8, <1>9, <1>14, Operations DEF Crash, fileVars
  <2>3. CASE busy.op = "write_block"
    <3>1. busy.block \in BlockIds
      BY <1>1, <2>3, Operations DEF Writes
    <3>2. \A c \in BlockIds \ {busy.block} : DiskOf'[c] = DiskOf[c]
      BY <2>2 DEF DiskOf
    <3>3. DiskOf' \in [BlockIds -> [1 .. SECTORS_PER_BLOCK -> Bytes]]
      BY <2>2, ContentFacts
    <3> QED BY <2>1, <3>1, <3>2, <3>3, StoreSteps DEF StoreCrash
  <2>4. CASE busy.op # "write_block"
    <3>1. DiskOf' = DiskOf
      BY <1>7, <2>2, <2>4
    <3>2. CASE BlockIds = {}
      <4>1. UsedOf = {} /\ SavedOf = {}
        BY <3>2 DEF UsedOf, SavedOf, UsedIn
      <4> QED BY <2>1, <3>1, <4>1, StoreSteps DEF StoreStays
    <3>3. CASE BlockIds # {}
      <4>1. PICK b \in BlockIds : TRUE
        BY <3>3
      <4>2. \A c \in BlockIds \ {b} : DiskOf'[c] = DiskOf[c]
        BY <3>1
      <4>3. DiskOf' \in [BlockIds -> [1 .. SECTORS_PER_BLOCK -> Bytes]]
        BY <3>1, ContentFacts
      <4> QED BY <2>1, <4>1, <4>2, <4>3, StoreSteps DEF StoreCrash
    <3> QED BY <3>2, <3>3
  <2> QED BY <2>3, <2>4
<1>15. ASSUME NEW b \in BlockIds, NEW image \in Bytes \ {Zero}, BeginWriteBlock(b, image)
       PROVE  UNCHANGED Store!storeVars
  <2>1. busy'.before = BlockContent(b) /\ busy'.block = b /\ busy'.op = "write_block"
    BY <1>15 DEF BeginWriteBlock, Writing
  <2>2. \A c \in BlockIds : BlockContent(c)' = BlockContent(c)
    BY <1>9, <1>15 DEF BeginWriteBlock, fileVars
  <2>3. DiskOf' = [c \in BlockIds |-> IF c = b THEN BlockContent(b) ELSE BlockContent(c)]
    BY <2>1, <2>2, LayoutStays DEF DiskOf
  <2>4. DiskOf' = DiskOf
    BY <1>7, <1>15, <2>3, Operations DEF BeginWriteBlock
  <2>5. UsedOf' = UsedOf /\ SavedOf' = SavedOf
    BY <1>15, LayoutStays DEF BeginWriteBlock, fileVars, memoryVars, UsedOf, SavedOf, Block
  <2> QED BY <2>4, <2>5, StoreSteps DEF StoreStays
<1>16. CASE WriteNextSector
  <2> DEFINE lba == SectorsOfBlock(busy.block)[busy.n + 1]
  <2>1. /\ busy' \in Writes /\ busy \in Writes /\ busy'.block = busy.block
        /\ busy'.before = busy.before /\ lba \in Range(SectorsOfBlock(busy.block)) /\ lba \in Lbas
        /\ busy.block \in BlockIds /\ busy.image \in Bytes /\ WriteSector(lba, busy.image)
    BY <1>16, NextSectorFacts
  <2> HIDE DEF lba
  <2>2. ASSUME NEW c \in BlockIds \ {busy.block} PROVE BlockContent(c)' = BlockContent(c)
    <3>1. lba \notin Range(SectorsOfBlock(c))
      BY <2>1, RangeOfBlock
    <3>2. \A l \in Lbas \ {lba} : sectors'[l] = sectors[l]
      BY <1>1, <2>1, WriteSectorFacts
    <3> QED BY <1>1, <3>1, <3>2, OtherBlocks
  <2>3. DiskOf' = DiskOf
    BY <2>1, <2>2, Operations, LayoutStays DEF DiskOf
  <2>4. UsedOf' = UsedOf /\ SavedOf' = SavedOf
    BY <1>16, LayoutStays DEF WriteNextSector, UsedOf, SavedOf, Block
  <2> QED BY <2>3, <2>4, StoreSteps DEF StoreStays
<1>17. CASE EndWriteBlock
  <2> DEFINE b == busy.block
  <2>1. b \in BlockIds /\ running /\ busy.op = "write_block" /\ set_block_used(b)
    <3>1. busy \in Writes /\ busy # Idle
      BY <1>1, <1>17, Operations DEF EndWriteBlock
    <3> QED BY <1>1, <1>17, <3>1 DEF EndWriteBlock, Writes, DiskTypes
  <2>2. BlockContent(b) \in [1 .. SECTORS_PER_BLOCK -> Bytes]
    BY <2>1, ContentFacts
  <2>3. DiskOf' = [c \in BlockIds |-> BlockContent(c)]
    BY <1>8, <1>9, <1>17, Operations DEF EndWriteBlock, fileVars
  <2>4. DiskOf' = [DiskOf EXCEPT ![b] = BlockContent(b)]
    BY <2>1, <2>3 DEF DiskOf
  <2>5. running'
    BY <1>17, <2>1 DEF EndWriteBlock
  <2>6. UsedOf' = UsedOf \cup {b}
    <3> HIDE DEF b
    <3> QED BY <2>1, <2>5, MarkingUses
  <2>7. SavedOf' = SavedOf
    BY <1>6, <1>17 DEF EndWriteBlock, fileVars, SavedOf
  <2> HIDE DEF b
  <2>8. StoreWrite(b, BlockContent(b))
    BY <2>4, <2>6, <2>7 DEF StoreWrite
  <2> QED BY <2>1, <2>2, <2>8, StoreSteps
<1>18. ASSUME NEW bytes \in Bytes \ {Zero}, WriteDirectory(bytes)
       PROVE  UNCHANGED Store!storeVars
  <2>1. WriteSector(1, bytes) /\ UNCHANGED <<bitmap_file, running, blocks, busy>>
    BY <1>18 DEF WriteDirectory
  <2>2. ASSUME NEW c \in BlockIds PROVE BlockContent(c)' = BlockContent(c)
    <3>1. \A l \in Lbas \ {1} : sectors'[l] = sectors[l]
      BY <1>1, <2>1, WriteSectorFacts, DirectorySector
    <3>2. 1 \notin Range(SectorsOfBlock(c))
      BY ReservedIsNoBlock
    <3> QED BY <1>1, <3>1, <3>2, OtherBlocks
  <2>3. DiskOf' = DiskOf
    BY <2>1, <2>2, LayoutStays DEF DiskOf
  <2>4. UsedOf' = UsedOf /\ SavedOf' = SavedOf
    BY <2>1, LayoutStays DEF UsedOf, SavedOf, Block
  <2> QED BY <2>3, <2>4, StoreSteps DEF StoreStays
<1>19. CASE ReserveFreeBlock
  <2> DEFINE b == get_free_block(0)
  <2>1. running /\ busy = Idle /\ b \in BlockIds /\ set_block_used(b)
    BY <1>1, <1>19, FirstFreeBlock DEF ReserveFreeBlock
  <2> HIDE DEF b
  <2>2. DiskOf' = DiskOf
    BY <1>10, <1>19, Operations DEF ReserveFreeBlock, fileVars
  <2>3. running'
    BY <1>19, <2>1 DEF ReserveFreeBlock
  <2>4. UsedOf' = UsedOf \cup {b}
    BY <2>1, <2>3, MarkingUses
  <2>5. SavedOf' = SavedOf
    BY <1>6, <1>19 DEF ReserveFreeBlock, fileVars, SavedOf
  <2>6. StoreReserve(b)
    BY <2>2, <2>4, <2>5 DEF StoreReserve
  <2> QED BY <2>1, <2>6, StoreSteps
<1>20. CASE OpenBitmapFile
  <2>1. DiskOf' = DiskOf
    BY <1>10, <1>20, Operations DEF OpenBitmapFile
  <2>2. UsedOf' = UsedOf
    BY <1>20, LayoutStays DEF OpenBitmapFile, memoryVars, UsedOf, Block
  <2>3. SavedOf' = {}
    BY <1>6, <1>20 DEF OpenBitmapFile, UsedIn
  <2> QED BY <2>1, <2>2, <2>3, StoreSteps DEF StoreUnsave
<1>21. CASE WriteBitmapFile
  <2>1. running /\ busy.op # "write_block" /\ busy' = Idle
    BY <1>1, <1>21, Operations DEF WriteBitmapFile, DiskTypes
  <2>2. DiskOf' = DiskOf
    BY <1>10, <1>21, <2>1, Operations DEF WriteBitmapFile
  <2>3. UsedOf' = UsedOf
    BY <1>21, <2>1, LayoutStays DEF WriteBitmapFile, memoryVars, UsedOf, Block
  <2>4. SavedOf' = UsedOf
    BY <1>6, <1>21, <2>1, UsedIsMarked DEF WriteBitmapFile
  <2> QED BY <2>2, <2>3, <2>4, StoreSteps DEF StoreSave
<1>22. CASE UNCHANGED vars
  <2>1. DiskOf' = DiskOf /\ UsedOf' = UsedOf /\ SavedOf' = SavedOf
    BY <1>22, LayoutStays
       DEF vars, fileVars, memoryVars, DiskOf, UsedOf, SavedOf, BlockContent, Block
  <2> QED BY <2>1, StoreSteps DEF StoreStays
<1> QED BY <1>11, <1>12, <1>13, <1>14, <1>15, <1>16, <1>17, <1>18, <1>19, <1>20, <1>21, <1>22
        DEF Next

\* The disk is a block store: a block changes as a whole, a crash leaves one block
\* mixed at most, and a restart finds in use what was saved.
THEOREM DiskImplementsStore ==
  ASSUME SECTORS_PER_TRACK > 1
  PROVE  Spec => ImplementsBlockStore
<1>1. Init => Store!Init
  <2> SUFFICES ASSUME Init PROVE Store!Init
    OBVIOUS
  <2>1. ASSUME NEW b \in BlockIds PROVE BlockContent(b) = [i \in 1 .. SECTORS_PER_BLOCK |-> Zero]
    <3>1. \A i \in 1 .. SECTORS_PER_BLOCK : SectorsOfBlock(b)[i] \in Lbas
      BY SectorsOfBlockFacts
    <3> QED BY <3>1 DEF Init, BlockContent
  <2>2. DiskOf = Blank
    BY <2>1, Operations DEF Init, DiskOf, Blank
  <2>3. UsedOf = {} /\ SavedOf = {}
    BY DEF Init, UsedOf, SavedOf, UsedIn
  <2> QED BY <2>2, <2>3, StoreSteps
<1>2. DiskInv /\ FlagsAgree /\ DiskInv' /\ FlagsAgree' /\ [Next]_vars
        => [Store!Next]_Store!storeVars
  BY StepImplements
<1> QED BY <1>1, <1>2, DiskAlwaysInv, DiskAlwaysFlags, PTL DEF Spec, ImplementsBlockStore, Store!Spec
=============================================================================
