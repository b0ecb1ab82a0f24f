--------------------------- MODULE FatVolumeProofs ----------------------------
(***************************************************************************)
(* Proofs about FatVolume and FatFile (framework/fileio/src/fileio.c), for *)
(* volumes of any size, any cards that a disk check passes, any names,     *)
(* modes and lengths of reads and writes, and a card that is pulled out    *)
(* before any sector of any call. This module has the volume: its two      *)
(* buffers, the clusters and the entries, and how a position is followed,  *)
(* read and written; FatProofs goes on with the calls.                     *)
(*                                                                         *)
(* The argument is about who owns what. A ghost g gives to each slot of    *)
(* the directory the name of its file, the clusters of the file in order,  *)
(* its bytes, and those of them that were flushed. No cluster is owned     *)
(* twice. A volume stands for four cards (Images): the one that is in, the *)
(* same with the one buffer or the other written to it, and with both; and *)
(* the drive may write either buffer at any time, to make room for another *)
(* sector. In a System every image is Whole for g: an entry that is there  *)
(* names the chain that g says, and its size counts bytes that are in its  *)
(* clusters. What both buffers hold together (Cached) is all that is owned *)
(* and loses no clusters but those of a set Lost, and the cards a call     *)
(* leaves when it is cut short are in a set Safe.                          *)
(*                                                                         *)
(* The sections: loops; the types; the images and the primitives of the    *)
(* buffers; the ghost and a System; clusters, entries, chains; positions,  *)
(* reads and writes.                                                       *)
(***************************************************************************)
EXTENDS FatFile, SequenceTheorems, FiniteSetTheorems, WellFoundedInduction, TLAPS

-----------------------------------------------------------------------------
(* Loops: a recursive function that is a value for every round.            *)

LEMMA LeastNumber ==
    ASSUME NEW S, S \subseteq Nat, S # {}
    PROVE  \E n \in S : \A k \in S : n <= k
<1> DEFINE R == OpToRel(<, Nat)
<1>1. \A x, y \in Nat : <<y, x>> \in R <=> y < x
  BY DEF OpToRel
<1>2. IsWellFoundedOn(R, Nat)
  BY NatLessThanWellFounded
<1> HIDE DEF R
<1>3. PICK x \in S : \A y \in S : ~(<<y, x>> \in R)
  BY <1>2, WFMin
<1>4. ASSUME NEW k \in S PROVE  x <= k
  <2>1. ~(<<k, x>> \in R)
    BY <1>3
  <2>2. <<k, x>> \in R <=> k < x
    BY <1>1, Zenon
  <2>3. ~(k < x)
    BY <2>1, <2>2
  <2> QED
    BY <2>3
<1> QED
  BY <1>4

(* What holds at first and after every round holds in the end.             *)
LEMMA Rounds ==
    ASSUME NEW n \in Nat, NEW Inv, NEW f, f[0] \in Inv[0],
           \A k \in 1 .. n : f[k - 1] \in Inv[k - 1] => f[k] \in Inv[k]
    PROVE  \A k \in 0 .. n : f[k] \in Inv[k]
<1> DEFINE Bad == {k \in Nat : k \in 0 .. n /\ f[k] \notin Inv[k]}
<1> SUFFICES ASSUME Bad # {} PROVE FALSE
  OBVIOUS
<1>1. PICK m \in Bad : \A k \in Bad : m <= k
  BY LeastNumber
<1>2. m \in 1 .. n /\ m - 1 \in 0 .. n /\ m - 1 \in Nat
  OBVIOUS
<1>3. m - 1 \notin Bad
  BY <1>1, <1>2
<1>4. f[m - 1] \in Inv[m - 1]
  BY <1>2, <1>3
<1> QED
  BY <1>2, <1>4

(* The rounds of a loop whose step is a function.                          *)
IsLoop(f, a, step, n) ==
    f = [k \in 0 .. n |-> IF k = 0 THEN a ELSE step[<<k, f[k - 1]>>]]

LEMMA LoopFirst == \A a, step : \E f : IsLoop(f, a, step, 0)
<1> TAKE a, step
<1> DEFINE f == [k \in 0 .. 0 |-> a]
<1>1. IsLoop(f, a, step, 0)
  BY DEF IsLoop
<1> QED
  BY <1>1

LEMMA LoopNext ==
    ASSUME NEW a, NEW step, NEW n \in Nat, n # 0, NEW g, IsLoop(g, a, step, n - 1)
    PROVE  \E f : IsLoop(f, a, step, n)
<1> DEFINE f == [k \in 0 .. n |-> IF k = 0 THEN a ELSE step[<<k, g[k - 1]>>]]
<1>1. ASSUME NEW k \in 0 .. n - 1 PROVE f[k] = g[k]
  <2>1. g[k] = IF k = 0 THEN a ELSE step[<<k, g[k - 1]>>]
    BY DEF IsLoop
  <2> QED
    BY <2>1
<1>2. ASSUME NEW k \in 0 .. n, k # 0 PROVE f[k - 1] = g[k - 1]
  <2>1. k - 1 \in 0 .. n - 1
    BY <1>2
  <2> QED
    BY <1>1, <2>1
<1>3. f = [k \in 0 .. n |-> IF k = 0 THEN a ELSE step[<<k, f[k - 1]>>]]
  BY <1>2
<1> HIDE DEF f
<1> QED
  BY <1>3 DEF IsLoop

LEMMA LoopExists ==
    ASSUME NEW a, NEW step, NEW n \in Nat
    PROVE  \E f : IsLoop(f, a, step, n)
<1> DEFINE Lacks == {k \in Nat : ~\E f : IsLoop(f, a, step, k)}
<1> SUFFICES ASSUME Lacks # {} PROVE FALSE
  OBVIOUS
<1>1. PICK m \in Lacks : \A k \in Lacks : m <= k
  BY LeastNumber
<1>2. m # 0 /\ m \in Nat
  BY LoopFirst
<1>3. m - 1 \in Nat /\ m - 1 \notin Lacks
  BY <1>1, <1>2
<1>4. PICK g : IsLoop(g, a, step, m - 1)
  BY <1>3
<1> QED
  BY <1>2, <1>4, LoopNext

(* The same for a loop that stays among Inv.                               *)
LEMMA LoopIn ==
    ASSUME NEW a, NEW step, NEW n \in Nat, NEW Inv, a \in Inv[0],
           \A k \in 1 .. n : \A s \in Inv[k - 1] : step[<<k, s>>] \in Inv[k]
    PROVE  \E f : IsLoop(f, a, step, n) /\ \A k \in 0 .. n : f[k] \in Inv[k]
<1>1. PICK f : IsLoop(f, a, step, n)
  BY LoopExists
<1>2. f[0] = a /\ \A k \in 1 .. n : f[k] = step[<<k, f[k - 1]>>]
  BY <1>1 DEF IsLoop
<1>3. \A k \in 0 .. n : f[k] \in Inv[k]
  BY <1>2, Rounds
<1> QED
  BY <1>1, <1>3

-----------------------------------------------------------------------------
(* What a card and a volume are made of.                                   *)

Byte == {<<"zero", 0, 0>>} \cup (Names \X Nat \X (Nat \ {0}))
        \cup {c[s][i] : c \in Cards, s \in DataSectors, i \in 0 .. SECTOR - 1}
DataPages == [0 .. SECTOR - 1 -> Byte]
FatPage == UNION {FatPages(s) : s \in FatSectors}

Pages(s) == IF s \in FatSectors THEN FatPages(s)
            ELSE IF s \in DirSectors THEN DirPages ELSE DataPages
Card == {c \in [CardSectors -> FatPage \cup DirPages \cup DataPages] :
            \A s \in CardSectors : c[s] \in Pages(s)}

Object == [first : Nat, cluster : Nat, sector : Nat, offset : Nat, pos : Nat, size : Nat,
           entry : Nat, read : BOOLEAN, write : BOOLEAN, open : BOOLEAN, failed : BOOLEAN]

Errors == {"none", "sector", "full", "done", "eof", "cluster", "directory", "argument", "seek", "exists"}
Volume ==
    [card : Card, fat : FatPage \cup {<<>>}, fatSector : FatSectors \cup {None},
     fatDirty : BOOLEAN, data : DirPages \cup DataPages \cup {<<>>},
     dataSector : DirSectors \cup DataSectors \cup {None}, dataDirty : BOOLEAN,
     cuts : SUBSET Card, err : Errors, found : Nat, f : Object, count : Nat, got : Seq(Byte)]

(* A buffer holds a sector, and the same as the card if it is not dirty.   *)
FatCoherent(v) ==
    /\ v.fatSector = None => ~v.fatDirty
    /\ v.fatSector # None => v.fat \in FatPages(v.fatSector)
    /\ v.fatSector # None /\ ~v.fatDirty => v.fat = v.card[v.fatSector]
DataCoherent(v) ==
    /\ v.dataSector = None => ~v.dataDirty
    /\ v.dataSector # None => v.data \in Pages(v.dataSector)
    /\ v.dataSector # None /\ ~v.dataDirty => v.data = v.card[v.dataSector]
Vol(v) == v \in Volume /\ FatCoherent(v) /\ DataCoherent(v)

LEMMA Numbers ==
    /\ CLUSTERS \in Nat \ {0} /\ SPC \in Nat \ {0} /\ SECTOR \in Nat \ {0}
    /\ FATS \in Nat \ {0} /\ ENTRIES \in Nat \ {0} /\ ROOT \in Nat \ {0}
    /\ CLUSTERS <= 65524 /\ "deleted" \notin Names /\ "empty" \notin Names
BY VolumeAssumption

LEMMA SectorKinds ==
    /\ FatSectors \cap DirSectors = {} /\ FatSectors \cap DataSectors = {}
    /\ DirSectors \cap DataSectors = {} /\ None \notin CardSectors
    /\ \A s \in FatSectors \cup DirSectors : s \notin DataSectors
BY DEF FatSectors, DirSectors, DataSectors, CardSectors, FatSector, DirSector, DataSector, None

LEMMA ClusterRange == \A c : c \in Clusters <=> c \in Nat /\ 2 <= c /\ c < CLUSTERS + 2
BY Numbers DEF Clusters

LEMMA WordNat == \A word \in Word : word \in Nat
BY DEF Word

LEMMA SectorOf ==
    /\ \A c \in Clusters : FatSector(c) \in FatSectors
    /\ \A slot \in 0 .. ROOT - 1 : DirSector(slot) \in DirSectors
    /\ \A c \in Clusters, i \in 0 .. SPC - 1 : DataSector(c, i) \in DataSectors
BY DEF FatSectors, DirSectors, DataSectors

(* Two numbers in a mixed base.                                            *)
LEMMA MixedBase ==
    ASSUME NEW b \in Nat, NEW x \in Int, NEW y \in Int,
           NEW i \in 0 .. b - 1, NEW j \in 0 .. b - 1, x * b + i = y * b + j
    PROVE  x = y /\ i = j
<1>1. ASSUME NEW p \in Int, NEW q \in Int, p < q PROVE  p * b + b <= q * b
  <2>1. q * b = (p + 1) * b + (q - p - 1) * b
    BY <1>1
  <2>2. (q - p - 1) * b >= 0
    <3>1. q - p - 1 \in Nat
      BY <1>1
    <3>2. \A k \in Nat : k * b >= 0
      OBVIOUS
    <3> QED
      BY <3>1, <3>2
  <2>3. (p + 1) * b = p * b + b
    OBVIOUS
  <2>4. p * b \in Int /\ q * b \in Int /\ (q - p - 1) * b \in Int
    OBVIOUS
  <2> QED
    BY <2>1, <2>2, <2>3, <2>4
<1>2. x * b \in Int /\ y * b \in Int
  OBVIOUS
<1>3. ~(x < y)
  BY <1>1, <1>2
<1>4. ~(y < x)
  BY <1>1, <1>2
<1> QED
  BY <1>2, <1>3, <1>4

LEMMA DataSectorOnce ==
    ASSUME NEW c \in Nat, NEW d \in Nat, NEW i \in 0 .. SPC - 1, NEW j \in 0 .. SPC - 1,
           DataSector(c, i) = DataSector(d, j)
    PROVE  c = d /\ i = j
<1>1. (c - 2) * SPC + i = (d - 2) * SPC + j
  BY DEF DataSector, ClusterToSector
<1>2. c - 2 = d - 2 /\ i = j
  BY <1>1, MixedBase, Numbers
<1> QED
  BY <1>2

(* Division with a remainder.                                              *)
LEMMA DivMod ==
    ASSUME NEW n \in Nat, NEW b \in Nat \ {0}
    PROVE  /\ n \div b \in Nat /\ n % b \in 0 .. b - 1
           /\ n = (n \div b) * b + (n % b)
<1>1. /\ n \div b \in Int /\ n % b \in 0 .. b - 1
      /\ n = b * (n \div b) + (n % b)
  OBVIOUS
<1> DEFINE q == n \div b   r == n % b
<1>2. q \in Int /\ r \in 0 .. b - 1 /\ n = b * q + r
  BY <1>1
<1> HIDE DEF q, r
<1>3. b * q = q * b
  BY <1>2
<1>4. q >= 0
  <2> SUFFICES ASSUME q <= -1 PROVE FALSE
    BY <1>2
  <2>1. b * q <= b * (-1)
    BY <1>2
  <2> QED
    BY <1>2, <2>1
<1>5. q \in Nat /\ n = q * b + r
  BY <1>2, <1>3, <1>4
<1>6. n \div b \in Nat
  BY <1>5, Zenon DEF q
<1>7. n % b \in 0 .. b - 1
  BY <1>2, Zenon DEF r
<1>8. n = (n \div b) * b + (n % b)
  BY <1>5, Zenon DEF q, r
<1> QED
  BY <1>6, <1>7, <1>8, Zenon

LEMMA SlotOnce ==
    ASSUME NEW s \in Nat, NEW t \in Nat, DirSector(s) = DirSector(t), s % ENTRIES = t % ENTRIES
    PROVE  s = t
<1>1. s \div ENTRIES = t \div ENTRIES
  BY DEF DirSector
<1>2. s = (s \div ENTRIES) * ENTRIES + (s % ENTRIES)
  BY DivMod, Numbers
<1>3. t = (t \div ENTRIES) * ENTRIES + (t % ENTRIES)
  BY DivMod, Numbers
<1>4. (s \div ENTRIES) * ENTRIES + (s % ENTRIES) = (t \div ENTRIES) * ENTRIES + (t % ENTRIES)
  BY <1>1, Zenon
<1> QED
  BY <1>2, <1>3, <1>4, Zenon

(* A cluster number over the end of the table is no sector of the card.    *)
LEMMA BehindTheData ==
    ASSUME NEW c \in Nat, c >= Eof, NEW i \in 0 .. SPC - 1
    PROVE  DataSector(c, i) \notin CardSectors
<1>1. ASSUME NEW d \in Clusters, NEW j \in 0 .. SPC - 1, DataSector(c, i) = DataSector(d, j)
      PROVE FALSE
  BY <1>1, DataSectorOnce, ClusterRange, Numbers DEF Eof
<1>2. DataSector(c, i) \notin DataSectors
  BY <1>1 DEF DataSectors
<1>3. DataSector(c, i) \notin FatSectors /\ DataSector(c, i) \notin DirSectors
  BY DEF DataSector, FatSectors, DirSectors, FatSector, DirSector
<1> QED
  BY <1>2, <1>3 DEF CardSectors

-----------------------------------------------------------------------------
(* Four cards that a volume stands for: the one that is in, the same with  *)
(* one buffer or the other written, and with both.                         *)

WithFat(v) == IF v.fatSector = None THEN v.card ELSE [v.card EXCEPT ![v.fatSector] = v.fat]
WithData(v) == IF v.dataSector = None THEN v.card ELSE [v.card EXCEPT ![v.dataSector] = v.data]
Images(v) == {v.card, WithFat(v), WithData(v), Cached(v)}

SetLink(c, k, word) == [c EXCEPT ![FatSector(k)] = [@ EXCEPT ![k] = word]]
SetSlot(c, slot, e) == [c EXCEPT ![DirSector(slot)] = [@ EXCEPT ![slot % ENTRIES] = e]]
SetPage(c, s, page) == [c EXCEPT ![s] = page]

(* Buffers were written and read, and nothing else.                        *)
Moves(v, w) ==
    /\ Vol(w)
    /\ Cached(w) = Cached(v)
    /\ w.card \in Images(v)
    /\ WithFat(w) \in {WithFat(v), Cached(v)} /\ WithData(w) \in {WithData(v), Cached(v)}
    /\ w.cuts \subseteq v.cuts \cup Images(v)
Quiet(v, w) == w.f = v.f /\ w.count = v.count /\ w.got = v.got /\ w.found = v.found
SameFat(v, w) == w.fat = v.fat /\ w.fatSector = v.fatSector /\ w.fatDirty = v.fatDirty
SameData(v, w) == w.data = v.data /\ w.dataSector = v.dataSector /\ w.dataDirty = v.dataDirty

LEMMA MovesSelf == ASSUME NEW v, Vol(v) PROVE Moves(v, v) /\ Quiet(v, v)
BY DEF Moves, Quiet, Images

LEMMA MovesOn ==
    ASSUME NEW u, NEW v, NEW w, Moves(u, v), Moves(v, w)
    PROVE  Moves(u, w)
<1>1. Images(v) \subseteq Images(u)
  BY DEF Moves, Images
<1> QED
  BY <1>1 DEF Moves, Images

LEMMA QuietOn ==
    ASSUME NEW u, NEW v, NEW w, Quiet(u, v), Quiet(v, w)
    PROVE  Quiet(u, w)
BY DEF Quiet

LEMMA MovesImages ==
    ASSUME NEW v, NEW w, Moves(v, w)
    PROVE  Images(w) \subseteq Images(v)
BY DEF Moves, Images

LEMMA CardPage == 
    ASSUME NEW c \in Card, NEW s \in CardSectors, NEW p \in Pages(s)
    PROVE  SetPage(c, s, p) \in Card /\ s \in DOMAIN c /\ c[s] \in Pages(s)
<1>1. Pages(s) \subseteq FatPage \cup DirPages \cup DataPages
  BY DEF Pages, FatPage
<1>2. c \in [CardSectors -> FatPage \cup DirPages \cup DataPages]
  BY DEF Card
<1>3. SetPage(c, s, p) \in [CardSectors -> FatPage \cup DirPages \cup DataPages]
  BY <1>1, <1>2 DEF SetPage
<1>4. \A t \in CardSectors : SetPage(c, s, p)[t] \in Pages(t)
  BY <1>2 DEF SetPage, Card
<1> QED
  BY <1>2, <1>3, <1>4 DEF Card

LEMMA CardDomain == ASSUME NEW c \in Card PROVE DOMAIN c = CardSectors
BY DEF Card

LEMMA DataPageOf ==
    ASSUME NEW s \in DirSectors \cup DataSectors
    PROVE  s \in CardSectors /\ Pages(s) \subseteq DirPages \cup DataPages /\ s # None
BY SectorKinds DEF Pages, CardSectors

LEMMA FatPageOf ==
    ASSUME NEW s \in FatSectors
    PROVE  s \in CardSectors /\ Pages(s) = FatPages(s) /\ Pages(s) \subseteq FatPage /\ s # None
BY SectorKinds DEF Pages, CardSectors, FatPage

LEMMA ImagesTyped ==
    ASSUME NEW v, Vol(v) PROVE Images(v) \subseteq Card
<1> USE DEF Vol, FatCoherent, DataCoherent
<1>0. v.card \in Card
  BY DEF Volume
<1>1. WithFat(v) \in Card
  <2>1. CASE v.fatSector = None
    BY <2>1, <1>0 DEF WithFat
  <2>2. CASE v.fatSector # None
    <3>1. v.fatSector \in FatSectors /\ v.fat \in FatPages(v.fatSector)
      BY <2>2 DEF Volume
    <3> QED
      BY <3>1, <2>2, <1>0, CardPage, FatPageOf DEF WithFat, SetPage
  <2> QED
    BY <2>1, <2>2
<1>2. v.dataSector # None => v.dataSector \in CardSectors /\ v.data \in Pages(v.dataSector)
  BY DataPageOf DEF Volume
<1>3. WithData(v) \in Card
  BY <1>0, <1>2, CardPage DEF WithData, SetPage
<1>4. Cached(v) = IF v.dataSector = None THEN WithFat(v)
                  ELSE SetPage(WithFat(v), v.dataSector, v.data)
  BY DEF Cached, WithFat, SetPage
<1>5. Cached(v) \in Card
  BY <1>1, <1>2, <1>4, CardPage
<1> QED
  BY <1>0, <1>1, <1>3, <1>5 DEF Images

(* Writing one buffer back, reading another sector into it.                *)
LEMMA WithFields ==
    ASSUME NEW v \in Volume, NEW w \in Volume
    PROVE  /\ w.card = v.card /\ w.fat = v.fat /\ w.fatSector = v.fatSector => WithFat(w) = WithFat(v)
           /\ w.card = v.card /\ w.data = v.data /\ w.dataSector = v.dataSector => WithData(w) = WithData(v)
           /\ Cached(v) = IF v.dataSector = None THEN WithFat(v)
                          ELSE SetPage(WithFat(v), v.dataSector, v.data)
           /\ Cached(v) = IF v.fatSector = None THEN WithData(v)
                          ELSE SetPage(WithData(v), v.fatSector, v.fat)
<1>1. v.fatSector # None /\ v.dataSector # None => v.fatSector # v.dataSector
  BY SectorKinds DEF Volume
<1> QED
  BY <1>1 DEF WithFat, WithData, Cached, SetPage

(* The buffers of a volume, whatever the call has in its variables.        *)
SameBuffers(v, w) ==
    SameFat(v, w) /\ SameData(v, w) /\ w.card = v.card /\ w.cuts = v.cuts

LEMMA OtherFields ==
    ASSUME NEW v, NEW w \in Volume, Vol(v), SameBuffers(v, w)
    PROVE  Moves(v, w) /\ Images(w) = Images(v)
<1>1. Vol(w)
  BY DEF SameBuffers, SameFat, SameData, Vol, FatCoherent, DataCoherent
<1>2. WithFat(w) = WithFat(v) /\ WithData(w) = WithData(v) /\ Cached(w) = Cached(v)
  BY DEF SameBuffers, SameFat, SameData, WithFat, WithData, Cached
<1> QED
  BY <1>1, <1>2 DEF Moves, Images, SameBuffers

LEMMA FlushDataDone ==
    ASSUME NEW v, NEW w, w = FlushData(v), Vol(v), Good(v)
    PROVE  /\ Moves(v, w) /\ Quiet(v, w) /\ Good(w) /\ SameFat(v, w)
           /\ w.data = v.data /\ w.dataSector = v.dataSector /\ ~w.dataDirty
           /\ w.card = WithData(v) /\ WithFat(w) = Cached(v)
           /\ w.cuts \subseteq v.cuts \cup {v.card}
<1> USE DEF Good
<1>1. CASE ~v.dataDirty
  <2>1. w = v
    BY <1>1 DEF FlushData
  <2>2. WithData(v) = v.card
    BY <1>1 DEF WithData, Vol, DataCoherent, Volume, Card
  <2>3. Cached(v) = WithFat(v)
    <3>1. v.dataSector # None => v.data = v.card[v.dataSector] /\ v.dataSector \in DirSectors \cup DataSectors
      BY <1>1 DEF Vol, DataCoherent, Volume
    <3>2. v.dataSector # None => v.dataSector # v.fatSector
      BY <3>1, SectorKinds DEF Vol, Volume
    <3>3. v.dataSector # None => SetPage(WithFat(v), v.dataSector, v.data) = WithFat(v)
      <4>1. WithFat(v) \in Card
        BY ImagesTyped DEF Images
      <4>2. v.dataSector # None => WithFat(v)[v.dataSector] = v.card[v.dataSector]
        BY <3>2, <3>1, DataPageOf DEF WithFat, Vol, Volume, Card
      <4> QED
        BY <3>1, <4>1, <4>2 DEF SetPage, Card
    <3> QED
      BY <3>3, WithFields DEF Vol
  <2> QED
    BY <2>1, <2>2, <2>3, <1>1, MovesSelf DEF SameFat
<1>2. CASE v.dataDirty
  <2>1. v.dataSector \in DirSectors \cup DataSectors /\ v.dataSector # None /\ v.data \in Pages(v.dataSector)
    BY <1>2 DEF Vol, DataCoherent, Volume
  <2>2. v.dataSector \in DOMAIN v.card
    BY <2>1, DataPageOf, CardDomain DEF Vol, Volume
  <2>3. w = [v EXCEPT !.cuts = @ \cup {v.card}, !.card[v.dataSector] = v.data, !.dataDirty = FALSE]
    BY <1>2, <2>2 DEF FlushData, SectorWrite, Transfer, Then, Vol, Volume
  <2>4. w.card = WithData(v) /\ WithData(v) \in Card /\ v.card \in Card
    BY <2>3, <2>1, ImagesTyped DEF WithData, Images, Vol, Volume
  <2>5. w \in Volume
    <3>1. v.cuts \cup {v.card} \in SUBSET Card
      BY <2>4 DEF Vol, Volume
    <3>2. w = [v EXCEPT !.cuts = v.cuts \cup {v.card}, !.card = WithData(v), !.dataDirty = FALSE]
      BY <2>3, <2>1 DEF WithData, Vol, Volume
    <3> QED
      BY <3>1, <3>2, <2>4 DEF Vol, Volume
  <2>6. w.card[v.dataSector] = v.data /\ (v.fatSector # None => w.card[v.fatSector] = v.card[v.fatSector])
    BY <2>1, <2>2, <2>3, SectorKinds DEF Vol, Volume
  <2>7. Vol(w)
    BY <2>3, <2>5, <2>6, <2>1, <1>2 DEF Vol, FatCoherent, DataCoherent, Volume
  <2>8. Quiet(v, w) /\ SameFat(v, w) /\ w.data = v.data /\ w.dataSector = v.dataSector /\ ~w.dataDirty /\ Good(w)
    BY <2>3 DEF Quiet, SameFat, Vol, Volume
  <2>9. WithData(w) = WithData(v)
    BY <2>4, <2>8, <2>1, <2>6 DEF WithData, Card
  <2>10. WithFat(w) = Cached(v)
    BY <2>4, <2>8, WithFields DEF WithFat, SetPage, SameFat, Vol
  <2>11. Cached(w) = Cached(v)
    <3>1. w.fatSector = v.fatSector /\ w.fat = v.fat
      BY <2>8 DEF SameFat
    <3>2. Cached(w) = IF w.fatSector = None THEN WithData(w)
                          ELSE SetPage(WithData(w), w.fatSector, w.fat)
      BY <2>5, WithFields
    <3>3. Cached(v) = IF v.fatSector = None THEN WithData(v)
                          ELSE SetPage(WithData(v), v.fatSector, v.fat)
      BY WithFields DEF Vol
    <3> QED
      BY <3>1, <3>2, <3>3, <2>9
  <2>12. w.cuts = v.cuts \cup {v.card}
    BY <2>3 DEF Vol, Volume
  <2> QED
    BY <2>4, <2>7, <2>8, <2>9, <2>10, <2>11, <2>12 DEF Moves, Images
<1> QED
  BY <1>1, <1>2 DEF Vol, Volume

LEMMA FlushFatDone ==
    ASSUME NEW v, NEW w, w = FlushFat(v), Vol(v), Good(v)
    PROVE  /\ Moves(v, w) /\ Quiet(v, w) /\ Good(w) /\ SameData(v, w)
           /\ w.fat = v.fat /\ w.fatSector = v.fatSector /\ ~w.fatDirty
           /\ w.card = WithFat(v) /\ WithData(w) = Cached(v)
           /\ w.cuts \subseteq v.cuts \cup {v.card, WithFat(v)}
<1> USE DEF Good
<1>1. CASE ~v.fatDirty
  <2>1. w = v
    BY <1>1 DEF FlushFat
  <2>2. WithFat(v) = v.card
    BY <1>1 DEF WithFat, Vol, FatCoherent, Volume, Card
  <2>3. Cached(v) = WithData(v)
    <3>1. v.fatSector # None => v.fat = v.card[v.fatSector] /\ v.fatSector \in FatSectors
      BY <1>1 DEF Vol, FatCoherent, Volume
    <3>2. v.fatSector # None => v.dataSector # v.fatSector
      BY <3>1, SectorKinds DEF Vol, Volume
    <3>3. v.fatSector # None => SetPage(WithData(v), v.fatSector, v.fat) = WithData(v)
      <4>1. WithData(v) \in Card
        BY ImagesTyped DEF Images
      <4>2. v.fatSector # None => WithData(v)[v.fatSector] = v.card[v.fatSector]
        BY <3>2, <3>1, FatPageOf DEF WithData, Vol, Volume, Card
      <4> QED
        BY <3>1, <4>1, <4>2 DEF SetPage, Card
    <3> QED
      BY <3>3, WithFields DEF Vol
  <2> QED
    BY <2>1, <2>2, <2>3, <1>1, MovesSelf DEF SameData
<1>2. CASE v.fatDirty
  <2>1. v.fatSector \in FatSectors /\ v.fatSector # None /\ v.fat \in FatPages(v.fatSector)
    BY <1>2 DEF Vol, FatCoherent, Volume
  <2>2. v.fatSector \in DOMAIN v.card
    BY <2>1, FatPageOf, CardDomain DEF Vol, Volume
  <2>a. WithFat(v) = [v.card EXCEPT ![v.fatSector] = v.fat] /\ WithFat(v) \in Card /\ v.card \in Card
    BY <2>1, ImagesTyped DEF WithFat, Images, Vol, Volume
  <2>b. SectorWrite(v, v.fatSector, v.fat)
        = [v EXCEPT !.cuts = v.cuts \cup {v.card}, !.card = WithFat(v)]
    BY <2>2, <2>a DEF SectorWrite, Transfer, Then, Vol, Volume
  <2>3. w = [v EXCEPT !.cuts = v.cuts \cup {v.card, WithFat(v)}, !.card = WithFat(v), !.fatDirty = FALSE]
    <3> DEFINE u == SectorWrite(v, v.fatSector, v.fat)
    <3>1. u.card = WithFat(v) /\ u.err = "none" /\ v.fatSector \in DOMAIN u.card
          /\ u.cuts = v.cuts \cup {v.card}
      BY <2>b, <2>a, <2>2, CardDomain DEF Vol, Volume
    <3>a. (v.cuts \cup {v.card}) \cup {WithFat(v)} = v.cuts \cup {v.card, WithFat(v)}
      OBVIOUS
    <3>b. Transfer(u, v.fatSector) = [u EXCEPT !.cuts = v.cuts \cup {v.card, WithFat(v)}]
      BY <3>1, <3>a DEF Transfer
    <3>2. Transfer(u, v.fatSector) = [v EXCEPT !.cuts = v.cuts \cup {v.card, WithFat(v)}, !.card = WithFat(v)]
      BY <3>b, <2>b DEF Vol, Volume
    <3>3. w = Then(Transfer(u, v.fatSector), LAMBDA t : [t EXCEPT !.fatDirty = FALSE])
      BY <3>1, <1>2 DEF FlushFat, Then
    <3> HIDE DEF u
    <3> QED
      BY <3>2, <3>3 DEF Then, Vol, Volume
  <2>5. w \in Volume
    <3>1. v.cuts \cup {v.card, WithFat(v)} \in SUBSET Card
      BY <2>a DEF Vol, Volume
    <3> QED
      BY <3>1, <2>3, <2>a DEF Vol, Volume
  <2>6. w.card[v.fatSector] = v.fat /\ (v.dataSector # None => w.card[v.dataSector] = v.card[v.dataSector])
    BY <2>1, <2>2, <2>3, <2>a, SectorKinds DEF Vol, Volume
  <2>7. Vol(w)
    BY <2>3, <2>5, <2>6, <2>1, <1>2 DEF Vol, FatCoherent, DataCoherent, Volume
  <2>8. /\ Quiet(v, w) /\ SameData(v, w) /\ w.fat = v.fat /\ w.fatSector = v.fatSector /\ ~w.fatDirty /\ Good(w)
        /\ w.card = WithFat(v)
    BY <2>3 DEF Quiet, SameData, Vol, Volume
  <2>9. WithFat(w) = WithFat(v)
    BY <2>a, <2>8, <2>1, <2>6 DEF WithFat, Card
  <2>10. WithData(w) = Cached(v)
    BY <2>8, WithFields DEF WithData, SetPage, SameData, Vol
  <2>11. Cached(w) = Cached(v)
    <3>1. w.dataSector = v.dataSector /\ w.data = v.data
      BY <2>8 DEF SameData
    <3>2. Cached(w) = IF w.dataSector = None THEN WithFat(w)
                          ELSE SetPage(WithFat(w), w.dataSector, w.data)
      BY <2>5, WithFields
    <3>3. Cached(v) = IF v.dataSector = None THEN WithFat(v)
                          ELSE SetPage(WithFat(v), v.dataSector, v.data)
      BY WithFields DEF Vol
    <3> QED
      BY <3>1, <3>2, <3>3, <2>9
  <2>12. w.cuts = v.cuts \cup {v.card, WithFat(v)}
    BY <2>3 DEF Vol, Volume
  <2> QED
    BY <2>7, <2>8, <2>9, <2>10, <2>11, <2>12 DEF Moves, Images
<1> QED
  BY <1>1, <1>2 DEF Vol, Volume

(* A sector is read into a buffer that is clean.                           *)
LEMMA CleanImages ==
    ASSUME NEW v, Vol(v)
    PROVE  /\ ~v.dataDirty => WithData(v) = v.card /\ Cached(v) = WithFat(v)
           /\ ~v.fatDirty => WithFat(v) = v.card /\ Cached(v) = WithData(v)
<1> DEFINE u == [v EXCEPT !.err = "none"]
<1>1. Vol(u) /\ Good(u)
  <2>1. u \in Volume /\ SameBuffers(v, u) /\ u.err = "none"
    BY DEF Vol, Volume, SameBuffers, SameFat, SameData, Errors
  <2> QED
    BY <2>1, OtherFields DEF Moves, Good
<1>2. WithFat(u) = WithFat(v) /\ WithData(u) = WithData(v) /\ Cached(u) = Cached(v)
      /\ u.card = v.card /\ u.fatDirty = v.fatDirty /\ u.dataDirty = v.dataDirty
  BY DEF WithFat, WithData, Cached, Vol, Volume
<1> HIDE DEF u
<1>3. ~u.dataDirty => FlushData(u) = u
  BY DEF FlushData
<1>4. ~u.fatDirty => FlushFat(u) = u
  BY DEF FlushFat
<1>5. ~u.dataDirty => u.card = WithData(u) /\ WithFat(u) = Cached(u)
  BY <1>1, <1>3, FlushDataDone
<1>6. ~u.fatDirty => u.card = WithFat(u) /\ WithData(u) = Cached(u)
  BY <1>1, <1>4, FlushFatDone
<1> QED
  BY <1>2, <1>5, <1>6

LEMMA ReadDataDone ==
    ASSUME NEW v, NEW s \in DirSectors \cup DataSectors, NEW w, w = ReadData(v, s),
           Vol(v), Good(v), ~v.dataDirty
    PROVE  /\ Moves(v, w) /\ Quiet(v, w) /\ Good(w) /\ SameFat(v, w)
           /\ w.dataSector = s /\ ~w.dataDirty /\ w.card = v.card
           /\ w.cuts \subseteq v.cuts \cup {v.card}
<1> USE DEF Good
<1>1. s \in DOMAIN v.card /\ s # None /\ v.card \in Card /\ s \in CardSectors
      /\ Pages(s) \subseteq DirPages \cup DataPages
  BY DataPageOf, CardDomain DEF Vol, Volume
<1>2. w = [v EXCEPT !.cuts = v.cuts \cup {v.card}, !.data = v.card[s], !.dataSector = s]
  BY <1>1 DEF ReadData, Transfer, Then, Vol, Volume
<1>3. v.card[s] \in Pages(s)
  BY <1>1 DEF Card
<1>4. w \in Volume
  <2>1. v.cuts \cup {v.card} \in SUBSET Card
    BY <1>1 DEF Vol, Volume
  <2> QED
    BY <1>1, <1>2, <1>3, <2>1 DEF Vol, Volume
<1>5. /\ w.card = v.card /\ w.data = v.card[s] /\ w.dataSector = s /\ w.dataDirty = v.dataDirty
      /\ Quiet(v, w) /\ SameFat(v, w) /\ w.err = "none" /\ w.cuts = v.cuts \cup {v.card}
  BY <1>2 DEF Quiet, SameFat, Vol, Volume
<1>6. Vol(w)
  BY <1>3, <1>4, <1>5 DEF Vol, FatCoherent, DataCoherent, SameFat
<1>7. WithFat(w) = WithFat(v)
  BY <1>4, <1>5, WithFields DEF Vol, SameFat
<1>8. WithData(w) = w.card /\ Cached(w) = WithFat(w) /\ WithData(v) = v.card /\ Cached(v) = WithFat(v)
  BY <1>5, <1>6, CleanImages
<1> QED
  BY <1>5, <1>6, <1>7, <1>8 DEF Moves, Images

(* The sector that is asked for is in the buffer, or not on the card.      *)
LEMMA CacheDataDone ==
    ASSUME NEW v, NEW s \in DirSectors \cup DataSectors, NEW w, w = CacheData(v, s),
           Vol(v), Good(v)
    PROVE  Moves(v, w) /\ Quiet(v, w) /\ Good(w) /\ SameFat(v, w) /\ w.dataSector = s
<1>1. CASE v.dataSector = s
  BY <1>1, MovesSelf DEF CacheData, SameFat
<1>2. CASE v.dataSector # s
  <2> DEFINE u == FlushData(v)
  <2>1. Moves(v, u) /\ Quiet(v, u) /\ Good(u) /\ SameFat(v, u) /\ ~u.dataDirty /\ Vol(u)
    BY FlushDataDone DEF Moves
  <2> HIDE DEF u
  <2>2. w = ReadData(u, s)
    BY <1>2, <2>1 DEF CacheData, Then, u
  <2>3. Moves(u, w) /\ Quiet(u, w) /\ Good(w) /\ SameFat(u, w) /\ w.dataSector = s
    BY <2>1, <2>2, ReadDataDone
  <2>4. Moves(v, w) /\ Quiet(v, w)
    BY <2>1, <2>3, MovesOn, QuietOn
  <2> QED
    BY <2>1, <2>3, <2>4 DEF SameFat
<1> QED
  BY <1>1, <1>2

LEMMA CacheDataFails ==
    ASSUME NEW v, NEW s, s \notin CardSectors, s # None, NEW w, w = CacheData(v, s),
           Vol(v), Good(v)
    PROVE  Moves(v, w) /\ Quiet(v, w) /\ ~Good(w) /\ w.err = "sector" /\ SameFat(v, w)
<1> DEFINE u == FlushData(v)
<1>1. Moves(v, u) /\ Quiet(v, u) /\ Good(u) /\ SameFat(v, u) /\ ~u.dataDirty /\ Vol(u)
  BY FlushDataDone DEF Moves
<1>a. v.dataSector # s
  BY DataPageOf DEF Vol, Volume
<1> HIDE DEF u
<1>2. w = ReadData(u, s)
  BY <1>1, <1>a DEF CacheData, Then, u
<1>3. w = [u EXCEPT !.err = "sector"]
  BY <1>1, <1>2, CardDomain DEF ReadData, Then, Transfer, Failed, Good, Vol, Volume
<1>4. Vol(w) /\ Moves(u, w) /\ Quiet(u, w) /\ SameFat(u, w) /\ w.err = "sector"
  <2>1. w \in Volume /\ SameBuffers(u, w) /\ Quiet(u, w) /\ w.err = "sector"
    BY <1>1, <1>3 DEF Vol, Volume, SameBuffers, SameFat, SameData, Quiet, Errors
  <2> QED
    BY <2>1, <1>1, OtherFields DEF Moves, SameBuffers
<1>5. Moves(v, w) /\ Quiet(v, w)
  BY <1>1, <1>4, MovesOn, QuietOn
<1> QED
  BY <1>1, <1>4, <1>5 DEF Good, SameFat

LEMMA FatOrNowhere == \A c \in Nat : FatSector(c) \in FatSectors \/ FatSector(c) \notin CardSectors
BY DEF CardSectors, FatSector, DirSectors, DirSector, DataSectors, DataSector

(* The sector of the table is in the buffer, or none is.                   *)
LEMMA CacheFatDone ==
    ASSUME NEW v, NEW s, s \in FatSectors \/ s \notin CardSectors, s # None,
           NEW w, w = CacheFat(v, s), Vol(v), Good(v)
    PROVE  /\ Moves(v, w) /\ Quiet(v, w) /\ SameData(v, w)
           /\ s \in FatSectors => Good(w) /\ w.fatSector = s
           /\ s \notin FatSectors => ~Good(w)
<1>1. CASE v.fatSector = s
  <2>1. s \in FatSectors
    BY <1>1 DEF Vol, Volume
  <2> QED
    BY <1>1, <2>1, MovesSelf DEF CacheFat, SameData
<1>2. CASE v.fatSector # s
  <2> DEFINE u == FlushFat(v)
  <2>1. Moves(v, u) /\ Quiet(v, u) /\ Good(u) /\ SameData(v, u) /\ ~u.fatDirty /\ Vol(u)
    BY FlushFatDone DEF Moves
  <2> HIDE DEF u
  <2>2. w = ReadFat(Transfer(u, s), s)
    BY <1>2, <2>1 DEF CacheFat, Then, u
  <2>c. u.card \in Card /\ DOMAIN u.card = CardSectors /\ u \in Volume
    BY <2>1, CardDomain DEF Vol, Volume
  <2>3. CASE s \in FatSectors
    <3>1. s \in CardSectors /\ u.card[s] \in FatPages(s) /\ FatPages(s) \subseteq FatPage
      BY <2>3, <2>c, FatPageOf DEF Card
    <3>2. w = [u EXCEPT !.cuts = u.cuts \cup {u.card}, !.fat = u.card[s], !.fatSector = s]
      BY <2>1, <2>2, <2>3, <3>1, <2>c DEF ReadFat, Transfer, Good, Volume
    <3>3. w \in Volume
      <4>1. u.cuts \cup {u.card} \in SUBSET Card
        BY <2>c DEF Volume
      <4> QED
        BY <4>1, <3>1, <3>2, <2>c, <2>3 DEF Volume
    <3>4. /\ w.card = u.card /\ w.fat = u.card[s] /\ w.fatSector = s /\ w.fatDirty = u.fatDirty
          /\ Quiet(u, w) /\ SameData(u, w) /\ w.err = u.err /\ w.cuts = u.cuts \cup {u.card}
      BY <3>2, <2>c DEF Quiet, SameData, Volume
    <3>5. Vol(w)
      BY <2>1, <2>3, <3>1, <3>3, <3>4, FatPageOf DEF Vol, FatCoherent, DataCoherent, SameData
    <3>6. WithData(w) = WithData(u)
      BY <3>3, <3>4, <2>c, WithFields DEF SameData
    <3>7. WithFat(w) = w.card /\ Cached(w) = WithData(w) /\ WithFat(u) = u.card /\ Cached(u) = WithData(u)
      BY <3>4, <3>5, <2>1, CleanImages
    <3>8. Moves(u, w)
      BY <3>4, <3>5, <3>6, <3>7 DEF Moves, Images
    <3> QED
      BY <3>8, <3>4, <2>1, <2>3, MovesOn, QuietOn DEF SameData, Good
  <2>4. CASE s \notin FatSectors
    <3>1. w = [u EXCEPT !.err = "sector", !.fatSector = None]
      BY <2>1, <2>2, <2>4, <2>c DEF ReadFat, Transfer, Good, Volume, Failed
    <3>2. w \in Volume
      BY <3>1, <2>c DEF Volume, Errors
    <3>3. w.card = u.card /\ w.cuts = u.cuts /\ w.fatSector = None /\ w.fatDirty = u.fatDirty
          /\ Quiet(u, w) /\ SameData(u, w) /\ w.err = "sector"
      BY <3>1, <2>c DEF Quiet, SameData, Volume
    <3>4. Vol(w)
      BY <2>1, <3>2, <3>3 DEF Vol, FatCoherent, DataCoherent, SameData
    <3>5. WithData(w) = WithData(u)
      BY <3>2, <3>3, <2>c, WithFields DEF SameData
    <3>6. WithFat(w) = w.card /\ Cached(w) = WithData(w) /\ WithFat(u) = u.card /\ Cached(u) = WithData(u)
      BY <3>3, <3>4, <2>1, CleanImages
    <3>7. Moves(u, w)
      BY <3>3, <3>4, <3>5, <3>6 DEF Moves, Images
    <3> QED
      BY <3>7, <3>3, <2>1, <2>4, MovesOn, QuietOn DEF SameData, Good
  <2> QED
    BY <2>3, <2>4
<1> QED
  BY <1>1, <1>2

LEMMA FATReadDone ==
    ASSUME NEW v, NEW c \in Nat, NEW w, w = FATRead(v, c), Vol(v), Good(v)
    PROVE  /\ Moves(v, w) /\ Quiet(v, w) /\ SameData(v, w)
           /\ c \in Clusters => Good(w) /\ w.fatSector = FatSector(c)
<1>1. FatSector(c) # None
  BY DEF FatSector, None
<1>2. w = CacheFat(v, FatSector(c))
  BY DEF FATRead
<1> QED
  BY <1>1, <1>2, CacheFatDone, FatOrNowhere, SectorOf

(* The buffered entries.                                                   *)
LEMMA LinkRead ==
    ASSUME NEW v, NEW c \in Clusters, Vol(v), v.fatSector = FatSector(c)
    PROVE  v.fat[c] = Link(Cached(v), c)
<1>1. v.fatSector \in FatSectors /\ v.fatSector # None /\ v.fatSector \in CardSectors
  BY SectorOf, FatPageOf
<1>2. Cached(v) = SetPage(WithData(v), v.fatSector, v.fat)
  BY <1>1, WithFields DEF Vol
<1>3. WithData(v) \in Card /\ DOMAIN WithData(v) = CardSectors
  BY ImagesTyped, CardDomain DEF Images
<1> QED
  BY <1>1, <1>2, <1>3 DEF SetPage, Link

LEMMA SlotRead ==
    ASSUME NEW v, NEW slot \in 0 .. ROOT - 1, Vol(v), v.dataSector = DirSector(slot)
    PROVE  Entry(v, slot) = Slot(Cached(v), slot)
<1>1. v.dataSector \in DirSectors /\ v.dataSector # None /\ v.dataSector \in CardSectors
  BY SectorOf, DataPageOf
<1>2. Cached(v) = SetPage(WithFat(v), v.dataSector, v.data)
  BY <1>1, WithFields DEF Vol
<1>3. WithFat(v) \in Card /\ DOMAIN WithFat(v) = CardSectors
  BY ImagesTyped, CardDomain DEF Images
<1> QED
  BY <1>1, <1>2, <1>3 DEF SetPage, Slot, Entry

LEMMA PageRead ==
    ASSUME NEW v, NEW s \in DirSectors \cup DataSectors, Vol(v), v.dataSector = s
    PROVE  v.data = Cached(v)[s] /\ v.data = WithData(v)[s] /\ v.data \in Pages(s)
<1>1. s # None /\ s \in CardSectors
  BY DataPageOf
<1>2. Cached(v) = SetPage(WithFat(v), v.dataSector, v.data)
  BY <1>1, WithFields DEF Vol
<1>3. WithFat(v) \in Card /\ DOMAIN WithFat(v) = CardSectors
  BY ImagesTyped, CardDomain DEF Images
<1>4. v.card \in Card /\ DOMAIN v.card = CardSectors
  BY CardDomain DEF Vol, Volume
<1> QED
  BY <1>1, <1>2, <1>3, <1>4 DEF SetPage, WithData, Vol, DataCoherent

(* The table of one image is that of another.                              *)
SameTable(x, y) == \A s \in FatSectors : x[s] = y[s]
SameRest(x, y) == \A s \in DirSectors \cup DataSectors : x[s] = y[s]

LEMMA HalfImages ==
    ASSUME NEW v, Vol(v)
    PROVE  /\ SameTable(WithFat(v), Cached(v)) /\ SameTable(WithData(v), v.card)
           /\ SameRest(WithData(v), Cached(v)) /\ SameRest(WithFat(v), v.card)
<1>1. v.card \in Card /\ WithFat(v) \in Card /\ WithData(v) \in Card
  BY ImagesTyped DEF Images
<1>2. \A x \in Card : DOMAIN x = CardSectors
  BY CardDomain
<1>3. v.fatSector \in FatSectors \/ v.fatSector = None
  BY DEF Vol, Volume
<1>4. v.dataSector \in DirSectors \cup DataSectors \/ v.dataSector = None
  BY DEF Vol, Volume
<1>5. Cached(v) = IF v.dataSector = None THEN WithFat(v)
                  ELSE SetPage(WithFat(v), v.dataSector, v.data)
  BY WithFields DEF Vol
<1>6. Cached(v) = IF v.fatSector = None THEN WithData(v)
                  ELSE SetPage(WithData(v), v.fatSector, v.fat)
  BY WithFields DEF Vol
<1>7. SameTable(WithFat(v), Cached(v))
  BY <1>1, <1>2, <1>4, <1>5, SectorKinds DEF SameTable, SetPage
<1>8. SameRest(WithData(v), Cached(v))
  BY <1>1, <1>2, <1>3, <1>6, SectorKinds DEF SameRest, SetPage
<1>9. SameTable(WithData(v), v.card)
  BY <1>1, <1>2, <1>4, SectorKinds DEF SameTable, WithData
<1>10. SameRest(WithFat(v), v.card)
  BY <1>1, <1>2, <1>3, SectorKinds DEF SameRest, WithFat
<1> QED
  BY <1>7, <1>8, <1>9, <1>10

LEMMA SetLinkCard ==
    ASSUME NEW c \in Card, NEW k \in Clusters, NEW word \in Word
    PROVE  /\ SetLink(c, k, word) \in Card
           /\ SetLink(c, k, word) = SetPage(c, FatSector(k), [c[FatSector(k)] EXCEPT ![k] = word])
           /\ [c[FatSector(k)] EXCEPT ![k] = word] \in FatPages(FatSector(k))
<1>1. FatSector(k) \in FatSectors /\ FatSector(k) \in CardSectors /\ Pages(FatSector(k)) = FatPages(FatSector(k))
  BY SectorOf, FatPageOf
<1>2. c[FatSector(k)] \in FatPages(FatSector(k))
  BY <1>1 DEF Card
<1>3. [c[FatSector(k)] EXCEPT ![k] = word] \in FatPages(FatSector(k))
  BY <1>2 DEF FatPages
<1>4. SetLink(c, k, word) = SetPage(c, FatSector(k), [c[FatSector(k)] EXCEPT ![k] = word])
  BY DEF SetLink, SetPage
<1> QED
  BY <1>1, <1>3, <1>4, CardPage

LEMMA SetSlotCard ==
    ASSUME NEW c \in Card, NEW slot \in 0 .. ROOT - 1, NEW e \in SlotEntry
    PROVE  /\ SetSlot(c, slot, e) \in Card
           /\ SetSlot(c, slot, e) = SetPage(c, DirSector(slot), [c[DirSector(slot)] EXCEPT ![slot % ENTRIES] = e])
           /\ [c[DirSector(slot)] EXCEPT ![slot % ENTRIES] = e] \in DirPages
           /\ c[DirSector(slot)] \in DirPages
<1>1. DirSector(slot) \in DirSectors /\ DirSector(slot) \in CardSectors /\ Pages(DirSector(slot)) = DirPages
  BY SectorOf, DataPageOf, SectorKinds DEF Pages
<1>2. c[DirSector(slot)] \in DirPages
  BY <1>1 DEF Card
<1>3. [c[DirSector(slot)] EXCEPT ![slot % ENTRIES] = e] \in DirPages
  BY <1>2 DEF DirPages
<1>4. SetSlot(c, slot, e) = SetPage(c, DirSector(slot), [c[DirSector(slot)] EXCEPT ![slot % ENTRIES] = e])
  BY DEF SetSlot, SetPage
<1> QED
  BY <1>1, <1>2, <1>3, <1>4, CardPage

(* A buffer is changed: the images with that buffer are.                   *)
BufferLink(v, k, word) == [v EXCEPT !.fat[k] = word, !.fatDirty = TRUE]
BufferPage(v, page) == [v EXCEPT !.data = page, !.dataDirty = TRUE]

LEMMA ChangeFat ==
    ASSUME NEW v, NEW k \in Clusters, NEW word \in Word, Vol(v), v.fatSector = FatSector(k),
           NEW w, w = BufferLink(v, k, word)
    PROVE  /\ Vol(w) /\ Quiet(v, w) /\ SameData(v, w) /\ w.err = v.err /\ w.cuts = v.cuts
           /\ w.fatSector = v.fatSector
           /\ w.card = v.card /\ WithData(w) = WithData(v)
           /\ WithFat(w) = SetLink(WithFat(v), k, word)
           /\ Cached(w) = SetLink(Cached(v), k, word)
<1> DEFINE s == FatSector(k)
<1>1. s \in FatSectors /\ s # None /\ s \in CardSectors /\ Pages(s) = FatPages(s) /\ FatPages(s) \subseteq FatPage
  BY SectorOf, FatPageOf
<1>2. v.fat \in FatPages(s) /\ v \in Volume
  BY <1>1 DEF Vol, FatCoherent
<1>3. [v.fat EXCEPT ![k] = word] \in FatPages(s)
  BY <1>2 DEF FatPages
<1> DEFINE page == [v.fat EXCEPT ![k] = word]
<1>4. w = [v EXCEPT !.fat = page, !.fatDirty = TRUE]
  BY DEF BufferLink
<1>5. w \in Volume
  BY <1>1, <1>2, <1>3, <1>4 DEF Volume
<1>6. /\ w.fat = page /\ w.fatSector = s /\ w.fatDirty /\ w.card = v.card /\ w.cuts = v.cuts /\ w.err = v.err
      /\ Quiet(v, w) /\ SameData(v, w)
  BY <1>2, <1>4 DEF Volume, Quiet, SameData
<1>7. Vol(w)
  BY <1>1, <1>3, <1>5, <1>6 DEF Vol, FatCoherent, DataCoherent, SameData
<1>8. WithData(w) = WithData(v)
  BY <1>2, <1>5, <1>6, WithFields DEF SameData
<1>9. WithFat(v) \in Card /\ Cached(v) \in Card /\ WithData(v) \in Card /\ v.card \in Card
  BY ImagesTyped DEF Images
<1>10. WithFat(w) = SetPage(v.card, s, page) /\ WithFat(v) = SetPage(v.card, s, v.fat)
  BY <1>1, <1>6 DEF WithFat, SetPage
<1>11. Cached(w) = SetPage(WithData(v), s, page) /\ Cached(v) = SetPage(WithData(v), s, v.fat)
  BY <1>1, <1>2, <1>5, <1>6, <1>8, WithFields
<1>12. ASSUME NEW c \in Card PROVE SetLink(SetPage(c, s, v.fat), k, word) = SetPage(c, s, page)
  BY <1>1, CardDomain DEF SetLink, SetPage
<1> HIDE DEF page, s
<1>13. WithFat(w) = SetLink(WithFat(v), k, word) /\ Cached(w) = SetLink(Cached(v), k, word)
  BY <1>9, <1>10, <1>11, <1>12
<1> QED
  BY <1>6, <1>7, <1>8, <1>13 DEF s

LEMMA ChangeData ==
    ASSUME NEW v, NEW s \in DirSectors \cup DataSectors, NEW page \in Pages(s), Vol(v), v.dataSector = s,
           NEW w, w = BufferPage(v, page)
    PROVE  /\ Vol(w) /\ Quiet(v, w) /\ SameFat(v, w) /\ w.err = v.err /\ w.cuts = v.cuts
           /\ w.dataSector = s
           /\ w.card = v.card /\ WithFat(w) = WithFat(v)
           /\ WithData(w) = SetPage(WithData(v), s, page)
           /\ Cached(w) = SetPage(Cached(v), s, page)
<1>1. s # None /\ s \in CardSectors /\ Pages(s) \subseteq DirPages \cup DataPages /\ v \in Volume
  BY DataPageOf DEF Vol
<1>2. w \in Volume
  BY <1>1 DEF Volume, BufferPage
<1>3. /\ w.data = page /\ w.dataSector = s /\ w.dataDirty /\ w.card = v.card /\ w.cuts = v.cuts /\ w.err = v.err
      /\ Quiet(v, w) /\ SameFat(v, w)
  BY <1>1 DEF Volume, Quiet, SameFat, BufferPage
<1>4. Vol(w)
  BY <1>1, <1>2, <1>3 DEF Vol, FatCoherent, DataCoherent, SameFat
<1>5. WithFat(w) = WithFat(v)
  BY <1>1, <1>2, <1>3, WithFields DEF SameFat
<1>6. WithData(w) = SetPage(v.card, s, page) /\ WithData(v) = SetPage(v.card, s, v.data)
  BY <1>1, <1>3 DEF WithData, SetPage
<1>7. Cached(w) = SetPage(WithFat(v), s, page) /\ Cached(v) = SetPage(WithFat(v), s, v.data)
  BY <1>1, <1>2, <1>3, <1>5, WithFields
<1>8. \A c : SetPage(SetPage(c, s, v.data), s, page) = SetPage(c, s, page)
  BY DEF SetPage
<1> QED
  BY <1>3, <1>4, <1>5, <1>6, <1>7, <1>8

LEMMA ChangeSlot ==
    ASSUME NEW v, NEW slot \in 0 .. ROOT - 1, NEW e \in SlotEntry, Vol(v), v.dataSector = DirSector(slot),
           NEW w, w = SetEntry(v, slot, e)
    PROVE  /\ Vol(w) /\ Quiet(v, w) /\ SameFat(v, w) /\ w.err = v.err /\ w.cuts = v.cuts
           /\ w.dataSector = v.dataSector
           /\ w.card = v.card /\ WithFat(w) = WithFat(v)
           /\ WithData(w) = SetSlot(WithData(v), slot, e)
           /\ Cached(w) = SetSlot(Cached(v), slot, e)
<1> DEFINE s == DirSector(slot)
<1>1. s \in DirSectors /\ s \in CardSectors /\ Pages(s) = DirPages /\ s \in DirSectors \cup DataSectors
  BY SectorOf, DataPageOf, SectorKinds DEF Pages
<1>2. v.data = Cached(v)[s] /\ v.data = WithData(v)[s] /\ v.data \in DirPages
  BY <1>1, PageRead
<1> DEFINE page == [v.data EXCEPT ![slot % ENTRIES] = e]
<1>3. Cached(v) \in Card /\ WithData(v) \in Card
  BY ImagesTyped DEF Images
<1>4. page \in Pages(s) /\ SetSlot(Cached(v), slot, e) = SetPage(Cached(v), s, page)
      /\ SetSlot(WithData(v), slot, e) = SetPage(WithData(v), s, page)
  BY <1>1, <1>2, <1>3, SetSlotCard
<1>5. w = BufferPage(v, page)
  BY DEF SetEntry, BufferPage
<1> HIDE DEF s, page
<1>6. v.dataSector = s
  BY DEF s
<1>7. /\ Vol(w) /\ Quiet(v, w) /\ SameFat(v, w) /\ w.err = v.err /\ w.cuts = v.cuts
      /\ w.dataSector = s
      /\ w.card = v.card /\ WithFat(w) = WithFat(v)
      /\ WithData(w) = SetPage(WithData(v), s, page)
      /\ Cached(w) = SetPage(Cached(v), s, page)
  BY <1>1, <1>4, <1>5, <1>6, ChangeData
<1> QED
  BY <1>4, <1>6, <1>7

(* FATWrite, on the images.                                                *)
LEMMA FATWriteDone ==
    ASSUME NEW v, NEW k \in Clusters, NEW word \in Word, NEW w, w = FATWrite(v, k, word),
           Vol(v), Good(v)
    PROVE  /\ Vol(w) /\ Good(w) /\ Quiet(v, w) /\ SameData(v, w)
           /\ w.card \in Images(v) /\ WithData(w) \in {WithData(v), Cached(v)}
           /\ WithFat(w) \in {SetLink(WithFat(v), k, word), SetLink(Cached(v), k, word)}
           /\ Cached(w) = SetLink(Cached(v), k, word)
           /\ w.cuts \subseteq v.cuts \cup Images(v)
<1> DEFINE r == CacheFat(v, FatSector(k))
<1>1. FatSector(k) \in FatSectors /\ FatSector(k) # None
  BY SectorOf, FatPageOf
<1>2. Moves(v, r) /\ Quiet(v, r) /\ SameData(v, r) /\ Good(r) /\ r.fatSector = FatSector(k)
  BY <1>1, CacheFatDone
<1> HIDE DEF r
<1>3. w = BufferLink(r, k, word)
  BY <1>2 DEF FATWrite, Then, r, BufferLink
<1>4. /\ Vol(w) /\ Quiet(r, w) /\ SameData(r, w) /\ w.err = r.err /\ w.cuts = r.cuts
      /\ w.card = r.card /\ WithData(w) = WithData(r)
      /\ WithFat(w) = SetLink(WithFat(r), k, word)
      /\ Cached(w) = SetLink(Cached(r), k, word)
  <2>1. Vol(r)
    BY <1>2 DEF Moves
  <2> QED
    BY <1>2, <1>3, <2>1, ChangeFat
<1>5. Quiet(v, w)
  BY <1>2, <1>4, QuietOn
<1> QED
  BY <1>2, <1>4, <1>5 DEF Moves, SameData, Good

-----------------------------------------------------------------------------
(* Where a byte of a file is.                                              *)
ClusterBytes == SPC * SECTOR
ClusterOf(j) == (j \div SECTOR) \div SPC + 1
SectorIn(j) == (j \div SECTOR) % SPC
OffsetIn(j) == j % SECTOR
Place(c, s, o) == ((c - 1) * SPC + s) * SECTOR + o

LEMMA Times ==
    ASSUME NEW a \in Nat, NEW b \in Nat
    PROVE  a * b \in Nat /\ a * b = b * a
OBVIOUS

LEMMA TimesMore ==
    ASSUME NEW a \in Nat, NEW b \in Nat, NEW n \in Nat, a <= b
    PROVE  a * n <= b * n
<1>1. b - a \in Nat
  OBVIOUS
<1>2. (b - a) * n \in Nat
  BY <1>1, Times
<1>3. b * n = a * n + (b - a) * n
  OBVIOUS
<1>4. a * n \in Nat /\ b * n \in Nat
  BY Times
<1> QED
  BY <1>2, <1>3, <1>4

LEMMA PlaceOf ==
    ASSUME NEW j \in Nat
    PROVE  /\ ClusterOf(j) \in Nat \ {0} /\ SectorIn(j) \in 0 .. SPC - 1 /\ OffsetIn(j) \in 0 .. SECTOR - 1
           /\ j = Place(ClusterOf(j), SectorIn(j), OffsetIn(j))
<1> DEFINE q == j \div SECTOR
<1>0. SECTOR \in Nat \ {0} /\ SPC \in Nat \ {0}
  BY Numbers
<1>1. q \in Nat /\ j % SECTOR \in 0 .. SECTOR - 1 /\ j = q * SECTOR + (j % SECTOR)
  BY <1>0, DivMod, Zenon
<1> HIDE DEF q
<1>2. q \div SPC \in Nat /\ q % SPC \in 0 .. SPC - 1 /\ q = (q \div SPC) * SPC + (q % SPC)
  BY <1>0, <1>1, DivMod, Zenon
<1>3. ClusterOf(j) = q \div SPC + 1 /\ SectorIn(j) = q % SPC /\ OffsetIn(j) = j % SECTOR
  BY Zenon DEF ClusterOf, SectorIn, OffsetIn, q
<1>4. ClusterOf(j) - 1 = q \div SPC /\ ClusterOf(j) \in Nat \ {0}
  BY <1>2, <1>3
<1>5. (ClusterOf(j) - 1) * SPC + SectorIn(j) = q
  BY <1>2, <1>3, <1>4
<1>6. j = Place(ClusterOf(j), SectorIn(j), OffsetIn(j))
  BY <1>1, <1>3, <1>5, Zenon DEF Place
<1> QED
  BY <1>1, <1>2, <1>3, <1>4, <1>6

LEMMA PlaceOnce ==
    ASSUME NEW c \in Nat \ {0}, NEW s \in 0 .. SPC - 1, NEW o \in 0 .. SECTOR - 1,
           NEW d \in Nat \ {0}, NEW t \in 0 .. SPC - 1, NEW p \in 0 .. SECTOR - 1,
           Place(c, s, o) = Place(d, t, p)
    PROVE  c = d /\ s = t /\ o = p
<1> DEFINE x == (c - 1) * SPC + s
           y == (d - 1) * SPC + t
<1>1. x \in Int /\ y \in Int
  BY Numbers
<1>2. x * SECTOR + o = y * SECTOR + p
  BY DEF Place
<1> HIDE DEF x, y
<1>3. x = y /\ o = p
  BY <1>1, <1>2, MixedBase, Numbers
<1>4. (c - 1) * SPC + s = (d - 1) * SPC + t
  BY <1>3 DEF x, y
<1>5. c - 1 = d - 1 /\ s = t
  BY <1>4, MixedBase, Numbers
<1> QED
  BY <1>3, <1>5

(* The sectors of a file follow one another.                               *)
LEMMA PlaceNumber ==
    ASSUME NEW c \in Nat \ {0}, NEW s \in Nat, NEW o \in Nat
    PROVE  /\ Place(c, s, o) \in Nat
           /\ Place(c, s, o) = (c - 1) * ClusterBytes + s * SECTOR + o
           /\ Place(c, s, SECTOR) = Place(c, s + 1, 0)
           /\ Place(c, SPC, 0) = Place(c + 1, 0, 0)
           /\ Place(c, SPC, 0) = c * ClusterBytes
           /\ \A k \in Nat : Place(c, s, o + k) = Place(c, s, o) + k
<1>1. /\ c - 1 \in Nat /\ (c - 1) * SPC \in Nat /\ SPC * SECTOR \in Nat /\ s * SECTOR \in Nat
      /\ (c - 1) * (SPC * SECTOR) \in Nat /\ c * (SPC * SECTOR) \in Nat
  BY Times, Numbers
<1>2. ((c - 1) * SPC + s) * SECTOR = ((c - 1) * SPC) * SECTOR + s * SECTOR
  BY <1>1, Numbers
<1>3. ((c - 1) * SPC) * SECTOR = (c - 1) * (SPC * SECTOR)
  BY <1>1, Numbers
<1>4. Place(c, s, o) = (c - 1) * (SPC * SECTOR) + s * SECTOR + o
  BY <1>2, <1>3, <1>1, Numbers DEF Place
<1>5. ((c - 1) * SPC + (s + 1)) * SECTOR = ((c - 1) * SPC + s) * SECTOR + SECTOR
  BY <1>1, Numbers
<1>6. Place(c, s, SECTOR) = Place(c, s + 1, 0)
  <2> DEFINE x == (c - 1) * SPC + s
             y == (c - 1) * SPC + (s + 1)
  <2>1. x \in Nat /\ y \in Nat /\ x * SECTOR \in Nat /\ y * SECTOR \in Nat
    BY <1>1, Times, Numbers
  <2>2. Place(c, s, SECTOR) = x * SECTOR + SECTOR /\ Place(c, s + 1, 0) = y * SECTOR + 0
    BY Zenon DEF Place
  <2>3. y * SECTOR = x * SECTOR + SECTOR
    BY <1>5
  <2> HIDE DEF x, y
  <2> QED
    BY <2>1, <2>2, <2>3
<1>7. (c - 1) * SPC + SPC = c * SPC /\ (c + 1) - 1 = c
  BY Numbers
<1>8. Place(c, SPC, 0) = (c * SPC) * SECTOR + 0 /\ Place(c + 1, 0, 0) = (c * SPC + 0) * SECTOR + 0
  BY <1>7, Zenon DEF Place
<1>9. c * SPC + 0 = c * SPC /\ (c * SPC) * SECTOR = c * (SPC * SECTOR)
  BY Numbers, Times
<1>10. \A k \in Nat : Place(c, s, o + k) = Place(c, s, o) + k
  <2> DEFINE z == ((c - 1) * SPC + s) * SECTOR
  <2>1. z \in Nat
    BY <1>1, Numbers, Times
  <2>2. \A k : Place(c, s, k) = z + k
    BY Zenon DEF Place
  <2> HIDE DEF z
  <2> QED
    BY <2>1, <2>2
<1> QED
  BY <1>1, <1>4, <1>6, <1>8, <1>9, <1>10, Numbers DEF ClusterBytes

LEMMA PlaceSum ==
    ASSUME NEW c \in Nat \ {0}, NEW s \in Nat, NEW o \in Nat
    PROVE  Place(c, s, o) = (c - 1) * ClusterBytes + s * SECTOR + o
BY PlaceNumber

LEMMA PlaceMore ==
    ASSUME NEW c \in Nat \ {0}, NEW s \in Nat, NEW o \in Nat, NEW k \in Nat
    PROVE  Place(c, s, o) \in Nat /\ Place(c, s, o + k) = Place(c, s, o) + k
BY PlaceNumber

LEMMA PlaceBound ==
    ASSUME NEW c \in Nat \ {0}, NEW s \in 0 .. SPC - 1, NEW o \in 0 .. SECTOR, NEW n \in Nat
    PROVE  /\ Place(c, s, o) < n * ClusterBytes => c <= n
           /\ c <= n => Place(c, s, o) <= n * ClusterBytes
           /\ c <= n /\ o < SECTOR => Place(c, s, o) < n * ClusterBytes
<1> DEFINE B == ClusterBytes
<1>1. B \in Nat /\ SPC * SECTOR = B
  BY Numbers, Times DEF ClusterBytes
<1>2. s * SECTOR \in Nat /\ s * SECTOR + SECTOR = (s + 1) * SECTOR /\ (s + 1) * SECTOR <= SPC * SECTOR
  BY Numbers, Times, TimesMore
<1>3. Place(c, s, o) = (c - 1) * B + s * SECTOR + o
  BY PlaceNumber
<1>4. (c - 1) * B + B = c * B /\ (c - 1) * B \in Nat
  BY <1>1, Times
<1>5. c * B \in Nat /\ n * B \in Nat
  BY <1>1, Times
<1>6. c <= n => c * B <= n * B
  BY <1>1, TimesMore
<1>7. n < c => n * B <= (c - 1) * B
  BY <1>1, TimesMore
<1> HIDE DEF B
<1>8. Place(c, s, o) <= c * B /\ (o < SECTOR => Place(c, s, o) < c * B) /\ (c - 1) * B <= Place(c, s, o)
  BY <1>1, <1>2, <1>3, <1>4, Numbers
<1>9. Place(c, s, o) \in Nat
  <2>1. s \in Nat /\ o \in Nat
    BY Numbers
  <2> QED
    BY <2>1, PlaceNumber, Zenon
<1>10. Place(c, s, o) < n * B => c <= n
  BY <1>5, <1>7, <1>8, <1>9, <1>4
<1>11. c <= n => Place(c, s, o) <= n * B
  BY <1>5, <1>6, <1>8, <1>9
<1>12. c <= n /\ o < SECTOR => Place(c, s, o) < n * B
  BY <1>5, <1>6, <1>8, <1>9
<1> QED
  BY <1>10, <1>11, <1>12 DEF B

LEMMA ByteIn ==
    ASSUME NEW j \in Nat, NEW n \in Nat
    PROVE  j < n * ClusterBytes <=> ClusterOf(j) \in 1 .. n
<1> DEFINE c == ClusterOf(j)   s == SectorIn(j)   o == OffsetIn(j)
<1>1. c \in Nat \ {0} /\ s \in 0 .. SPC - 1 /\ o \in 0 .. SECTOR - 1 /\ j = Place(c, s, o)
  BY PlaceOf
<1> HIDE DEF c, s, o
<1>2. o \in 0 .. SECTOR /\ o < SECTOR
  BY <1>1, Numbers
<1>3. (j < n * ClusterBytes => c <= n) /\ (c <= n => j < n * ClusterBytes)
  BY <1>1, <1>2, PlaceBound
<1>4. c \in 1 .. n <=> c <= n
  BY <1>1
<1> QED
  BY <1>3, <1>4 DEF c

-----------------------------------------------------------------------------
(* What a change of a card leaves alone.                                   *)
SlotNumbers == 0 .. ROOT - 1
SectorNumbers == 0 .. SPC - 1

LEMMA ClusterWord == \A k \in Clusters : k \in Word /\ k \in Nat /\ k >= 2 /\ k < EndLimit /\ k # Empty
<1> TAKE k \in Clusters
<1>1. k \in Nat /\ 2 <= k /\ k < CLUSTERS + 2
  BY ClusterRange
<1>2. CLUSTERS \in Nat /\ CLUSTERS <= 65524
  BY Numbers
<1>3. k < 65526 /\ k < 65527 /\ 0 <= k /\ k <= 65535 /\ k # 0
  BY <1>1, <1>2
<1>4. k \in Word
  BY <1>1, <1>3 DEF Word
<1> QED
  BY <1>1, <1>3, <1>4 DEF Empty, EndLimit

LEMMA PageLeaves ==
    ASSUME NEW c \in Card, NEW s \in CardSectors, NEW page, NEW t \in CardSectors
    PROVE  /\ SetPage(c, s, page)[s] = page
           /\ t # s => SetPage(c, s, page)[t] = c[t]
BY CardDomain DEF SetPage

LEMMA LinkSet ==
    ASSUME NEW c \in Card, NEW k \in Clusters, NEW word \in Word
    PROVE  /\ Link(SetLink(c, k, word), k) = word
           /\ \A j \in Clusters : j # k => Link(SetLink(c, k, word), j) = Link(c, j)
           /\ SameRest(SetLink(c, k, word), c)
<1>1. /\ SetLink(c, k, word) = SetPage(c, FatSector(k), [c[FatSector(k)] EXCEPT ![k] = word])
      /\ c[FatSector(k)] \in FatPages(FatSector(k))
  BY SetLinkCard, SectorOf, FatPageOf DEF Card
<1>2. \A j \in Clusters : FatSector(j) \in FatSectors /\ FatSector(j) \in CardSectors
  BY SectorOf, FatPageOf
<1>3. SetLink(c, k, word)[FatSector(k)] = [c[FatSector(k)] EXCEPT ![k] = word]
  BY <1>1, <1>2, PageLeaves
<1>4. \A t \in CardSectors : t # FatSector(k) => SetLink(c, k, word)[t] = c[t]
  BY <1>1, <1>2, PageLeaves
<1>5. Link(SetLink(c, k, word), k) = word
  BY <1>1, <1>3 DEF Link, FatPages
<1>6. ASSUME NEW j \in Clusters, j # k PROVE Link(SetLink(c, k, word), j) = Link(c, j)
  <2>1. CASE FatSector(j) = FatSector(k)
    BY <1>3, <1>6, <1>1, <2>1 DEF Link, FatPages
  <2>2. CASE FatSector(j) # FatSector(k)
    BY <1>2, <1>4, <2>2 DEF Link
  <2> QED
    BY <2>1, <2>2
<1>7. SameRest(SetLink(c, k, word), c)
  BY <1>2, <1>4, SectorKinds, DataPageOf DEF SameRest
<1> QED
  BY <1>5, <1>6, <1>7

LEMMA SlotOffset == \A t \in SlotNumbers : t \in Nat /\ t % ENTRIES \in 0 .. ENTRIES - 1
<1>1. ENTRIES \in Nat \ {0} /\ \A t \in SlotNumbers : t \in Nat
  BY Numbers DEF SlotNumbers
<1> QED
  BY <1>1, DivMod, Zenon

LEMMA SlotSet ==
    ASSUME NEW c \in Card, NEW slot \in SlotNumbers, NEW e \in SlotEntry
    PROVE  /\ Slot(SetSlot(c, slot, e), slot) = e
           /\ \A t \in SlotNumbers : t # slot => Slot(SetSlot(c, slot, e), t) = Slot(c, t)
           /\ SameTable(SetSlot(c, slot, e), c)
           /\ \A s \in DataSectors : SetSlot(c, slot, e)[s] = c[s]
<1>1. /\ SetSlot(c, slot, e) = SetPage(c, DirSector(slot), [c[DirSector(slot)] EXCEPT ![slot % ENTRIES] = e])
      /\ c[DirSector(slot)] \in DirPages
  BY SetSlotCard DEF SlotNumbers
<1>2. \A t \in SlotNumbers : DirSector(t) \in DirSectors /\ DirSector(t) \in CardSectors /\ t \in Nat
  BY SectorOf, DataPageOf DEF SlotNumbers
<1>3. SetSlot(c, slot, e)[DirSector(slot)] = [c[DirSector(slot)] EXCEPT ![slot % ENTRIES] = e]
  BY <1>1, <1>2, PageLeaves
<1>4. \A t \in CardSectors : t # DirSector(slot) => SetSlot(c, slot, e)[t] = c[t]
  BY <1>1, <1>2, PageLeaves
<1>5. Slot(SetSlot(c, slot, e), slot) = e
  <2>1. slot % ENTRIES \in 0 .. ENTRIES - 1
    BY SlotOffset, Zenon
  <2> QED
    BY <1>1, <1>3, <2>1 DEF Slot, DirPages
<1>6. ASSUME NEW t \in SlotNumbers, t # slot PROVE Slot(SetSlot(c, slot, e), t) = Slot(c, t)
  <2>1. CASE DirSector(t) = DirSector(slot)
    <3>1. t % ENTRIES # slot % ENTRIES
      BY <1>2, <1>6, <2>1, SlotOnce
    <3>2. t % ENTRIES \in 0 .. ENTRIES - 1 /\ slot % ENTRIES \in 0 .. ENTRIES - 1
      BY SlotOffset, Zenon
    <3> QED
      BY <1>1, <1>3, <2>1, <3>1, <3>2 DEF Slot, DirPages
  <2>2. CASE DirSector(t) # DirSector(slot)
    BY <1>2, <1>4, <2>2 DEF Slot
  <2> QED
    BY <2>1, <2>2
<1>7. SameTable(SetSlot(c, slot, e), c)
  BY <1>2, <1>4, SectorKinds, FatPageOf DEF SameTable
<1>8. \A s \in DataSectors : SetSlot(c, slot, e)[s] = c[s]
  BY <1>2, <1>4, SectorKinds, DataPageOf
<1> QED
  BY <1>5, <1>6, <1>7, <1>8

LEMMA PageSet ==
    ASSUME NEW c \in Card, NEW s \in DataSectors, NEW page \in DataPages
    PROVE  /\ SetPage(c, s, page) \in Card
           /\ SetPage(c, s, page)[s] = page
           /\ \A t \in DataSectors : t # s => SetPage(c, s, page)[t] = c[t]
           /\ SameTable(SetPage(c, s, page), c)
           /\ \A slot \in SlotNumbers : Slot(SetPage(c, s, page), slot) = Slot(c, slot)
<1>1. s \in CardSectors /\ Pages(s) = DataPages /\ DataSectors \subseteq CardSectors
  BY SectorKinds DEF CardSectors, Pages
<1>2. \A t \in CardSectors : t # s => SetPage(c, s, page)[t] = c[t]
  BY <1>1, PageLeaves
<1>3. SameTable(SetPage(c, s, page), c)
  BY <1>2, SectorKinds, FatPageOf DEF SameTable
<1>4. \A slot \in SlotNumbers : Slot(SetPage(c, s, page), slot) = Slot(c, slot)
  BY <1>2, SectorKinds, SectorOf, DataPageOf DEF Slot, SlotNumbers
<1> QED
  BY <1>1, <1>2, <1>3, <1>4, CardPage, PageLeaves

LEMMA SameLinks ==
    ASSUME NEW x, NEW y, SameTable(x, y)
    PROVE  \A k \in Clusters : Link(x, k) = Link(y, k)
BY SectorOf DEF SameTable, Link

LEMMA SameSlots ==
    ASSUME NEW x, NEW y, SameRest(x, y)
    PROVE  /\ \A slot \in SlotNumbers : Slot(x, slot) = Slot(y, slot)
           /\ \A s \in DataSectors : x[s] = y[s]
BY SectorOf DEF SameRest, Slot, SlotNumbers

LEMMA LinkTyped ==
    ASSUME NEW c \in Card, NEW k \in Clusters PROVE Link(c, k) \in Word
<1>1. c[FatSector(k)] \in FatPages(FatSector(k))
  BY SectorOf, FatPageOf DEF Card
<1> QED
  BY <1>1 DEF Link, FatPages

LEMMA SlotTyped ==
    ASSUME NEW c \in Card, NEW slot \in SlotNumbers PROVE Slot(c, slot) \in SlotEntry
<1>1. c[DirSector(slot)] \in DirPages
  BY SectorOf, DataPageOf, SectorKinds DEF Card, Pages, SlotNumbers
<1>2. slot % ENTRIES \in 0 .. ENTRIES - 1
  BY SlotOffset, Zenon
<1> QED
  BY <1>1, <1>2 DEF Slot, DirPages

LEMMA PageTyped ==
    ASSUME NEW c \in Card, NEW s \in DataSectors PROVE c[s] \in DataPages
BY SectorKinds DEF Card, Pages, CardSectors

-----------------------------------------------------------------------------
(* Who owns what: for each slot of the directory the name of its file, its *)
(* clusters in order, its bytes, and those of them that were flushed.      *)
InChain(p, k) == \E i \in 1 .. Len(p) : p[i] = k

Owns(g) ==
    \A s \in SlotNumbers :
        /\ g[s].chain \in Seq(Clusters)
        /\ g[s].bytes \in Seq(Byte)
        /\ g[s].name \notin Names => g[s].chain = <<>> /\ g[s].kept = NoFile /\ g[s].bytes = <<>>
        /\ \A i, j \in 1 .. Len(g[s].chain) : g[s].chain[i] = g[s].chain[j] => i = j
        /\ \A t \in SlotNumbers : t # s =>
            /\ \A k : ~(InChain(g[s].chain, k) /\ InChain(g[t].chain, k))
            /\ g[s].name \in Names => g[s].name # g[t].name

(* The links of a card follow a chain for n clusters, where it ends.       *)
Runs(c, p, n) ==
    /\ n \in 0 .. Len(p)
    /\ n = 0 => p = <<>>
    /\ \A i \in 1 .. n - 1 : Link(c, p[i]) = p[i + 1]
    /\ n > 0 => Link(c, p[n]) >= Eof

Named(c, s) == Slot(c, s).name \in Names
FirstOf(p) == IF p = <<>> THEN 0 ELSE p[1]
ByteAt(c, p, j) == c[DataSector(p[ClusterOf(j)], SectorIn(j))][OffsetIn(j)]

(* An entry on a card describes a file of its owner.                       *)
Fits(c, g, s) ==
    Named(c, s) =>
        /\ Slot(c, s).name = g[s].name
        /\ Slot(c, s).first = FirstOf(g[s].chain)
        /\ \E n \in Nat : Runs(c, g[s].chain, n) /\ Slot(c, s).size <= n * ClusterBytes

(* What was flushed is on the card.                                        *)
Holds(c, g, s) ==
    g[s].kept # NoFile =>
        /\ Named(c, s)
        /\ g[s].kept \in Seq(Byte)
        /\ Len(g[s].kept) <= Slot(c, s).size
        /\ \A j \in 1 .. Len(g[s].kept) : ByteAt(c, g[s].chain, j - 1) = g[s].kept[j]

Ok(c, g, s) == Fits(c, g, s) /\ Holds(c, g, s)

Whole(g) == {c \in Card : DirEnds(c) /\ \A s \in SlotNumbers : Ok(c, g, s)}

(* The cards that are whole but for one file.                              *)
But(g, s) == {c \in Card : /\ DirEnds(c) /\ (Named(c, s) => Slot(c, s).name = g[s].name)
                           /\ \A t \in SlotNumbers \ {s} : Ok(c, g, t)}

(* The card that the buffers hold: every chain is as long as it is owned,  *)
(* and has the bytes of the file.                                          *)
Full(c, g, s) ==
    /\ g[s].name \in Names <=> Named(c, s)
    /\ Runs(c, g[s].chain, Len(g[s].chain))
    /\ Len(g[s].bytes) <= Len(g[s].chain) * ClusterBytes
    /\ \A j \in 1 .. Len(g[s].bytes) : ByteAt(c, g[s].chain, j - 1) = g[s].bytes[j]
Current(c, g) == \A s \in SlotNumbers : Full(c, g, s)

(* No cluster is lost but those of a set.                                  *)
Tight(c, g, Lost) ==
    \A k \in Clusters : Link(c, k) # Empty =>
        k \in Lost \/ \E s \in SlotNumbers : InChain(g[s].chain, k)

LEMMA ChainIn ==
    ASSUME NEW g, Owns(g), NEW s \in SlotNumbers
    PROVE  /\ g[s].chain \in Seq(Clusters) /\ Len(g[s].chain) \in Nat
           /\ \A i \in 1 .. Len(g[s].chain) : g[s].chain[i] \in Clusters /\ InChain(g[s].chain, g[s].chain[i])
<1>1. g[s].chain \in Seq(Clusters)
  BY DEF Owns
<1>2. Len(g[s].chain) \in Nat /\ \A i \in 1 .. Len(g[s].chain) : g[s].chain[i] \in Clusters
  BY <1>1
<1> QED
  BY <1>1, <1>2 DEF InChain

LEMMA InChainIn ==
    ASSUME NEW g, Owns(g), NEW s \in SlotNumbers, NEW k, InChain(g[s].chain, k)
    PROVE  k \in Clusters
<1>1. PICK i \in 1 .. Len(g[s].chain) : g[s].chain[i] = k
  BY DEF InChain
<1> QED
  BY <1>1, ChainIn

LEMMA RunsFrame ==
    ASSUME NEW x, NEW y, NEW p \in Seq(Clusters), NEW n,
           \A k : InChain(p, k) => Link(y, k) = Link(x, k), Runs(x, p, n)
    PROVE  Runs(y, p, n)
<1>1. n \in 0 .. Len(p) /\ Len(p) \in Nat
  BY DEF Runs
<1>2. \A i \in 1 .. Len(p) : InChain(p, p[i])
  BY DEF InChain
<1>3. \A i \in 1 .. n : Link(y, p[i]) = Link(x, p[i])
  BY <1>1, <1>2
<1> QED
  BY <1>1, <1>3 DEF Runs

LEMMA BytePage ==
    ASSUME NEW p \in Seq(Clusters), NEW n \in 0 .. Len(p), NEW j \in Nat, j < n * ClusterBytes
    PROVE  /\ ClusterOf(j) \in 1 .. n /\ ClusterOf(j) \in 1 .. Len(p)
           /\ p[ClusterOf(j)] \in Clusters /\ InChain(p, p[ClusterOf(j)])
           /\ SectorIn(j) \in SectorNumbers /\ OffsetIn(j) \in 0 .. SECTOR - 1
<1>1. n \in Nat /\ Len(p) \in Nat
  OBVIOUS
<1>2. ClusterOf(j) \in 1 .. n
  BY <1>1, ByteIn
<1>3. ClusterOf(j) \in 1 .. Len(p)
  BY <1>1, <1>2
<1>4. p[ClusterOf(j)] \in Clusters /\ InChain(p, p[ClusterOf(j)])
  BY <1>3 DEF InChain
<1>5. SectorIn(j) \in SectorNumbers /\ OffsetIn(j) \in 0 .. SECTOR - 1
  BY PlaceOf DEF SectorNumbers
<1> QED
  BY <1>2, <1>3, <1>4, <1>5

LEMMA OkFrame ==
    ASSUME NEW x \in Card, NEW y \in Card, NEW g, NEW s \in SlotNumbers, g[s].chain \in Seq(Clusters),
           Slot(y, s) = Slot(x, s),
           \A k : InChain(g[s].chain, k) => Link(y, k) = Link(x, k),
           \A k, i : InChain(g[s].chain, k) /\ i \in SectorNumbers
                        => y[DataSector(k, i)] = x[DataSector(k, i)],
           Ok(x, g, s)
    PROVE  Ok(y, g, s)
<1> DEFINE p == g[s].chain
<1>1. Named(y, s) <=> Named(x, s)
  BY DEF Named
<1>2. \A n : Runs(x, p, n) => Runs(y, p, n)
  BY RunsFrame
<1>3. Fits(y, g, s)
  BY <1>1, <1>2 DEF Fits, Ok
<1>4. ASSUME g[s].kept # NoFile PROVE Holds(y, g, s)
  <2>1. /\ Named(x, s) /\ g[s].kept \in Seq(Byte) /\ Len(g[s].kept) <= Slot(x, s).size
        /\ \A j \in 1 .. Len(g[s].kept) : ByteAt(x, g[s].chain, j - 1) = g[s].kept[j]
    BY <1>4 DEF Ok, Holds
  <2>2. PICK n \in Nat : Runs(x, p, n) /\ Slot(x, s).size <= n * ClusterBytes
    BY <2>1 DEF Ok, Fits
  <2>3. n \in 0 .. Len(p)
    BY <2>2 DEF Runs
  <2>4. Slot(x, s).size \in Nat /\ n * ClusterBytes \in Nat /\ Len(g[s].kept) \in Nat
    BY <2>1, SlotTyped, Numbers, Times DEF SlotEntry, ClusterBytes
  <2>5. ASSUME NEW j \in 1 .. Len(g[s].kept) PROVE ByteAt(y, p, j - 1) = g[s].kept[j]
    <3>1. j - 1 \in Nat /\ j - 1 < n * ClusterBytes
      BY <2>1, <2>2, <2>4
    <3>2. InChain(p, p[ClusterOf(j - 1)]) /\ SectorIn(j - 1) \in SectorNumbers
      BY <2>3, <3>1, BytePage
    <3> HIDE DEF p
    <3>3. ByteAt(y, p, j - 1) = ByteAt(x, p, j - 1)
      BY <3>2 DEF ByteAt, p
    <3> QED
      BY <2>1, <3>3 DEF p
  <2> QED
    BY <1>1, <2>1, <2>5 DEF Holds
<1> QED
  BY <1>3, <1>4 DEF Ok, Holds

(* Changes outside of the chains.                                          *)
LEMMA OkLink ==
    ASSUME NEW g, Owns(g), NEW c \in Card, NEW k \in Clusters, NEW word \in Word,
           NEW s \in SlotNumbers, ~InChain(g[s].chain, k), Ok(c, g, s)
    PROVE  Ok(SetLink(c, k, word), g, s)
<1> DEFINE y == SetLink(c, k, word)
           p == g[s].chain
<1>1. y \in Card /\ SameRest(y, c)
  BY SetLinkCard, LinkSet
<1>2. \A j : InChain(p, j) => j \in Clusters
  BY ChainIn DEF InChain
<1>3. \A j : InChain(p, j) => Link(y, j) = Link(c, j)
  BY <1>2, LinkSet
<1>4. Slot(y, s) = Slot(c, s) /\ \A t \in DataSectors : y[t] = c[t]
  BY <1>1, SameSlots
<1>5. \A j, i : InChain(p, j) /\ i \in SectorNumbers => y[DataSector(j, i)] = c[DataSector(j, i)]
  BY <1>2, <1>4, SectorOf DEF SectorNumbers
<1>6. p \in Seq(Clusters)
  BY ChainIn
<1> HIDE DEF y
<1> QED
  BY <1>1, <1>3, <1>4, <1>5, <1>6, OkFrame DEF y

LEMMA OkSlot ==
    ASSUME NEW g, Owns(g), NEW c \in Card, NEW slot \in SlotNumbers, NEW e \in SlotEntry,
           NEW s \in SlotNumbers, s # slot, Ok(c, g, s)
    PROVE  Ok(SetSlot(c, slot, e), g, s)
<1> DEFINE y == SetSlot(c, slot, e)
           p == g[s].chain
<1>0. y \in Card
  BY SetSlotCard DEF SlotNumbers
<1>1. y \in Card /\ SameTable(y, c) /\ Slot(y, s) = Slot(c, s) /\ \A t \in DataSectors : y[t] = c[t]
  BY <1>0, SlotSet
<1>2. \A j : InChain(p, j) => j \in Clusters
  BY ChainIn DEF InChain
<1>3. \A j : InChain(p, j) => Link(y, j) = Link(c, j)
  BY <1>1, <1>2, SameLinks
<1>5. \A j, i : InChain(p, j) /\ i \in SectorNumbers => y[DataSector(j, i)] = c[DataSector(j, i)]
  BY <1>2, <1>1, SectorOf DEF SectorNumbers
<1>6. p \in Seq(Clusters)
  BY ChainIn
<1> HIDE DEF y
<1> QED
  BY <1>1, <1>3, <1>5, <1>6, OkFrame DEF y

LEMMA OkPage ==
    ASSUME NEW g, Owns(g), NEW c \in Card, NEW k \in Clusters, NEW i \in SectorNumbers,
           NEW page \in DataPages, NEW s \in SlotNumbers, ~InChain(g[s].chain, k), Ok(c, g, s)
    PROVE  Ok(SetPage(c, DataSector(k, i), page), g, s)
<1> DEFINE y == SetPage(c, DataSector(k, i), page)
           p == g[s].chain
<1>0. DataSector(k, i) \in DataSectors
  BY SectorOf DEF SectorNumbers
<1>1. /\ y \in Card /\ SameTable(y, c) /\ Slot(y, s) = Slot(c, s)
      /\ \A t \in DataSectors : t # DataSector(k, i) => y[t] = c[t]
  BY <1>0, PageSet
<1>2. \A j : InChain(p, j) => j \in Clusters
  BY ChainIn DEF InChain
<1>3. \A j : InChain(p, j) => Link(y, j) = Link(c, j)
  BY <1>1, <1>2, SameLinks
<1>5. ASSUME NEW j, NEW l, InChain(p, j), l \in SectorNumbers
      PROVE  y[DataSector(j, l)] = c[DataSector(j, l)]
  <2>1. j \in Clusters /\ j # k
    BY <1>2, <1>5
  <2>2. j \in Nat /\ k \in Nat /\ l \in 0 .. SPC - 1 /\ i \in 0 .. SPC - 1
    BY <2>1, <1>5 DEF Clusters, SectorNumbers
  <2>3. DataSector(j, l) # DataSector(k, i)
    BY <2>1, <2>2, DataSectorOnce
  <2>4. DataSector(j, l) \in DataSectors
    BY <2>1, <2>2, SectorOf
  <2> QED
    BY <1>1, <2>3, <2>4
<1>6. p \in Seq(Clusters)
  BY ChainIn
<1> HIDE DEF y
<1> QED
  BY <1>1, <1>3, <1>5, <1>6, OkFrame DEF y

LEMMA DirEndsSame ==
    ASSUME NEW x, NEW y, DirEnds(x), \A s \in SlotNumbers : Slot(y, s) = Slot(x, s)
    PROVE  DirEnds(y)
BY DEF DirEnds, SlotNumbers

(* A cluster that nobody owns.                                             *)
Free(g, k) == \A s \in SlotNumbers : ~InChain(g[s].chain, k)

LEMMA WholeLink ==
    ASSUME NEW g, Owns(g), NEW k \in Clusters, Free(g, k), NEW word \in Word, NEW c \in Whole(g)
    PROVE  SetLink(c, k, word) \in Whole(g)
<1>1. c \in Card /\ DirEnds(c) /\ \A s \in SlotNumbers : Ok(c, g, s)
  BY DEF Whole
<1>2. SetLink(c, k, word) \in Card /\ SameRest(SetLink(c, k, word), c)
  BY <1>1, SetLinkCard, LinkSet
<1>3. DirEnds(SetLink(c, k, word))
  BY <1>1, <1>2, SameSlots, DirEndsSame
<1>4. \A s \in SlotNumbers : Ok(SetLink(c, k, word), g, s)
  BY <1>1, OkLink DEF Free
<1> QED
  BY <1>2, <1>3, <1>4 DEF Whole

LEMMA WholePage ==
    ASSUME NEW g, Owns(g), NEW k \in Clusters, Free(g, k), NEW i \in SectorNumbers,
           NEW page \in DataPages, NEW c \in Whole(g)
    PROVE  SetPage(c, DataSector(k, i), page) \in Whole(g)
<1> DEFINE y == SetPage(c, DataSector(k, i), page)
<1>1. c \in Card /\ DirEnds(c) /\ \A s \in SlotNumbers : Ok(c, g, s)
  BY DEF Whole
<1>2. y \in Card /\ \A s \in SlotNumbers : Slot(y, s) = Slot(c, s)
  BY <1>1, SectorOf, PageSet DEF SectorNumbers
<1>4. \A s \in SlotNumbers : Ok(y, g, s)
  BY <1>1, OkPage DEF Free
<1> HIDE DEF y
<1>3. DirEnds(y)
  BY <1>1, <1>2, DirEndsSame
<1> QED
  BY <1>2, <1>3, <1>4 DEF Whole, y

LEMMA ButLink ==
    ASSUME NEW g, Owns(g), NEW s \in SlotNumbers, NEW k \in Clusters, InChain(g[s].chain, k),
           NEW word \in Word, NEW c \in But(g, s)
    PROVE  SetLink(c, k, word) \in But(g, s)
<1> DEFINE y == SetLink(c, k, word)
<1>1. c \in Card /\ DirEnds(c) /\ (Named(c, s) => Slot(c, s).name = g[s].name)
      /\ \A t \in SlotNumbers \ {s} : Ok(c, g, t)
  BY DEF But
<1>2. y \in Card /\ SameRest(y, c)
  BY <1>1, SetLinkCard, LinkSet
<1>3. \A t \in SlotNumbers : Slot(y, t) = Slot(c, t)
  BY <1>2, SameSlots
<1>4. \A t \in SlotNumbers \ {s} : ~InChain(g[t].chain, k)
  BY DEF Owns
<1>5. \A t \in SlotNumbers \ {s} : Ok(y, g, t)
  BY <1>1, <1>4, OkLink
<1> HIDE DEF y
<1>6. DirEnds(y)
  BY <1>1, <1>3, DirEndsSame
<1> QED
  BY <1>1, <1>2, <1>3, <1>5, <1>6 DEF But, y, Named

-----------------------------------------------------------------------------
(* Free clusters.                                                          *)
Looked(v) ==
    {e \in Volume : Moves(v, e) /\ Good(e) /\ e.f = v.f /\ e.count = v.count /\ e.got = v.got /\ SameData(v, e)
                    /\ e.found \in Clusters /\ e.fatSector = FatSector(e.found)}

LEMMA LookAtDone ==
    ASSUME NEW v, NEW e, NEW c \in Clusters, Moves(v, e), Good(e),
           e.f = v.f, e.count = v.count, e.got = v.got, SameData(v, e)
    PROVE  LookAt(e, c) \in Looked(v)
<1> DEFINE u == [e EXCEPT !.found = c]
           w == LookAt(e, c)
<1>1. e \in Volume /\ Vol(e) /\ c \in Nat
  BY ClusterRange DEF Moves, Vol
<1>2. u \in Volume /\ SameBuffers(e, u) /\ u.found = c /\ u.f = e.f /\ u.count = e.count /\ u.got = e.got /\ Good(u)
  BY <1>1 DEF Volume, SameBuffers, SameFat, SameData, Good
<1> HIDE DEF u
<1>3. Moves(e, u) /\ Vol(u)
  BY <1>1, <1>2, OtherFields DEF Moves
<1>4. w = FATRead(u, c)
  BY DEF LookAt, u
<1> HIDE DEF w
<1>5. Moves(u, w) /\ Quiet(u, w) /\ SameData(u, w) /\ Good(w) /\ w.fatSector = FatSector(c)
  BY <1>1, <1>2, <1>3, <1>4, FATReadDone
<1>6. Moves(v, w) /\ SameData(v, w)
  BY <1>2, <1>3, <1>5, MovesOn DEF SameBuffers, SameData
<1> QED
  BY <1>2, <1>5, <1>6 DEF Looked, Quiet, w, Moves, Vol

LEMMA ScanFromDone ==
    ASSUME NEW v, NEW base, NEW r \in Looked(v)
    PROVE  ScanFrom(r, base) \in Looked(v)
<1> DEFINE c == r.found
           next == IF r.fat[c] = EndLimit \/ c + 1 >= CLUSTERS + 2 THEN 2 ELSE c + 1
<1>1. next \in Clusters
  BY ClusterRange, Numbers DEF Looked
<1> HIDE DEF next
<1>2. LookAt(r, next) \in Looked(v)
  BY <1>1, LookAtDone DEF Looked
<1> QED
  BY <1>2 DEF ScanFrom, next

LEMMA ScanFatDone ==
    ASSUME NEW v, NEW base \in Clusters, Vol(v), Good(v), NEW w, w = ScanFat(v, base)
    PROVE  /\ Moves(v, w) /\ Good(w) /\ w.f = v.f /\ w.count = v.count /\ w.got = v.got /\ SameData(v, w)
           /\ w.found = 0 \/ (w.found \in Clusters /\ Link(Cached(v), w.found) = Empty)
<1> DEFINE n == CLUSTERS - 1
           L == Looked(v)
           Inv == [k \in 0 .. n |-> L]
           step == [ks \in (1 .. n) \X L |-> ScanFrom(ks[2], base)]
           Eq(f) == f = [k \in 0 .. n |-> IF k = 0 THEN LookAt(v, base) ELSE ScanFrom(f[k - 1], base)]
           scan == CHOOSE f : Eq(f)
<1>0. n \in Nat
  BY Numbers
<1>1. LookAt(v, base) \in L
  BY MovesSelf, LookAtDone DEF SameData
<1>2. \A s \in L : ScanFrom(s, base) \in L
  BY ScanFromDone
<1>3. \E f : Eq(f)
  <2>1. LookAt(v, base) \in Inv[0] /\ \A k \in 1 .. n : \A s \in Inv[k - 1] : step[<<k, s>>] \in Inv[k]
    BY <1>0, <1>1, <1>2
  <2>2. PICK f : IsLoop(f, LookAt(v, base), step, n) /\ \A k \in 0 .. n : f[k] \in Inv[k]
    <3> HIDE DEF n, L, Inv, step
    <3> QED
      BY <1>0, <2>1, LoopIn
  <2>3. \A k \in 1 .. n : step[<<k, f[k - 1]>>] = ScanFrom(f[k - 1], base)
    BY <2>2, <1>0
  <2>4. Eq(f)
    <3> HIDE DEF step, L
    <3> QED
    BY <2>2, <2>3 DEF IsLoop
  <2> HIDE DEF Eq
  <2> QED
    BY <2>4
<1>4. Eq(scan)
  <2> HIDE DEF Eq
  <2> QED
    BY <1>3
<1> HIDE DEF scan, L
<1>5. scan[0] = LookAt(v, base) /\ \A k \in 1 .. n : scan[k] = ScanFrom(scan[k - 1], base)
  BY <1>4, <1>0
<1>6. scan[n] \in L
  <2>1. scan[0] \in Inv[0] /\ \A k \in 1 .. n : scan[k - 1] \in Inv[k - 1] => scan[k] \in Inv[k]
    BY <1>0, <1>1, <1>2, <1>5
  <2>2. \A k \in 0 .. n : scan[k] \in Inv[k]
    <3> HIDE DEF n, Inv
    <3> QED
      BY <1>0, <2>1, Rounds
  <2> QED
    BY <2>2, <1>0
<1> DEFINE r == scan[n]
<1>7. w = [r EXCEPT !.found = IF Good(r) /\ r.fat[@] = Empty THEN @ ELSE 0]
  BY DEF ScanFat, scan
<1> HIDE DEF r
<1>8. r \in L
  BY <1>6 DEF r
<1>9. r \in Volume /\ Moves(v, r) /\ Good(r) /\ r.f = v.f /\ r.count = v.count /\ r.got = v.got
      /\ r.found \in Clusters /\ r.fatSector = FatSector(r.found) /\ Vol(r) /\ SameData(v, r)
  BY <1>8 DEF L, Looked, Moves
<1>10. r.fat[r.found] = Link(Cached(v), r.found)
  BY <1>9, LinkRead DEF Moves
<1>11. /\ w.found = IF r.fat[r.found] = Empty THEN r.found ELSE 0
       /\ w \in Volume /\ SameBuffers(r, w) /\ Good(w) /\ w.f = r.f /\ w.count = r.count /\ w.got = r.got
  BY <1>7, <1>9, ClusterRange DEF Volume, SameBuffers, SameFat, SameData, Good
<1>12. Moves(r, w)
  BY <1>9, <1>11, OtherFields
<1>13. Moves(v, w) /\ SameData(v, w)
  BY <1>9, <1>11, <1>12, MovesOn DEF SameBuffers, SameData
<1> QED
  BY <1>9, <1>10, <1>11, <1>13

LEMMA FindEmptyClusterDone ==
    ASSUME NEW v, NEW base \in Nat, base < CLUSTERS + 2, Vol(v), Good(v), NEW w, w = FindEmptyCluster(v, base)
    PROVE  /\ Moves(v, w) /\ Good(w) /\ w.f = v.f /\ w.count = v.count /\ w.got = v.got /\ SameData(v, w)
           /\ w.found = 0 \/ (w.found \in Clusters /\ Link(Cached(v), w.found) = Empty)
<1> DEFINE b == IF base < 2 THEN 2 ELSE base
<1>1. b \in Clusters
  BY ClusterRange, Numbers
<1>2. w = ScanFat(v, b)
  BY DEF FindEmptyCluster
<1> HIDE DEF b
<1> QED
  BY <1>1, <1>2, ScanFatDone

-----------------------------------------------------------------------------
(* A system of files on a volume: every image is whole, the buffers hold   *)
(* all that is owned, no clusters are lost but those of a set Lost, and    *)
(* wherever the call is cut short, the card is in the set Safe.            *)
Keeps(g, kept) ==
    \A n \in Names : kept[n] # NoFile =>
        \E s \in SlotNumbers : g[s].name = n /\ g[s].kept = kept[n]

Besides(Lost, k) == Lost \cup {k}

WholeCards(kept) ==
    {c \in Card : \E g : Owns(g) /\ Keeps(g, kept) /\ c \in Whole(g)}

System(v, g, kept, Safe, Lost) ==
    /\ Vol(v) /\ Owns(g) /\ Keeps(g, kept)
    /\ Images(v) \subseteq Whole(g) /\ Current(Cached(v), g) /\ Tight(Cached(v), g, Lost)
    /\ WholeCards(kept) \subseteq Safe /\ v.cuts \subseteq Safe

LEMMA WholeSafe ==
    ASSUME NEW g, Owns(g), NEW kept, Keeps(g, kept) PROVE Whole(g) \subseteq WholeCards(kept)
BY DEF Whole, WholeCards

LEMMA SystemMoves ==
    ASSUME NEW v, NEW g, NEW kept, NEW Safe, NEW Lost, System(v, g, kept, Safe, Lost), NEW w, Moves(v, w)
    PROVE  System(w, g, kept, Safe, Lost)
<1>1. Images(w) \subseteq Images(v)
  BY MovesImages
<1>2. Whole(g) \subseteq Safe
  BY WholeSafe DEF System
<1>3. w.cuts \subseteq Safe
  BY <1>2 DEF System, Moves
<1> QED
  BY <1>1, <1>3 DEF System, Moves

LEMMA ImageMembers ==
    ASSUME NEW v, NEW K
    PROVE  /\ Images(v) \subseteq K <=> v.card \in K /\ WithFat(v) \in K /\ WithData(v) \in K /\ Cached(v) \in K
           /\ v.card \in Images(v) /\ WithFat(v) \in Images(v) /\ WithData(v) \in Images(v) /\ Cached(v) \in Images(v)
BY DEF Images

LEMMA NotOwned ==
    ASSUME NEW c, NEW g, Owns(g), Current(c, g), NEW k \in Clusters, Link(c, k) = Empty
    PROVE  Free(g, k)
<1> SUFFICES ASSUME NEW s \in SlotNumbers, NEW i \in 1 .. Len(g[s].chain), g[s].chain[i] = k PROVE FALSE
  BY DEF Free, InChain
<1> DEFINE p == g[s].chain
<1>1. Len(p) \in Nat /\ \A j \in 1 .. Len(p) : p[j] \in Clusters
  BY ChainIn
<1>2. Runs(c, p, Len(p))
  BY DEF Current, Full
<1> HIDE DEF p
<1>3. CASE i < Len(p)
  <2>1. Link(c, p[i]) = p[i + 1] /\ p[i + 1] \in Clusters
    BY <1>1, <1>2, <1>3 DEF Runs, p
  <2> QED
    BY <2>1, ClusterRange DEF Empty, p
<1>4. CASE i = Len(p)
  BY <1>1, <1>2, <1>4 DEF Runs, Empty, Eof, p
<1> QED
  BY <1>1, <1>3, <1>4 DEF p

LEMMA FullFrame ==
    ASSUME NEW x, NEW y, NEW g, NEW s \in SlotNumbers, g[s].chain \in Seq(Clusters), g[s].bytes \in Seq(Byte),
           Full(x, g, s), Named(y, s) <=> Named(x, s),
           \A k : InChain(g[s].chain, k) => Link(y, k) = Link(x, k),
           \A k, i : InChain(g[s].chain, k) /\ i \in SectorNumbers
                        => y[DataSector(k, i)] = x[DataSector(k, i)]
    PROVE  Full(y, g, s)
<1> DEFINE p == g[s].chain
           b == g[s].bytes
<1>1. p \in Seq(Clusters) /\ b \in Seq(Byte)
  OBVIOUS
<1>2. Runs(x, p, Len(p)) /\ Len(b) <= Len(p) * ClusterBytes /\ \A j \in 1 .. Len(b) : ByteAt(x, p, j - 1) = b[j]
  BY DEF Full
<1>3. (\A k : InChain(p, k) => Link(y, k) = Link(x, k))
      /\ \A k, i : InChain(p, k) /\ i \in SectorNumbers => y[DataSector(k, i)] = x[DataSector(k, i)]
  OBVIOUS
<1> HIDE DEF p, b
<1>4. Runs(y, p, Len(p))
  BY <1>1, <1>2, <1>3, RunsFrame
<1>5. Len(p) \in 0 .. Len(p) /\ Len(p) * ClusterBytes \in Nat /\ Len(b) \in Nat
  BY <1>1, Numbers, Times DEF ClusterBytes
<1>6. ASSUME NEW j \in 1 .. Len(b) PROVE ByteAt(y, p, j - 1) = b[j]
  <2>1. j - 1 \in Nat /\ j - 1 < Len(p) * ClusterBytes
    BY <1>2, <1>5
  <2>2. InChain(p, p[ClusterOf(j - 1)]) /\ SectorIn(j - 1) \in SectorNumbers
    BY <1>1, <1>5, <2>1, BytePage
  <2> QED
    BY <1>2, <1>3, <2>2 DEF ByteAt
<1> QED
  BY <1>2, <1>4, <1>6 DEF p, b, Full

LEMMA CurrentFrame ==
    ASSUME NEW x, NEW y, NEW g, Owns(g), Current(x, g),
           \A s \in SlotNumbers : Named(y, s) <=> Named(x, s),
           \A s \in SlotNumbers : \A k : InChain(g[s].chain, k) => Link(y, k) = Link(x, k),
           \A s \in SlotNumbers : \A k, i : InChain(g[s].chain, k) /\ i \in SectorNumbers
                                                => y[DataSector(k, i)] = x[DataSector(k, i)]
    PROVE  Current(y, g)
<1> SUFFICES ASSUME NEW s \in SlotNumbers PROVE Full(y, g, s)
  BY DEF Current
<1>1. g[s].chain \in Seq(Clusters) /\ g[s].bytes \in Seq(Byte) /\ Full(x, g, s)
  BY DEF Owns, Current
<1> QED
  BY <1>1, FullFrame

(* The entry of a free cluster is written.                                 *)
LEMMA WriteFree ==
    ASSUME NEW v, NEW g, NEW kept, NEW Safe, NEW Lost, System(v, g, kept, Safe, Lost), Good(v),
           NEW k \in Clusters, Free(g, k), NEW word \in Word, NEW w, w = FATWrite(v, k, word)
    PROVE  /\ System(w, g, kept, Safe, Besides(Lost, k)) /\ Good(w) /\ Quiet(v, w) /\ SameData(v, w)
           /\ Cached(w) = SetLink(Cached(v), k, word)
<1>1. Vol(v) /\ Owns(g) /\ Images(v) \subseteq Whole(g)
  BY DEF System
<1>2. /\ Vol(w) /\ Good(w) /\ Quiet(v, w) /\ SameData(v, w)
      /\ w.card \in Images(v) /\ WithData(w) \in {WithData(v), Cached(v)}
      /\ WithFat(w) \in {SetLink(WithFat(v), k, word), SetLink(Cached(v), k, word)}
      /\ Cached(w) = SetLink(Cached(v), k, word)
      /\ w.cuts \subseteq v.cuts \cup Images(v)
  BY <1>1, FATWriteDone
<1>3. SetLink(WithFat(v), k, word) \in Whole(g) /\ SetLink(Cached(v), k, word) \in Whole(g)
  BY <1>1, WholeLink, ImageMembers
<1>4. Images(w) \subseteq Whole(g)
  BY <1>1, <1>2, <1>3, ImageMembers
<1>a. Cached(v) \in Card /\ Current(Cached(v), g)
  BY <1>1, ImagesTyped DEF System, Images
<1>b. SameRest(Cached(w), Cached(v)) /\ \A j \in Clusters : j # k => Link(Cached(w), j) = Link(Cached(v), j)
  BY <1>2, <1>a, LinkSet
<1>5. Current(Cached(w), g)
  <2>3. \A s \in SlotNumbers : Named(Cached(w), s) <=> Named(Cached(v), s)
    BY <1>b, SameSlots DEF Named
  <2>4. \A s \in SlotNumbers : \A j : InChain(g[s].chain, j) => j \in Clusters /\ j # k
    BY <1>1, ChainIn DEF InChain, Free
  <2>5. \A s \in SlotNumbers : \A j, i : InChain(g[s].chain, j) /\ i \in SectorNumbers
                 => Cached(w)[DataSector(j, i)] = Cached(v)[DataSector(j, i)]
    BY <2>4, <1>b, SectorOf DEF SameRest, SectorNumbers
  <2> QED
    BY <1>1, <1>a, <1>b, <2>3, <2>4, <2>5, CurrentFrame
<1>6. w.cuts \subseteq Safe
  BY <1>1, <1>2, WholeSafe DEF System
<1>7. Tight(Cached(w), g, Besides(Lost, k))
  BY <1>b DEF System, Tight, Besides
<1> QED
  BY <1>2, <1>4, <1>5, <1>6, <1>7 DEF System

(* A chain grows by a cluster.                                             *)
Grown(g, s, k) ==
    [t \in SlotNumbers |-> IF t = s THEN [name |-> g[s].name, chain |-> Append(g[s].chain, k), bytes |-> g[s].bytes,
                                     kept |-> g[s].kept]
                           ELSE g[t]]

LEMMA GrownChain ==
    ASSUME NEW p \in Seq(Clusters), NEW k \in Clusters, NEW q, q = Append(p, k)
    PROVE  /\ q \in Seq(Clusters) /\ Len(q) = Len(p) + 1 /\ Len(p) \in Nat
           /\ \A i \in 1 .. Len(p) : q[i] = p[i]
           /\ q[Len(p) + 1] = k
           /\ \A j : InChain(q, j) <=> InChain(p, j) \/ j = k
<1>1. q \in Seq(Clusters) /\ Len(q) = Len(p) + 1 /\ Len(p) \in Nat
  OBVIOUS
<1>2. (\A i \in 1 .. Len(p) : q[i] = p[i]) /\ q[Len(p) + 1] = k
  OBVIOUS
<1>3. \A j : InChain(q, j) <=> InChain(p, j) \/ j = k
  <2>1. 1 .. Len(q) = (1 .. Len(p)) \cup {Len(p) + 1}
    BY <1>1
  <2> QED
    BY <1>1, <1>2, <2>1 DEF InChain
<1> QED
  BY <1>1, <1>2, <1>3

LEMMA GrownOwns ==
    ASSUME NEW g, Owns(g), NEW s \in SlotNumbers, g[s].name \in Names, NEW k \in Clusters, Free(g, k),
           NEW h, h = Grown(g, s, k)
    PROVE  /\ Owns(h) /\ \A kept : Keeps(g, kept) => Keeps(h, kept)
           /\ h[s].name = g[s].name /\ h[s].kept = g[s].kept /\ h[s].bytes = g[s].bytes
      /\ h[s].chain = Append(g[s].chain, k)
           /\ \A t \in SlotNumbers : t # s => h[t] = g[t]
<1>1. /\ h[s].name = g[s].name /\ h[s].kept = g[s].kept /\ h[s].bytes = g[s].bytes
      /\ h[s].chain = Append(g[s].chain, k)
      /\ \A t \in SlotNumbers : t # s => h[t] = g[t]
  BY DEF Grown
<1> DEFINE p == g[s].chain
           q == h[s].chain
<1>2. p \in Seq(Clusters) /\ q = Append(p, k)
  BY <1>1, ChainIn
<1> HIDE DEF p, q
<1>3. /\ q \in Seq(Clusters) /\ Len(q) = Len(p) + 1 /\ Len(p) \in Nat
      /\ \A i \in 1 .. Len(p) : q[i] = p[i]
      /\ q[Len(p) + 1] = k
      /\ \A j : InChain(q, j) <=> InChain(p, j) \/ j = k
  <2>1. /\ q \in Seq(Clusters) /\ Len(q) = Len(p) + 1 /\ Len(p) \in Nat
        /\ \A i \in 1 .. Len(p) : q[i] = p[i]
        /\ q[Len(p) + 1] = k
    BY <1>2, GrownChain
  <2>2. \A j : InChain(q, j) <=> InChain(p, j) \/ j = k
    BY <1>2, GrownChain, Zenon
  <2> QED
    BY <2>1, <2>2
<1>4. \A i, j \in 1 .. Len(q) : q[i] = q[j] => i = j
  <2>1. \A i, j \in 1 .. Len(p) : p[i] = p[j] => i = j
    BY DEF Owns, p
  <2>2. \A i \in 1 .. Len(p) : p[i] # k
    BY DEF Free, InChain, p
  <2>3. \A i \in 1 .. Len(q) : i \in 1 .. Len(p) \/ i = Len(p) + 1
    BY <1>3
  <2> QED
    BY <1>3, <2>1, <2>2, <2>3
<1>5. \A t \in SlotNumbers : t # s => \A j : ~(InChain(q, j) /\ InChain(g[t].chain, j))
  BY <1>3, ZenonT(40) DEF Owns, Free, p
<1>6. Owns(h)
  <2> SUFFICES ASSUME NEW r \in SlotNumbers
      PROVE  /\ h[r].chain \in Seq(Clusters)
             /\ h[r].bytes \in Seq(Byte)
             /\ h[r].name \notin Names => h[r].chain = <<>> /\ h[r].kept = NoFile /\ h[r].bytes = <<>>
             /\ \A i, j \in 1 .. Len(h[r].chain) : h[r].chain[i] = h[r].chain[j] => i = j
             /\ \A t \in SlotNumbers : t # r =>
                 /\ \A j : ~(InChain(h[r].chain, j) /\ InChain(h[t].chain, j))
                 /\ h[r].name \in Names => h[r].name # h[t].name
    BY DEF Owns
  <2>1. CASE r = s
    <3>1. \A t \in SlotNumbers : t # s => h[t] = g[t] /\ g[s].name # g[t].name
      BY <1>1 DEF Owns
    <3>2. q \in Seq(Clusters) /\ h[s].name \in Names /\ h[s].bytes \in Seq(Byte)
      BY <1>1, <1>3 DEF Owns
    <3>3. \A t \in SlotNumbers : t # s => \A j : ~(InChain(q, j) /\ InChain(h[t].chain, j))
      BY <3>1, <1>5
    <3>4. /\ h[r].chain = q /\ h[r].chain \in Seq(Clusters) /\ h[r].bytes \in Seq(Byte)
          /\ h[r].name \in Names
      BY <2>1, <3>2 DEF q
    <3>5. \A i, j \in 1 .. Len(h[r].chain) : h[r].chain[i] = h[r].chain[j] => i = j
      BY <1>4, <3>4, Zenon
    <3>6. \A t \in SlotNumbers : t # r =>
             /\ \A j : ~(InChain(h[r].chain, j) /\ InChain(h[t].chain, j))
             /\ h[r].name \in Names => h[r].name # h[t].name
      <4> SUFFICES ASSUME NEW t \in SlotNumbers, t # r
                   PROVE  /\ \A j : ~(InChain(h[r].chain, j) /\ InChain(h[t].chain, j))
                          /\ h[r].name # h[t].name
        OBVIOUS
      <4>1. \A j : ~(InChain(h[r].chain, j) /\ InChain(h[t].chain, j))
        BY <2>1, <3>3, <3>4, Zenon
      <4>2. h[r].name # h[t].name
        BY <2>1, <3>1, <1>1
      <4> QED
        BY <4>1, <4>2
    <3> QED
      BY <3>4, <3>5, <3>6
  <2>2. CASE r # s
    <3>1. h[r] = g[r] /\ \A t \in SlotNumbers : h[t].name = g[t].name
      BY <2>2, <1>1
    <3>2. \A t \in SlotNumbers : t # r => \A j : ~(InChain(h[r].chain, j) /\ InChain(h[t].chain, j))
      <4> SUFFICES ASSUME NEW t \in SlotNumbers, t # r, NEW j, InChain(g[r].chain, j), InChain(h[t].chain, j)
                   PROVE  FALSE
        BY <3>1
      <4>1. CASE t = s
        BY <4>1, <2>2, <1>5 DEF q
      <4>2. CASE t # s
        BY <4>2, <1>1 DEF Owns
      <4> QED
        BY <4>1, <4>2
    <3>3. \A t \in SlotNumbers : t # r => (h[r].name \in Names => h[r].name # h[t].name)
      BY <3>1 DEF Owns
    <3> QED
      BY <3>1, <3>2, <3>3 DEF Owns
  <2> QED
    BY <2>1, <2>2
<1>7. \A kept : Keeps(g, kept) => Keeps(h, kept)
  <2>1. \A t \in SlotNumbers : h[t].name = g[t].name /\ h[t].kept = g[t].kept
    BY <1>1
  <2> QED
    BY <2>1 DEF Keeps
<1> QED
  BY <1>1, <1>6, <1>7

LEMMA OkGrown ==
    ASSUME NEW x \in Card, NEW y \in Card, NEW g, NEW h, NEW s \in SlotNumbers, NEW k \in Clusters,
           g[s].chain \in Seq(Clusters), Len(g[s].chain) > 0,
           h[s].name = g[s].name, h[s].kept = g[s].kept, h[s].chain = Append(g[s].chain, k),
           Slot(y, s) = Slot(x, s), \A t \in DataSectors : y[t] = x[t],
           \A n \in Nat : Runs(x, g[s].chain, n) => \E m \in Nat : n <= m /\ Runs(y, h[s].chain, m),
           Ok(x, g, s)
    PROVE  Ok(y, h, s)
<1> DEFINE p == g[s].chain
           q == h[s].chain
<1>1. /\ q \in Seq(Clusters) /\ Len(q) = Len(p) + 1 /\ Len(p) \in Nat
      /\ \A i \in 1 .. Len(p) : q[i] = p[i]
  BY GrownChain
<1>2. Named(y, s) <=> Named(x, s)
  BY DEF Named
<1>3. ASSUME Named(x, s) PROVE Fits(y, h, s)
  <2>1. PICK n \in Nat : Runs(x, p, n) /\ Slot(x, s).size <= n * ClusterBytes
    BY <1>3 DEF Ok, Fits
  <2>2. PICK m \in Nat : n <= m /\ Runs(y, q, m)
    BY <2>1
  <2>3. ClusterBytes \in Nat /\ Slot(x, s).size \in Nat
    BY SlotTyped, Numbers, Times DEF SlotEntry, ClusterBytes
  <2>4. n * ClusterBytes \in Nat /\ m * ClusterBytes \in Nat /\ n * ClusterBytes <= m * ClusterBytes
    BY <2>2, <2>3, Times, TimesMore
  <2>5. Slot(y, s).size <= m * ClusterBytes
    BY <2>1, <2>3, <2>4
  <2>6. FirstOf(q) = FirstOf(p)
    BY <1>1 DEF FirstOf
  <2> QED
    BY <1>3, <2>2, <2>5, <2>6 DEF Ok, Fits
<1>4. Fits(y, h, s)
  BY <1>2, <1>3 DEF Fits
<1>5. ASSUME g[s].kept # NoFile PROVE Holds(y, h, s)
  <2>1. /\ Named(x, s) /\ g[s].kept \in Seq(Byte) /\ Len(g[s].kept) <= Slot(x, s).size
        /\ \A j \in 1 .. Len(g[s].kept) : ByteAt(x, g[s].chain, j - 1) = g[s].kept[j]
    BY <1>5 DEF Ok, Holds
  <2>2. PICK n \in Nat : Runs(x, p, n) /\ Slot(x, s).size <= n * ClusterBytes
    BY <2>1 DEF Ok, Fits
  <2>3. n \in 0 .. Len(p)
    BY <2>2 DEF Runs
  <2>4. Slot(x, s).size \in Nat /\ n * ClusterBytes \in Nat /\ Len(g[s].kept) \in Nat
    BY <2>1, SlotTyped, Numbers, Times DEF SlotEntry, ClusterBytes
  <2>5. ASSUME NEW j \in 1 .. Len(g[s].kept) PROVE ByteAt(y, q, j - 1) = g[s].kept[j]
    <3>1. j - 1 \in Nat /\ j - 1 < n * ClusterBytes
      BY <2>1, <2>2, <2>4
    <3>2. ClusterOf(j - 1) \in 1 .. Len(p) /\ SectorIn(j - 1) \in SectorNumbers /\ p[ClusterOf(j - 1)] \in Clusters
      BY <2>3, <3>1, BytePage
    <3>3. DataSector(p[ClusterOf(j - 1)], SectorIn(j - 1)) \in DataSectors
      BY <3>2, SectorOf DEF SectorNumbers
    <3> HIDE DEF p, q
    <3>4. ByteAt(y, q, j - 1) = ByteAt(x, p, j - 1)
      BY <1>1, <3>2, <3>3 DEF ByteAt
    <3> QED
      BY <2>1, <3>4 DEF p
  <2> QED
    BY <1>5, <1>2, <2>1, <2>5 DEF Holds
<1> QED
  BY <1>4, <1>5 DEF Ok, Holds

LEMMA GrowWhole ==
    ASSUME NEW g, Owns(g), NEW s \in SlotNumbers, Len(g[s].chain) > 0, NEW k \in Clusters, Free(g, k),
           NEW h, h = Grown(g, s, k), g[s].name \in Names
    PROVE  Whole(g) \subseteq Whole(h)
<1>1. /\ h[s].name = g[s].name /\ h[s].kept = g[s].kept /\ h[s].bytes = g[s].bytes
      /\ h[s].chain = Append(g[s].chain, k)
      /\ \A t \in SlotNumbers : t # s => h[t] = g[t]
  BY GrownOwns
<1> SUFFICES ASSUME NEW x \in Whole(g) PROVE \A t \in SlotNumbers : Ok(x, h, t)
  BY DEF Whole
<1>2. x \in Card /\ \A t \in SlotNumbers : Ok(x, g, t)
  BY DEF Whole
<1>3. ASSUME NEW t \in SlotNumbers, t # s PROVE Ok(x, h, t)
  BY <1>1, <1>2, <1>3 DEF Ok, Fits, Holds
<1>4. g[s].chain \in Seq(Clusters)
  BY ChainIn
<1>5. ASSUME NEW n \in Nat, Runs(x, g[s].chain, n) PROVE Runs(x, h[s].chain, n)
  <2> DEFINE p == g[s].chain
             q == h[s].chain
  <2>1. /\ Len(q) = Len(p) + 1 /\ Len(p) \in Nat
        /\ \A i \in 1 .. Len(p) : q[i] = p[i]
    BY <1>1, <1>4, GrownChain
  <2>2. n \in 0 .. Len(p) /\ n # 0
    BY <1>5 DEF Runs
  <2> HIDE DEF p, q
  <2>3. Runs(x, q, n)
    BY <1>5, <2>1, <2>2 DEF Runs, p
  <2> QED
    BY <2>3 DEF q
<1>6. \A n \in Nat : Runs(x, g[s].chain, n) => \E m \in Nat : n <= m /\ Runs(x, h[s].chain, m)
  BY <1>5
<1>7. Ok(x, h, s)
  BY <1>1, <1>2, <1>4, <1>6, OkGrown
<1> QED
  BY <1>3, <1>7

(* The same files, one of them with a longer chain.                        *)
Longer(g, h, s) ==
    /\ Owns(h) /\ \A kept : Keeps(g, kept) => Keeps(h, kept)
    /\ h[s].name = g[s].name /\ h[s].kept = g[s].kept /\ h[s].bytes = g[s].bytes
    /\ Len(g[s].chain) <= Len(h[s].chain)
    /\ \A i \in 1 .. Len(g[s].chain) : h[s].chain[i] = g[s].chain[i]
    /\ \A t \in SlotNumbers : t # s => h[t] = g[t]

LEMMA LongerSelf ==
    ASSUME NEW g, Owns(g), NEW s \in SlotNumbers PROVE Longer(g, g, s)
<1>1. Len(g[s].chain) \in Nat
  BY ChainIn
<1> QED
  BY <1>1 DEF Longer

LEMMA LongerOn ==
    ASSUME NEW g, Owns(g), NEW h, NEW f, NEW s \in SlotNumbers, Longer(g, h, s), Longer(h, f, s)
    PROVE  Longer(g, f, s)
<1>1. Len(g[s].chain) \in Nat /\ Len(h[s].chain) \in Nat /\ Len(f[s].chain) \in Nat
  BY ChainIn DEF Longer
<1> DEFINE p == g[s].chain
           q == h[s].chain
           r == f[s].chain
<1>2. Len(p) <= Len(q) /\ Len(q) <= Len(r)
      /\ (\A i \in 1 .. Len(p) : q[i] = p[i]) /\ (\A i \in 1 .. Len(q) : r[i] = q[i])
  BY DEF Longer
<1>3. Len(p) <= Len(r) /\ \A i \in 1 .. Len(p) : r[i] = p[i]
  <2> HIDE DEF p, q, r
  <2>1. Len(p) \in Nat /\ Len(q) \in Nat /\ Len(r) \in Nat
    BY <1>1 DEF p, q, r
  <2> QED
    BY <1>2, <2>1
<1> QED
  BY <1>3 DEF Longer

LEMMA GrownLonger ==
    ASSUME NEW g, Owns(g), NEW s \in SlotNumbers, g[s].name \in Names, NEW k \in Clusters, Free(g, k),
           NEW h, h = Grown(g, s, k)
    PROVE  Longer(g, h, s)
<1>1. /\ Owns(h) /\ \A kept : Keeps(g, kept) => Keeps(h, kept)
      /\ h[s].name = g[s].name /\ h[s].kept = g[s].kept /\ h[s].bytes = g[s].bytes
      /\ h[s].chain = Append(g[s].chain, k)
      /\ \A t \in SlotNumbers : t # s => h[t] = g[t]
  BY GrownOwns
<1>2. g[s].chain \in Seq(Clusters)
  BY ChainIn
<1>3. Len(h[s].chain) = Len(g[s].chain) + 1 /\ \A i \in 1 .. Len(g[s].chain) : h[s].chain[i] = g[s].chain[i]
  BY <1>1, <1>2, GrownChain
<1> QED
  BY <1>1, <1>2, <1>3 DEF Longer

LEMMA RunsGrow ==
    ASSUME NEW x \in Card, NEW p \in Seq(Clusters), \A i, j \in 1 .. Len(p) : p[i] = p[j] => i = j,
           NEW k \in Clusters, ~InChain(p, k), Len(p) > 0, Runs(x, p, Len(p)), Link(x, k) >= Eof
    PROVE  Runs(SetLink(x, p[Len(p)], k), Append(p, k), Len(p) + 1)
<1> DEFINE y == SetLink(x, p[Len(p)], k)
           q == Append(p, k)
           n == Len(p)
<1>1. n \in Nat /\ n > 0 /\ p[n] \in Clusters /\ \A i \in 1 .. n : p[i] \in Clusters
  OBVIOUS
<1>2. Len(q) = n + 1 /\ (\A i \in 1 .. n : q[i] = p[i]) /\ q[n + 1] = k
  BY GrownChain
<1>3. k \in Word
  BY ClusterWord
<1>4. Link(y, p[n]) = k /\ \A j \in Clusters : j # p[n] => Link(y, j) = Link(x, j)
  BY <1>1, <1>3, LinkSet
<1>5. k # p[n] /\ \A i \in 1 .. n - 1 : p[i] # p[n]
  BY <1>1 DEF InChain
<1>6. Link(y, k) >= Eof
  BY <1>4, <1>5
<1>7. \A i \in 1 .. n - 1 : Link(y, q[i]) = q[i + 1]
  BY <1>1, <1>2, <1>4, <1>5 DEF Runs
<1> HIDE DEF y, q, n
<1>8. \A i \in 1 .. (n + 1) - 1 : Link(y, q[i]) = q[i + 1]
  <2>1. Link(y, q[n]) = q[n + 1]
    BY <1>1, <1>2, <1>4
  <2> QED
    BY <1>1, <1>7, <2>1
<1>9. Runs(y, q, n + 1)
  BY <1>1, <1>2, <1>6, <1>8 DEF Runs
<1> QED
  BY <1>9 DEF y, q, n

LEMMA GrowLink ==
    ASSUME NEW g, Owns(g), NEW s \in SlotNumbers, Len(g[s].chain) > 0, g[s].name \in Names,
           NEW k \in Clusters, Free(g, k), NEW h, h = Grown(g, s, k),
           NEW c, c = g[s].chain[Len(g[s].chain)],
           NEW x \in Whole(g), Runs(x, g[s].chain, Len(g[s].chain)), Link(x, k) >= Eof
    PROVE  /\ SetLink(x, c, k) \in Whole(h)
           /\ Current(x, g) => Current(SetLink(x, c, k), h)
<1> DEFINE y == SetLink(x, c, k)
           p == g[s].chain
<1>1. /\ Owns(h) /\ h[s].name = g[s].name /\ h[s].kept = g[s].kept /\ h[s].bytes = g[s].bytes
      /\ h[s].chain = Append(p, k)
      /\ \A t \in SlotNumbers : t # s => h[t] = g[t]
  BY GrownOwns
<1>2. x \in Card /\ DirEnds(x) /\ \A t \in SlotNumbers : Ok(x, g, t)
  BY DEF Whole
<1>3. p \in Seq(Clusters) /\ Len(p) \in Nat /\ c \in Clusters /\ InChain(p, c)
  <2>1. Len(p) \in Nat /\ p \in Seq(Clusters) /\ Len(p) \in 1 .. Len(p)
    BY ChainIn
  <2> QED
    BY <2>1, ChainIn
<1>4. k \in Word
  BY ClusterWord
<1>5. y \in Card /\ SameRest(y, x)
  BY <1>2, <1>3, <1>4, SetLinkCard, LinkSet
<1>6. (\A t \in SlotNumbers : Slot(y, t) = Slot(x, t)) /\ \A t \in DataSectors : y[t] = x[t]
  BY <1>5, SameSlots
<1>7. DirEnds(y)
  BY <1>2, <1>6, DirEndsSame
<1>8. \A t \in SlotNumbers : t # s => ~InChain(g[t].chain, c)
  BY <1>3 DEF Owns
<1>9. ASSUME NEW t \in SlotNumbers, t # s PROVE Ok(y, h, t)
  <2>1. Ok(y, g, t)
    BY <1>2, <1>3, <1>4, <1>8, <1>9, OkLink
  <2> QED
    BY <1>1, <1>9, <2>1 DEF Ok, Fits, Holds
<1>10. Runs(y, Append(p, k), Len(p) + 1)
  <2>1. (\A i, j \in 1 .. Len(p) : p[i] = p[j] => i = j) /\ ~InChain(p, k)
    BY DEF Owns, Free
  <2> HIDE DEF p, y
  <2>2. c = p[Len(p)] /\ Len(p) > 0 /\ Runs(x, p, Len(p))
    BY DEF p
  <2> QED
    BY <1>2, <1>3, <2>1, <2>2, RunsGrow DEF y
<1>11. Ok(y, h, s)
  <2>1. \A n \in Nat : Runs(x, p, n) => \E m \in Nat : n <= m /\ Runs(y, h[s].chain, m)
    <3>1. \A n : Runs(x, p, n) => n <= Len(p) + 1
      BY <1>3 DEF Runs
    <3>2. Len(p) + 1 \in Nat
      BY <1>3
    <3> HIDE DEF p, y
    <3> QED
      BY <1>1, <1>10, <3>1, <3>2
  <2> HIDE DEF y
  <2> QED
    BY <1>1, <1>2, <1>3, <1>5, <1>6, <2>1, OkGrown
<1>12. y \in Whole(h)
  BY <1>5, <1>7, <1>9, <1>11 DEF Whole
<1>13. ASSUME Current(x, g) PROVE Current(y, h)
  <2>1. \A t \in SlotNumbers : t # s => \A j : InChain(g[t].chain, j) => j \in Clusters /\ j # c
    <3> SUFFICES ASSUME NEW t \in SlotNumbers, t # s, NEW j, InChain(g[t].chain, j)
                 PROVE  j \in Clusters /\ j # c
      OBVIOUS
    <3>1. j \in Clusters
      BY InChainIn
    <3>2. j # c
      BY <1>8
    <3> QED
      BY <3>1, <3>2
  <2>2. \A j \in Clusters : j # c => Link(y, j) = Link(x, j)
    BY <1>2, <1>3, <1>4, LinkSet
  <2> SUFFICES ASSUME NEW t \in SlotNumbers
      PROVE /\ h[t].name \in Names <=> Named(y, t)
            /\ Runs(y, h[t].chain, Len(h[t].chain))
            /\ Len(h[t].bytes) <= Len(h[t].chain) * ClusterBytes
            /\ \A j \in 1 .. Len(h[t].bytes) : ByteAt(y, h[t].chain, j - 1) = h[t].bytes[j]
    BY DEF Current, Full
  <2>3. h[t].name \in Names <=> Named(y, t)
    <3>1. h[t].name = g[t].name
      BY <1>1
    <3> QED
      BY <1>13, <1>6, <3>1 DEF Current, Named, Full
  <2> DEFINE q == h[t].chain
             r == g[t].chain
             b == g[t].bytes
  <2>4. h[t].bytes = b /\ b \in Seq(Byte) /\ r \in Seq(Clusters)
    BY <1>1, ChainIn DEF Owns
  <2>5. Runs(x, r, Len(r)) /\ Len(b) <= Len(r) * ClusterBytes /\ \A j \in 1 .. Len(b) : ByteAt(x, r, j - 1) = b[j]
    BY <1>13 DEF Current, Full
  <2>6. /\ Runs(y, q, Len(q)) /\ Len(r) <= Len(q) /\ Len(q) \in Nat
        /\ \A i \in 1 .. Len(r) : q[i] = r[i]
    <3>1. CASE t = s
      <4>1. q = Append(p, k)
        BY <1>1, <3>1
      <4>2. Len(q) = Len(p) + 1 /\ \A i \in 1 .. Len(p) : q[i] = p[i]
        BY <1>3, <4>1, GrownChain
      <4> HIDE DEF q, y
      <4>3. Runs(y, q, Len(q))
        BY <1>10, <4>1, <4>2
      <4> QED
        BY <4>2, <4>3, <1>3, <3>1
    <3>2. CASE t # s
      <4>1. q = r
        BY <1>1, <3>2
      <4> HIDE DEF q, r, y
      <4>2. Runs(y, r, Len(r))
        BY <2>1, <2>2, <2>4, <2>5, <3>2, RunsFrame DEF r
      <4> QED
        BY <4>1, <4>2, <2>4
    <3> QED
      BY <3>1, <3>2
  <2> HIDE DEF q, r, b, y
  <2>7. Len(r) \in 0 .. Len(r) /\ Len(r) * ClusterBytes \in Nat /\ Len(b) \in Nat
        /\ Len(q) * ClusterBytes \in Nat /\ Len(r) * ClusterBytes <= Len(q) * ClusterBytes
    <3>1. Len(r) \in Nat /\ Len(q) \in Nat /\ Len(b) \in Nat
      BY <2>4, <2>6
    <3>2. ClusterBytes \in Nat
      BY Numbers, Times DEF ClusterBytes
    <3>3. Len(r) * ClusterBytes \in Nat /\ Len(q) * ClusterBytes \in Nat
      BY <3>1, <3>2, Times
    <3>4. Len(r) * ClusterBytes <= Len(q) * ClusterBytes
      BY <3>1, <3>2, <2>6, TimesMore
    <3> QED
      BY <3>1, <3>3, <3>4
  <2>8. ASSUME NEW j \in 1 .. Len(b) PROVE ByteAt(y, q, j - 1) = b[j]
    <3>1. j - 1 \in Nat /\ j - 1 < Len(r) * ClusterBytes
      BY <2>5, <2>7
    <3>2. ClusterOf(j - 1) \in 1 .. Len(r) /\ SectorIn(j - 1) \in SectorNumbers /\ r[ClusterOf(j - 1)] \in Clusters
      BY <2>4, <2>7, <3>1, BytePage
    <3>3. DataSector(r[ClusterOf(j - 1)], SectorIn(j - 1)) \in DataSectors
      BY <3>2, SectorOf DEF SectorNumbers
    <3> QED
      BY <1>6, <2>5, <2>6, <3>2, <3>3 DEF ByteAt
  <2>9. Len(b) <= Len(q) * ClusterBytes
    BY <2>5, <2>7
  <2> QED
    BY <2>3, <2>4, <2>6, <2>8, <2>9 DEF q
<1> QED
  BY <1>12, <1>13

LEMMA IgnoringGood == ASSUME NEW v, Vol(v), Good(v) PROVE Ignoring(v) = v
BY DEF Vol, Volume, Good, Ignoring

LEMMA SystemBuffers ==
    ASSUME NEW v, NEW g, NEW kept, NEW Safe, NEW Lost, System(v, g, kept, Safe, Lost),
           NEW w \in Volume, SameBuffers(v, w)
    PROVE  System(w, g, kept, Safe, Lost) /\ Cached(w) = Cached(v) /\ Images(w) = Images(v)
<1>1. Moves(v, w) /\ Images(w) = Images(v)
  BY OtherFields DEF System
<1> QED
  BY <1>1, SystemMoves DEF Moves

(* A cluster is written behind a chain.                                    *)
EndOf(p) == p[Len(p)]

LEMMA LinkOn ==
    ASSUME NEW v, NEW g, NEW kept, NEW Safe, NEW Lost, NEW k \in Clusters,
           System(v, g, kept, Safe, Besides(Lost, k)), Good(v), Free(g, k), Link(Cached(v), k) >= Eof,
           NEW s \in SlotNumbers, g[s].name \in Names, Len(g[s].chain) > 0,
           NEW c, c = EndOf(g[s].chain),
           NEW h, h = Grown(g, s, k), NEW w, w = FATWrite(v, c, k)
    PROVE  /\ System(w, h, kept, Safe, Lost) /\ Good(w) /\ Quiet(v, w) /\ SameData(v, w)
           /\ Cached(w) = SetLink(Cached(v), c, k)
<1> DEFINE p == g[s].chain
<1>0. c = g[s].chain[Len(g[s].chain)]
  BY DEF EndOf
<1>1. Vol(v) /\ Owns(g) /\ Images(v) \subseteq Whole(g) /\ Current(Cached(v), g) /\ Keeps(g, kept)
  BY DEF System
<1>2. p \in Seq(Clusters) /\ Len(p) \in Nat /\ c \in Clusters /\ InChain(p, c)
  <2>1. Len(p) \in Nat /\ p \in Seq(Clusters) /\ Len(p) \in 1 .. Len(p)
    BY <1>1, ChainIn
  <2> QED
    BY <1>0, <1>1, <2>1, ChainIn
<1>3. /\ Vol(w) /\ Good(w) /\ Quiet(v, w) /\ SameData(v, w)
      /\ w.card \in Images(v) /\ WithData(w) \in {WithData(v), Cached(v)}
      /\ WithFat(w) \in {SetLink(WithFat(v), c, k), SetLink(Cached(v), c, k)}
      /\ Cached(w) = SetLink(Cached(v), c, k)
      /\ w.cuts \subseteq v.cuts \cup Images(v)
  <2>1. k \in Word
    BY ClusterWord
  <2> QED
    BY <1>1, <1>2, <2>1, FATWriteDone
<1>4. Runs(Cached(v), p, Len(p))
  BY <1>1 DEF Current, Full
<1>5. \A j \in Clusters : Link(WithFat(v), j) = Link(Cached(v), j)
  BY <1>1, HalfImages, SameLinks
<1>6. Runs(WithFat(v), p, Len(p)) /\ Link(WithFat(v), k) >= Eof
  <2>1. \A j : InChain(p, j) => Link(WithFat(v), j) = Link(Cached(v), j)
    BY <1>1, <1>5, ChainIn DEF InChain
  <2> QED
    BY <1>2, <1>4, <1>5, <2>1, RunsFrame
<1>7. WithFat(v) \in Whole(g) /\ Cached(v) \in Whole(g)
  BY <1>1, ImageMembers
<1>8. SetLink(WithFat(v), c, k) \in Whole(h) /\ SetLink(Cached(v), c, k) \in Whole(h)
      /\ Current(SetLink(Cached(v), c, k), h)
  BY <1>0, <1>1, <1>4, <1>6, <1>7, GrowLink
<1>9. Whole(g) \subseteq Whole(h)
  BY <1>1, GrowWhole
<1>10. Images(w) \subseteq Whole(h)
  BY <1>1, <1>3, <1>8, <1>9, ImageMembers
<1>11. Owns(h) /\ Keeps(h, kept) /\ h[s].chain = Append(p, k) /\ \A t \in SlotNumbers : t # s => h[t] = g[t]
  BY <1>1, GrownOwns
<1>12. Tight(Cached(w), h, Lost)
  <2>1. \A j : InChain(h[s].chain, j) <=> InChain(p, j) \/ j = k
    <3> DEFINE q == h[s].chain
    <3> HIDE DEF q, p
    <3>1. p \in Seq(Clusters) /\ q = Append(p, k)
      BY <1>2, <1>11 DEF q
    <3>2. \A j : InChain(q, j) <=> InChain(p, j) \/ j = k
      BY <3>1, GrownChain, Zenon
    <3> QED
      BY <3>2, Zenon DEF q
  <2>2. Cached(v) \in Card
    BY <1>1, ImagesTyped DEF Images
  <2>3. \A j \in Clusters : j # c => Link(Cached(w), j) = Link(Cached(v), j)
    BY <1>2, <1>3, <2>2, ClusterWord, LinkSet
  <2> SUFFICES ASSUME NEW j \in Clusters, Link(Cached(w), j) # Empty, j \notin Lost
               PROVE  \E t \in SlotNumbers : InChain(h[t].chain, j)
    BY DEF Tight
  <2>4. CASE j = k \/ j = c
    BY <2>4, <2>1, <1>2
  <2>5. CASE j # k /\ j # c
    <3>1. PICK t \in SlotNumbers : InChain(g[t].chain, j)
      BY <2>3, <2>5 DEF System, Tight, Besides
    <3>2. InChain(h[t].chain, j)
      BY <3>1, <2>1, <1>11
    <3> QED
      BY <3>2
  <2> QED
    BY <2>4, <2>5
<1>13. w.cuts \subseteq Safe
  BY <1>1, <1>3, WholeSafe DEF System
<1> QED
  BY <1>3, <1>8, <1>10, <1>11, <1>12, <1>13 DEF System

Allocated(v, w, g, h, s) ==
    /\ Good(w) /\ Longer(g, h, s) /\ Len(h[s].chain) = Len(g[s].chain) + 1
    /\ w.f = [v.f EXCEPT !.cluster = h[s].chain[Len(h[s].chain)]]
    /\ w.count = v.count /\ w.got = v.got
    /\ SameRest(Cached(w), Cached(v)) /\ SameData(v, w)

LEMMA AllocateDone ==
    ASSUME NEW v, NEW g, NEW kept, NEW Safe, NEW Lost, System(v, g, kept, Safe, Lost), Good(v),
           NEW s \in SlotNumbers, g[s].name \in Names, Len(g[s].chain) > 0,
           NEW c, c = EndOf(g[s].chain), NEW w, w = ClusterAllocate(v, c)
    PROVE  \/ /\ System(w, g, kept, Safe, Lost) /\ w.err = "full" /\ Cached(w) = Cached(v)
              /\ w.f = v.f /\ w.count = v.count /\ w.got = v.got /\ SameData(v, w)
           \/ \E h : Allocated(v, w, g, h, s) /\ System(w, h, kept, Safe, Lost)
<1> DEFINE e == FindEmptyCluster(v, c)
           k == e.found
           u == FATWrite(e, k, Eof)
           z == FATWrite(u, c, k)
           h == Grown(g, s, k)
<1>1. Vol(v) /\ Owns(g) /\ Current(Cached(v), g)
  BY DEF System
<1>2. c \in Clusters /\ c \in Nat /\ c < CLUSTERS + 2 /\ Len(g[s].chain) \in Nat
  <2>1. Len(g[s].chain) \in Nat /\ Len(g[s].chain) \in 1 .. Len(g[s].chain)
    BY <1>1, ChainIn
  <2> QED
    BY <1>1, <2>1, ChainIn, ClusterRange DEF EndOf
<1>3. /\ Moves(v, e) /\ Good(e) /\ e.f = v.f /\ e.count = v.count /\ e.got = v.got /\ SameData(v, e)
      /\ k = 0 \/ (k \in Clusters /\ Link(Cached(v), k) = Empty)
  BY <1>1, <1>2, FindEmptyClusterDone
<1>4. System(e, g, kept, Safe, Lost) /\ Cached(e) = Cached(v) /\ e \in Volume
  BY <1>3, SystemMoves DEF Moves, Vol
<1>5. w = IF k = 0 THEN Failed(e, "full")
          ELSE [Ignoring(FATWrite(Ignoring(u), c, k)) EXCEPT !.f.cluster = k]
  BY DEF ClusterAllocate
<1> HIDE DEF e, u, z, h
<1>6. CASE k = 0
  <2>1. w = [e EXCEPT !.err = "full"]
    BY <1>5, <1>6 DEF Failed
  <2>2. w \in Volume /\ SameBuffers(e, w) /\ w.err = "full" /\ w.f = e.f /\ w.count = e.count /\ w.got = e.got
    BY <2>1, <1>4, SMTT(20) DEF Volume, Errors, SameBuffers, SameFat, SameData
  <2>3. System(w, g, kept, Safe, Lost) /\ Cached(w) = Cached(e)
    BY <1>4, <2>2, SystemBuffers
  <2> QED
    BY <1>3, <1>4, <2>2, <2>3 DEF SameBuffers, SameData
<1>7. CASE k # 0
  <2>1. k \in Clusters /\ Link(Cached(v), k) = Empty /\ k \in Nat
    BY <1>3, <1>7, ClusterWord
  <2>2. Free(g, k)
    BY <1>1, <2>1, NotOwned
  <2>3. Eof \in Word
    BY DEF Eof, Word
  <2>4. /\ System(u, g, kept, Safe, Besides(Lost, k)) /\ Good(u) /\ Quiet(e, u) /\ SameData(e, u)
        /\ Cached(u) = SetLink(Cached(e), k, Eof)
    <3>1. u = FATWrite(e, k, Eof) /\ Good(e)
      BY <1>3 DEF u
    <3> HIDE DEF k
    <3> QED
      BY <3>1, <1>4, <2>1, <2>2, <2>3, WriteFree
  <2>5. Ignoring(u) = u
    BY <2>4, IgnoringGood DEF System
  <2>6. Cached(e) \in Card
    BY <1>4, ImagesTyped DEF System, Images
  <2>7. Link(Cached(u), k) = Eof /\ SameRest(Cached(u), Cached(e))
    BY <2>1, <2>3, <2>4, <2>6, LinkSet
  <2>8. Link(Cached(u), k) >= Eof
    BY <2>7 DEF Eof
  <2>9. /\ System(z, h, kept, Safe, Lost) /\ Good(z) /\ Quiet(u, z) /\ SameData(u, z)
        /\ Cached(z) = SetLink(Cached(u), c, k)
    <3>1. z = FATWrite(u, c, k) /\ h = Grown(g, s, k)
      BY DEF z, h
    <3> HIDE DEF k
    <3> QED
      BY <3>1, <2>1, <2>2, <2>4, <2>8, LinkOn
  <2>10. Ignoring(z) = z
    BY <2>9, IgnoringGood DEF System
  <2>11. w = [z EXCEPT !.f.cluster = k]
    BY <1>5, <1>7, <2>5, <2>10 DEF z
  <2>12. z \in Volume
    BY <2>9 DEF System, Vol
  <2>13. /\ w \in Volume /\ SameBuffers(z, w) /\ w.err = z.err /\ w.count = z.count /\ w.got = z.got
         /\ w.f = [z.f EXCEPT !.cluster = k]
    <3>1. [z.f EXCEPT !.cluster = k] \in Object
      BY <2>1, <2>12 DEF Volume, Object
    <3>2. w = [z EXCEPT !.f = [z.f EXCEPT !.cluster = k]]
      BY <2>11
    <3> QED
      BY <3>1, <3>2, <2>12 DEF Volume, SameBuffers, SameFat, SameData
  <2>14. System(w, h, kept, Safe, Lost) /\ Cached(w) = Cached(z) /\ Good(w)
    BY <2>9, <2>13, SystemBuffers DEF Good
  <2>15. w.f = [v.f EXCEPT !.cluster = k] /\ w.count = v.count /\ w.got = v.got
    BY <1>3, <2>4, <2>9, <2>13 DEF Quiet
  <2>16. SameRest(Cached(w), Cached(v))
    <3>1. Cached(u) \in Card
      BY <2>4, ImagesTyped DEF System, Images
    <3>2. SameRest(Cached(z), Cached(u))
      BY <2>9, <3>1, <1>2, <2>1, ClusterWord, LinkSet
    <3> QED
      BY <3>2, <2>7, <2>14, <1>4 DEF SameRest
  <2>17. Longer(g, h, s) /\ h[s].chain = Append(g[s].chain, k)
    BY <1>1, <2>1, <2>2, GrownLonger, GrownOwns DEF h
  <2>18. Len(h[s].chain) = Len(g[s].chain) + 1 /\ h[s].chain[Len(h[s].chain)] = k
    BY <1>1, <2>1, <2>17, ChainIn, GrownChain
  <2>19. SameData(v, w)
    BY <1>3, <2>4, <2>9, <2>13 DEF SameBuffers, SameData
  <2> QED
    BY <2>14, <2>15, <2>16, <2>17, <2>18, <2>19 DEF Allocated
<1> QED
  BY <1>6, <1>7

(* A buffer that is clean may be forgotten.                                *)
Forget(v) == [v EXCEPT !.data = <<>>, !.dataSector = None, !.dataDirty = FALSE]

LEMMA ForgetFields ==
    ASSUME NEW v \in Volume, NEW w, w = Forget(v)
    PROVE  /\ w \in Volume /\ SameFat(v, w) /\ w.card = v.card /\ w.cuts = v.cuts /\ w.err = v.err
           /\ w.dataSector = None /\ ~w.dataDirty /\ Quiet(v, w)
BY DEF Forget, Volume, SameFat, Quiet

LEMMA ForgetClean ==
    ASSUME NEW v, v \in Volume, FatCoherent(v), ~v.dataDirty, NEW w, w = Forget(v)
    PROVE  /\ Vol(w) /\ WithFat(w) = WithFat(v) /\ Cached(w) = WithFat(v) /\ WithData(w) = v.card
           /\ Vol(v) => Images(w) = Images(v) /\ Cached(w) = Cached(v)
<1>1. /\ w \in Volume /\ SameFat(v, w) /\ w.card = v.card /\ w.cuts = v.cuts /\ w.err = v.err
      /\ w.dataSector = None /\ ~w.dataDirty
  BY ForgetFields
<1>2. Vol(w)
  BY <1>1 DEF Vol, FatCoherent, DataCoherent, SameFat
<1>3. WithFat(w) = WithFat(v)
  BY <1>1, WithFields DEF SameFat
<1>4. WithData(w) = v.card /\ Cached(w) = WithFat(v)
  BY <1>1, <1>2, <1>3, CleanImages
<1>5. Vol(v) => WithData(v) = v.card /\ Cached(v) = WithFat(v)
  BY CleanImages
<1> QED
  BY <1>1, <1>2, <1>3, <1>4, <1>5 DEF Images

LEMMA SystemForget ==
    ASSUME NEW v, NEW g, NEW kept, NEW Safe, NEW Lost, Vol(v), ~v.dataDirty
    PROVE  System(v, g, kept, Safe, Lost) <=> System(Forget(v), g, kept, Safe, Lost)
<1> DEFINE w == Forget(v)
<1>1. Vol(w) /\ Images(w) = Images(v) /\ Cached(w) = Cached(v) /\ w.cuts = v.cuts
  BY ForgetClean, ForgetFields DEF Vol
<1> QED
  BY <1>1 DEF System

LEMMA WholePages ==
    ASSUME NEW x, NEW g, Owns(g), x \in Whole(g), NEW k \in Clusters, Free(g, k), NEW i \in SectorNumbers,
           NEW y, y = SetPage(x, DataSector(k, i), Zeros), NEW Lost
    PROVE  /\ y \in Whole(g) /\ y \in Card /\ SameTable(y, x)
           /\ \A slot \in SlotNumbers : Slot(y, slot) = Slot(x, slot)
           /\ y[DataSector(k, i)] = Zeros
           /\ \A s \in DataSectors : s # DataSector(k, i) => y[s] = x[s]
           /\ Current(x, g) => Current(y, g)
           /\ Tight(x, g, Lost) => Tight(y, g, Lost)
<1>1. Zeros \in DataPages
  BY DEF Zeros, DataPages, Byte
<1>2. y \in Whole(g) /\ x \in Card
  BY <1>1, WholePage DEF Whole
<1>3. DataSector(k, i) \in DataSectors
  BY SectorOf DEF SectorNumbers
<1>4. /\ y \in Card /\ SameTable(y, x)
      /\ \A slot \in SlotNumbers : Slot(y, slot) = Slot(x, slot)
      /\ y[DataSector(k, i)] = Zeros
      /\ \A s \in DataSectors : s # DataSector(k, i) => y[s] = x[s]
  BY <1>1, <1>2, <1>3, PageSet
<1>5. \A j \in Clusters : Link(y, j) = Link(x, j)
  BY <1>4, SameLinks
<1>6. ASSUME Current(x, g) PROVE Current(y, g)
  <2>1. \A s \in SlotNumbers : Named(y, s) <=> Named(x, s)
    BY <1>4 DEF Named
  <2>2. \A s \in SlotNumbers : \A j : InChain(g[s].chain, j) => j \in Clusters /\ j # k
    BY ChainIn DEF InChain, Free
  <2>3. \A s \in SlotNumbers : \A j : InChain(g[s].chain, j) => Link(y, j) = Link(x, j)
    BY <1>5, <2>2
  <2>4. ASSUME NEW s \in SlotNumbers, NEW j, NEW l, InChain(g[s].chain, j), l \in SectorNumbers
        PROVE  y[DataSector(j, l)] = x[DataSector(j, l)]
    <3>1. j \in Nat /\ k \in Nat /\ j # k /\ j \in Clusters
      BY <2>2, <2>4, ClusterWord
    <3>2. DataSector(j, l) # DataSector(k, i)
      BY <3>1, <2>4, DataSectorOnce DEF SectorNumbers
    <3>3. DataSector(j, l) \in DataSectors
      BY <3>1, <2>4, SectorOf DEF SectorNumbers
    <3> QED
      BY <3>2, <3>3, <1>4
  <2> QED
    BY <1>6, <2>1, <2>3, <2>4, CurrentFrame
<1>7. Tight(x, g, Lost) => Tight(y, g, Lost)
  BY <1>5 DEF Tight
<1> QED
  BY <1>2, <1>4, <1>6, <1>7

(* A cluster of nobody is filled with zeros; what is in the data buffer is *)
(* not looked at meanwhile.                                                *)
Erasing(v, g, kept, Safe, Lost, k) ==
    [n \in 0 .. SPC |->
        {e \in Volume :
            /\ FatCoherent(e) /\ ~e.dataDirty /\ Good(e) /\ Quiet(v, e) /\ SameFat(v, e)
            /\ System(Forget(e), g, kept, Safe, Lost)
            /\ SameTable(Cached(Forget(e)), Cached(v))
            /\ \A slot \in SlotNumbers : Slot(Cached(Forget(e)), slot) = Slot(Cached(v), slot)
            /\ \A i \in SectorNumbers : i < n => e.card[DataSector(k, i)] = Zeros}]

LEMMA ErasingStep ==
    ASSUME NEW v, NEW g, NEW kept, NEW Safe, NEW Lost, NEW k \in Clusters, Free(g, k),
           NEW n \in 1 .. SPC, NEW e \in Erasing(v, g, kept, Safe, Lost, k)[n - 1],
           NEW w, w = SectorWrite(e, DataSector(k, n - 1), Zeros)
    PROVE  w \in Erasing(v, g, kept, Safe, Lost, k)[n] /\ Good(w)
<1> DEFINE s == DataSector(k, n - 1)
           z == Forget(e)
           y == Forget(w)
<1>1. n - 1 \in SectorNumbers /\ n - 1 \in 0 .. SPC /\ n \in 0 .. SPC
  BY Numbers DEF SectorNumbers
<1>2. s \in DataSectors /\ s \in CardSectors /\ Pages(s) = DataPages
  BY <1>1, SectorOf, SectorKinds DEF SectorNumbers, CardSectors, Pages
<1>3. /\ e \in Volume /\ FatCoherent(e) /\ ~e.dataDirty /\ Good(e) /\ Quiet(v, e) /\ SameFat(v, e)
      /\ System(z, g, kept, Safe, Lost)
      /\ SameTable(Cached(z), Cached(v))
      /\ \A slot \in SlotNumbers : Slot(Cached(z), slot) = Slot(Cached(v), slot)
      /\ \A i \in SectorNumbers : i < n - 1 => e.card[DataSector(k, i)] = Zeros
  BY <1>1 DEF Erasing
<1>4. e.card \in Card /\ DOMAIN e.card = CardSectors
  BY <1>3, CardDomain DEF Volume
<1>5. Zeros \in DataPages
  BY DEF Zeros, DataPages, Byte
<1>6. SetPage(e.card, s, Zeros) \in Card
  BY <1>2, <1>4, <1>5, CardPage
<1>7. w = [e EXCEPT !.cuts = e.cuts \cup {e.card}, !.card = SetPage(e.card, s, Zeros)]
  BY <1>2, <1>3, <1>4 DEF SectorWrite, Transfer, Then, Good, Volume, SetPage
<1> HIDE DEF s
<1>8. w \in Volume
  <2>1. e.cuts \cup {e.card} \in SUBSET Card
    BY <1>3, <1>4 DEF Volume
  <2> QED
    BY <1>3, <1>6, <1>7, <2>1 DEF Volume
<1>9. /\ w.card = SetPage(e.card, s, Zeros) /\ w.cuts = e.cuts \cup {e.card} /\ w.err = e.err
      /\ ~w.dataDirty /\ Quiet(e, w) /\ SameFat(e, w)
  BY <1>3, <1>7 DEF Volume, Quiet, SameFat
<1>10. FatCoherent(w)
  <2>1. e.fatSector # None => w.card[e.fatSector] = e.card[e.fatSector]
    <3>1. e.fatSector # None => e.fatSector \in FatSectors /\ e.fatSector \in CardSectors
      BY <1>3, FatPageOf DEF Volume
    <3>2. e.fatSector # None => e.fatSector # s
      BY <1>2, <3>1, SectorKinds
    <3> QED
      BY <1>4, <1>9, <3>1, <3>2 DEF SetPage
  <2> QED
    BY <1>3, <1>9, <2>1 DEF FatCoherent, SameFat
<1>11. /\ Vol(z) /\ Cached(z) = WithFat(e) /\ WithFat(z) = WithFat(e) /\ WithData(z) = e.card
       /\ z.card = e.card /\ z.cuts = e.cuts
  BY <1>3, ForgetClean, ForgetFields
<1>12. /\ Vol(y) /\ Cached(y) = WithFat(w) /\ WithFat(y) = WithFat(w) /\ WithData(y) = w.card
       /\ y.card = w.card /\ y.cuts = w.cuts
  BY <1>8, <1>9, <1>10, ForgetClean, ForgetFields
<1>13. WithFat(w) = SetPage(WithFat(e), s, Zeros)
  <2>1. w.fatSector = e.fatSector /\ w.fat = e.fat
    BY <1>9 DEF SameFat
  <2>2. e.fatSector # s
    BY <1>2, <1>3, SectorKinds DEF Volume, CardSectors
  <2> QED
    BY <1>9, <1>4, <2>1, <2>2 DEF WithFat, SetPage
<1> HIDE DEF z, y
<1>14. /\ Owns(g) /\ e.card \in Whole(g) /\ WithFat(e) \in Whole(g) /\ Current(WithFat(e), g)
       /\ Tight(WithFat(e), g, Lost) /\ Keeps(g, kept) /\ e.cuts \subseteq Safe /\ WholeCards(kept) \subseteq Safe
  BY <1>3, <1>11, ImageMembers DEF System
<1>15. /\ w.card \in Whole(g) /\ WithFat(w) \in Whole(g)
       /\ SameTable(WithFat(w), WithFat(e)) /\ \A slot \in SlotNumbers : Slot(WithFat(w), slot) = Slot(WithFat(e), slot)
       /\ Current(WithFat(w), g) /\ Tight(WithFat(w), g, Lost)
  BY <1>1, <1>9, <1>13, <1>14, WholePages DEF s
<1>16. w.card[s] = Zeros /\ \A t \in DataSectors : t # s => w.card[t] = e.card[t]
  BY <1>1, <1>9, <1>14, WholePages DEF s
<1>17. System(y, g, kept, Safe, Lost)
  <2>1. Images(y) \subseteq Whole(g)
    BY <1>12, <1>15, ImageMembers
  <2>2. w.cuts \subseteq Safe
    BY <1>9, <1>14, WholeSafe
  <2> QED
    BY <1>12, <1>14, <1>15, <2>1, <2>2 DEF System
<1>18. SameTable(Cached(y), Cached(v)) /\ \A slot \in SlotNumbers : Slot(Cached(y), slot) = Slot(Cached(v), slot)
  BY <1>3, <1>11, <1>12, <1>15 DEF SameTable
<1>19. ASSUME NEW i \in SectorNumbers, i < n PROVE w.card[DataSector(k, i)] = Zeros
  <2>1. CASE i = n - 1
    BY <1>16, <2>1 DEF s
  <2>2. CASE i # n - 1
    <3>1. i < n - 1
      BY <1>19, <2>2 DEF SectorNumbers
    <3>2. DataSector(k, i) # s /\ DataSector(k, i) \in DataSectors
      BY <1>1, <2>2, DataSectorOnce, ClusterWord, SectorOf DEF s, SectorNumbers
    <3> QED
      BY <1>3, <1>16, <3>1, <3>2
  <2> QED
    BY <2>1, <2>2
<1>20. Quiet(v, w) /\ SameFat(v, w) /\ Good(w)
  BY <1>3, <1>9 DEF Quiet, SameFat, Good
<1> QED
  BY <1>1, <1>8, <1>9, <1>10, <1>17, <1>18, <1>19, <1>20 DEF Erasing, y

LEMMA EraseClusterDone ==
    ASSUME NEW v, NEW g, NEW kept, NEW Safe, NEW Lost, System(v, g, kept, Safe, Lost), Good(v),
           NEW k \in Clusters, Free(g, k), NEW w, w = EraseCluster(v, k)
    PROVE  /\ System(w, g, kept, Safe, Lost) /\ Good(w) /\ Quiet(v, w) /\ SameFat(v, w)
           /\ SameTable(Cached(w), Cached(v))
           /\ \A slot \in SlotNumbers : Slot(Cached(w), slot) = Slot(Cached(v), slot)
<1> DEFINE f == FlushData(v)
           Inv == Erasing(v, g, kept, Safe, Lost, k)
           Step(n, e) == Then(e, LAMBDA z : SectorWrite(z, DataSector(k, n - 1), Zeros))
           Eq(h) == h = [n \in 0 .. SPC |-> IF n = 0 THEN f ELSE Step(n, h[n - 1])]
           U == UNION {Inv[n] : n \in 0 .. SPC}
           step == [ns \in (1 .. SPC) \X U |-> Step(ns[1], ns[2])]
           erased == CHOOSE h : Eq(h)
<1>0. SPC \in Nat /\ SPC # 0
  BY Numbers
<1>1. f \in Inv[0]
  <2>1. Moves(v, f) /\ Quiet(v, f) /\ Good(f) /\ SameFat(v, f) /\ ~f.dataDirty
    BY FlushDataDone DEF System
  <2>2. System(f, g, kept, Safe, Lost) /\ Vol(f) /\ Cached(f) = Cached(v)
    BY <2>1, SystemMoves DEF Moves
  <2> HIDE DEF f
  <2>3. System(Forget(f), g, kept, Safe, Lost)
    BY <2>1, <2>2, SystemForget
  <2>4. Cached(Forget(f)) = Cached(v)
    BY <2>1, <2>2, ForgetClean DEF Vol
  <2>5. f \in Volume /\ FatCoherent(f) /\ 0 \in 0 .. SPC
    BY <1>0, <2>2 DEF Vol
  <2>6. \A i \in SectorNumbers : ~(i < 0)
    BY DEF SectorNumbers
  <2> QED
    BY <2>1, <2>3, <2>4, <2>5, <2>6 DEF Erasing, SameTable
<1>2. ASSUME NEW n \in 1 .. SPC, NEW e \in Inv[n - 1] PROVE Step(n, e) \in Inv[n]
  <2>1. n - 1 \in 0 .. SPC
    BY <1>0
  <2>2. Good(e)
    BY <2>1 DEF Erasing
  <2>3. Step(n, e) = SectorWrite(e, DataSector(k, n - 1), Zeros)
    BY <2>2 DEF Then
  <2> QED
    BY <2>3, ErasingStep
<1> HIDE DEF Inv, Step, f
<1>3. \E h : Eq(h)
  <2>1. \A n \in 1 .. SPC : \A e \in Inv[n - 1] : step[<<n, e>>] = Step(n, e)
    <3> SUFFICES ASSUME NEW n \in 1 .. SPC, NEW e \in Inv[n - 1] PROVE e \in U
      OBVIOUS
    <3>1. n - 1 \in 0 .. SPC
      BY <1>0
    <3> QED
      BY <3>1
  <2> HIDE DEF step, U
  <2>5. \A n \in 1 .. SPC : \A e \in Inv[n - 1] : step[<<n, e>>] \in Inv[n]
    BY <1>2, <2>1
  <2>2. PICK h : IsLoop(h, f, step, SPC) /\ \A n \in 0 .. SPC : h[n] \in Inv[n]
    BY <1>0, <1>1, <2>5, LoopIn
  <2>3. \A n \in 1 .. SPC : step[<<n, h[n - 1]>>] = Step(n, h[n - 1])
    BY <1>0, <2>1, <2>2
  <2>4. Eq(h)
    BY <2>2, <2>3 DEF IsLoop
  <2> HIDE DEF Eq
  <2> QED
    BY <2>4
<1>4. Eq(erased)
  <2> HIDE DEF Eq
  <2> QED
    BY <1>3
<1> HIDE DEF erased
<1>5. erased[0] = f /\ \A n \in 1 .. SPC : erased[n] = Step(n, erased[n - 1])
  BY <1>4, <1>0
<1> HIDE DEF Eq
<1>6. erased[SPC] \in Inv[SPC]
  <2>1. \A n \in 1 .. SPC : erased[n - 1] \in Inv[n - 1] => erased[n] \in Inv[n]
    BY <1>2, <1>5
  <2>2. erased[0] \in Inv[0]
    BY <1>1, <1>5
  <2>3. \A n \in 0 .. SPC : erased[n] \in Inv[n]
    BY <1>0, <2>1, <2>2, Rounds
  <2> QED
    BY <2>3, <1>0
<1> DEFINE e == erased[SPC]
<1>7. Good(f)
  BY FlushDataDone DEF System, f
<1>8. w = [e EXCEPT !.data = Zeros, !.dataSector = DataSector(k, 0), !.dataDirty = FALSE]
  BY <1>7 DEF EraseCluster, erased, Eq, Step, f, Then
<1> HIDE DEF e
<1>9. /\ e \in Volume /\ FatCoherent(e) /\ ~e.dataDirty /\ Good(e) /\ Quiet(v, e) /\ SameFat(v, e)
      /\ System(Forget(e), g, kept, Safe, Lost)
      /\ SameTable(Cached(Forget(e)), Cached(v))
      /\ \A slot \in SlotNumbers : Slot(Cached(Forget(e)), slot) = Slot(Cached(v), slot)
      /\ e.card[DataSector(k, 0)] = Zeros
  <2>1. SPC \in 0 .. SPC /\ 0 \in SectorNumbers /\ 0 < SPC
    BY <1>0 DEF SectorNumbers
  <2> QED
    BY <1>6, <2>1 DEF e, Inv, Erasing
<1>10. DataSector(k, 0) \in DataSectors /\ DataSector(k, 0) # None /\ Pages(DataSector(k, 0)) = DataPages
       /\ Zeros \in DataPages
  <2>1. 0 \in 0 .. SPC - 1
    BY <1>0
  <2>2. DataSector(k, 0) \in DataSectors
    BY <2>1, SectorOf
  <2> QED
    BY <2>2, SectorKinds, DataPageOf DEF Pages, Zeros, DataPages, Byte
<1>11. /\ w \in Volume /\ w.card = e.card /\ SameFat(e, w) /\ w.cuts = e.cuts /\ w.err = e.err /\ Quiet(e, w)
       /\ w.data = Zeros /\ w.dataSector = DataSector(k, 0) /\ ~w.dataDirty
  BY <1>8, <1>9, <1>10 DEF Volume, SameFat, Quiet
<1>12. Vol(w) /\ FatCoherent(w)
  BY <1>9, <1>10, <1>11 DEF Vol, FatCoherent, DataCoherent, SameFat
<1>13. WithFat(w) = WithFat(e)
  BY <1>9, <1>11, WithFields DEF SameFat
<1>14. Forget(w) = Forget(e)
  BY <1>8, <1>9 DEF Forget, Volume
<1>15. System(w, g, kept, Safe, Lost)
  BY <1>9, <1>11, <1>12, <1>14, SystemForget
<1>16. Cached(w) = Cached(Forget(e))
  BY <1>11, <1>12, <1>14, ForgetClean
<1> QED
  BY <1>9, <1>11, <1>15, <1>16 DEF Quiet, SameFat, Good

(* A first cluster is taken: it ends its chain on every image.             *)
Created(v, w, g, kept, Safe, Lost, k) ==
    /\ k \in Clusters /\ Free(g, k) /\ Good(w)
    /\ System(w, g, kept, Safe, Besides(Lost, k))
    /\ \A x \in Images(w) : Link(x, k) = Eof
    /\ \A slot \in SlotNumbers : Slot(Cached(w), slot) = Slot(Cached(v), slot)
    /\ w.f = [v.f EXCEPT !.first = k, !.cluster = k]
    /\ w.count = v.count /\ w.got = v.got

LEMMA TakeClusterDone ==
    ASSUME NEW v, NEW g, NEW kept, NEW Safe, NEW Lost, System(v, g, kept, Safe, Lost), Good(v),
           NEW k, k = v.found, k \in Clusters, Link(Cached(v), k) = Empty, NEW w, w = TakeCluster(v)
    PROVE  /\ System(w, g, kept, Safe, Besides(Lost, k)) /\ Good(w) /\ Quiet(v, w) /\ Free(g, k)
           /\ Link(Cached(w), k) = Eof
           /\ \A slot \in SlotNumbers : Slot(Cached(w), slot) = Slot(Cached(v), slot)
<1> DEFINE u == FATWrite(v, k, Eof)
<1>1. Owns(g) /\ Current(Cached(v), g) /\ Cached(v) \in Card
  BY ImagesTyped DEF System, Images
<1>2. Free(g, k)
  BY <1>1, NotOwned
<1>3. Eof \in Word
  BY DEF Eof, Word
<1>4. /\ System(u, g, kept, Safe, Besides(Lost, k)) /\ Good(u) /\ Quiet(v, u)
      /\ Cached(u) = SetLink(Cached(v), k, Eof)
  BY <1>2, <1>3, WriteFree
<1> HIDE DEF u
<1>5. Link(Cached(u), k) = Eof /\ SameRest(Cached(u), Cached(v))
  BY <1>1, <1>3, <1>4, LinkSet
<1>6. w = EraseCluster(u, k)
  BY <1>4 DEF TakeCluster, Then, u
<1>7. /\ System(w, g, kept, Safe, Besides(Lost, k)) /\ Good(w) /\ Quiet(u, w)
      /\ SameTable(Cached(w), Cached(u))
      /\ \A slot \in SlotNumbers : Slot(Cached(w), slot) = Slot(Cached(u), slot)
  BY <1>2, <1>4, <1>6, EraseClusterDone
<1>8. Link(Cached(w), k) = Eof
  BY <1>5, <1>7, SameLinks
<1>9. \A slot \in SlotNumbers : Slot(Cached(w), slot) = Slot(Cached(v), slot)
  BY <1>5, <1>7, SameSlots
<1> QED
  BY <1>2, <1>4, <1>7, <1>8, <1>9, QuietOn

LEMMA FlushFatImages ==
    ASSUME NEW v, NEW w, w = FlushFat(v), Vol(v), Good(v)
    PROVE  /\ Moves(v, w) /\ Quiet(v, w) /\ Good(w) /\ SameData(v, w)
           /\ \A x \in Images(w) : SameTable(x, Cached(v))
           /\ \A x \in Images(w) : x = WithFat(v) \/ x = Cached(v)
           /\ w.card = WithFat(v) /\ WithData(w) = Cached(v)
<1>1. /\ Moves(v, w) /\ Quiet(v, w) /\ Good(w) /\ SameData(v, w) /\ ~w.fatDirty
      /\ w.card = WithFat(v) /\ WithData(w) = Cached(v)
  BY FlushFatDone
<1>2. WithFat(w) = w.card
  BY <1>1, CleanImages DEF Moves
<1>3. \A x \in Images(w) : x = WithFat(v) \/ x = Cached(v)
  BY <1>1, <1>2 DEF Moves, Images
<1>4. SameTable(WithFat(v), Cached(v)) /\ SameTable(Cached(v), Cached(v))
  BY HalfImages DEF SameTable
<1> QED
  BY <1>1, <1>3, <1>4

LEMMA CreateFirstClusterDone ==
    ASSUME NEW v, NEW g, NEW kept, NEW Safe, NEW Lost, System(v, g, kept, Safe, Lost), Good(v),
           NEW w, w = CreateFirstCluster(v)
    PROVE  \/ /\ System(w, g, kept, Safe, Lost) /\ w.err = "full" /\ Cached(w) = Cached(v)
              /\ w.f = v.f /\ w.count = v.count /\ w.got = v.got
           \/ \E k : Created(v, w, g, kept, Safe, Lost, k)
<1> DEFINE e == FindEmptyCluster(v, 2)
           k == e.found
           t == TakeCluster(e)
<1>1. Vol(v)
  BY DEF System
<1>2. /\ Moves(v, e) /\ Good(e) /\ e.f = v.f /\ e.count = v.count /\ e.got = v.got
      /\ k = 0 \/ (k \in Clusters /\ Link(Cached(v), k) = Empty)
  <2>1. 2 \in Nat /\ 2 < CLUSTERS + 2
    BY Numbers
  <2> QED
    BY <1>1, <2>1, FindEmptyClusterDone
<1>3. System(e, g, kept, Safe, Lost) /\ Cached(e) = Cached(v) /\ Vol(e)
  BY <1>2, SystemMoves DEF Moves
<1>4. w = IF k = 0 THEN Failed(FlushFat(Ignoring(e)), "full")
          ELSE Began([FlushFat(Ignoring(t)) EXCEPT !.err = IF Good(t) THEN @ ELSE t.err], k)
  BY DEF CreateFirstCluster
<1> HIDE DEF e, t
<1>5. CASE k = 0
  <2> DEFINE u == FlushFat(e)
  <2>1. Ignoring(e) = e
    BY <1>2, <1>3, IgnoringGood
  <2>2. Moves(e, u) /\ Quiet(e, u)
    BY <1>2, <1>3, FlushFatDone
  <2>3. System(u, g, kept, Safe, Lost) /\ Cached(u) = Cached(e) /\ u \in Volume
    BY <1>3, <2>2, SystemMoves DEF Moves, Vol
  <2>4. w = [u EXCEPT !.err = "full"]
    BY <1>4, <1>5, <2>1 DEF Failed
  <2> HIDE DEF u
  <2>5. w \in Volume /\ SameBuffers(u, w) /\ w.err = "full" /\ w.f = u.f /\ w.count = u.count /\ w.got = u.got
    BY <2>3, <2>4 DEF Volume, Errors, SameBuffers, SameFat, SameData
  <2>6. System(w, g, kept, Safe, Lost) /\ Cached(w) = Cached(u)
    BY <2>3, <2>5, SystemBuffers
  <2> QED
    BY <1>2, <1>3, <2>2, <2>3, <2>5, <2>6 DEF Quiet
<1>6. CASE k # 0
  <2> DEFINE u == FlushFat(t)
  <2>1. k \in Clusters /\ Link(Cached(e), k) = Empty /\ k \in Nat
    BY <1>2, <1>3, <1>6, ClusterWord
  <2>2. /\ System(t, g, kept, Safe, Besides(Lost, k)) /\ Good(t) /\ Quiet(e, t) /\ Free(g, k)
        /\ Link(Cached(t), k) = Eof
        /\ \A slot \in SlotNumbers : Slot(Cached(t), slot) = Slot(Cached(e), slot)
    BY <1>2, <1>3, <2>1, TakeClusterDone DEF t
  <2>3. Ignoring(t) = t /\ Vol(t)
    BY <2>2, IgnoringGood DEF System
  <2>4. Moves(t, u) /\ Quiet(t, u) /\ Good(u) /\ \A x \in Images(u) : SameTable(x, Cached(t))
    BY <2>2, <2>3, FlushFatImages
  <2>5. System(u, g, kept, Safe, Besides(Lost, k)) /\ Cached(u) = Cached(t) /\ u \in Volume
    BY <2>2, <2>4, SystemMoves DEF Moves, Vol
  <2> HIDE DEF u
  <2>a. [u EXCEPT !.err = u.err] = u
    BY <2>5 DEF Volume
  <2>6. w = Began(u, k)
    BY <1>4, <1>6, <2>2, <2>3, <2>a DEF u
  <2>7. w \in Volume /\ SameBuffers(u, w) /\ w.err = u.err /\ w.count = u.count /\ w.got = u.got
        /\ w.f = [u.f EXCEPT !.first = k, !.cluster = k]
    <3>1. [u.f EXCEPT !.first = k, !.cluster = k] \in Object
      BY <2>1, <2>5 DEF Volume, Object
    <3>2. w = [u EXCEPT !.f = [u.f EXCEPT !.first = k, !.cluster = k]]
      BY <2>5, <2>6 DEF Began, Volume, Object
    <3> QED
      BY <3>1, <3>2, <2>5 DEF Volume, SameBuffers, SameFat, SameData
  <2>8. System(w, g, kept, Safe, Besides(Lost, k)) /\ Cached(w) = Cached(u) /\ Images(w) = Images(u)
    BY <2>5, <2>7, SystemBuffers
  <2>9. \A x \in Images(w) : Link(x, k) = Eof
    BY <2>1, <2>2, <2>4, <2>8, SameLinks
  <2>10. w.f = [v.f EXCEPT !.first = k, !.cluster = k] /\ w.count = v.count /\ w.got = v.got
    BY <1>2, <2>2, <2>4, <2>7 DEF Quiet
  <2>11. Created(v, w, g, kept, Safe, Lost, k)
    BY <1>3, <2>1, <2>2, <2>4, <2>5, <2>7, <2>8, <2>9, <2>10 DEF Created, Good
  <2> QED
    BY <2>11
<1> QED
  BY <1>5, <1>6

-----------------------------------------------------------------------------
(* The directory is walked until a name of a set S is met, or to its end.  *)
Kept(v, w) == w.f = v.f /\ w.count = v.count /\ w.got = v.got

Walked(v, S) ==
    [k \in 0 .. ROOT |->
        {e \in Volume :
            /\ Moves(v, e) /\ Kept(v, e) /\ e.err \in {"none", "done"}
            /\ e.err = "done" => \A t \in SlotNumbers : Slot(Cached(v), t).name \notin S
            /\ Good(e) =>
                /\ e.found \in SlotNumbers /\ e.dataSector = DirSector(e.found)
                /\ \A t \in SlotNumbers : t < e.found => Slot(Cached(v), t).name \notin S
                /\ e.found = k \/ Slot(Cached(v), e.found).name \in S}]

LEMMA SlotAtDone ==
    ASSUME NEW v, NEW S, NEW k \in 0 .. ROOT, NEW u, Moves(v, u), Kept(v, u), Good(u),
           \A t \in SlotNumbers : t < k => Slot(Cached(v), t).name \notin S
    PROVE  SlotAt(u, k) \in Walked(v, S)[k]
<1> DEFINE e == [u EXCEPT !.found = k]
           w == SlotAt(u, k)
<1>1. u \in Volume /\ Vol(u) /\ k \in Nat
  BY Numbers DEF Moves, Vol
<1>2. e \in Volume /\ SameBuffers(u, e) /\ e.found = k /\ Kept(u, e) /\ Good(e)
  BY <1>1 DEF Volume, SameBuffers, SameFat, SameData, Good, Kept
<1>3. w = DirectoryEntryCache(e, k)
  BY DEF SlotAt
<1> HIDE DEF e, w
<1>4. Moves(u, e) /\ Vol(e)
  BY <1>1, <1>2, OtherFields DEF Moves
<1>5. Moves(v, e) /\ Kept(v, e)
  BY <1>2, <1>4, MovesOn DEF Kept
<1>6. CASE k = ROOT
  <2>1. w = [e EXCEPT !.err = "done"]
    BY <1>3, <1>6, Numbers DEF DirectoryEntryCache, Failed
  <2>2. w \in Volume /\ SameBuffers(e, w) /\ Kept(e, w) /\ w.err = "done"
    BY <1>2, <2>1 DEF Volume, SameBuffers, SameFat, SameData, Errors, Kept
  <2>3. Moves(v, w) /\ Kept(v, w)
    BY <1>4, <1>5, <2>2, OtherFields, MovesOn DEF Kept
  <2>4. \A t \in SlotNumbers : t < k
    BY <1>6, Numbers DEF SlotNumbers
  <2> QED
    BY <2>2, <2>3, <2>4 DEF Walked, Good, w
<1>7. CASE k # ROOT
  <2>1. k \in SlotNumbers /\ k < ROOT /\ ~(k >= ROOT)
    BY <1>7, Numbers DEF SlotNumbers
  <2>2. DirSector(k) \in DirSectors \cup DataSectors
    BY <2>1, SectorOf DEF SlotNumbers
  <2>3. w = CacheData(e, DirSector(k))
    BY <1>3, <2>1 DEF DirectoryEntryCache
  <2>4. Moves(e, w) /\ Quiet(e, w) /\ Good(w) /\ w.dataSector = DirSector(k)
    BY <1>2, <1>4, <2>2, <2>3, CacheDataDone
  <2>5. Moves(v, w) /\ Kept(v, w) /\ w.found = k
    BY <1>2, <1>5, <2>4, MovesOn DEF Kept, Quiet
  <2>6. w \in Volume
    BY <2>5 DEF Moves, Vol
  <2> QED
    BY <2>1, <2>4, <2>5, <2>6 DEF Walked, Good, w
<1> QED
  BY <1>6, <1>7

LEMMA WalkedName ==
    ASSUME NEW v, NEW S, NEW k \in 0 .. ROOT, NEW e \in Walked(v, S)[k], Good(e)
    PROVE  NameAt(e) = Slot(Cached(v), e.found).name /\ Ignoring(e) = e
<1>1. Moves(v, e) /\ e.found \in SlotNumbers /\ e.dataSector = DirSector(e.found) /\ Vol(e)
  BY DEF Walked, Moves
<1>2. Entry(e, e.found) = Slot(Cached(e), e.found)
  BY <1>1, SlotRead DEF SlotNumbers
<1> QED
  BY <1>1, <1>2, IgnoringGood DEF NameAt, Moves

(* On to the next slot, or not.                                            *)
LEMMA WalkedOn ==
    ASSUME NEW v, NEW S, NEW k \in 1 .. ROOT, NEW e \in Walked(v, S)[k - 1]
    PROVE  /\ Good(e) /\ NameAt(e) \notin S => SlotAt(e, k) \in Walked(v, S)[k]
           /\ ~Good(e) \/ NameAt(e) \in S => e \in Walked(v, S)[k]
<1>1. k - 1 \in 0 .. ROOT /\ k \in 0 .. ROOT /\ k \in Nat
  BY Numbers
<1>2. Moves(v, e) /\ Kept(v, e)
  BY <1>1 DEF Walked
<1>3. Good(e) => NameAt(e) = Slot(Cached(v), e.found).name
  BY <1>1, WalkedName
<1>4. ASSUME Good(e), NameAt(e) \notin S PROVE SlotAt(e, k) \in Walked(v, S)[k]
  <2>1. e.found = k - 1 /\ \A t \in SlotNumbers : t < e.found => Slot(Cached(v), t).name \notin S
    BY <1>1, <1>3, <1>4 DEF Walked
  <2>2. \A t \in SlotNumbers : t < k => t < e.found \/ t = e.found
    BY <1>1, <2>1 DEF SlotNumbers
  <2>3. \A t \in SlotNumbers : t < k => Slot(Cached(v), t).name \notin S
    BY <1>3, <1>4, <2>1, <2>2
  <2> QED
    BY <1>1, <1>2, <1>4, <2>3, SlotAtDone
<1>5. ASSUME ~Good(e) \/ NameAt(e) \in S PROVE e \in Walked(v, S)[k]
  BY <1>1, <1>3, <1>5 DEF Walked
<1> QED
  BY <1>4, <1>5

LEMMA WalkedFirst ==
    ASSUME NEW v, NEW S, Vol(v), Good(v)
    PROVE  SlotAt(v, 0) \in Walked(v, S)[0]
<1>1. 0 \in 0 .. ROOT /\ \A t \in SlotNumbers : ~(t < 0)
  BY Numbers DEF SlotNumbers
<1>2. Moves(v, v) /\ Kept(v, v)
  BY MovesSelf DEF Kept
<1> QED
  BY <1>1, <1>2, SlotAtDone

LEMMA FindShortFileNameDone ==
    ASSUME NEW v, Vol(v), Good(v), DirEnds(Cached(v)), NEW n \in Names, NEW w, w = FindShortFileName(v, n)
    PROVE  /\ Moves(v, w) /\ Kept(v, w)
           /\ \/ /\ Good(w) /\ w.found \in SlotNumbers /\ w.dataSector = DirSector(w.found)
                 /\ Slot(Cached(v), w.found).name = n
              \/ w.err = "done" /\ \A t \in SlotNumbers : Slot(Cached(v), t).name # n
<1> DEFINE S == {n, "empty"}
           Inv == Walked(v, S)
           over(e) == e.err = "done" \/ (Good(e) /\ NameAt(e) \in {n, "empty"})
           next(e, k) == IF over(e) THEN e ELSE SlotAt(Ignoring(e), k)
           Eq(h) == h = [k \in 0 .. ROOT |-> IF k = 0 THEN SlotAt(v, 0) ELSE next(h[k - 1], k)]
           U == UNION {Inv[k] : k \in 0 .. ROOT}
           step == [ks \in (1 .. ROOT) \X U |-> next(ks[2], ks[1])]
           find == CHOOSE h : Eq(h)
           first == SlotAt(v, 0)
<1>0. ROOT \in Nat /\ ROOT # 0
  BY Numbers
<1>1. first \in Inv[0]
  BY WalkedFirst
<1>2. ASSUME NEW k \in 1 .. ROOT, NEW e \in Inv[k - 1] PROVE next(e, k) \in Inv[k]
  <2>1. k - 1 \in 0 .. ROOT
    BY <1>0
  <2>2. e.err \in {"none", "done"}
    BY <2>1 DEF Walked
  <2>3. Good(e) => Ignoring(e) = e
    BY <2>1, WalkedName
  <2>4. CASE Good(e) /\ NameAt(e) \notin S
    <3>1. next(e, k) = SlotAt(e, k)
      BY <2>3, <2>4 DEF Good
    <3> QED
      BY <2>4, <3>1, WalkedOn
  <2>5. CASE ~Good(e) \/ NameAt(e) \in S
    <3>1. next(e, k) = e
      BY <2>2, <2>5 DEF Good
    <3> QED
      BY <2>5, <3>1, WalkedOn
  <2> QED
    BY <2>4, <2>5
<1> HIDE DEF Inv, next, first
<1>3. \E h : Eq(h)
  <2>1. \A k \in 1 .. ROOT : \A e \in Inv[k - 1] : step[<<k, e>>] = next(e, k)
    <3> SUFFICES ASSUME NEW k \in 1 .. ROOT, NEW e \in Inv[k - 1] PROVE e \in U
      OBVIOUS
    <3>1. k - 1 \in 0 .. ROOT
      BY <1>0
    <3> QED
      BY <3>1
  <2> HIDE DEF step, U
  <2>5. \A k \in 1 .. ROOT : \A e \in Inv[k - 1] : step[<<k, e>>] \in Inv[k]
    BY <1>2, <2>1
  <2>2. PICK h : IsLoop(h, first, step, ROOT) /\ \A k \in 0 .. ROOT : h[k] \in Inv[k]
    BY <1>0, <1>1, <2>5, LoopIn
  <2>3. \A k \in 1 .. ROOT : step[<<k, h[k - 1]>>] = next(h[k - 1], k)
    BY <1>0, <2>1, <2>2
  <2>4. Eq(h)
    BY <2>2, <2>3 DEF IsLoop, first
  <2> HIDE DEF Eq
  <2> QED
    BY <2>4
<1>4. Eq(find)
  <2> HIDE DEF Eq
  <2> QED
    BY <1>3
<1> HIDE DEF find
<1>5. find[0] = first /\ \A k \in 1 .. ROOT : find[k] = next(find[k - 1], k)
  BY <1>4, <1>0 DEF first
<1>6. find[ROOT] \in Inv[ROOT]
  <2> HIDE DEF Eq
  <2>1. \A k \in 1 .. ROOT : find[k - 1] \in Inv[k - 1] => find[k] \in Inv[k]
    BY <1>2, <1>5
  <2>2. find[0] \in Inv[0]
    BY <1>1, <1>5
  <2>3. \A k \in 0 .. ROOT : find[k] \in Inv[k]
    BY <1>0, <2>1, <2>2, Rounds
  <2> QED
    BY <2>3, <1>0
<1> DEFINE e == find[ROOT]
<1>7. w = IF Good(e) /\ NameAt(e) = "empty" THEN Failed(e, "done") ELSE e
  BY DEF FindShortFileName, find, Eq, next
<1> HIDE DEF e, Eq
<1>8. /\ e \in Volume /\ Moves(v, e) /\ Kept(v, e) /\ e.err \in {"none", "done"}
      /\ e.err = "done" => \A t \in SlotNumbers : Slot(Cached(v), t).name \notin S
      /\ Good(e) =>
            /\ e.found \in SlotNumbers /\ e.dataSector = DirSector(e.found)
            /\ \A t \in SlotNumbers : t < e.found => Slot(Cached(v), t).name \notin S
            /\ e.found = ROOT \/ Slot(Cached(v), e.found).name \in S
  <2>1. ROOT \in 0 .. ROOT
    BY <1>0
  <2> QED
    BY <1>6, <2>1 DEF e, Inv, Walked
<1>9. Good(e) => NameAt(e) = Slot(Cached(v), e.found).name /\ NameAt(e) \in S
  <2>1. ROOT \in 0 .. ROOT /\ ROOT \notin SlotNumbers
    BY <1>0 DEF SlotNumbers
  <2>2. Good(e) => NameAt(e) = Slot(Cached(v), e.found).name
    BY <1>6, <2>1, WalkedName DEF e, Inv
  <2> QED
    BY <1>8, <2>1, <2>2
<1>10. CASE ~Good(e)
  <2>1. w = e /\ w.err = "done"
    BY <1>7, <1>8, <1>10 DEF Good
  <2> QED
    BY <1>8, <2>1
<1>11. CASE Good(e) /\ NameAt(e) # "empty"
  <2>1. w = e
    BY <1>7, <1>11
  <2> QED
    BY <1>8, <1>9, <1>11, <2>1
<1>12. CASE Good(e) /\ NameAt(e) = "empty"
  <2>1. w = [e EXCEPT !.err = "done"]
    BY <1>7, <1>12 DEF Failed
  <2>2. w \in Volume /\ SameBuffers(e, w) /\ Kept(e, w) /\ w.err = "done"
    BY <1>8, <2>1 DEF Volume, SameBuffers, SameFat, SameData, Errors, Kept
  <2>3. Moves(v, w) /\ Kept(v, w)
    BY <1>8, <2>2, OtherFields, MovesOn DEF Kept, Moves
  <2>4. \A t \in SlotNumbers : Slot(Cached(v), t).name # n
    <3>1. \A t \in SlotNumbers : t < e.found \/ t = e.found \/ e.found < t
      BY <1>8, <1>12 DEF SlotNumbers
    <3>2. \A t \in SlotNumbers : e.found < t => Slot(Cached(v), t).name = "empty"
      BY <1>8, <1>9, <1>12 DEF DirEnds, SlotNumbers
    <3> QED
      BY <1>8, <1>9, <1>12, <3>1, <3>2, Numbers
  <2> QED
    BY <2>2, <2>3, <2>4
<1> QED
  BY <1>10, <1>11, <1>12

LEMMA DirectoryEntryFindEmptyDone ==
    ASSUME NEW v, Vol(v), Good(v), NEW w, w = DirectoryEntryFindEmpty(v)
    PROVE  /\ Moves(v, w) /\ Kept(v, w)
           /\ \/ /\ Good(w) /\ w.found \in SlotNumbers
                 /\ Slot(Cached(v), w.found).name \in {"deleted", "empty"}
                 /\ \A t \in SlotNumbers : t < w.found => Slot(Cached(v), t).name # "empty"
              \/ w.err = "directory"
<1> DEFINE S == {"deleted", "empty"}
           Inv == Walked(v, S)
           over(e) == ~Good(e) \/ NameAt(e) \in {"deleted", "empty"}
           next(e, k) == IF over(e) THEN e ELSE SlotAt(e, k)
           Eq(h) == h = [k \in 0 .. ROOT |-> IF k = 0 THEN SlotAt(v, 0) ELSE next(h[k - 1], k)]
           U == UNION {Inv[k] : k \in 0 .. ROOT}
           step == [ks \in (1 .. ROOT) \X U |-> next(ks[2], ks[1])]
           find == CHOOSE h : Eq(h)
           first == SlotAt(v, 0)
<1>0. ROOT \in Nat /\ ROOT # 0
  BY Numbers
<1>1. first \in Inv[0]
  BY WalkedFirst
<1>2. ASSUME NEW k \in 1 .. ROOT, NEW e \in Inv[k - 1] PROVE next(e, k) \in Inv[k]
  BY WalkedOn
<1> HIDE DEF Inv, next, first
<1>3. \E h : Eq(h)
  <2>1. \A k \in 1 .. ROOT : \A e \in Inv[k - 1] : step[<<k, e>>] = next(e, k)
    <3> SUFFICES ASSUME NEW k \in 1 .. ROOT, NEW e \in Inv[k - 1] PROVE e \in U
      OBVIOUS
    <3>1. k - 1 \in 0 .. ROOT
      BY <1>0
    <3> QED
      BY <3>1
  <2> HIDE DEF step, U
  <2>5. \A k \in 1 .. ROOT : \A e \in Inv[k - 1] : step[<<k, e>>] \in Inv[k]
    BY <1>2, <2>1
  <2>2. PICK h : IsLoop(h, first, step, ROOT) /\ \A k \in 0 .. ROOT : h[k] \in Inv[k]
    BY <1>0, <1>1, <2>5, LoopIn
  <2>3. \A k \in 1 .. ROOT : step[<<k, h[k - 1]>>] = next(h[k - 1], k)
    BY <1>0, <2>1, <2>2
  <2>4. Eq(h)
    BY <2>2, <2>3 DEF IsLoop, first
  <2> HIDE DEF Eq
  <2> QED
    BY <2>4
<1>4. Eq(find)
  <2> HIDE DEF Eq
  <2> QED
    BY <1>3
<1> HIDE DEF find
<1>5. find[0] = first /\ \A k \in 1 .. ROOT : find[k] = next(find[k - 1], k)
  BY <1>4, <1>0 DEF first
<1>6. find[ROOT] \in Inv[ROOT]
  <2> HIDE DEF Eq
  <2>1. \A k \in 1 .. ROOT : find[k - 1] \in Inv[k - 1] => find[k] \in Inv[k]
    BY <1>2, <1>5
  <2>2. find[0] \in Inv[0]
    BY <1>1, <1>5
  <2>3. \A k \in 0 .. ROOT : find[k] \in Inv[k]
    BY <1>0, <2>1, <2>2, Rounds
  <2> QED
    BY <2>3, <1>0
<1> DEFINE e == find[ROOT]
<1>7. w = IF Good(e) THEN e ELSE Failed(e, "directory")
  BY DEF DirectoryEntryFindEmpty, find, Eq, next
<1> HIDE DEF e, Eq
<1>8. /\ e \in Volume /\ Moves(v, e) /\ Kept(v, e)
      /\ Good(e) =>
            /\ e.found \in SlotNumbers
            /\ \A t \in SlotNumbers : t < e.found => Slot(Cached(v), t).name \notin S
            /\ e.found = ROOT \/ Slot(Cached(v), e.found).name \in S
  <2>1. ROOT \in 0 .. ROOT
    BY <1>0
  <2> QED
    BY <1>6, <2>1 DEF e, Inv, Walked
<1>9. ROOT \notin SlotNumbers
  BY <1>0 DEF SlotNumbers
<1>10. CASE Good(e)
  <2>1. w = e
    BY <1>7, <1>10
  <2> QED
    BY <1>8, <1>9, <1>10, <2>1
<1>11. CASE ~Good(e)
  <2>1. w = [e EXCEPT !.err = "directory"]
    BY <1>7, <1>11 DEF Failed
  <2>2. w \in Volume /\ SameBuffers(e, w) /\ Kept(e, w) /\ w.err = "directory"
    BY <1>8, <2>1 DEF Volume, SameBuffers, SameFat, SameData, Errors, Kept
  <2>3. Moves(v, w) /\ Kept(v, w)
    BY <1>8, <2>2, OtherFields, MovesOn DEF Kept, Moves
  <2> QED
    BY <2>2, <2>3
<1> QED
  BY <1>10, <1>11

-----------------------------------------------------------------------------
(* A file is made: its entry in a slot of no file, its first cluster one   *)
(* of nobody, of which every image has the link.                           *)
Fresh(g, s, n, k) ==
    [t \in SlotNumbers |-> IF t = s THEN [name |-> n, chain |-> <<k>>, bytes |-> <<>>, kept |-> NoFile] ELSE g[t]]

LEMMA FreshOwns ==
    ASSUME NEW g, Owns(g), NEW s \in SlotNumbers, g[s].name \notin Names, NEW n \in Names,
           \A t \in SlotNumbers : g[t].name # n, NEW k \in Clusters, Free(g, k), NEW h, h = Fresh(g, s, n, k)
    PROVE  /\ Owns(h) /\ \A kept : Keeps(g, kept) => Keeps(h, kept)
           /\ h[s].name = n /\ h[s].kept = NoFile /\ h[s].bytes = <<>> /\ h[s].chain = <<k>>
           /\ \A t \in SlotNumbers : t # s => h[t] = g[t]
<1>1. /\ h[s].name = n /\ h[s].kept = NoFile /\ h[s].bytes = <<>> /\ h[s].chain = <<k>>
      /\ \A t \in SlotNumbers : t # s => h[t] = g[t]
  BY DEF Fresh
<1>2. h[s].chain \in Seq(Clusters) /\ Len(h[s].chain) = 1 /\ h[s].chain[1] = k /\ h[s].bytes \in Seq(Byte)
  BY <1>1
<1>3. \A j : InChain(h[s].chain, j) => j = k
  BY <1>2 DEF InChain
<1>4. \A t \in SlotNumbers : ~InChain(g[t].chain, k)
  BY DEF Free
<1>5. Owns(h)
  <2> SUFFICES ASSUME NEW r \in SlotNumbers
      PROVE  /\ h[r].chain \in Seq(Clusters)
             /\ h[r].bytes \in Seq(Byte)
             /\ h[r].name \notin Names => h[r].chain = <<>> /\ h[r].kept = NoFile /\ h[r].bytes = <<>>
             /\ \A i, j \in 1 .. Len(h[r].chain) : h[r].chain[i] = h[r].chain[j] => i = j
             /\ \A t \in SlotNumbers : t # r =>
                 /\ \A j : ~(InChain(h[r].chain, j) /\ InChain(h[t].chain, j))
                 /\ h[r].name \in Names => h[r].name # h[t].name
    BY DEF Owns
  <2>1. CASE r = s
    <3>1. \A i, j \in 1 .. Len(h[s].chain) : i = j
      BY <1>2
    <3> QED
      BY <1>1, <1>2, <1>3, <1>4, <2>1, <3>1
  <2>2. CASE r # s
    <3>1. h[r] = g[r]
      BY <1>1, <2>2
    <3>2. ASSUME NEW t \in SlotNumbers, t # r
          PROVE /\ \A j : ~(InChain(h[r].chain, j) /\ InChain(h[t].chain, j))
                /\ h[r].name \in Names => h[r].name # h[t].name
      <4>1. CASE t = s
        BY <1>1, <1>3, <1>4, <3>1, <4>1
      <4>2. CASE t # s
        <5>1. h[t] = g[t]
          BY <1>1, <4>2
        <5> QED
          BY <3>1, <3>2, <5>1, SMTT(30) DEF Owns
      <4> QED
        BY <4>1, <4>2
    <3> QED
      BY <3>1, <3>2 DEF Owns
  <2> QED
    BY <2>1, <2>2
<1>6. ASSUME NEW kept, Keeps(g, kept) PROVE Keeps(h, kept)
  <2> SUFFICES ASSUME NEW m \in Names, kept[m] # NoFile
               PROVE \E t \in SlotNumbers : h[t].name = m /\ h[t].kept = kept[m]
    BY DEF Keeps
  <2>1. PICK t \in SlotNumbers : g[t].name = m /\ g[t].kept = kept[m]
    BY <1>6 DEF Keeps
  <2>2. t # s
    BY <2>1
  <2> QED
    BY <1>1, <2>1, <2>2
<1> QED
  BY <1>1, <1>5, <1>6

LEMMA NotNamed ==
    ASSUME NEW g, NEW x, x \in Whole(g), NEW s \in SlotNumbers, g[s].name \notin Names
    PROVE  ~Named(x, s)
BY DEF Whole, Ok, Fits, Named

LEMMA FreshWhole ==
    ASSUME NEW g, Owns(g), NEW s \in SlotNumbers, g[s].name \notin Names, NEW n \in Names,
           \A t \in SlotNumbers : g[t].name # n, NEW k \in Clusters, Free(g, k), NEW h, h = Fresh(g, s, n, k)
    PROVE  Whole(g) \subseteq Whole(h)
<1>1. h[s].kept = NoFile /\ \A t \in SlotNumbers : t # s => h[t] = g[t]
  BY FreshOwns
<1> SUFFICES ASSUME NEW x \in Whole(g), NEW t \in SlotNumbers PROVE Ok(x, h, t)
  BY DEF Whole
<1>2. CASE t = s
  BY <1>1, <1>2, NotNamed DEF Ok, Fits, Holds
<1>3. CASE t # s
  <2>1. h[t] = g[t] /\ Ok(x, g, t)
    BY <1>1, <1>3 DEF Whole
  <2> QED
    BY <2>1 DEF Ok, Fits, Holds
<1> QED
  BY <1>2, <1>3

NewEntry(n, k) == [name |-> n, first |-> k, size |-> 0]

LEMMA FreshSlot ==
    ASSUME NEW g, Owns(g), NEW s \in SlotNumbers, g[s].name \notin Names, NEW n \in Names,
           \A t \in SlotNumbers : g[t].name # n, NEW k \in Clusters, Free(g, k), NEW h, h = Fresh(g, s, n, k),
           NEW x \in Whole(g), Link(x, k) = Eof,
           \A t \in SlotNumbers : t < s => Slot(x, t).name # "empty",
           NEW y, y = SetSlot(x, s, NewEntry(n, k))
    PROVE  /\ y \in Whole(h) /\ y \in Card
           /\ Slot(y, s) = NewEntry(n, k)
           /\ \A t \in SlotNumbers : t # s => Slot(y, t) = Slot(x, t)
           /\ SameTable(y, x)
           /\ Current(x, g) => Current(y, h)
<1>1. /\ Owns(h)
      /\ h[s].name = n /\ h[s].kept = NoFile /\ h[s].bytes = <<>> /\ h[s].chain = <<k>>
      /\ \A t \in SlotNumbers : t # s => h[t] = g[t]
  BY FreshOwns
<1>2. x \in Card /\ DirEnds(x) /\ \A t \in SlotNumbers : Ok(x, g, t)
  BY DEF Whole
<1>3. NewEntry(n, k) \in SlotEntry
  BY ClusterWord DEF NewEntry, SlotEntry
<1>4. /\ y \in Card
      /\ Slot(y, s) = NewEntry(n, k)
      /\ \A t \in SlotNumbers : t # s => Slot(y, t) = Slot(x, t)
      /\ SameTable(y, x)
      /\ \A t \in DataSectors : y[t] = x[t]
  <2>1. y \in Card
    BY <1>2, <1>3, SetSlotCard DEF SlotNumbers
  <2>2. /\ Slot(y, s) = NewEntry(n, k)
        /\ \A t \in SlotNumbers : t # s => Slot(y, t) = Slot(x, t)
        /\ SameTable(y, x)
        /\ \A t \in DataSectors : y[t] = x[t]
    BY <1>2, <1>3, SlotSet
  <2> QED
    BY <2>1, <2>2
<1>5. Slot(y, s).name = n /\ Slot(y, s).first = k /\ Slot(y, s).size = 0 /\ n # "empty"
  BY <1>4, Numbers DEF NewEntry
<1>6. DirEnds(y)
  <2> SUFFICES ASSUME NEW r \in SlotNumbers, NEW t \in SlotNumbers, r < t, Slot(y, r).name = "empty"
               PROVE  Slot(y, t).name = "empty"
    BY DEF DirEnds, SlotNumbers
  <2>1. r # s /\ Slot(x, r).name = "empty"
    BY <1>4, <1>5
  <2>2. t # s
    BY <2>1
  <2> QED
    BY <1>2, <1>4, <2>1, <2>2 DEF DirEnds, SlotNumbers
<1>7. Link(y, k) = Eof
  BY <1>4, SameLinks
<1>8. Runs(y, h[s].chain, 1) /\ Len(h[s].chain) = 1 /\ h[s].chain[1] = k /\ h[s].chain # <<>>
  <2>1. Len(<<k>>) = 1 /\ <<k>>[1] = k /\ <<k>> # <<>>
    OBVIOUS
  <2> DEFINE q == <<k>>
  <2>2. q \in Seq(Clusters) /\ Len(q) = 1 /\ q[1] = k /\ q # <<>>
    OBVIOUS
  <2> HIDE DEF q
  <2>3. Runs(y, q, 1)
    <3>1. 1 .. 1 - 1 = {} /\ 1 \in 0 .. 1 /\ 1 > 0 /\ 1 # 0
      OBVIOUS
    <3>2. Link(y, q[1]) >= Eof
      BY <1>7, <2>2 DEF Eof
    <3> QED
      BY <2>2, <3>1, <3>2 DEF Runs
  <2> QED
    BY <1>1, <2>2, <2>3 DEF q
<1>9. Ok(y, h, s)
  <2>1. 0 <= 1 * ClusterBytes
    BY Numbers, Times DEF ClusterBytes
  <2> QED
    BY <1>1, <1>5, <1>8, <2>1 DEF Ok, Fits, Holds, FirstOf
<1>10. ASSUME NEW t \in SlotNumbers, t # s PROVE Ok(y, h, t)
  <2>1. h[t] = g[t] /\ Ok(y, g, t)
    BY <1>1, <1>2, <1>3, <1>10, OkSlot
  <2> QED
    BY <2>1 DEF Ok, Fits, Holds
<1>11. ASSUME Current(x, g) PROVE Current(y, h)
  <2> SUFFICES ASSUME NEW t \in SlotNumbers PROVE Full(y, h, t)
    BY DEF Current
  <2>1. CASE t = s
    <3>1. Len(h[s].bytes) = 0 /\ 0 <= 1 * ClusterBytes
      BY <1>1, Numbers, Times DEF ClusterBytes
    <3>2. 1 .. 0 = {}
      OBVIOUS
    <3> QED
      BY <1>1, <1>5, <1>8, <2>1, <3>1, <3>2 DEF Full, Named
  <2>2. CASE t # s
    <3>1. h[t] = g[t] /\ Full(x, g, t) /\ (Named(y, t) <=> Named(x, t))
      BY <1>1, <1>4, <1>11, <2>2 DEF Current, Named
    <3>2. \A j : InChain(g[t].chain, j) => j \in Clusters
      BY ChainIn DEF InChain
    <3>3. \A j : InChain(g[t].chain, j) => Link(y, j) = Link(x, j)
      BY <1>4, <3>2, SameLinks
    <3>4. \A j, i : InChain(g[t].chain, j) /\ i \in SectorNumbers
                        => y[DataSector(j, i)] = x[DataSector(j, i)]
      BY <1>4, <3>2, SectorOf DEF SectorNumbers
    <3>5. g[t].chain \in Seq(Clusters) /\ g[t].bytes \in Seq(Byte)
      BY DEF Owns
    <3>6. Full(y, g, t)
      BY <3>1, <3>3, <3>4, <3>5, FullFrame
    <3> QED
      BY <3>1, <3>6 DEF Full
  <2> QED
    BY <2>1, <2>2
<1>12. y \in Whole(h)
  BY <1>4, <1>6, <1>9, <1>10 DEF Whole
<1> QED
  BY <1>4, <1>11, <1>12

(* The file object of a file that was made.                                *)
NewObject(f, k, s) ==
    [f EXCEPT !.first = k, !.cluster = k, !.sector = 0, !.offset = 0, !.pos = 0, !.size = 0, !.entry = s]

FirstGiven(f, k) == [f EXCEPT !.first = k, !.cluster = k]

LEMMA NewObjectSame ==
    ASSUME NEW f \in Object, NEW k, NEW s
    PROVE  NewObject(FirstGiven(f, k), k, s) = NewObject(f, k, s)
BY DEF FirstGiven, NewObject, Object

Populated(v, w, g, h, n, s, k) ==
    /\ k \in Clusters /\ Free(g, k) /\ s \in SlotNumbers /\ g[s].name \notin Names
    /\ h = Fresh(g, s, n, k) /\ Good(w)
    /\ w.f = NewObject(v.f, k, s) /\ w.count = v.count /\ w.got = v.got
    /\ Slot(Cached(w), s) = NewEntry(n, k)
    /\ \A t \in SlotNumbers : t # s => Slot(Cached(w), t) = Slot(Cached(v), t)

LEMMA PopulateDone ==
    ASSUME NEW v, NEW g, NEW kept, NEW Safe, NEW Lost, NEW k \in Clusters,
           System(v, g, kept, Safe, Besides(Lost, k)), Good(v), Free(g, k),
           \A x \in Images(v) : Link(x, k) = Eof, v.f.first = k, v.f.cluster = k,
           NEW n \in Names, \A t \in SlotNumbers : g[t].name # n,
           NEW s \in SlotNumbers, g[s].name \notin Names,
           \A t \in SlotNumbers : t < s => Slot(Cached(v), t).name # "empty",
           NEW w, w = DirectoryEntryPopulate(v, n, s)
    PROVE  /\ System(w, Fresh(g, s, n, k), kept, Safe, Lost) /\ Populated(v, w, g, Fresh(g, s, n, k), n, s, k)
<1> DEFINE e == DirectoryEntryCache(v, s)
           u == SetEntry(e, s, NewEntry(n, k))
           h == Fresh(g, s, n, k)
<1>1. Vol(v) /\ Owns(g) /\ Keeps(g, kept)
  BY DEF System
<1>2. e = CacheData(v, DirSector(s)) /\ DirSector(s) \in DirSectors \cup DataSectors
  <2>1. ~(s >= ROOT)
    BY Numbers DEF SlotNumbers
  <2> QED
    BY <2>1, SectorOf DEF DirectoryEntryCache, SlotNumbers
<1> HIDE DEF e
<1>3. Moves(v, e) /\ Quiet(v, e) /\ Good(e) /\ e.dataSector = DirSector(s)
  BY <1>1, <1>2, CacheDataDone
<1>4. System(e, g, kept, Safe, Besides(Lost, k)) /\ Images(e) \subseteq Images(v) /\ Cached(e) = Cached(v)
  BY <1>3, SystemMoves, MovesImages DEF Moves
<1>5. NewEntry(n, k) \in SlotEntry
  BY ClusterWord DEF NewEntry, SlotEntry
<1>6. /\ Vol(u) /\ Quiet(e, u) /\ u.err = e.err /\ u.cuts = e.cuts
      /\ u.card = e.card /\ WithFat(u) = WithFat(e)
      /\ WithData(u) = SetSlot(WithData(e), s, NewEntry(n, k))
      /\ Cached(u) = SetSlot(Cached(e), s, NewEntry(n, k))
  <2>1. Vol(e) /\ s \in 0 .. ROOT - 1
    BY <1>4 DEF System, SlotNumbers
  <2> QED
    BY <1>3, <1>5, <2>1, ChangeSlot
<1> HIDE DEF u, h
<1>7. /\ Owns(h) /\ Keeps(h, kept) /\ Whole(g) \subseteq Whole(h)
      /\ h[s].chain = <<k>> /\ \A t \in SlotNumbers : t # s => h[t] = g[t]
  BY <1>1, FreshOwns, FreshWhole DEF h
<1>8. /\ e.card \in Whole(g) /\ WithFat(e) \in Whole(g) /\ WithData(e) \in Whole(g) /\ Cached(e) \in Whole(g)
      /\ Current(Cached(e), g)
  BY <1>4, ImageMembers DEF System
<1>9. Link(WithData(e), k) = Eof /\ Link(Cached(e), k) = Eof
  BY <1>4, ImageMembers
<1>10. \A t \in SlotNumbers : Slot(WithData(e), t) = Slot(Cached(v), t) /\ Slot(Cached(e), t) = Slot(Cached(v), t)
  BY <1>4, HalfImages, SameSlots DEF System
<1>11. WithData(u) \in Whole(h)
  BY <1>1, <1>6, <1>8, <1>9, <1>10, FreshSlot DEF h
<1>12. /\ Cached(u) \in Whole(h) /\ Current(Cached(u), h)
       /\ Slot(Cached(u), s) = NewEntry(n, k)
       /\ \A t \in SlotNumbers : t # s => Slot(Cached(u), t) = Slot(Cached(e), t)
       /\ SameTable(Cached(u), Cached(e))
  BY <1>1, <1>6, <1>8, <1>9, <1>10, FreshSlot DEF h
<1>13. Images(u) \subseteq Whole(h)
  BY <1>6, <1>7, <1>8, <1>11, <1>12, ImageMembers
<1>14. Tight(Cached(u), h, Lost)
  <2>1. \A j \in Clusters : Link(Cached(u), j) = Link(Cached(e), j)
    BY <1>12, SameLinks
  <2>2. InChain(h[s].chain, k)
    <3>1. Len(<<k>>) = 1 /\ <<k>>[1] = k
      OBVIOUS
    <3> QED
      BY <1>7, <3>1 DEF InChain
  <2> SUFFICES ASSUME NEW j \in Clusters, Link(Cached(u), j) # Empty, j \notin Lost
               PROVE  \E t \in SlotNumbers : InChain(h[t].chain, j)
    BY DEF Tight
  <2>3. CASE j = k
    BY <2>2, <2>3
  <2>4. CASE j # k
    <3>1. PICK t \in SlotNumbers : InChain(g[t].chain, j)
      BY <1>4, <2>1, <2>4 DEF System, Tight, Besides
    <3>2. t # s
      BY <1>1, <3>1 DEF Owns, InChain
    <3> QED
      BY <1>7, <3>1, <3>2
  <2> QED
    BY <2>3, <2>4
<1>15. System(u, h, kept, Safe, Lost)
  BY <1>4, <1>6, <1>7, <1>12, <1>13, <1>14 DEF System
<1>16. e.f = v.f /\ u.f = v.f /\ u.count = v.count /\ u.got = v.got /\ Good(u) /\ u \in Volume /\ Vol(e)
  BY <1>3, <1>4, <1>6 DEF Quiet, Good, Vol, System
<1>17. w = [u EXCEPT !.f.cluster = k, !.f.sector = 0, !.f.offset = 0, !.f.pos = 0, !.f.size = 0, !.f.entry = s]
  <2>1. e.f.first = k
    BY <1>16
  <2> QED
    BY <1>3, <2>1, Zenon DEF DirectoryEntryPopulate, Then, e, u, NewEntry
<1>18. /\ w \in Volume /\ SameBuffers(u, w) /\ w.err = u.err /\ w.count = u.count /\ w.got = u.got
       /\ w.f = NewObject(v.f, k, s)
  <2>1. u.f \in Object /\ v.f \in Object /\ k \in Nat /\ s \in Nat
    BY <1>16, <1>1, ClusterWord DEF Vol, Volume, SlotNumbers
  <2>2. NewObject(v.f, k, s) \in Object
    BY <2>1 DEF Object, NewObject
  <2>3. w = [u EXCEPT !.f = [u.f EXCEPT !.cluster = k, !.sector = 0, !.offset = 0, !.pos = 0, !.size = 0, !.entry = s]]
    BY <1>16, <1>17, <2>1 DEF Volume, Object
  <2>4. [u.f EXCEPT !.cluster = k, !.sector = 0, !.offset = 0, !.pos = 0, !.size = 0, !.entry = s] = NewObject(v.f, k, s)
    BY <1>16, <2>1 DEF Object, NewObject
  <2>5. w = [u EXCEPT !.f = NewObject(v.f, k, s)]
    BY <2>3, <2>4
  <2> QED
    BY <1>16, <2>2, <2>5 DEF Volume, SameBuffers, SameFat, SameData
<1>19. System(w, h, kept, Safe, Lost) /\ Cached(w) = Cached(u)
  BY <1>15, <1>18, SystemBuffers
<1>20. Populated(v, w, g, h, n, s, k)
  BY <1>4, <1>12, <1>16, <1>18, <1>19, <1>1 DEF Populated, Good, h
<1> QED
  BY <1>19, <1>20 DEF h

LEMMA DirectoryEntryCreateDone ==
    ASSUME NEW v, NEW g, NEW kept, NEW Safe, NEW Lost, System(v, g, kept, Safe, Lost), Good(v),
           NEW n \in Names, \A t \in SlotNumbers : g[t].name # n,
           NEW w, w = DirectoryEntryCreate(v, n)
    PROVE  \/ System(w, g, kept, Safe, Lost) /\ ~Good(w) /\ Kept(v, w) /\ Cached(w) = Cached(v)
           \/ \E s, k : System(w, Fresh(g, s, n, k), kept, Safe, Lost) /\ Populated(v, w, g, Fresh(g, s, n, k), n, s, k)
<1> DEFINE e == DirectoryEntryFindEmpty(v)
           d == CreateFirstCluster(e)
           s == e.found
<1>1. Vol(v) /\ Images(v) \subseteq Whole(g) /\ Current(Cached(v), g)
  BY DEF System
<1>2. /\ Moves(v, e) /\ Kept(v, e)
      /\ \/ /\ Good(e) /\ s \in SlotNumbers
            /\ Slot(Cached(v), s).name \in {"deleted", "empty"}
            /\ \A t \in SlotNumbers : t < s => Slot(Cached(v), t).name # "empty"
         \/ e.err = "directory"
  BY <1>1, DirectoryEntryFindEmptyDone
<1>3. System(e, g, kept, Safe, Lost) /\ Cached(e) = Cached(v)
  BY <1>2, SystemMoves DEF Moves
<1>4. w = IF Good(e) THEN (IF Good(d) THEN DirectoryEntryPopulate(d, n, s) ELSE d) ELSE e
  BY DEF DirectoryEntryCreate, Then
<1> HIDE DEF e, d
<1>5. CASE ~Good(e)
  BY <1>2, <1>3, <1>4, <1>5
<1>6. CASE Good(e)
  <2>1. s \in SlotNumbers /\ Slot(Cached(v), s).name \in {"deleted", "empty"}
        /\ \A t \in SlotNumbers : t < s => Slot(Cached(v), t).name # "empty"
    BY <1>2, <1>6 DEF Good
  <2>2. g[s].name \notin Names
    BY <1>1, <2>1, Numbers DEF Current, Full, Named
  <2>3. \/ /\ System(d, g, kept, Safe, Lost) /\ d.err = "full" /\ Cached(d) = Cached(e)
           /\ d.f = e.f /\ d.count = e.count /\ d.got = e.got
        \/ \E k : Created(e, d, g, kept, Safe, Lost, k)
    BY <1>3, <1>6, CreateFirstClusterDone DEF d
  <2>4. CASE /\ System(d, g, kept, Safe, Lost) /\ d.err = "full" /\ Cached(d) = Cached(e)
             /\ d.f = e.f /\ d.count = e.count /\ d.got = e.got
    <3>1. w = d
      BY <1>4, <1>6, <2>4 DEF Good
    <3> QED
      BY <1>2, <1>3, <2>4, <3>1 DEF Kept, Good
  <2>5. CASE \E k : Created(e, d, g, kept, Safe, Lost, k)
    <3>1. PICK k : Created(e, d, g, kept, Safe, Lost, k)
      BY <2>5
    <3>2. /\ k \in Clusters /\ Free(g, k) /\ Good(d)
          /\ System(d, g, kept, Safe, Besides(Lost, k))
          /\ \A x \in Images(d) : Link(x, k) = Eof
          /\ \A slot \in SlotNumbers : Slot(Cached(d), slot) = Slot(Cached(e), slot)
          /\ d.f = [e.f EXCEPT !.first = k, !.cluster = k]
          /\ d.count = e.count /\ d.got = e.got
      BY <3>1 DEF Created
    <3>3. w = DirectoryEntryPopulate(d, n, s)
      BY <1>4, <1>6, <3>2
    <3>4. d.f.first = k /\ d.f.cluster = k /\ v.f \in Object /\ e.f = v.f
      BY <1>1, <1>2, <3>2 DEF Vol, Volume, Object, Kept
    <3>5. \A t \in SlotNumbers : t < s => Slot(Cached(d), t).name # "empty"
      BY <1>3, <2>1, <3>2
    <3> DEFINE h == Fresh(g, s, n, k)
    <3> HIDE DEF s, h
    <3>6. System(w, h, kept, Safe, Lost) /\ Populated(d, w, g, h, n, s, k)
      BY <2>1, <2>2, <3>2, <3>3, <3>4, <3>5, PopulateDone DEF h
    <3>7. NewObject(d.f, k, s) = NewObject(v.f, k, s)
      <4>1. e.f \in Object /\ e.f = v.f
        BY <3>4, Zenon
      <4>2. d.f = FirstGiven(e.f, k)
        BY <3>2, Zenon DEF FirstGiven
      <4>3. NewObject(FirstGiven(e.f, k), k, s) = NewObject(e.f, k, s)
        BY <4>1, NewObjectSame
      <4> QED
        BY <4>1, <4>2, <4>3, Zenon
    <3>8. Populated(v, w, g, h, n, s, k)
      BY <1>2, <1>3, <3>2, <3>6, <3>7 DEF Populated, Kept
    <3> QED
      BY <3>6, <3>8 DEF h
  <2> QED
    BY <2>3, <2>4, <2>5
<1> QED
  BY <1>5, <1>6

-----------------------------------------------------------------------------
(* No chain is longer than there are clusters.                             *)
LEMMA ChainLength ==
    ASSUME NEW p \in Seq(Clusters), \A i, j \in 1 .. Len(p) : p[i] = p[j] => i = j
    PROVE  Len(p) <= CLUSTERS
<1>1. p \in [1 .. Len(p) -> Clusters] /\ Len(p) \in Nat
  OBVIOUS
<1>2. p \in Injection(1 .. Len(p), Clusters)
  BY <1>1 DEF Injection, IsInjective
<1>3. IsFiniteSet(Clusters) /\ Cardinality(Clusters) = CLUSTERS
  <2>1. 2 \in Int /\ CLUSTERS + 1 \in Int /\ ~(2 > CLUSTERS + 1)
    BY Numbers
  <2>2. IsFiniteSet(2 .. CLUSTERS + 1)
        /\ Cardinality(2 .. CLUSTERS + 1) = IF 2 > CLUSTERS + 1 THEN 0 ELSE (CLUSTERS + 1) - 2 + 1
    BY <2>1, FS_Interval
  <2> QED
    BY <2>1, <2>2, Numbers DEF Clusters
<1>4. Cardinality(1 .. Len(p)) = Len(p)
  <2> DEFINE n == Len(p)
  <2>1. n \in Nat /\ n \in Int /\ 1 \in Int
    BY <1>1
  <2> HIDE DEF n
  <2>2. Cardinality(1 .. n) = IF 1 > n THEN 0 ELSE n - 1 + 1
    BY <2>1, FS_Interval
  <2>3. Cardinality(1 .. n) = n
    BY <2>1, <2>2
  <2> QED
    BY <2>3 DEF n
<1>5. Cardinality(1 .. Len(p)) <= Cardinality(Clusters)
  BY <1>2, <1>3, FS_Injection
<1> QED
  BY <1>3, <1>4, <1>5

(* A file is on its way out: its entry is deleted in the buffers, and the  *)
(* first i clusters of its chain are free there.                           *)
Leaving(v, g, s, Safe, Lost, i) ==
    /\ Vol(v) /\ Images(v) \subseteq But(g, s) /\ v.cuts \subseteq Safe
    /\ Slot(Cached(v), s).name = "deleted"
    /\ \A t \in SlotNumbers : t # s => Full(Cached(v), g, t)
    /\ \A k \in Clusters : Link(Cached(v), k) # Empty =>
          \/ k \in Lost \/ \E t \in SlotNumbers : t # s /\ InChain(g[t].chain, k)
          \/ \E j \in 1 .. Len(g[s].chain) : i < j /\ g[s].chain[j] = k
    /\ \A j \in 1 .. Len(g[s].chain) : i < j =>
          IF j = Len(g[s].chain) THEN Link(Cached(v), g[s].chain[j]) >= Eof
          ELSE Link(Cached(v), g[s].chain[j]) = g[s].chain[j + 1]

LEMMA LeavingMoves ==
    ASSUME NEW v, NEW g, NEW s \in SlotNumbers, NEW Safe, NEW Lost, NEW i, Leaving(v, g, s, Safe, Lost, i),
           But(g, s) \subseteq Safe, NEW w, Moves(v, w)
    PROVE  Leaving(w, g, s, Safe, Lost, i)
<1>1. Images(w) \subseteq Images(v)
  BY MovesImages
<1>2. w.cuts \subseteq Safe
  BY DEF Leaving, Moves
<1> QED
  BY <1>1, <1>2 DEF Leaving, Moves

LEMMA WholeBut ==
    ASSUME NEW g, NEW s \in SlotNumbers PROVE Whole(g) \subseteq But(g, s)
BY DEF Whole, But, Ok, Fits

LEMMA ButDeleted ==
    ASSUME NEW g, Owns(g), NEW s \in SlotNumbers, NEW x \in But(g, s), NEW e \in SlotEntry, e.name = "deleted",
           Slot(x, s).name # "empty"
    PROVE  SetSlot(x, s, e) \in But(g, s) /\ Slot(SetSlot(x, s, e), s) = e
<1> DEFINE y == SetSlot(x, s, e)
<1>1. x \in Card /\ DirEnds(x) /\ \A t \in SlotNumbers \ {s} : Ok(x, g, t)
  BY DEF But
<1>2. y \in Card
  BY <1>1, SetSlotCard DEF SlotNumbers
<1>3. Slot(y, s) = e /\ \A t \in SlotNumbers : t # s => Slot(y, t) = Slot(x, t)
  BY <1>1, SlotSet
<1>4. \A t \in SlotNumbers \ {s} : Ok(y, g, t)
  BY <1>1, OkSlot
<1> HIDE DEF y
<1>5. DirEnds(y)
  <2> SUFFICES ASSUME NEW r \in SlotNumbers, NEW t \in SlotNumbers, r < t, Slot(y, r).name = "empty"
               PROVE  Slot(y, t).name = "empty"
    BY DEF DirEnds, SlotNumbers
  <2>1. r # s /\ Slot(x, r).name = "empty"
    BY <1>3
  <2>2. Slot(x, t).name = "empty"
    BY <1>1, <2>1 DEF DirEnds, SlotNumbers
  <2> QED
    BY <1>3, <2>2
<1>6. ~Named(y, s)
  BY <1>3, Numbers DEF Named
<1>7. y \in But(g, s)
  BY <1>2, <1>4, <1>5, <1>6 DEF But
<1> QED
  BY <1>3, <1>7 DEF y

LEMMA MarkDeletedDone ==
    ASSUME NEW v, NEW g, NEW kept, NEW Safe, NEW Lost, System(v, g, kept, Safe, Lost), Good(v),
           NEW s \in SlotNumbers, g[s].name \in Names, But(g, s) \subseteq Safe,
           NEW w, w = MarkDeleted(v, s)
    PROVE  /\ Leaving(w, g, s, Safe, Lost, 0) /\ Good(w) /\ Quiet(v, w)
           /\ \A t \in SlotNumbers : t # s => Slot(Cached(w), t) = Slot(Cached(v), t)
<1> DEFINE e == DirectoryEntryCache(v, s)
           d == [Entry(e, s) EXCEPT !.name = "deleted"]
<1>1. Vol(v) /\ Owns(g) /\ Current(Cached(v), g)
  BY DEF System
<1>2. e = CacheData(v, DirSector(s)) /\ DirSector(s) \in DirSectors \cup DataSectors /\ s \in 0 .. ROOT - 1
  <2>1. ~(s >= ROOT)
    BY Numbers DEF SlotNumbers
  <2> QED
    BY <2>1, SectorOf DEF DirectoryEntryCache, SlotNumbers
<1> HIDE DEF e
<1>3. Moves(v, e) /\ Quiet(v, e) /\ Good(e) /\ e.dataSector = DirSector(s)
  BY <1>1, <1>2, CacheDataDone
<1>4. System(e, g, kept, Safe, Lost) /\ Cached(e) = Cached(v)
  BY <1>3, SystemMoves DEF Moves
<1>5. Vol(e) /\ Images(e) \subseteq Card /\ WithData(e) \in Card /\ Cached(e) \in Card
  BY <1>4, ImagesTyped DEF System, Images
<1>6. Entry(e, s) = Slot(Cached(e), s) /\ Slot(Cached(e), s) \in SlotEntry
  BY <1>2, <1>3, <1>5, SlotRead, SlotTyped
<1>7. d \in SlotEntry /\ d.name = "deleted"
  BY <1>6 DEF SlotEntry
<1>8. w = SetEntry(e, s, d)
  BY <1>3 DEF MarkDeleted, Then, e
<1> HIDE DEF d
<1>9. /\ Vol(w) /\ Quiet(e, w) /\ w.err = e.err /\ w.cuts = e.cuts
      /\ w.card = e.card /\ WithFat(w) = WithFat(e)
      /\ WithData(w) = SetSlot(WithData(e), s, d)
      /\ Cached(w) = SetSlot(Cached(e), s, d)
  BY <1>2, <1>3, <1>5, <1>7, <1>8, ChangeSlot
<1>10. Named(Cached(e), s) /\ Slot(Cached(e), s).name # "empty"
  BY <1>1, <1>4, Numbers DEF Current, Full, Named
<1>11. Slot(WithData(e), s).name # "empty"
  BY <1>5, <1>10, HalfImages, SameSlots
<1>12. /\ e.card \in But(g, s) /\ WithFat(e) \in But(g, s) /\ WithData(e) \in But(g, s) /\ Cached(e) \in But(g, s)
  BY <1>4, WholeBut, ImageMembers DEF System
<1>13. /\ SetSlot(WithData(e), s, d) \in But(g, s) /\ SetSlot(Cached(e), s, d) \in But(g, s)
       /\ Slot(SetSlot(Cached(e), s, d), s) = d
  BY <1>1, <1>7, <1>10, <1>11, <1>12, ButDeleted
<1>14. Images(w) \subseteq But(g, s)
  BY <1>9, <1>12, <1>13, ImageMembers
<1>15. /\ SameTable(Cached(w), Cached(e)) /\ \A t \in DataSectors : Cached(w)[t] = Cached(e)[t]
       /\ \A t \in SlotNumbers : t # s => Slot(Cached(w), t) = Slot(Cached(e), t)
  BY <1>5, <1>7, <1>9, SlotSet
<1>16. \A k \in Clusters : Link(Cached(w), k) = Link(Cached(e), k)
  BY <1>15, SameLinks
<1>17. ASSUME NEW t \in SlotNumbers, t # s PROVE Full(Cached(w), g, t)
  <2>1. Full(Cached(e), g, t) /\ (Named(Cached(w), t) <=> Named(Cached(e), t))
    BY <1>4, <1>15, <1>17 DEF System, Current, Named
  <2>2. \A j : InChain(g[t].chain, j) => j \in Clusters
    BY <1>1, ChainIn DEF InChain
  <2>3. \A j : InChain(g[t].chain, j) => Link(Cached(w), j) = Link(Cached(e), j)
    BY <1>16, <2>2
  <2>4. \A j, i : InChain(g[t].chain, j) /\ i \in SectorNumbers
                      => Cached(w)[DataSector(j, i)] = Cached(e)[DataSector(j, i)]
    BY <1>15, <2>2, SectorOf DEF SectorNumbers
  <2>5. g[t].chain \in Seq(Clusters) /\ g[t].bytes \in Seq(Byte)
    BY <1>1 DEF Owns
  <2> QED
    BY <2>1, <2>3, <2>4, <2>5, FullFrame
<1> DEFINE p == g[s].chain
<1>18. Len(p) \in Nat /\ \A j \in 1 .. Len(p) : p[j] \in Clusters
  BY <1>1, ChainIn
<1>19. Runs(Cached(v), p, Len(p))
  BY <1>1 DEF Current, Full
<1>20. ASSUME NEW j \in 1 .. Len(p)
       PROVE  IF j = Len(p) THEN Link(Cached(w), p[j]) >= Eof ELSE Link(Cached(w), p[j]) = p[j + 1]
  <2>1. Link(Cached(w), p[j]) = Link(Cached(v), p[j])
    BY <1>4, <1>16, <1>18
  <2> HIDE DEF p
  <2>2. CASE j = Len(p)
    BY <1>18, <1>19, <2>1, <2>2 DEF Runs
  <2>3. CASE j # Len(p)
    BY <1>18, <1>19, <2>1, <2>3 DEF Runs
  <2> QED
    BY <2>2, <2>3
<1>21. ASSUME NEW k \in Clusters, Link(Cached(w), k) # Empty
       PROVE  \/ k \in Lost \/ \E t \in SlotNumbers : t # s /\ InChain(g[t].chain, k)
              \/ \E j \in 1 .. Len(g[s].chain) : 0 < j /\ g[s].chain[j] = k
  <2>1. k \in Lost \/ \E t \in SlotNumbers : InChain(g[t].chain, k)
    BY <1>4, <1>16, <1>21 DEF System, Tight
  <2> QED
    BY <2>1 DEF InChain
<1>22. w.cuts \subseteq Safe
  BY <1>4, <1>9 DEF System
<1>23. Slot(Cached(w), s).name = "deleted"
  BY <1>7, <1>9, <1>13
<1>24. Leaving(w, g, s, Safe, Lost, 0)
  BY <1>9, <1>14, <1>17, <1>20, <1>21, <1>22, <1>23 DEF Leaving
<1> QED
  BY <1>3, <1>4, <1>9, <1>15, <1>24, QuietOn DEF Good

LEMMA LeavingBuffers ==
    ASSUME NEW v, NEW g, NEW s, NEW Safe, NEW Lost, NEW i, Leaving(v, g, s, Safe, Lost, i),
           NEW w \in Volume, SameBuffers(v, w)
    PROVE  Leaving(w, g, s, Safe, Lost, i) /\ Cached(w) = Cached(v)
<1>1. Moves(v, w) /\ Images(w) = Images(v)
  BY OtherFields DEF Leaving
<1>2. w.cuts \subseteq Safe
  BY DEF Leaving, SameBuffers
<1> QED
  BY <1>1, <1>2 DEF Leaving, Moves

(* One cluster more is free.                                               *)
LEMMA LeaveLink ==
    ASSUME NEW v, NEW g, Owns(g), NEW s \in SlotNumbers, NEW Safe, NEW Lost, NEW i \in Nat,
           Leaving(v, g, s, Safe, Lost, i), Good(v), But(g, s) \subseteq Safe, i < Len(g[s].chain),
           NEW k, k = g[s].chain[i + 1], NEW w, w = FATWrite(v, k, Empty)
    PROVE  /\ Leaving(w, g, s, Safe, Lost, i + 1) /\ Good(w) /\ Quiet(v, w)
           /\ SameRest(Cached(w), Cached(v))
<1> DEFINE p == g[s].chain
<1>1. Len(p) \in Nat /\ i + 1 \in 1 .. Len(p) /\ k \in Clusters /\ InChain(p, k) /\ \A j \in 1 .. Len(p) : p[j] \in Clusters
  BY ChainIn
<1>2. Vol(v) /\ Images(v) \subseteq But(g, s) /\ Cached(v) \in Card /\ Empty \in Word
  BY ImagesTyped DEF Leaving, Images, Empty, Word
<1>3. /\ Vol(w) /\ Good(w) /\ Quiet(v, w)
      /\ w.card \in Images(v) /\ WithData(w) \in {WithData(v), Cached(v)}
      /\ WithFat(w) \in {SetLink(WithFat(v), k, Empty), SetLink(Cached(v), k, Empty)}
      /\ Cached(w) = SetLink(Cached(v), k, Empty)
      /\ w.cuts \subseteq v.cuts \cup Images(v)
  BY <1>1, <1>2, FATWriteDone
<1>4. SetLink(WithFat(v), k, Empty) \in But(g, s) /\ SetLink(Cached(v), k, Empty) \in But(g, s)
  BY <1>1, <1>2, ButLink, ImageMembers
<1>5. Images(w) \subseteq But(g, s)
  BY <1>2, <1>3, <1>4, ImageMembers
<1>6. w.cuts \subseteq Safe
  BY <1>2, <1>3 DEF Leaving
<1>7. Link(Cached(w), k) = Empty /\ (\A j \in Clusters : j # k => Link(Cached(w), j) = Link(Cached(v), j))
      /\ SameRest(Cached(w), Cached(v))
  BY <1>1, <1>2, <1>3, LinkSet
<1>8. (\A t \in SlotNumbers : Slot(Cached(w), t) = Slot(Cached(v), t))
      /\ \A t \in DataSectors : Cached(w)[t] = Cached(v)[t]
  BY <1>7, SameSlots
<1>9. ASSUME NEW t \in SlotNumbers, t # s PROVE Full(Cached(w), g, t)
  <2>1. Full(Cached(v), g, t) /\ (Named(Cached(w), t) <=> Named(Cached(v), t))
    BY <1>8, <1>9 DEF Leaving, Named
  <2>2. \A j : InChain(g[t].chain, j) => j \in Clusters /\ j # k
    <3>1. ~InChain(g[t].chain, k)
      BY <1>1, <1>9 DEF Owns
    <3> SUFFICES ASSUME NEW j, InChain(g[t].chain, j)
                 PROVE  j \in Clusters /\ j # k
      OBVIOUS
    <3>2. j \in Clusters
      BY <1>1, InChainIn
    <3> QED
      BY <3>1, <3>2
  <2>3. \A j : InChain(g[t].chain, j) => Link(Cached(w), j) = Link(Cached(v), j)
    BY <1>7, <2>2
  <2>4. \A j, l : InChain(g[t].chain, j) /\ l \in SectorNumbers
                      => Cached(w)[DataSector(j, l)] = Cached(v)[DataSector(j, l)]
    BY <1>8, <2>2, SectorOf DEF SectorNumbers
  <2>5. g[t].chain \in Seq(Clusters) /\ g[t].bytes \in Seq(Byte)
    BY DEF Owns
  <2> QED
    BY <2>1, <2>3, <2>4, <2>5, FullFrame
<1>10. \A j \in 1 .. Len(p) : i + 1 < j => p[j] # k
  BY <1>1 DEF Owns
<1>11. ASSUME NEW j \in 1 .. Len(p), i + 1 < j
       PROVE  IF j = Len(p) THEN Link(Cached(w), p[j]) >= Eof ELSE Link(Cached(w), p[j]) = p[j + 1]
  <2>1. Link(Cached(w), p[j]) = Link(Cached(v), p[j])
    BY <1>1, <1>7, <1>10, <1>11
  <2>2. i < j
    BY <1>11, <1>1
  <2> QED
    BY <2>1, <2>2 DEF Leaving
<1>12. ASSUME NEW l \in Clusters, Link(Cached(w), l) # Empty
       PROVE  \/ l \in Lost \/ \E t \in SlotNumbers : t # s /\ InChain(g[t].chain, l)
              \/ \E j \in 1 .. Len(p) : i + 1 < j /\ p[j] = l
  <2>1. l # k /\ Link(Cached(v), l) # Empty
    BY <1>7, <1>12
  <2>2. \A j \in 1 .. Len(p) : i < j => j = i + 1 \/ i + 1 < j
    BY <1>1
  <2> QED
    BY <2>1, <2>2 DEF Leaving
<1>13. Slot(Cached(w), s).name = "deleted"
  BY <1>8 DEF Leaving
<1>14. Leaving(w, g, s, Safe, Lost, i + 1)
  BY <1>3, <1>5, <1>6, <1>9, <1>11, <1>12, <1>13 DEF Leaving
<1> QED
  BY <1>3, <1>7, <1>14

(* The clusters that are free, and the one that comes next.                *)
Unlinked(v, g, s, Safe, Lost) ==
    [n \in 0 .. CLUSTERS + 1 |->
        {e \in Volume :
            /\ Good(e) /\ Kept(v, e)
            /\ \A t \in SlotNumbers : Slot(Cached(e), t) = Slot(Cached(v), t)
            /\ \E i \in 0 .. Len(g[s].chain) :
                /\ Leaving(e, g, s, Safe, Lost, i)
                /\ e.found = IF i = Len(g[s].chain) THEN 0 ELSE g[s].chain[i + 1]
                /\ i = Len(g[s].chain) \/ n <= i}]

LEMMA EraseLinkDone ==
    ASSUME NEW v, NEW g, Owns(g), NEW s \in SlotNumbers, NEW Safe, NEW Lost, But(g, s) \subseteq Safe,
           NEW n \in 1 .. CLUSTERS + 1, NEW e \in Unlinked(v, g, s, Safe, Lost)[n - 1],
           NEW w, w = EraseLink(e)
    PROVE  w \in Unlinked(v, g, s, Safe, Lost)[n]
<1> DEFINE p == g[s].chain
<1>0. n - 1 \in 0 .. CLUSTERS + 1 /\ n \in 0 .. CLUSTERS + 1 /\ n \in Nat
  BY Numbers
<1>1. /\ e \in Volume /\ Good(e) /\ Kept(v, e)
      /\ \A t \in SlotNumbers : Slot(Cached(e), t) = Slot(Cached(v), t)
  BY <1>0 DEF Unlinked
<1>2. PICK i \in 0 .. Len(p) :
          /\ Leaving(e, g, s, Safe, Lost, i)
          /\ e.found = IF i = Len(p) THEN 0 ELSE p[i + 1]
          /\ i = Len(p) \/ n - 1 <= i
  BY <1>0 DEF Unlinked
<1>3. Len(p) \in Nat /\ \A j \in 1 .. Len(p) : p[j] \in Clusters
  BY ChainIn
<1>4. CASE i = Len(p)
  <2>1. w = e
    BY <1>2, <1>4 DEF EraseLink
  <2> QED
    BY <1>0, <1>1, <1>2, <1>4, <2>1 DEF Unlinked
<1>5. CASE i # Len(p)
  <2> DEFINE k == p[i + 1]
             r == FATRead(e, k)
             next == r.fat[k]
             u == FATWrite(r, k, Empty)
  <2>1. i < Len(p) /\ i \in Nat /\ i + 1 \in 1 .. Len(p) /\ e.found = k /\ k \in Clusters /\ k # 0 /\ k \in Nat
    BY <1>2, <1>3, <1>5, ClusterWord, SMTT(30) DEF Empty
  <2>2. Vol(e)
    BY <1>2 DEF Leaving
  <2> HIDE DEF p
  <2>3. Moves(e, r) /\ Quiet(e, r) /\ Good(r) /\ r.fatSector = FatSector(k)
    BY <1>1, <2>1, <2>2, FATReadDone
  <2>4. r.found = k /\ Vol(r) /\ Cached(r) = Cached(e)
    BY <2>1, <2>3 DEF Quiet, Moves
  <2>5. next = Link(Cached(e), k)
    BY <2>1, <2>3, <2>4, LinkRead
  <2>6. Leaving(r, g, s, Safe, Lost, i)
    BY <1>2, <2>3, LeavingMoves
  <2>7. IF i + 1 = Len(p) THEN next >= Eof ELSE next = p[i + 2] /\ next \in Clusters
    <3>1. i < i + 1 /\ (i + 1) + 1 = i + 2 /\ (i + 1 # Len(p) => i + 2 \in 1 .. Len(p))
      BY <1>3, <2>1
    <3>2. IF i + 1 = Len(p) THEN Link(Cached(e), p[i + 1]) >= Eof ELSE Link(Cached(e), p[i + 1]) = p[(i + 1) + 1]
      BY <1>2, <2>1, <3>1 DEF Leaving, p
    <3> QED
      BY <1>3, <2>5, <3>1, <3>2
  <2>8. ~(next \in {0, 1})
    BY <2>7, ClusterWord DEF Eof
  <2> HIDE DEF r
  <2>9. w = [FATWrite(r, k, Empty) EXCEPT !.found = IF next >= Eof THEN 0 ELSE next]
    <3>1. w = IF e.found = 0 THEN e
              ELSE Then(FATRead(e, e.found),
                    LAMBDA z : IF z.fat[z.found] \in {0, 1} THEN [z EXCEPT !.found = 0]
                               ELSE [FATWrite(z, z.found, Empty) EXCEPT !.found =
                                        IF z.fat[z.found] >= Eof THEN 0 ELSE z.fat[z.found]])
      BY DEF EraseLink
    <3>2. w = IF r.fat[r.found] \in {0, 1} THEN [r EXCEPT !.found = 0]
                               ELSE [FATWrite(r, r.found, Empty) EXCEPT !.found =
                                        IF r.fat[r.found] >= Eof THEN 0 ELSE r.fat[r.found]]
      BY <2>1, <2>3, <3>1 DEF Then, r
    <3> QED
      BY <2>4, <2>8, <3>2
  <2>10. /\ Leaving(u, g, s, Safe, Lost, i + 1) /\ Good(u) /\ Quiet(r, u)
         /\ SameRest(Cached(u), Cached(r))
    BY <2>1, <2>3, <2>6, LeaveLink DEF p
  <2> HIDE DEF u
  <2>11. u \in Volume
    BY <2>10 DEF Leaving, Vol
  <2> DEFINE to == IF next >= Eof THEN 0 ELSE next
  <2>12. to = (IF i + 1 = Len(p) THEN 0 ELSE p[(i + 1) + 1]) /\ to \in Nat
    <3>1. i + 1 # Len(p) => (i + 1) + 1 = i + 2 /\ ~(next >= Eof) /\ next \in Nat
      BY <2>1, <2>7, ClusterWord DEF EndLimit, Eof
    <3> QED
      BY <2>7, <3>1
  <2> HIDE DEF to, next, k
  <2>13. w = [u EXCEPT !.found = to]
    BY <2>9 DEF u, to
  <2>14. w \in Volume /\ SameBuffers(u, w) /\ Kept(u, w) /\ Good(w) /\ w.found = to
    BY <2>10, <2>11, <2>12, <2>13 DEF Volume, SameBuffers, SameFat, SameData, Kept, Good
  <2>15. Leaving(w, g, s, Safe, Lost, i + 1) /\ Cached(w) = Cached(u)
    BY <2>10, <2>14, LeavingBuffers
  <2>16. Kept(v, w)
    BY <1>1, <2>3, <2>10, <2>14 DEF Kept, Quiet
  <2>17. \A t \in SlotNumbers : Slot(Cached(w), t) = Slot(Cached(v), t)
    BY <1>1, <2>4, <2>10, <2>15, SameSlots
  <2>18. i + 1 \in 0 .. Len(p) /\ (i + 1 = Len(p) \/ n <= i + 1)
    BY <1>0, <1>2, <1>3, <1>5, <2>1
  <2>19. \E j \in 0 .. Len(g[s].chain) :
                /\ Leaving(w, g, s, Safe, Lost, j)
                /\ w.found = IF j = Len(g[s].chain) THEN 0 ELSE g[s].chain[j + 1]
                /\ j = Len(g[s].chain) \/ n <= j
    BY <2>12, <2>14, <2>15, <2>18 DEF p
  <2> QED
    BY <1>0, <2>14, <2>16, <2>17, <2>19 DEF Unlinked
<1> QED
  BY <1>4, <1>5

LEMMA EraseLinksDone ==
    ASSUME NEW v, NEW g, Owns(g), NEW s \in SlotNumbers, NEW Safe, NEW Lost, But(g, s) \subseteq Safe,
           Leaving(v, g, s, Safe, Lost, 0), Good(v),
           NEW c, c = FirstOf(g[s].chain), NEW w, w = EraseLinks(v, c)
    PROVE  /\ Leaving(w, g, s, Safe, Lost, Len(g[s].chain)) /\ Good(w) /\ Kept(v, w)
           /\ \A t \in SlotNumbers : Slot(Cached(w), t) = Slot(Cached(v), t)
<1> DEFINE N == CLUSTERS + 1
           Inv == Unlinked(v, g, s, Safe, Lost)
           first == [v EXCEPT !.found = c]
           next(e) == Then(e, EraseLink)
           Eq(h) == h = [k \in 0 .. N |-> IF k = 0 THEN first ELSE next(h[k - 1])]
           U == UNION {Inv[k] : k \in 0 .. N}
           step == [ks \in (1 .. N) \X U |-> next(ks[2])]
           erased == CHOOSE h : Eq(h)
           p == g[s].chain
<1>0. N \in Nat /\ N # 0 /\ Len(p) \in Nat /\ Len(p) < N /\ \A j \in 1 .. Len(p) : p[j] \in Clusters
  <2>1. p \in Seq(Clusters) /\ \A i, j \in 1 .. Len(p) : p[i] = p[j] => i = j
    BY DEF Owns
  <2>2. Len(p) <= CLUSTERS
    BY <2>1, ChainLength
  <2> QED
    BY <2>2, Numbers, ChainIn
<1>1. first \in Inv[0]
  <2>1. c = IF 0 = Len(p) THEN 0 ELSE p[0 + 1]
    <3>1. p = <<>> <=> Len(p) = 0
      BY ChainIn
    <3> QED
      BY <1>0, <3>1 DEF FirstOf
  <2>2. c \in Nat
    BY <1>0, <2>1, ClusterWord
  <2>3. v \in Volume /\ Vol(v)
    BY DEF Leaving, Vol
  <2>4. first \in Volume /\ SameBuffers(v, first) /\ Kept(v, first) /\ Good(first) /\ first.found = c
    BY <2>2, <2>3 DEF Volume, SameBuffers, SameFat, SameData, Kept, Good
  <2> HIDE DEF first
  <2>5. Leaving(first, g, s, Safe, Lost, 0) /\ Cached(first) = Cached(v)
    BY <2>4, LeavingBuffers
  <2>6. 0 \in 0 .. Len(p) /\ 0 \in 0 .. N /\ 0 <= 0
    BY <1>0
  <2>7. \E j \in 0 .. Len(g[s].chain) :
                /\ Leaving(first, g, s, Safe, Lost, j)
                /\ first.found = IF j = Len(g[s].chain) THEN 0 ELSE g[s].chain[j + 1]
                /\ j = Len(g[s].chain) \/ 0 <= j
    BY <2>1, <2>4, <2>5, <2>6
  <2> QED
    BY <2>4, <2>5, <2>6, <2>7 DEF Unlinked
<1>2. ASSUME NEW k \in 1 .. N, NEW e \in Inv[k - 1] PROVE next(e) \in Inv[k]
  <2>1. k - 1 \in 0 .. N
    BY <1>0
  <2>2. Good(e)
    BY <2>1 DEF Unlinked
  <2>3. next(e) = EraseLink(e)
    BY <2>2 DEF Then
  <2> QED
    BY <2>3, EraseLinkDone
<1> HIDE DEF Inv, next, first
<1>3. \E h : Eq(h)
  <2>1. \A k \in 1 .. N : \A e \in Inv[k - 1] : step[<<k, e>>] = next(e)
    <3> SUFFICES ASSUME NEW k \in 1 .. N, NEW e \in Inv[k - 1] PROVE e \in U
      OBVIOUS
    <3>1. k - 1 \in 0 .. N
      BY <1>0
    <3> QED
      BY <3>1
  <2> HIDE DEF step, U, N
  <2>5. \A k \in 1 .. N : \A e \in Inv[k - 1] : step[<<k, e>>] \in Inv[k]
    BY <1>2, <2>1
  <2>2. PICK h : IsLoop(h, first, step, N) /\ \A k \in 0 .. N : h[k] \in Inv[k]
    BY <1>0, <1>1, <2>5, LoopIn
  <2>3. \A k \in 1 .. N : step[<<k, h[k - 1]>>] = next(h[k - 1])
    BY <1>0, <2>1, <2>2
  <2>4. Eq(h)
    BY <2>2, <2>3 DEF IsLoop
  <2> HIDE DEF Eq
  <2> QED
    BY <2>4
<1>4. Eq(erased)
  <2> HIDE DEF Eq
  <2> QED
    BY <1>3
<1> HIDE DEF erased
<1>5. erased[0] = first /\ \A k \in 1 .. N : erased[k] = next(erased[k - 1])
  BY <1>4, <1>0
<1>6. erased[N] \in Inv[N]
  <2> HIDE DEF Eq, N
  <2>1. \A k \in 1 .. N : erased[k - 1] \in Inv[k - 1] => erased[k] \in Inv[k]
    BY <1>2, <1>5
  <2>2. erased[0] \in Inv[0]
    BY <1>1, <1>5
  <2>3. \A k \in 0 .. N : erased[k] \in Inv[k]
    BY <1>0, <2>1, <2>2, Rounds
  <2> QED
    BY <2>3, <1>0
<1>7. w = erased[N]
  BY DEF EraseLinks, erased, Eq, next, first
<1>8. N \in 0 .. N /\ \A i \in 0 .. Len(p) : ~(N <= i)
  BY <1>0
<1>9. PICK i \in 0 .. Len(p) : Leaving(w, g, s, Safe, Lost, i) /\ i = Len(p)
  BY <1>6, <1>7, <1>8 DEF Inv, Unlinked
<1> QED
  BY <1>6, <1>7, <1>8, <1>9 DEF Inv, Unlinked

(* The slot of a file that is gone.                                        *)
Gone(g, s) ==
    [t \in SlotNumbers |-> IF t = s THEN [name |-> "deleted", chain |-> <<>>, bytes |-> <<>>, kept |-> NoFile] ELSE g[t]]

LEMMA GoneOwns ==
    ASSUME NEW g, Owns(g), NEW s \in SlotNumbers, NEW h, h = Gone(g, s)
    PROVE  /\ Owns(h) /\ \A kept : Keeps(g, kept) /\ (g[s].name \in Names => kept[g[s].name] = NoFile) => Keeps(h, kept)
           /\ h[s].name = "deleted" /\ h[s].kept = NoFile /\ h[s].bytes = <<>> /\ h[s].chain = <<>>
           /\ \A t \in SlotNumbers : t # s => h[t] = g[t]
<1>1. /\ h[s].name = "deleted" /\ h[s].kept = NoFile /\ h[s].bytes = <<>> /\ h[s].chain = <<>>
      /\ \A t \in SlotNumbers : t # s => h[t] = g[t]
  BY DEF Gone
<1>2. h[s].chain \in Seq(Clusters) /\ Len(h[s].chain) = 0 /\ h[s].bytes \in Seq(Byte)
  BY <1>1
<1>3. \A j : ~InChain(h[s].chain, j)
  BY <1>2 DEF InChain
<1>4. Owns(h)
  <2> SUFFICES ASSUME NEW r \in SlotNumbers
      PROVE  /\ h[r].chain \in Seq(Clusters)
             /\ h[r].bytes \in Seq(Byte)
             /\ h[r].name \notin Names => h[r].chain = <<>> /\ h[r].kept = NoFile /\ h[r].bytes = <<>>
             /\ \A i, j \in 1 .. Len(h[r].chain) : h[r].chain[i] = h[r].chain[j] => i = j
             /\ \A t \in SlotNumbers : t # r =>
                 /\ \A j : ~(InChain(h[r].chain, j) /\ InChain(h[t].chain, j))
                 /\ h[r].name \in Names => h[r].name # h[t].name
    BY DEF Owns
  <2>1. CASE r = s
    <3>1. h[s].chain \in Seq(Clusters) /\ h[s].bytes \in Seq(Byte)
      BY <1>2
    <3>2. \A i, j \in 1 .. Len(h[s].chain) : h[s].chain[i] = h[s].chain[j] => i = j
      BY <1>2
    <3>3. h[s].name \notin Names
      BY <1>1, Numbers
    <3>4. h[s].chain = <<>> /\ h[s].kept = NoFile /\ h[s].bytes = <<>>
      BY <1>1
    <3>5. \A t \in SlotNumbers : \A j : ~(InChain(h[s].chain, j) /\ InChain(h[t].chain, j))
      BY <1>3
    <3> QED
      BY <2>1, <3>1, <3>2, <3>3, <3>4, <3>5, Zenon
  <2>2. CASE r # s
    <3>1. h[r] = g[r]
      BY <1>1, <2>2
    <3>2. ASSUME NEW t \in SlotNumbers, t # r
          PROVE /\ \A j : ~(InChain(h[r].chain, j) /\ InChain(h[t].chain, j))
                /\ h[r].name \in Names => h[r].name # h[t].name
      <4>1. CASE t = s
        BY <1>1, <1>3, <4>1, Numbers
      <4>2. CASE t # s
        <5>1. h[t] = g[t]
          BY <1>1, <4>2
        <5> QED
          BY <3>1, <3>2, <5>1 DEF Owns
      <4> QED
        BY <4>1, <4>2
    <3> QED
      BY <3>1, <3>2 DEF Owns
  <2> QED
    BY <2>1, <2>2
<1>5. ASSUME NEW kept, Keeps(g, kept), g[s].name \in Names => kept[g[s].name] = NoFile PROVE Keeps(h, kept)
  <2> SUFFICES ASSUME NEW m \in Names, kept[m] # NoFile
               PROVE \E t \in SlotNumbers : h[t].name = m /\ h[t].kept = kept[m]
    BY DEF Keeps
  <2>1. PICK t \in SlotNumbers : g[t].name = m /\ g[t].kept = kept[m]
    BY <1>5 DEF Keeps
  <2>2. t # s
    BY <1>5, <2>1
  <2> QED
    BY <1>1, <2>1, <2>2
<1> QED
  BY <1>1, <1>4, <1>5

(* With both buffers written, a file that was leaving is gone.             *)
LEMMA LeftDone ==
    ASSUME NEW v, NEW g, Owns(g), NEW s \in SlotNumbers, g[s].name \in Names, NEW Safe, NEW Lost,
           But(g, s) \subseteq Safe,
           Leaving(v, g, s, Safe, Lost, Len(g[s].chain)), \A x \in Images(v) : x = Cached(v),
           NEW kept, Keeps(g, kept), kept[g[s].name] = NoFile, WholeCards(kept) \subseteq Safe
    PROVE  System(v, Gone(g, s), kept, Safe, Lost)
<1> DEFINE h == Gone(g, s)
           C == Cached(v)
<1>1. /\ Owns(h) /\ Keeps(h, kept)
      /\ h[s].name = "deleted" /\ h[s].kept = NoFile /\ h[s].bytes = <<>> /\ h[s].chain = <<>>
      /\ \A t \in SlotNumbers : t # s => h[t] = g[t]
  BY GoneOwns
<1> HIDE DEF h
<1>2. Vol(v) /\ C \in But(g, s) /\ v.cuts \subseteq Safe /\ Slot(C, s).name = "deleted"
  BY ImageMembers DEF Leaving
<1>3. ~Named(C, s)
  BY <1>2, Numbers DEF Named
<1>4. C \in Whole(h)
  <2>1. ASSUME NEW t \in SlotNumbers PROVE Ok(C, h, t)
    <3>1. CASE t = s
      BY <1>1, <1>3, <3>1 DEF Ok, Fits, Holds
    <3>2. CASE t # s
      <4>1. h[t] = g[t] /\ Ok(C, g, t)
        BY <1>1, <1>2, <3>2 DEF But
      <4> QED
        BY <4>1 DEF Ok, Fits, Holds
    <3> QED
      BY <3>1, <3>2
  <2> QED
    BY <1>2, <2>1 DEF Whole, But
<1>5. Current(C, h)
  <2> SUFFICES ASSUME NEW t \in SlotNumbers PROVE Full(C, h, t)
    BY DEF Current
  <2>1. CASE t = s
    <3>1. Len(h[s].bytes) = 0 /\ Len(h[s].chain) = 0 /\ 0 <= 0 * ClusterBytes
      BY <1>1, Numbers, Times DEF ClusterBytes
    <3>2. 1 .. 0 = {} /\ 1 .. 0 - 1 = {} /\ 0 \in 0 .. 0 /\ ~(0 > 0)
      OBVIOUS
    <3>3. Runs(C, h[s].chain, 0)
      BY <1>1, <3>1, <3>2 DEF Runs
    <3> QED
      BY <1>1, <1>3, <2>1, <3>1, <3>2, <3>3, Numbers DEF Full
  <2>2. CASE t # s
    <3>1. h[t] = g[t] /\ Full(C, g, t)
      BY <1>1, <2>2 DEF Leaving
    <3> QED
      BY <3>1 DEF Full
  <2> QED
    BY <2>1, <2>2
<1>6. Tight(C, h, Lost)
  <2> SUFFICES ASSUME NEW k \in Clusters, Link(C, k) # Empty, k \notin Lost
               PROVE  \E t \in SlotNumbers : InChain(h[t].chain, k)
    BY DEF Tight
  <2>1. Len(g[s].chain) \in Nat
    BY ChainIn
  <2>2. ~\E j \in 1 .. Len(g[s].chain) : Len(g[s].chain) < j /\ g[s].chain[j] = k
    BY <2>1
  <2>3. PICK t \in SlotNumbers : t # s /\ InChain(g[t].chain, k)
    BY <2>2 DEF Leaving
  <2> QED
    BY <1>1, <2>3
<1>7. Images(v) \subseteq Whole(h)
  BY <1>4
<1> HIDE DEF C
<1> QED
  BY <1>1, <1>2, <1>4, <1>5, <1>6, <1>7 DEF System, C, h

(* Both buffers are written: every image is what they held.                *)
LEMMA BothFlushed ==
    ASSUME NEW v, NEW u, NEW w, u = FlushData(v), w = FlushFat(u), Vol(v), Good(v)
    PROVE  Moves(v, w) /\ Quiet(v, w) /\ Good(w) /\ Good(u) /\ (\A x \in Images(w) : x = Cached(v)) /\ SameData(u, w)
<1>1. Moves(v, u) /\ Quiet(v, u) /\ Good(u) /\ WithFat(u) = Cached(v) /\ Vol(u)
  BY FlushDataDone DEF Moves
<1>2. Moves(u, w) /\ Quiet(u, w) /\ Good(w) /\ SameData(u, w) /\ \A x \in Images(w) : x = WithFat(u) \/ x = Cached(u)
  BY <1>1, FlushFatImages
<1>3. Cached(u) = Cached(v)
  BY <1>1 DEF Moves
<1> QED
  BY <1>1, <1>2, <1>3, MovesOn, QuietOn

LEMMA EraseFileDone ==
    ASSUME NEW v, NEW g, NEW kept, NEW Safe, NEW Lost, System(v, g, kept, Safe, Lost), Good(v),
           NEW s \in SlotNumbers, g[s].name \in Names, kept[g[s].name] = NoFile, But(g, s) \subseteq Safe,
           v.f.entry = s, v.f.first = FirstOf(g[s].chain), NEW w, w = EraseFile(v)
    PROVE  /\ System(w, Gone(g, s), kept, Safe, Lost) /\ Good(w) /\ Kept(v, w)
           /\ \A t \in SlotNumbers : t # s => Slot(Cached(w), t) = Slot(Cached(v), t)
<1> DEFINE m == MarkDeleted(v, s)
           p == IF s = 0 THEN m ELSE DirectoryEntryCache(m, s - 1)
           c == FirstOf(g[s].chain)
           d == EraseFreed(p, c)
           u == FlushData(Ignoring(d))
           z == FlushFat(u)
<1>1. Owns(g) /\ Keeps(g, kept) /\ WholeCards(kept) \subseteq Safe /\ Vol(v)
  BY DEF System
<1>2. /\ Leaving(m, g, s, Safe, Lost, 0) /\ Good(m) /\ Quiet(v, m)
      /\ \A t \in SlotNumbers : t # s => Slot(Cached(m), t) = Slot(Cached(v), t)
  BY MarkDeletedDone
<1>3. w = EraseWritten(p, c)
  BY <1>2 DEF EraseFile, Then
<1> HIDE DEF m
<1>4. /\ Leaving(p, g, s, Safe, Lost, 0) /\ Good(p) /\ Kept(v, p)
      /\ \A t \in SlotNumbers : t # s => Slot(Cached(p), t) = Slot(Cached(v), t)
  <2>1. CASE s = 0
    BY <1>2, <2>1 DEF Quiet, Kept
  <2>2. CASE s # 0
    <3>1. ~(s - 1 >= ROOT) /\ s - 1 \in 0 .. ROOT - 1
      BY <2>2, Numbers DEF SlotNumbers
    <3>2. p = CacheData(m, DirSector(s - 1)) /\ DirSector(s - 1) \in DirSectors \cup DataSectors
      BY <2>2, <3>1, SectorOf DEF DirectoryEntryCache
    <3> HIDE DEF p
    <3>3. Moves(m, p) /\ Quiet(m, p) /\ Good(p)
      BY <1>2, <3>2, CacheDataDone DEF Leaving
    <3>4. Leaving(p, g, s, Safe, Lost, 0) /\ Cached(p) = Cached(m)
      BY <1>2, <3>3, LeavingMoves DEF Moves
    <3> QED
      BY <1>2, <3>3, <3>4 DEF Quiet, Kept
  <2> QED
    BY <2>1, <2>2
<1> HIDE DEF p
<1>5. /\ Leaving(d, g, s, Safe, Lost, Len(g[s].chain)) /\ Good(d) /\ Kept(v, d)
      /\ \A t \in SlotNumbers : t # s => Slot(Cached(d), t) = Slot(Cached(v), t)
  <2>0. /\ Len(g[s].chain) \in Nat /\ \A j \in 1 .. Len(g[s].chain) : g[s].chain[j] \in Clusters
        /\ g[s].chain = <<>> <=> Len(g[s].chain) = 0
    BY <1>1, ChainIn
  <2>1. CASE c = 0
    <3>1. d = p
      BY <2>1 DEF EraseFreed
    <3>2. Len(g[s].chain) = 0
      BY <2>0, <2>1, ClusterWord DEF FirstOf, Empty
    <3> QED
      BY <1>4, <3>1, <3>2
  <2>2. CASE c # 0
    <3> DEFINE e == EraseLinks(p, c)
               f == FlushFat(e)
    <3>1. c \in Clusters /\ ~(c \in {0, 1})
      BY <2>0, <2>2, ClusterWord DEF FirstOf
    <3>2. /\ Leaving(e, g, s, Safe, Lost, Len(g[s].chain)) /\ Good(e) /\ Kept(p, e)
          /\ \A t \in SlotNumbers : Slot(Cached(e), t) = Slot(Cached(p), t)
      BY <1>1, <1>4, EraseLinksDone
    <3>3. Vol(e) /\ Ignoring(e) = e
      BY <3>2, IgnoringGood DEF Leaving
    <3>4. d = Ignoring(FlushFat(Ignoring(e)))
      BY <1>4, <2>2, <3>1 DEF EraseFreed, EraseClusterChain
    <3> HIDE DEF e
    <3>5. Moves(e, f) /\ Quiet(e, f) /\ Good(f)
      BY <3>2, <3>3, FlushFatDone
    <3> HIDE DEF f
    <3>6. d = f
      BY <3>3, <3>4, <3>5, IgnoringGood DEF f, Moves
    <3>7. Leaving(f, g, s, Safe, Lost, Len(g[s].chain)) /\ Cached(f) = Cached(e)
      BY <3>2, <3>5, LeavingMoves DEF Moves
    <3> QED
      BY <1>4, <3>2, <3>5, <3>6, <3>7 DEF Kept, Quiet
  <2> QED
    BY <2>1, <2>2
<1>6. Vol(d) /\ Ignoring(d) = d
  BY <1>5, IgnoringGood DEF Leaving
<1>7. w = Then(Then(u, FlushFat), LAMBDA y : Failed(y, p.err))
  BY <1>3 DEF EraseWritten
<1> HIDE DEF d
<1>8. /\ Moves(d, z) /\ Quiet(d, z) /\ Good(z) /\ Good(u) /\ \A x \in Images(z) : x = Cached(d)
  BY <1>5, <1>6, BothFlushed
<1>9. w = z
  <2>1. w = [z EXCEPT !.err = p.err]
    BY <1>7, <1>8 DEF Then, Failed
  <2>2. p.err = "none" /\ z.err = "none" /\ z \in Volume
    BY <1>4, <1>8 DEF Good, Moves, Vol
  <2> HIDE DEF z
  <2> QED
    BY <2>1, <2>2 DEF Volume
<1> HIDE DEF z
<1>10. Leaving(z, g, s, Safe, Lost, Len(g[s].chain)) /\ Cached(z) = Cached(d)
  BY <1>5, <1>8, LeavingMoves DEF Moves
<1>11. System(z, Gone(g, s), kept, Safe, Lost)
  BY <1>1, <1>8, <1>10, LeftDone
<1> QED
  BY <1>5, <1>8, <1>9, <1>10, <1>11 DEF Kept, Quiet

-----------------------------------------------------------------------------
(* The position in a file: only the cluster, the sector and the offset of  *)
(* the file object change on the way.                                      *)
SameFile(f, h) ==
    /\ h.first = f.first /\ h.pos = f.pos /\ h.size = f.size /\ h.entry = f.entry
    /\ h.read = f.read /\ h.write = f.write /\ h.open = f.open /\ h.failed = f.failed
Steps(v, w) == SameFile(v.f, w.f) /\ w.count = v.count /\ w.got = v.got

LEMMA StepsOn ==
    ASSUME NEW u, NEW v, NEW w, Steps(u, v), Steps(v, w) PROVE Steps(u, w)
BY DEF Steps, SameFile

LEMMA FollowLinkDone ==
    ASSUME NEW v, Vol(v), Good(v), NEW c \in Clusters, v.f.cluster = c, NEW w, w = FollowLink(v)
    PROVE  /\ Moves(v, w) /\ Steps(v, w) /\ SameData(v, w) /\ w.f.sector = v.f.sector /\ w.f.offset = v.f.offset
           /\ w.f.cluster = Link(Cached(v), c)
           /\ Link(Cached(v), c) \in Clusters => Good(w)
           /\ Link(Cached(v), c) >= Eof => w.err = "eof"
<1> DEFINE r == FATRead(v, c)
           next == Link(Cached(v), c)
<1>1. c \in Nat /\ v \in Volume
  BY ClusterWord DEF Vol
<1>2. Moves(v, r) /\ Quiet(v, r) /\ SameData(v, r) /\ Good(r) /\ r.fatSector = FatSector(c)
  BY <1>1, FATReadDone
<1>3. r.fat[c] = next /\ Cached(r) = Cached(v) /\ r \in Volume /\ Vol(r)
  BY <1>2, LinkRead DEF Moves, Vol
<1>4. next \in Word
  BY LinkTyped, ImagesTyped DEF Images
<1>5. w = [r EXCEPT !.f.cluster = next,
                    !.err = IF next >= Eof THEN "eof" ELSE IF next >= CLUSTERS + 2 THEN "cluster" ELSE "none"]
  BY <1>2, <1>3 DEF FollowLink
<1> HIDE DEF r, next
<1>6. /\ w \in Volume /\ SameBuffers(r, w) /\ w.f = [r.f EXCEPT !.cluster = next]
      /\ w.err = IF next >= Eof THEN "eof" ELSE IF next >= CLUSTERS + 2 THEN "cluster" ELSE "none"
      /\ w.count = r.count /\ w.got = r.got
  <2>1. [r.f EXCEPT !.cluster = next] \in Object
    <3>1. r.f \in Object
      BY <1>3 DEF Volume
    <3>2. next \in Nat
      BY <1>4, WordNat
    <3> QED
      BY <3>1, <3>2 DEF Object
  <2> DEFINE e == IF next >= Eof THEN "eof" ELSE IF next >= CLUSTERS + 2 THEN "cluster" ELSE "none"
             f == [r.f EXCEPT !.cluster = next]
  <2>2. e \in Errors
    BY DEF Errors
  <2>3. w = [r EXCEPT !.f = f, !.err = e]
    BY <1>5
  <2> HIDE DEF e, f
  <2>4. w \in Volume /\ SameBuffers(r, w) /\ w.f = f /\ w.err = e /\ w.count = r.count /\ w.got = r.got
    BY <1>3, <2>1, <2>2, <2>3 DEF Volume, SameBuffers, SameFat, SameData, f
  <2> QED
    BY <2>4 DEF e, f
<1>7. Moves(r, w)
  BY <1>3, <1>6, OtherFields
<1>8. Moves(v, w)
  BY <1>2, <1>7, MovesOn
<1>9. /\ Steps(v, w) /\ w.f.sector = v.f.sector /\ w.f.offset = v.f.offset /\ w.f.cluster = next
  BY <1>2, <1>3, <1>6 DEF Steps, SameFile, Quiet, Volume, Object
<1>10. next \in Clusters => Good(w)
  <2>1. next \in Clusters => ~(next >= Eof) /\ ~(next >= CLUSTERS + 2)
    BY ClusterRange, ClusterWord, Numbers DEF EndLimit, Eof
  <2> QED
    BY <1>6, <2>1 DEF Good
<1>11. next >= Eof => w.err = "eof"
  BY <1>6
<1> QED
  BY <1>2, <1>6, <1>8, <1>9, <1>10, <1>11 DEF SameBuffers, SameData, next

(* Along a chain from its i-th cluster, over its end by one at most.       *)
Following(v, p, i, n) ==
    [k \in 0 .. n |->
        {e \in Volume :
            /\ Moves(v, e) /\ Steps(v, e) /\ SameData(v, e)
            /\ e.f.sector = v.f.sector /\ e.f.offset = v.f.offset
            /\ i + k <= Len(p) => Good(e) /\ e.f.cluster = p[i + k]
            /\ i + k > Len(p) => e.err = "eof" /\ e.f.cluster >= Eof}]

LEMMA FollowingStep ==
    ASSUME NEW v, NEW p \in Seq(Clusters), Runs(Cached(v), p, Len(p)), NEW i \in 1 .. Len(p), NEW n \in Nat,
           i + n <= Len(p) + 1, NEW k \in 1 .. n, NEW e \in Following(v, p, i, n)[k - 1]
    PROVE  Then(e, FollowLink) \in Following(v, p, i, n)[k]
<1> DEFINE c == p[i + (k - 1)]
           w == FollowLink(e)
<1>1. Len(p) \in Nat /\ i + (k - 1) \in 1 .. Len(p) /\ k - 1 \in 0 .. n
  OBVIOUS
<1>2. c \in Clusters
  BY <1>1
<1>3. /\ e \in Volume /\ Moves(v, e) /\ Steps(v, e) /\ SameData(v, e) /\ Good(e) /\ e.f.cluster = c
      /\ e.f.sector = v.f.sector /\ e.f.offset = v.f.offset /\ Vol(e) /\ Cached(e) = Cached(v)
  BY <1>1 DEF Following, Moves
<1> HIDE DEF c, w
<1>4. /\ Moves(e, w) /\ Steps(e, w) /\ SameData(e, w) /\ w.f.sector = e.f.sector /\ w.f.offset = e.f.offset
      /\ w.f.cluster = Link(Cached(e), c)
      /\ Link(Cached(e), c) \in Clusters => Good(w)
      /\ Link(Cached(e), c) >= Eof => w.err = "eof"
  BY <1>2, <1>3, FollowLinkDone DEF w
<1>5. Moves(v, w) /\ Steps(v, w) /\ SameData(v, w) /\ w \in Volume
  <2>1. Moves(v, w) /\ Steps(v, w)
    BY <1>3, <1>4, MovesOn, StepsOn
  <2> QED
    BY <1>3, <1>4, <2>1 DEF SameData, Moves, Vol
<1>6. i + k <= Len(p) => Good(w) /\ w.f.cluster = p[i + k]
  <2> SUFFICES ASSUME i + k <= Len(p) PROVE Good(w) /\ w.f.cluster = p[i + k]
    OBVIOUS
  <2>1. i + (k - 1) \in 1 .. Len(p) - 1 /\ (i + (k - 1)) + 1 = i + k /\ i + k \in 1 .. Len(p)
    BY <1>1
  <2>2. Link(Cached(v), c) = p[i + k] /\ p[i + k] \in Clusters
    BY <2>1 DEF Runs, c
  <2> QED
    BY <1>3, <1>4, <2>2
<1>7. i + k > Len(p) => w.err = "eof" /\ w.f.cluster >= Eof
  <2> SUFFICES ASSUME i + k > Len(p) PROVE w.err = "eof" /\ w.f.cluster >= Eof
    OBVIOUS
  <2>1. i + (k - 1) = Len(p) /\ Len(p) > 0
    BY <1>1
  <2>2. Link(Cached(v), c) >= Eof
    BY <2>1 DEF Runs, c
  <2> QED
    BY <1>3, <1>4, <2>2
<1>8. Then(e, FollowLink) = w
  BY <1>3 DEF Then, w
<1> QED
  BY <1>3, <1>4, <1>5, <1>6, <1>7, <1>8 DEF Following

OnLink(e) == Then(e, FollowLink)

LEMMA NextClusterGetDone ==
    ASSUME NEW v, NEW p \in Seq(Clusters), Runs(Cached(v), p, Len(p)), NEW i \in 1 .. Len(p), NEW n \in Nat,
           NEW m, m = i + n, m <= Len(p) + 1, Vol(v), Good(v), v.f.cluster = p[i], NEW w, w = NextClusterGet(v, n)
    PROVE  /\ Moves(v, w) /\ Steps(v, w) /\ SameData(v, w) /\ w.f.sector = v.f.sector /\ w.f.offset = v.f.offset
           /\ m <= Len(p) => Good(w) /\ w.f.cluster = p[m]
           /\ m > Len(p) => w.err = "eof" /\ w.f.cluster >= Eof
<1> DEFINE Inv == Following(v, p, i, n)
           dom == UNION {Inv[k] : k \in 0 .. n}
           step == [ks \in (1 .. n) \X dom |-> OnLink(ks[2])]
           Eq(f) == f = [k \in 0 .. n |-> IF k = 0 THEN v ELSE OnLink(f[k - 1])]
           moved == CHOOSE f : Eq(f)
<1>1. v \in Inv[0]
  <2>1. v \in Volume /\ Moves(v, v) /\ Steps(v, v) /\ SameData(v, v)
    BY MovesSelf DEF Vol, Steps, SameFile, SameData
  <2>2. i + 0 = i /\ i <= Len(p)
    OBVIOUS
  <2>3. 0 \in 0 .. n
    OBVIOUS
  <2> QED
    BY <2>1, <2>2, <2>3 DEF Following
<1>2. \A k \in 1 .. n : \A e \in Inv[k - 1] : OnLink(e) \in Inv[k]
  BY FollowingStep DEF OnLink
<1>3. \A k \in 1 .. n : \A e \in Inv[k - 1] : step[<<k, e>>] = OnLink(e)
  <2> SUFFICES ASSUME NEW k \in 1 .. n, NEW e \in Inv[k - 1] PROVE step[<<k, e>>] = OnLink(e)
    OBVIOUS
  <2>1. k - 1 \in 0 .. n
    OBVIOUS
  <2>2. e \in dom
    BY <2>1
  <2> QED
    BY <2>2
<1> HIDE DEF step, dom
<1>4. \E f : Eq(f)
  <2>1. PICK f : IsLoop(f, v, step, n) /\ \A k \in 0 .. n : f[k] \in Inv[k]
    <3>1. \A k \in 1 .. n : \A s \in Inv[k - 1] : step[<<k, s>>] \in Inv[k]
      BY <1>2, <1>3
    <3> HIDE DEF Inv
    <3> QED
      BY <1>1, <3>1, LoopIn
  <2>2. \A k \in 1 .. n : step[<<k, f[k - 1]>>] = OnLink(f[k - 1])
    <3>1. \A k \in 1 .. n : k - 1 \in 0 .. n
      OBVIOUS
    <3> HIDE DEF Inv
    <3> QED
      BY <1>3, <2>1, <3>1
  <2>3. \A k \in 0 .. n : k = 0 \/ k \in 1 .. n
    OBVIOUS
  <2>4. f = [k \in 0 .. n |-> IF k = 0 THEN v ELSE step[<<k, f[k - 1]>>]]
    BY <2>1 DEF IsLoop
  <2>5. Eq(f)
    BY <2>2, <2>3, <2>4
  <2> HIDE DEF Eq
  <2> QED
    BY <2>5
<1>5. Eq(moved)
  <2> HIDE DEF Eq
  <2> QED
    BY <1>4
<1>6. w = moved[n]
  BY DEF NextClusterGet, moved, OnLink
<1> HIDE DEF moved, Inv
<1>7. moved[0] = v /\ \A k \in 1 .. n : moved[k] = OnLink(moved[k - 1])
  BY <1>5
<1>8. moved[n] \in Inv[n]
  <2>1. moved[0] \in Inv[0] /\ \A k \in 1 .. n : moved[k - 1] \in Inv[k - 1] => moved[k] \in Inv[k]
    BY <1>1, <1>2, <1>7
  <2>2. \A k \in 0 .. n : moved[k] \in Inv[k]
    BY <2>1, Rounds
  <2> QED
    BY <2>2
<1> QED
  BY <1>6, <1>8 DEF Inv, Following

-----------------------------------------------------------------------------
(* A position is in a cluster of the chain, or, after a read of nothing    *)
(* behind the last cluster, in none.                                       *)
At(f, p, pos) ==
    /\ f.sector \in SectorNumbers /\ f.offset \in 0 .. SECTOR
    /\ \E i \in 1 .. Len(p) : f.cluster = p[i] /\ pos = Place(i, f.sector, f.offset)
Behind(f) == f.cluster >= Eof /\ f.sector = 0 /\ f.offset = 0

Refiled(v, f) == [v EXCEPT !.f = f]

LEMMA Replaced ==
    ASSUME NEW v, Vol(v), NEW f \in Object, SameFile(v.f, f), NEW w, w = Refiled(v, f)
    PROVE  /\ w \in Volume /\ SameBuffers(v, w) /\ Moves(v, w) /\ Steps(v, w) /\ SameData(v, w)
           /\ w.err = v.err /\ w.f = f /\ w.found = v.found /\ Cached(w) = Cached(v)
<1>1. w \in Volume /\ SameBuffers(v, w) /\ w.err = v.err /\ w.f = f /\ w.found = v.found
      /\ w.count = v.count /\ w.got = v.got /\ SameData(v, w)
  BY DEF Vol, Volume, SameBuffers, SameFat, SameData, Refiled
<1>2. Moves(v, w)
  BY <1>1, OtherFields
<1> QED
  BY <1>1, <1>2 DEF Steps, Moves

ReadOn(v) == Advance(v, FALSE)
WriteOn(v) == Advance(v, TRUE)

LEMMA AdvanceOn ==
    ASSUME NEW v, Vol(v), Good(v), NEW p \in Seq(Clusters), Runs(Cached(v), p, Len(p)),
           NEW pos, At(v.f, p, pos), NEW w, w = ReadOn(v)
    PROVE  /\ Moves(v, w) /\ Steps(v, w) /\ SameData(v, w)
           /\ \/ Good(w) /\ At(w.f, p, pos) /\ w.f.offset < SECTOR
              \/ /\ w.err = "eof" /\ Behind(w.f) /\ w.f.sector = 0 /\ w.f.offset = 0
                 /\ v.f.cluster = EndOf(p) /\ Len(p) > 0 /\ pos = Place(Len(p) + 1, 0, 0)
<1>0. v \in Volume /\ v.f \in Object /\ SPC \in Nat \ {0} /\ SECTOR \in Nat \ {0} /\ Len(p) \in Nat
  BY Numbers DEF Vol, Volume
<1>1. PICK i \in 1 .. Len(p) : v.f.cluster = p[i] /\ pos = Place(i, v.f.sector, v.f.offset)
  BY DEF At
<1>2. v.f.sector \in 0 .. SPC - 1 /\ v.f.offset \in 0 .. SECTOR
  BY DEF At, SectorNumbers
<1>9. i \in Nat \ {0} /\ v.f.sector \in Nat /\ v.f.sector + 1 \in Nat /\ v.f.offset \in Nat
  BY <1>0, <1>1, <1>2, SMTT(20)
<1>10. 0 \in SectorNumbers /\ 0 \in 0 .. SECTOR /\ 0 < SECTOR
  BY <1>0 DEF SectorNumbers
<1>3. CASE v.f.offset # SECTOR
  <2>1. w = v
    BY <1>3 DEF Advance, ReadOn
  <2>2. Moves(v, v) /\ Steps(v, v) /\ SameData(v, v)
    BY MovesSelf DEF Steps, SameFile, SameData
  <2>3. v.f.offset < SECTOR
    BY <1>0, <1>2, <1>3
  <2> QED
    BY <2>1, <2>2, <2>3
<1>4. CASE v.f.offset = SECTOR /\ v.f.sector + 1 # SPC
  <2> DEFINE h == [v.f EXCEPT !.offset = 0, !.sector = v.f.sector + 1]
  <2>1. h \in Object /\ SameFile(v.f, h) /\ h.cluster = v.f.cluster /\ h.sector = v.f.sector + 1 /\ h.offset = 0
    BY <1>0, <1>9 DEF Object, SameFile
  <2>2. w = Refiled(v, h)
    BY <1>0, <1>4, <1>10 DEF Advance, ReadOn, Refiled
  <2> HIDE DEF h
  <2>3. Moves(v, w) /\ Steps(v, w) /\ SameData(v, w) /\ w.err = v.err /\ w.f = h
    BY <2>1, <2>2, Replaced
  <2>4. Place(i, v.f.sector, SECTOR) = Place(i, v.f.sector + 1, 0)
    BY <1>0, <1>9, PlaceNumber
  <2>5. h.sector \in SectorNumbers /\ h.offset \in 0 .. SECTOR /\ 0 < SECTOR
    BY <1>0, <1>2, <1>4, <2>1 DEF SectorNumbers
  <2>6. At(h, p, pos)
    BY <1>1, <1>4, <2>1, <2>4, <2>5 DEF At
  <2> QED
    BY <2>1, <2>3, <2>5, <2>6 DEF Good
<1>5. CASE v.f.offset = SECTOR /\ v.f.sector + 1 = SPC
  <2> DEFINE h == [v.f EXCEPT !.offset = 0, !.sector = 0]
             u == Refiled(v, h)
             m == i + 1
  <2>1. h \in Object /\ SameFile(v.f, h) /\ h.cluster = v.f.cluster /\ h.sector = 0 /\ h.offset = 0
    BY <1>0 DEF Object, SameFile
  <2>2. u = [v EXCEPT !.f.offset = 0, !.f.sector = 0]
    BY DEF Refiled
  <2>3. w = NextClusterGet(u, 1)
    BY <1>5, <2>2 DEF Advance, ReadOn
  <2> HIDE DEF h
  <2>4. Moves(v, u) /\ Steps(v, u) /\ SameData(v, u) /\ u.err = v.err /\ u.f = h /\ Cached(u) = Cached(v)
    BY <2>1, Replaced
  <2> HIDE DEF u
  <2>5. /\ Moves(u, w) /\ Steps(u, w) /\ SameData(u, w) /\ w.f.sector = u.f.sector /\ w.f.offset = u.f.offset
        /\ m <= Len(p) => Good(w) /\ w.f.cluster = p[m]
        /\ m > Len(p) => w.err = "eof" /\ w.f.cluster >= Eof
    <3>1. Vol(u) /\ Good(u) /\ u.f.cluster = p[i] /\ Runs(Cached(u), p, Len(p)) /\ 1 \in Nat
      BY <1>1, <2>1, <2>4 DEF Moves, Good
    <3>2. m = i + 1 /\ m <= Len(p) + 1
      BY <1>0
    <3> HIDE DEF m
    <3> QED
      BY <1>1, <2>3, <3>1, <3>2, NextClusterGetDone
  <2>6. Moves(v, w) /\ Steps(v, w) /\ SameData(v, w)
    <3>1. Moves(v, w) /\ Steps(v, w)
      BY <2>4, <2>5, MovesOn, StepsOn
    <3> QED
      BY <2>4, <2>5, <3>1 DEF SameData
  <2>7. w.f.sector = 0 /\ w.f.offset = 0 /\ 0 \in SectorNumbers /\ 0 \in 0 .. SECTOR /\ 0 < SECTOR
    BY <1>10, <2>1, <2>4, <2>5
  <2>8. pos = Place(i + 1, 0, 0)
    <3>1. Place(i, v.f.sector, SECTOR) = Place(i, v.f.sector + 1, 0)
      BY <1>0, <1>9, PlaceNumber
    <3>2. Place(i, SPC, 0) = Place(i + 1, 0, 0)
      BY <1>0, <1>9, PlaceNumber
    <3> QED
      BY <1>1, <1>5, <3>1, <3>2
  <2>9. CASE m <= Len(p)
    <3>1. m \in 1 .. Len(p) /\ pos = Place(m, 0, 0)
      BY <1>0, <2>8, <2>9
    <3> HIDE DEF m
    <3>2. At(w.f, p, pos)
      BY <2>5, <2>7, <2>9, <3>1 DEF At
    <3> QED
      BY <2>5, <2>6, <2>7, <2>9, <3>2
  <2>10. CASE m > Len(p)
    <3>1. i = Len(p) /\ Len(p) > 0
      BY <1>0, <2>10
    <3>2. v.f.cluster = EndOf(p) /\ pos = Place(Len(p) + 1, 0, 0)
      BY <1>1, <2>8, <3>1 DEF EndOf
    <3>3. w.err = "eof" /\ Behind(w.f)
      BY <2>5, <2>7, <2>10 DEF Behind
    <3> QED
      BY <2>6, <2>7, <3>1, <3>2, <3>3
  <2> QED
    BY <1>0, <2>9, <2>10
<1> QED
  BY <1>3, <1>4, <1>5

(* For a program that writes, the chain grows where it ends.               *)
AdvanceGrown(v, w, g, h, s, pos) ==
    /\ Longer(g, h, s) /\ Steps(v, w) /\ SameData(v, w) /\ SameRest(Cached(w), Cached(v))
    /\ Good(w) => At(w.f, h[s].chain, pos) /\ w.f.offset < SECTOR

LEMMA AdvanceGrows ==
    ASSUME NEW v, NEW g, NEW kept, NEW Safe, NEW Lost, System(v, g, kept, Safe, Lost), Good(v),
           NEW s \in SlotNumbers, g[s].name \in Names, NEW pos, At(v.f, g[s].chain, pos),
           NEW w, w = WriteOn(v)
    PROVE  \E h : System(w, h, kept, Safe, Lost) /\ AdvanceGrown(v, w, g, h, s, pos)
<1> DEFINE p == g[s].chain
           a == ReadOn(v)
<1>1. Vol(v) /\ Owns(g) /\ p \in Seq(Clusters) /\ Len(p) \in Nat /\ Runs(Cached(v), p, Len(p))
  BY ChainIn DEF System, Current, Full
<1>2. /\ Moves(v, a) /\ Steps(v, a) /\ SameData(v, a)
      /\ \/ Good(a) /\ At(a.f, p, pos) /\ a.f.offset < SECTOR
         \/ /\ a.err = "eof" /\ Behind(a.f) /\ a.f.sector = 0 /\ a.f.offset = 0
            /\ v.f.cluster = EndOf(p) /\ Len(p) > 0 /\ pos = Place(Len(p) + 1, 0, 0)
  <2>1. At(v.f, p, pos)
    OBVIOUS
  <2> HIDE DEF p
  <2> QED
    BY <1>1, <2>1, AdvanceOn
<1>3. System(a, g, kept, Safe, Lost) /\ Cached(a) = Cached(v) /\ Vol(a) /\ a \in Volume
  BY <1>2, SystemMoves DEF Moves, Vol
<1>4. w = IF a.err = "eof" THEN ClusterAllocate([Ignoring(a) EXCEPT !.f.cluster = v.f.cluster], v.f.cluster) ELSE a
  BY DEF Advance, ReadOn, WriteOn, Good
<1> HIDE DEF a
<1>5. CASE Good(a)
  <2>1. w = a
    BY <1>4, <1>5 DEF Good
  <2>2. Longer(g, g, s) /\ SameRest(Cached(w), Cached(v))
    BY <1>1, <1>3, <2>1, LongerSelf DEF SameRest
  <2> QED
    BY <1>2, <1>3, <1>5, <2>1, <2>2 DEF AdvanceGrown, Good
<1>6. CASE ~Good(a)
  <2> DEFINE c == v.f.cluster
             f == [a.f EXCEPT !.cluster = c]
             u == [a EXCEPT !.f = f, !.err = "none"]
  <2>1. /\ a.err = "eof" /\ a.f.sector = 0 /\ a.f.offset = 0 /\ c = EndOf(p) /\ Len(p) > 0
        /\ pos = Place(Len(p) + 1, 0, 0)
    BY <1>2, <1>6
  <2>2. c \in Nat /\ f \in Object /\ SameFile(a.f, f) /\ f.cluster = c /\ f.sector = 0 /\ f.offset = 0
    BY <1>1, <1>3, <2>1 DEF Vol, Volume, Object, SameFile
  <2>3. u = [Ignoring(a) EXCEPT !.f.cluster = c]
    BY DEF Ignoring
  <2> HIDE DEF f
  <2>4. /\ u \in Volume /\ SameBuffers(a, u) /\ Steps(a, u) /\ SameData(a, u) /\ Good(u) /\ u.f = f
    BY <1>3, <2>2 DEF Volume, SameBuffers, SameFat, SameData, Good, Errors, Steps
  <2> HIDE DEF u, c
  <2>5. System(u, g, kept, Safe, Lost) /\ Cached(u) = Cached(a)
    BY <1>3, <2>4, SystemBuffers
  <2>6. w = ClusterAllocate(u, c)
    BY <1>4, <2>1, <2>3 DEF c
  <2>7. Steps(v, u) /\ SameData(v, u) /\ Cached(u) = Cached(v)
    <3>1. Steps(v, u)
      BY <1>2, <2>4, StepsOn
    <3> QED
      BY <1>2, <1>3, <2>4, <2>5, <3>1 DEF SameData
  <2>8. \/ /\ System(w, g, kept, Safe, Lost) /\ w.err = "full" /\ Cached(w) = Cached(u)
           /\ w.f = u.f /\ w.count = u.count /\ w.got = u.got /\ SameData(u, w)
        \/ \E h : Allocated(u, w, g, h, s) /\ System(w, h, kept, Safe, Lost)
    BY <2>1, <2>4, <2>5, <2>6, AllocateDone
  <2>9. CASE /\ System(w, g, kept, Safe, Lost) /\ w.err = "full" /\ Cached(w) = Cached(u)
             /\ w.f = u.f /\ w.count = u.count /\ w.got = u.got /\ SameData(u, w)
    <3>1. Steps(v, w) /\ SameData(v, w) /\ SameRest(Cached(w), Cached(v)) /\ ~Good(w)
      BY <2>7, <2>9 DEF Steps, SameData, SameRest, Good
    <3>2. Longer(g, g, s)
      BY <1>1, LongerSelf
    <3> QED
      BY <2>9, <3>1, <3>2 DEF AdvanceGrown
  <2>10. CASE \E h : Allocated(u, w, g, h, s) /\ System(w, h, kept, Safe, Lost)
    <3>1. PICK h : Allocated(u, w, g, h, s) /\ System(w, h, kept, Safe, Lost)
      BY <2>10
    <3> DEFINE q == h[s].chain
    <3>2. /\ Good(w) /\ Longer(g, h, s) /\ Len(q) = Len(p) + 1 /\ w.f = [u.f EXCEPT !.cluster = q[Len(q)]]
          /\ w.count = u.count /\ w.got = u.got /\ SameRest(Cached(w), Cached(u)) /\ SameData(u, w)
      BY <3>1 DEF Allocated
    <3> HIDE DEF q
    <3>3. SameFile(u.f, w.f) /\ w.f.cluster = q[Len(q)] /\ w.f.sector = 0 /\ w.f.offset = 0
      BY <2>2, <2>4, <3>2 DEF Object, SameFile
    <3>4. Steps(u, w)
      BY <3>2, <3>3 DEF Steps
    <3>5. Steps(v, w) /\ SameData(v, w) /\ SameRest(Cached(w), Cached(v))
      <4>1. Steps(v, w)
        BY <2>7, <3>4, StepsOn
      <4> QED
        BY <2>7, <3>2, <4>1 DEF SameData
    <3>6. /\ Len(q) \in 1 .. Len(q) /\ Len(q) = Len(p) + 1 /\ 0 \in SectorNumbers /\ 0 \in 0 .. SECTOR
          /\ 0 < SECTOR
      BY <1>1, <3>2, Numbers DEF SectorNumbers
    <3>7. At(w.f, q, pos)
      BY <2>1, <3>3, <3>6 DEF At
    <3> QED
      BY <3>1, <3>2, <3>3, <3>5, <3>6, <3>7 DEF AdvanceGrown, q
  <2> QED
    BY <2>8, <2>9, <2>10
<1> QED
  BY <1>5, <1>6

-----------------------------------------------------------------------------
(* The sector of the position is in the buffer.                            *)
HereRead(v) == Here(v, FALSE)
HereWrite(v) == Here(v, TRUE)
Stands(f, p, pos) == At(f, p, pos) \/ Behind(f)

LEMMA SectorAt ==
    ASSUME NEW v, NEW p \in Seq(Clusters), NEW pos, At(v.f, p, pos)
    PROVE  Sector(v) \in DataSectors /\ Sector(v) \in DirSectors \cup DataSectors
<1>1. PICK i \in 1 .. Len(p) : v.f.cluster = p[i]
  BY DEF At
<1>2. p[i] \in Clusters /\ v.f.sector \in 0 .. SPC - 1
  BY <1>1 DEF At, SectorNumbers
<1> QED
  BY <1>1, <1>2, SectorOf DEF Sector

LEMMA SectorBehind ==
    ASSUME NEW v, v.f.cluster \in Nat, Behind(v.f)
    PROVE  Sector(v) \notin CardSectors /\ Sector(v) # None
<1>1. v.f.sector \in 0 .. SPC - 1
  BY Numbers DEF Behind
<1>2. Sector(v) = DataSector(v.f.cluster, v.f.sector) /\ v.f.cluster >= Eof
  BY DEF Sector, Behind
<1>3. Sector(v) \notin CardSectors
  BY <1>1, <1>2, BehindTheData
<1>4. Sector(v) # None
  BY <1>2 DEF DataSector, None
<1> QED
  BY <1>3, <1>4

LEMMA HereReadDone ==
    ASSUME NEW v, Vol(v), Good(v), NEW p \in Seq(Clusters), Runs(Cached(v), p, Len(p)),
           NEW pos, Stands(v.f, p, pos), NEW w, w = HereRead(v)
    PROVE  /\ Moves(v, w) /\ Steps(v, w)
           /\ \/ Good(w) /\ At(w.f, p, pos) /\ w.f.offset < SECTOR /\ w.dataSector = Sector(w)
              \/ ~Good(w) /\ Behind(w.f)
<1> DEFINE a == ReadOn(v)
<1>1. w = Then(a, LAMBDA there : CacheData(there, Sector(there)))
  BY DEF HereRead, Here, ReadOn
<1>2. v.f.cluster \in Nat
  BY DEF Vol, Volume, Object
<1>3. CASE Behind(v.f)
  <2>1. a = v
    BY <1>3, Numbers DEF ReadOn, Advance, Behind
  <2>2. w = CacheData(v, Sector(v))
    BY <1>1, <2>1 DEF Then
  <2>3. Moves(v, w) /\ Quiet(v, w) /\ ~Good(w)
    BY <1>2, <1>3, <2>2, SectorBehind, CacheDataFails
  <2> QED
    BY <1>3, <2>3 DEF Quiet, Steps, SameFile
<1>4. CASE At(v.f, p, pos)
  <2>1. /\ Moves(v, a) /\ Steps(v, a)
        /\ \/ Good(a) /\ At(a.f, p, pos) /\ a.f.offset < SECTOR
           \/ a.err = "eof" /\ Behind(a.f)
    <3> HIDE DEF a
    <3>1. a = ReadOn(v)
      BY DEF a
    <3> QED
      BY <1>4, <3>1, AdvanceOn
  <2> HIDE DEF a
  <2>2. CASE a.err = "eof" /\ Behind(a.f)
    <3>1. w = a /\ ~Good(w)
      BY <1>1, <2>2 DEF Then, Good
    <3> QED
      BY <2>1, <2>2, <3>1
  <2>3. CASE Good(a) /\ At(a.f, p, pos) /\ a.f.offset < SECTOR
    <3>1. w = CacheData(a, Sector(a))
      BY <1>1, <2>3 DEF Then
    <3>2. Vol(a)
      BY <2>1 DEF Moves
    <3>3. Sector(a) \in DirSectors \cup DataSectors
      BY <2>3, SectorAt
    <3>4. Moves(a, w) /\ Quiet(a, w) /\ Good(w) /\ w.dataSector = Sector(a)
      BY <2>3, <3>1, <3>2, <3>3, CacheDataDone
    <3>5. w.f = a.f /\ Steps(a, w) /\ Sector(w) = Sector(a)
      BY <3>4 DEF Quiet, Steps, SameFile, Sector
    <3>6. Moves(v, w) /\ Steps(v, w)
      BY <2>1, <3>4, <3>5, MovesOn, StepsOn
    <3> QED
      BY <2>3, <3>4, <3>5, <3>6
  <2> QED
    BY <2>1, <2>2, <2>3
<1> QED
  BY <1>3, <1>4 DEF Stands

HereGrown(v, w, g, h, s, pos) ==
    /\ Longer(g, h, s) /\ Steps(v, w) /\ SameRest(Cached(w), Cached(v))
    /\ Good(w) => At(w.f, h[s].chain, pos) /\ w.f.offset < SECTOR /\ w.dataSector = Sector(w)

LEMMA HereWriteDone ==
    ASSUME NEW v, NEW g, NEW kept, NEW Safe, NEW Lost, System(v, g, kept, Safe, Lost), Good(v),
           NEW s \in SlotNumbers, g[s].name \in Names, NEW pos, Stands(v.f, g[s].chain, pos),
           NEW w, w = HereWrite(v)
    PROVE  \E h : System(w, h, kept, Safe, Lost) /\ HereGrown(v, w, g, h, s, pos)
<1> DEFINE a == WriteOn(v)
<1>1. w = Then(a, LAMBDA there : CacheData(there, Sector(there)))
  BY DEF HereWrite, Here, WriteOn
<1>2. v.f.cluster \in Nat /\ Vol(v) /\ Owns(g)
  BY DEF System, Vol, Volume, Object
<1>3. CASE Behind(v.f)
  <2>1. a = v
    BY <1>3, Numbers DEF WriteOn, Advance, Behind
  <2>2. w = CacheData(v, Sector(v))
    BY <1>1, <2>1 DEF Then
  <2>3. Moves(v, w) /\ Quiet(v, w) /\ ~Good(w)
    BY <1>2, <1>3, <2>2, SectorBehind, CacheDataFails
  <2>4. System(w, g, kept, Safe, Lost) /\ Longer(g, g, s) /\ Steps(v, w)
    BY <1>2, <2>3, SystemMoves, LongerSelf DEF Quiet, Steps, SameFile
  <2>5. SameRest(Cached(w), Cached(v))
    BY <2>3 DEF Moves, SameRest
  <2> QED
    BY <2>3, <2>4, <2>5 DEF HereGrown
<1>4. CASE At(v.f, g[s].chain, pos)
  <2>1. PICK h : System(a, h, kept, Safe, Lost) /\ AdvanceGrown(v, a, g, h, s, pos)
    <3> HIDE DEF a
    <3>1. a = WriteOn(v)
      BY DEF a
    <3> QED
      BY <1>4, <3>1, AdvanceGrows
  <2> HIDE DEF a
  <2>2. /\ Longer(g, h, s) /\ Steps(v, a) /\ SameRest(Cached(a), Cached(v))
        /\ Good(a) => At(a.f, h[s].chain, pos) /\ a.f.offset < SECTOR
    BY <2>1 DEF AdvanceGrown
  <2>3. CASE ~Good(a)
    <3>1. w = a
      BY <1>1, <2>3 DEF Then
    <3> QED
      BY <2>1, <2>2, <2>3, <3>1 DEF HereGrown
  <2>4. CASE Good(a)
    <3>1. w = CacheData(a, Sector(a))
      BY <1>1, <2>4 DEF Then
    <3>2. Vol(a) /\ Owns(h)
      BY <2>1 DEF System
    <3>3. Sector(a) \in DirSectors \cup DataSectors
      <4>1. h[s].chain \in Seq(Clusters)
        BY <3>2, ChainIn
      <4> QED
        BY <2>2, <2>4, <4>1, SectorAt
    <3>4. Moves(a, w) /\ Quiet(a, w) /\ Good(w) /\ w.dataSector = Sector(a)
      BY <2>4, <3>1, <3>2, <3>3, CacheDataDone
    <3>5. w.f = a.f /\ Steps(a, w) /\ Sector(w) = Sector(a)
      BY <3>4 DEF Quiet, Steps, SameFile, Sector
    <3>6. System(w, h, kept, Safe, Lost) /\ Steps(v, w)
      BY <2>1, <2>2, <3>4, <3>5, SystemMoves, StepsOn
    <3>7. SameRest(Cached(w), Cached(v))
      BY <2>2, <3>4 DEF Moves
    <3> QED
      BY <2>2, <2>4, <3>4, <3>5, <3>6, <3>7 DEF HereGrown
  <2> QED
    BY <2>3, <2>4
<1> QED
  BY <1>3, <1>4 DEF Stands

-----------------------------------------------------------------------------
(* A sector of a file is written from an offset on.                        *)
Over(x, y, p, i, t, o, page) ==
    /\ y = SetPage(x, DataSector(p[i], t), page) /\ page \in DataPages
    /\ \A k \in 0 .. SECTOR - 1 : k < o => page[k] = x[DataSector(p[i], t)][k]

Injective(p) == \A i, j \in 1 .. Len(p) : p[i] = p[j] => i = j

LEMMA BytesOver ==
    ASSUME NEW p \in Seq(Clusters), Injective(p),
           NEW i \in 1 .. Len(p), NEW t \in SectorNumbers, NEW o \in 0 .. SECTOR - 1,
           NEW x \in Card, NEW y, NEW page, Over(x, y, p, i, t, o, page),
           NEW pos, pos = Place(i, t, o)
    PROVE  /\ \A j \in Nat : j < pos => ByteAt(y, p, j) = ByteAt(x, p, j)
           /\ \A k \in Nat : o + k < SECTOR => ByteAt(y, p, pos + k) = page[o + k]
<1> DEFINE s == DataSector(p[i], t)
<1>0. /\ SPC \in Nat \ {0} /\ SECTOR \in Nat \ {0} /\ Len(p) \in Nat /\ i \in Nat \ {0} /\ i \in Nat
      /\ t \in 0 .. SPC - 1 /\ t \in Nat /\ o \in Nat /\ p[i] \in Clusters /\ p[i] \in Nat
  BY Numbers, ClusterWord DEF SectorNumbers
<1>1. s \in DataSectors /\ y = SetPage(x, s, page) /\ page \in DataPages
  BY <1>0, SectorOf DEF Over
<1>2. y \in Card /\ y[s] = page /\ \A r \in DataSectors : r # s => y[r] = x[r]
  BY <1>1, PageSet
<1>3. ASSUME NEW j \in Nat, j < pos PROVE ByteAt(y, p, j) = ByteAt(x, p, j)
  <2> DEFINE c == ClusterOf(j)
             r == SectorIn(j)
             b == OffsetIn(j)
  <2>1. c \in Nat \ {0} /\ r \in 0 .. SPC - 1 /\ b \in 0 .. SECTOR - 1 /\ j = Place(c, r, b)
    BY PlaceOf
  <2> HIDE DEF c, r, b
  <2>2. c <= i
    <3>1. Place(i, t, o) < i * ClusterBytes
      <4>1. o \in 0 .. SECTOR /\ o < SECTOR /\ i <= i
        BY <1>0
      <4> QED
        BY <1>0, <4>1, PlaceBound
    <3>2. i * ClusterBytes \in Nat /\ Place(i, t, o) \in Nat
      BY <1>0, Times, PlaceNumber DEF ClusterBytes
    <3>3. j < i * ClusterBytes
      BY <1>3, <3>1, <3>2
    <3>4. b \in 0 .. SECTOR
      BY <1>0, <2>1
    <3> QED
      BY <1>0, <2>1, <3>3, <3>4, PlaceBound
  <2>3. c \in 1 .. Len(p) /\ p[c] \in Clusters /\ p[c] \in Nat
    <3>1. c \in 1 .. Len(p)
      BY <1>0, <2>1, <2>2
    <3> QED
      BY <3>1, ClusterWord
  <2>4. DataSector(p[c], r) \in DataSectors
    BY <2>1, <2>3, SectorOf
  <2>5. ByteAt(y, p, j) = y[DataSector(p[c], r)][b] /\ ByteAt(x, p, j) = x[DataSector(p[c], r)][b]
    BY DEF ByteAt, c, r, b
  <2>6. CASE DataSector(p[c], r) # s
    BY <1>2, <2>4, <2>5, <2>6
  <2>7. CASE DataSector(p[c], r) = s
    <3>1. p[c] = p[i] /\ r = t
      BY <1>0, <2>1, <2>3, <2>7, DataSectorOnce, SMTT(20)
    <3>2. c = i
      BY <2>3, <3>1 DEF Injective
    <3>3. /\ Place(i, t, b) = (i - 1) * ClusterBytes + t * SECTOR + b
          /\ Place(i, t, o) = (i - 1) * ClusterBytes + t * SECTOR + o
      <4>1. b \in Nat /\ o \in Nat /\ t \in Nat /\ i \in Nat \ {0}
        BY <1>0, <2>1
      <4> QED
        BY <4>1, PlaceSum
    <3>4. (i - 1) * ClusterBytes \in Nat /\ t * SECTOR \in Nat
      <4>1. i - 1 \in Nat /\ ClusterBytes \in Nat
        BY <1>0, Times DEF ClusterBytes
      <4> QED
        BY <1>0, <4>1, Times
    <3>5. Place(i, t, b) < Place(i, t, o)
      BY <1>3, <2>1, <3>1, <3>2
    <3> DEFINE A == (i - 1) * ClusterBytes
               B == t * SECTOR
    <3>6. A \in Nat /\ B \in Nat /\ A + B + b < A + B + o
      BY <3>3, <3>4, <3>5
    <3> HIDE DEF A, B
    <3>7. b < o
      BY <1>0, <2>1, <3>6
    <3>8. page[b] = x[s][b]
      BY <2>1, <3>7 DEF Over
    <3> QED
      BY <1>2, <2>5, <2>7, <3>8
  <2> QED
    BY <2>6, <2>7
<1>4. ASSUME NEW k \in Nat, o + k < SECTOR PROVE ByteAt(y, p, pos + k) = page[o + k]
  <2> DEFINE j == pos + k
             b == o + k
  <2>1. b \in 0 .. SECTOR - 1 /\ j = Place(i, t, b) /\ j \in Nat
    <3>1. b \in 0 .. SECTOR - 1 /\ b \in Nat
      BY <1>0, <1>4
    <3>2. Place(i, t, o + k) = Place(i, t, o) + k /\ Place(i, t, o) \in Nat
      <4>1. i \in Nat \ {0} /\ t \in Nat /\ o \in Nat /\ k \in Nat
        BY <1>0, <1>4
      <4> HIDE DEF s, j, b
      <4>2. Place(i, t, o) \in Nat
        BY <4>1, PlaceMore
      <4>3. Place(i, t, o + k) = Place(i, t, o) + k
        BY <4>1, PlaceMore
      <4> QED
        BY <4>2, <4>3
    <3> QED
      BY <3>1, <3>2
  <2> HIDE DEF j, b
  <2> DEFINE c == ClusterOf(j)
             r == SectorIn(j)
             d == OffsetIn(j)
  <2>2. c \in Nat \ {0} /\ r \in 0 .. SPC - 1 /\ d \in 0 .. SECTOR - 1 /\ j = Place(c, r, d)
    BY <2>1, PlaceOf
  <2>3. c = i /\ r = t /\ d = b
    <3> HIDE DEF c, r, d
    <3>1. Place(c, r, d) = Place(i, t, b)
      BY <2>1, <2>2
    <3>2. c \in Nat \ {0} /\ r \in 0 .. SPC - 1 /\ d \in 0 .. SECTOR - 1
      BY <2>2
    <3>3. i \in Nat \ {0} /\ t \in 0 .. SPC - 1 /\ b \in 0 .. SECTOR - 1
      BY <1>0, <2>1
    <3> QED
      BY <3>1, <3>2, <3>3, PlaceOnce, SMTT(30)
  <2>4. ByteAt(y, p, j) = y[s][b]
    BY <2>3 DEF ByteAt
  <2> QED
    BY <1>2, <2>4 DEF j, b
<1> QED
  BY <1>3, <1>4

(* What is behind the bytes that are kept may be written.                  *)
KeptBefore(g, s, pos) == g[s].kept # NoFile => Len(g[s].kept) <= pos
OverIn(x, y, g, s, i, t, o, page) ==
    /\ Over(x, y, g[s].chain, i, t, o, page)
    /\ i \in 1 .. Len(g[s].chain) /\ t \in SectorNumbers /\ o \in 0 .. SECTOR - 1

LEMMA OverWhole ==
    ASSUME NEW g, Owns(g), NEW s \in SlotNumbers, NEW x \in Whole(g), NEW y,
           NEW i, NEW t, NEW o, NEW page, OverIn(x, y, g, s, i, t, o, page), KeptBefore(g, s, Place(i, t, o))
    PROVE  y \in Whole(g) /\ SameTable(y, x) /\ \A slot \in SlotNumbers : Slot(y, slot) = Slot(x, slot)
<1> DEFINE p == g[s].chain
           k == p[i]
<1>0. i \in 1 .. Len(p) /\ t \in SectorNumbers /\ o \in 0 .. SECTOR - 1 /\ Over(x, y, p, i, t, o, page)
  BY DEF OverIn
<1>1. p \in Seq(Clusters) /\ Injective(p) /\ k \in Clusters /\ InChain(p, k) /\ Len(p) \in Nat
  BY <1>0, ChainIn DEF Owns, InChain, Injective
<1>2. x \in Card /\ DirEnds(x) /\ page \in DataPages /\ y = SetPage(x, DataSector(k, t), page)
  BY <1>0 DEF Whole, Over
<1>3. DataSector(k, t) \in DataSectors
  BY <1>0, <1>1, SectorOf DEF SectorNumbers
<1>4. y \in Card /\ SameTable(y, x) /\ \A slot \in SlotNumbers : Slot(y, slot) = Slot(x, slot)
  BY <1>2, <1>3, PageSet
<1>5. DirEnds(y)
  BY <1>2, <1>4, DirEndsSame
<1>6. ASSUME NEW r \in SlotNumbers PROVE Ok(y, g, r)
  <2>1. CASE r # s
    <3>1. ~InChain(g[r].chain, k)
      BY <1>1, <2>1 DEF Owns
    <3>2. Ok(x, g, r)
      BY DEF Whole
    <3> HIDE DEF k
    <3>3. Ok(SetPage(x, DataSector(k, t), page), g, r)
      BY <1>0, <1>1, <1>2, <3>1, <3>2, OkPage
    <3> QED
      BY <1>2, <3>3
  <2>2. CASE r = s
    <3>1. Ok(x, g, s) /\ Slot(y, s) = Slot(x, s)
      BY <1>4 DEF Whole
    <3>2. \A j \in Clusters : Link(y, j) = Link(x, j)
      BY <1>4, SameLinks
    <3>3. \A j : InChain(p, j) => Link(y, j) = Link(x, j)
      BY <1>1, <3>2 DEF InChain
    <3>4. \A n : Runs(x, p, n) => Runs(y, p, n)
      BY <1>1, <3>3, RunsFrame
    <3>5. Named(y, s) <=> Named(x, s)
      BY <3>1 DEF Named
    <3>6. Fits(y, g, s)
      BY <3>1, <3>4, <3>5 DEF Fits, Ok
    <3>7. ASSUME g[s].kept # NoFile PROVE Holds(y, g, s)
      <4> DEFINE pos == Place(i, t, o)
      <4>1. /\ Named(x, s) /\ g[s].kept \in Seq(Byte) /\ Len(g[s].kept) <= Slot(x, s).size
            /\ \A j \in 1 .. Len(g[s].kept) : ByteAt(x, g[s].chain, j - 1) = g[s].kept[j]
        BY <3>1, <3>7 DEF Ok, Holds
      <4>2. \A j \in Nat : j < pos => ByteAt(y, p, j) = ByteAt(x, p, j)
        <5>1. pos = Place(i, t, o)
          OBVIOUS
        <5> HIDE DEF pos, p, k
        <5> QED
          BY <1>0, <1>1, <1>2, <5>1, BytesOver
      <4>3. pos \in Nat /\ Len(g[s].kept) <= pos /\ Len(g[s].kept) \in Nat
        <5>1. i \in Nat \ {0} /\ t \in Nat /\ o \in Nat
          BY <1>0, <1>1, Numbers DEF SectorNumbers
        <5>2. pos \in Nat
          BY <5>1, PlaceNumber
        <5>3. Len(g[s].kept) \in Nat
          BY <4>1
        <5> QED
          BY <3>7, <5>2, <5>3 DEF KeptBefore
      <4> HIDE DEF pos
      <4>4. \A j \in 1 .. Len(g[s].kept) : j - 1 \in Nat /\ j - 1 < pos
        BY <4>3
      <4>5. \A j \in 1 .. Len(g[s].kept) : ByteAt(y, g[s].chain, j - 1) = g[s].kept[j]
        BY <4>1, <4>2, <4>4
      <4> QED
        BY <3>1, <3>5, <4>1, <4>5 DEF Holds
    <3> QED
      BY <2>2, <3>6, <3>7 DEF Ok, Holds
  <2> QED
    BY <2>1, <2>2
<1> QED
  BY <1>4, <1>5, <1>6 DEF Whole

LEMMA OverCurrent ==
    ASSUME NEW g, Owns(g), NEW s \in SlotNumbers, NEW x \in Card, NEW y,
           NEW i, NEW t, NEW o, NEW page, OverIn(x, y, g, s, i, t, o, page),
           Len(g[s].bytes) <= Place(i, t, o), Current(x, g)
    PROVE  Current(y, g)
<1> DEFINE p == g[s].chain
           k == p[i]
           pos == Place(i, t, o)
<1>0. i \in 1 .. Len(p) /\ t \in SectorNumbers /\ o \in 0 .. SECTOR - 1 /\ Over(x, y, p, i, t, o, page)
  BY DEF OverIn
<1>1. p \in Seq(Clusters) /\ Injective(p) /\ k \in Clusters /\ InChain(p, k) /\ Len(p) \in Nat
  BY <1>0, ChainIn DEF Owns, InChain, Injective
<1>2. page \in DataPages /\ y = SetPage(x, DataSector(k, t), page)
  BY <1>0 DEF Over
<1>3. DataSector(k, t) \in DataSectors
  BY <1>0, <1>1, SectorOf DEF SectorNumbers
<1>4. /\ y \in Card /\ SameTable(y, x) /\ \A slot \in SlotNumbers : Slot(y, slot) = Slot(x, slot)
      /\ \A r \in DataSectors : r # DataSector(k, t) => y[r] = x[r]
  BY <1>2, <1>3, PageSet
<1>5. \A j \in Clusters : Link(y, j) = Link(x, j)
  BY <1>4, SameLinks
<1>6. ASSUME NEW r \in SlotNumbers PROVE Full(y, g, r)
  <2>0. \A j : InChain(g[r].chain, j) => j \in Clusters
    BY ChainIn DEF InChain
  <2>1. \A j : InChain(g[r].chain, j) => Link(y, j) = Link(x, j)
    BY <1>5, <2>0
  <2>2. Full(x, g, r) /\ (Named(y, r) <=> Named(x, r)) /\ g[r].chain \in Seq(Clusters) /\ g[r].bytes \in Seq(Byte)
    BY <1>4 DEF Current, Named, Owns
  <2>3. CASE r # s
    <3>1. \A j : InChain(g[r].chain, j) => j # k
      BY <1>1, <2>3 DEF Owns
    <3>2. ASSUME NEW j, NEW l, InChain(g[r].chain, j), l \in SectorNumbers
          PROVE  y[DataSector(j, l)] = x[DataSector(j, l)]
      <4>1. j \in Nat /\ k \in Nat /\ j # k /\ j \in Clusters
        BY <1>1, <2>0, <3>1, <3>2, ClusterWord
      <4>2. DataSector(j, l) # DataSector(k, t)
        BY <1>0, <3>2, <4>1, DataSectorOnce DEF SectorNumbers
      <4>3. DataSector(j, l) \in DataSectors
        BY <3>2, <4>1, SectorOf DEF SectorNumbers
      <4> QED
        BY <1>4, <4>2, <4>3
    <3> QED
      BY <2>1, <2>2, <3>2, FullFrame
  <2>4. CASE r = s
    <3>1. Runs(y, p, Len(p))
      BY <1>1, <2>1, <2>2, <2>4, RunsFrame DEF Full
    <3>2. \A j \in Nat : j < pos => ByteAt(y, p, j) = ByteAt(x, p, j)
      <4>1. pos = Place(i, t, o)
        OBVIOUS
      <4> HIDE DEF pos, k, p
      <4> QED
        BY <1>0, <1>1, <4>1, BytesOver
    <3>3. pos \in Nat /\ Len(g[s].bytes) \in Nat /\ Len(g[s].bytes) <= pos
      <4>1. i \in Nat \ {0} /\ t \in Nat /\ o \in Nat
        BY <1>0, <1>1, Numbers DEF SectorNumbers
      <4>2. pos \in Nat
        BY <4>1, PlaceNumber
      <4>3. Len(g[s].bytes) \in Nat
        BY <2>2, <2>4
      <4> QED
        BY <4>2, <4>3
    <3> HIDE DEF pos
    <3>4. \A j \in 1 .. Len(g[s].bytes) : j - 1 \in Nat /\ j - 1 < pos
      BY <3>3
    <3>5. \A j \in 1 .. Len(g[s].bytes) : ByteAt(y, p, j - 1) = g[s].bytes[j]
      BY <2>2, <2>4, <3>2, <3>4 DEF Full
    <3> QED
      BY <2>2, <2>4, <3>1, <3>5 DEF Full
  <2> QED
    BY <2>3, <2>4
<1> QED
  BY <1>6 DEF Current

-----------------------------------------------------------------------------
LEMMA LeastOf ==
    ASSUME NEW a \in Nat, NEW b \in Nat, NEW n, n = Least({a, b})
    PROVE  n \in Nat /\ n <= a /\ n <= b /\ (n = a \/ n = b)
<1>1. \E x \in {a, b} : \A y \in {a, b} : x <= y
  OBVIOUS
<1>2. n \in {a, b} /\ \A y \in {a, b} : n <= y
  <2>1. n = CHOOSE x \in {a, b} : \A y \in {a, b} : x <= y
    BY DEF Least
  <2> QED
    BY <1>1, <2>1
<1> QED
  BY <1>2

LEMMA Room ==
    ASSUME NEW o \in Nat, o < SECTOR, NEW len \in Nat, NEW m \in Nat, m < len,
           NEW n, n = Least({SECTOR - o, len - m})
    PROVE  n \in Nat /\ n > 0 /\ o + n <= SECTOR /\ m + n <= len /\ o + n \in 0 .. SECTOR
<1>1. SECTOR - o \in Nat /\ len - m \in Nat /\ SECTOR \in Nat
  BY Numbers
<1>2. n \in Nat /\ n <= SECTOR - o /\ n <= len - m /\ (n = SECTOR - o \/ n = len - m)
  BY <1>1, LeastOf
<1> QED
  BY <1>1, <1>2

LEMMA BytesOverIn ==
    ASSUME NEW g, Owns(g), NEW s \in SlotNumbers, NEW x \in Card, NEW y,
           NEW i, NEW t, NEW o, NEW page, OverIn(x, y, g, s, i, t, o, page), NEW pos, pos = Place(i, t, o)
    PROVE  /\ \A j \in Nat : j < pos => ByteAt(y, g[s].chain, j) = ByteAt(x, g[s].chain, j)
           /\ \A k \in Nat : o + k < SECTOR => ByteAt(y, g[s].chain, pos + k) = page[o + k]
<1> DEFINE p == g[s].chain
<1>1. i \in 1 .. Len(p) /\ t \in SectorNumbers /\ o \in 0 .. SECTOR - 1 /\ Over(x, y, p, i, t, o, page)
  BY DEF OverIn
<1>2. p \in Seq(Clusters) /\ Injective(p)
  BY DEF Owns, Injective
<1> HIDE DEF p
<1>3. /\ \A j \in Nat : j < pos => ByteAt(y, p, j) = ByteAt(x, p, j)
      /\ \A k \in Nat : o + k < SECTOR => ByteAt(y, p, pos + k) = page[o + k]
  BY <1>1, <1>2, BytesOver
<1> QED
  BY <1>3 DEF p

LEMMA Sums ==
    ASSUME NEW z \in Nat, NEW m \in Nat, NEW n \in Nat, n > 0, NEW most \in Nat, m + n <= most
    PROVE  m + n \in 0 .. most /\ m + n > m /\ z + (m + n) = (z + m) + n
OBVIOUS

(* The buffered sector of a file is written behind the bytes of the file.  *)
PageOn(v, g, s, i, t, o, page) ==
    /\ i \in 1 .. Len(g[s].chain) /\ t \in SectorNumbers /\ o \in 0 .. SECTOR - 1
    /\ v.dataSector = DataSector(g[s].chain[i], t) /\ page \in DataPages
    /\ \A k \in 0 .. SECTOR - 1 : k < o => page[k] = v.data[k]
    /\ KeptBefore(g, s, Place(i, t, o)) /\ Len(g[s].bytes) <= Place(i, t, o)

LEMMA PageWritten ==
    ASSUME NEW v, NEW g, NEW kept, NEW Safe, NEW Lost, System(v, g, kept, Safe, Lost),
           NEW s \in SlotNumbers, NEW i, NEW t, NEW o, NEW page, PageOn(v, g, s, i, t, o, page),
           NEW w, w = BufferPage(v, page)
    PROVE  /\ System(w, g, kept, Safe, Lost) /\ Quiet(v, w) /\ w.err = v.err
           /\ OverIn(Cached(v), Cached(w), g, s, i, t, o, page)
           /\ \A slot \in SlotNumbers : Slot(Cached(w), slot) = Slot(Cached(v), slot)
<1> DEFINE p == g[s].chain
           sec == DataSector(p[i], t)
<1>0. /\ i \in 1 .. Len(p) /\ t \in SectorNumbers /\ o \in 0 .. SECTOR - 1
      /\ v.dataSector = sec /\ page \in DataPages
      /\ \A k \in 0 .. SECTOR - 1 : k < o => page[k] = v.data[k]
      /\ KeptBefore(g, s, Place(i, t, o)) /\ Len(g[s].bytes) <= Place(i, t, o)
  BY DEF PageOn
<1>1. Vol(v) /\ Owns(g) /\ p \in Seq(Clusters) /\ p[i] \in Clusters /\ t \in 0 .. SPC - 1
  BY <1>0, ChainIn DEF System, SectorNumbers
<1>2. sec \in DataSectors /\ sec \in DirSectors \cup DataSectors /\ Pages(sec) = DataPages
  BY <1>1, SectorOf, SectorKinds DEF Pages
<1>3. v.data = Cached(v)[sec] /\ v.data = WithData(v)[sec]
  <2> HIDE DEF sec
  <2> QED
    BY <1>0, <1>1, <1>2, PageRead
<1>4. /\ Vol(w) /\ Quiet(v, w) /\ w.err = v.err /\ w.cuts = v.cuts
      /\ w.card = v.card /\ WithFat(w) = WithFat(v)
      /\ WithData(w) = SetPage(WithData(v), sec, page)
      /\ Cached(w) = SetPage(Cached(v), sec, page)
  <2> HIDE DEF sec
  <2>1. page \in Pages(sec) /\ v.dataSector = sec
    BY <1>0, <1>2
  <2> QED
    BY <1>1, <1>2, <2>1, ChangeData
<1>5. OverIn(Cached(v), Cached(w), g, s, i, t, o, page) /\ OverIn(WithData(v), WithData(w), g, s, i, t, o, page)
  <2>1. \A k \in 0 .. SECTOR - 1 : k < o => page[k] = Cached(v)[sec][k] /\ page[k] = WithData(v)[sec][k]
    BY <1>0, <1>3
  <2> QED
    BY <1>0, <1>4, <2>1 DEF Over, OverIn
<1>6. v.card \in Whole(g) /\ WithFat(v) \in Whole(g) /\ WithData(v) \in Whole(g) /\ Cached(v) \in Whole(g)
  BY ImageMembers DEF System
<1>7. /\ Cached(w) \in Whole(g) /\ WithData(w) \in Whole(g) /\ SameTable(Cached(w), Cached(v))
      /\ \A slot \in SlotNumbers : Slot(Cached(w), slot) = Slot(Cached(v), slot)
  <2> DEFINE x == Cached(v)
             y == Cached(w)
             a == WithData(v)
             b == WithData(w)
  <2>1. OverIn(x, y, g, s, i, t, o, page) /\ OverIn(a, b, g, s, i, t, o, page) /\ x \in Whole(g) /\ a \in Whole(g)
    BY <1>5, <1>6
  <2> HIDE DEF x, y, a, b, p
  <2>2. y \in Whole(g) /\ SameTable(y, x) /\ \A slot \in SlotNumbers : Slot(y, slot) = Slot(x, slot)
    BY <1>0, <1>1, <2>1, OverWhole
  <2>3. b \in Whole(g)
    BY <1>0, <1>1, <2>1, OverWhole
  <2> QED
    BY <2>2, <2>3 DEF x, y, b
<1>8. Images(w) \subseteq Whole(g)
  BY <1>4, <1>6, <1>7, ImageMembers
<1>9. Current(Cached(w), g)
  <2> DEFINE x == Cached(v)
             y == Cached(w)
  <2>1. x \in Card /\ Current(x, g) /\ OverIn(x, y, g, s, i, t, o, page)
    BY <1>5, <1>6 DEF Whole, System
  <2> HIDE DEF x, y
  <2>2. Current(y, g)
    BY <1>0, <1>1, <2>1, OverCurrent
  <2> QED
    BY <2>2 DEF y
<1>10. Tight(Cached(w), g, Lost)
  <2>1. \A k \in Clusters : Link(Cached(w), k) = Link(Cached(v), k)
    BY <1>7, SameLinks
  <2> QED
    BY <2>1 DEF System, Tight
<1> QED
  BY <1>1, <1>4, <1>5, <1>7, <1>8, <1>9, <1>10 DEF System

(* The first bytes of some are in the file behind its end.                 *)
Put(v, p, z, bytes) ==
    /\ z + v.count <= Len(p) * ClusterBytes
    /\ \A j \in Nat : j < v.count => ByteAt(Cached(v), p, z + j) = bytes[j + 1]

WrittenOn(v, w, g, h, s, z, bytes) ==
    /\ Longer(g, h, s) /\ SameFile(v.f, w.f) /\ w.got = v.got
    /\ \A slot \in SlotNumbers : Slot(Cached(w), slot) = Slot(Cached(v), slot)
    /\ Good(w) => /\ w.count \in 0 .. Len(bytes) /\ w.count > v.count
                  /\ Stands(w.f, h[s].chain, z + w.count)
                  /\ Put(w, h[s].chain, z, bytes)

(* The page of a sector with bytes in it from an offset on.                *)
PutPage(page, bytes, from, o, n) ==
    [k \in DOMAIN page |-> IF k \in o .. o + n - 1 THEN bytes[from + (k - o) + 1] ELSE page[k]]
Takes(bytes, from, o, n) ==
    o \in Nat /\ n \in Nat /\ from \in Nat /\ o + n <= SECTOR /\ from + n <= Len(bytes)

LEMMA PutPageDone ==
    ASSUME NEW page \in DataPages, NEW bytes \in Seq(Byte), NEW from, NEW o, NEW n, Takes(bytes, from, o, n),
           NEW new, new = PutPage(page, bytes, from, o, n)
    PROVE  /\ new \in DataPages
           /\ \A k \in 0 .. SECTOR - 1 : k < o => new[k] = page[k]
           /\ \A j \in Nat : j < n => new[o + j] = bytes[from + j + 1]
<1>0. o \in Nat /\ n \in Nat /\ from \in Nat /\ o + n <= SECTOR /\ from + n <= Len(bytes)
  BY DEF Takes
<1>1. DOMAIN page = 0 .. SECTOR - 1 /\ \A k \in 0 .. SECTOR - 1 : page[k] \in Byte
  BY DEF DataPages
<1>2. new = [k \in 0 .. SECTOR - 1 |-> IF k \in o .. o + n - 1 THEN bytes[from + (k - o) + 1] ELSE page[k]]
  BY <1>1 DEF PutPage
<1>3. \A k \in 0 .. SECTOR - 1 : k \in o .. o + n - 1 => bytes[from + (k - o) + 1] \in Byte
  <2> SUFFICES ASSUME NEW k \in 0 .. SECTOR - 1, k \in o .. o + n - 1 PROVE bytes[from + (k - o) + 1] \in Byte
    OBVIOUS
  <2>1. from + (k - o) + 1 \in 1 .. Len(bytes)
    BY <1>0, Numbers
  <2> QED
    BY <2>1
<1>4. new \in DataPages
  BY <1>1, <1>2, <1>3 DEF DataPages
<1>5. \A k \in 0 .. SECTOR - 1 : k < o => new[k] = page[k]
  BY <1>0, <1>2, Numbers
<1>6. ASSUME NEW j \in Nat, j < n PROVE new[o + j] = bytes[from + j + 1]
  <2>1. o + j \in 0 .. SECTOR - 1 /\ o + j \in o .. o + n - 1 /\ from + ((o + j) - o) + 1 = from + j + 1
    BY <1>0, <1>6, Numbers
  <2> QED
    BY <1>2, <2>1
<1> QED
  BY <1>4, <1>5, <1>6

(* Where the file ends, and where the next byte goes.                      *)
EndAt(g, s, z) == z = Len(g[s].bytes)
NextAt(pos, z, m) == pos = z + m

LEMMA WriteSectorDone ==
    ASSUME NEW v, NEW g, NEW kept, NEW Safe, NEW Lost, System(v, g, kept, Safe, Lost), Good(v),
           NEW s \in SlotNumbers, g[s].name \in Names, NEW z, EndAt(g, s, z),
           KeptBefore(g, s, z),
           NEW bytes \in Seq(Byte), NEW m \in Nat, v.count = m, m < Len(bytes), NEW pos, NextAt(pos, z, m),
           Stands(v.f, g[s].chain, pos), Put(v, g[s].chain, z, bytes),
           NEW w, w = WriteSector(v, bytes)
    PROVE  \E h : System(w, h, kept, Safe, Lost) /\ WrittenOn(v, w, g, h, s, z, bytes)
<1> DEFINE a == HereWrite(v)
<1>0. /\ z \in Nat /\ Len(bytes) \in Nat /\ pos \in Nat /\ v.count # Len(bytes)
      /\ z = Len(g[s].bytes) /\ pos = z + m
  <2>1. g[s].bytes \in Seq(Byte)
    BY DEF System, Owns
  <2> QED
    BY <2>1 DEF EndAt, NextAt
<1>1. PICK h : System(a, h, kept, Safe, Lost) /\ HereGrown(v, a, g, h, s, pos)
  <2>1. a = HereWrite(v)
    OBVIOUS
  <2> HIDE DEF a
  <2> QED
    BY <2>1, HereWriteDone
<1> DEFINE p == h[s].chain
           o == a.f.offset
           n == Least({SECTOR - o, Len(bytes) - m})
           page == PutPage(a.data, bytes, m, o, n)
           u == BufferPage(a, page)
<1>2. /\ Longer(g, h, s) /\ Steps(v, a) /\ SameRest(Cached(a), Cached(v))
      /\ Good(a) => At(a.f, h[s].chain, pos) /\ a.f.offset < SECTOR /\ a.dataSector = Sector(a)
  BY <1>1 DEF HereGrown
<1>4. /\ SameFile(v.f, a.f) /\ a.got = v.got /\ a.count = m
      /\ \A slot \in SlotNumbers : Slot(Cached(a), slot) = Slot(Cached(v), slot)
      /\ \A sec \in DataSectors : Cached(a)[sec] = Cached(v)[sec]
  BY <1>2, SameSlots DEF Steps
<1>3. w = IF Good(a) THEN [a EXCEPT !.data = page, !.dataDirty = TRUE, !.f.offset = o + n, !.count = m + n]
          ELSE a
  BY <1>0, <1>4 DEF WriteSector, Then, Sent, HereWrite, PutPage
<1> HIDE DEF a
<1>5. CASE ~Good(a)
  <2>1. w = a
    BY <1>3, <1>5
  <2> QED
    BY <1>1, <1>2, <1>4, <1>5, <2>1 DEF WrittenOn
<1>6. CASE Good(a)
  <2>1. /\ Vol(a) /\ a \in Volume /\ Owns(h) /\ h[s].bytes = g[s].bytes /\ h[s].kept = g[s].kept
        /\ p \in Seq(Clusters) /\ Len(p) \in Nat
    <3>1. Vol(a) /\ Owns(h) /\ h[s].bytes = g[s].bytes /\ h[s].kept = g[s].kept
      BY <1>1, <1>2 DEF System, Longer
    <3> QED
      BY <3>1, ChainIn DEF Vol
  <2>2. PICK i \in 1 .. Len(p) : a.f.cluster = p[i] /\ pos = Place(i, a.f.sector, o)
    BY <1>2, <1>6 DEF At
  <2> DEFINE t == a.f.sector
  <2>3. t \in SectorNumbers /\ o \in Nat /\ o < SECTOR /\ o \in 0 .. SECTOR - 1 /\ SECTOR - o \in Nat
    BY <1>2, <1>6, Numbers, SMTT(20) DEF At
  <2>4. a.dataSector = DataSector(p[i], t) /\ i \in Nat \ {0} /\ p[i] \in Clusters
    <3>1. a.dataSector = DataSector(a.f.cluster, t)
      BY <1>2, <1>6 DEF Sector
    <3> QED
      BY <2>1, <2>2, <3>1
  <2>5. n \in Nat /\ n > 0 /\ o + n <= SECTOR /\ m + n <= Len(bytes) /\ o + n \in 0 .. SECTOR
    <3> HIDE DEF o
    <3> QED
      BY <1>0, <2>3, Room
  <2> HIDE DEF n
  <2>6. a.data \in DataPages
    <3>1. DataSector(p[i], t) \in DataSectors
      BY <2>3, <2>4, SectorOf DEF SectorNumbers
    <3>2. Pages(DataSector(p[i], t)) = DataPages
      BY <3>1, SectorKinds DEF Pages
    <3> QED
      BY <2>1, <2>4, <3>1, <3>2, PageRead
  <2>7. /\ page \in DataPages
        /\ \A k \in 0 .. SECTOR - 1 : k < o => page[k] = a.data[k]
        /\ \A j \in Nat : j < n => page[o + j] = bytes[m + j + 1]
    <3> DEFINE new == page
               old == a.data
    <3>1. new = PutPage(old, bytes, m, o, n)
      OBVIOUS
    <3> HIDE DEF new, old, o
    <3>2. old \in DataPages
      BY <2>6 DEF old
    <3>4. Takes(bytes, m, o, n)
      BY <2>3, <2>5 DEF Takes
    <3>3. /\ new \in DataPages
          /\ \A k \in 0 .. SECTOR - 1 : k < o => new[k] = old[k]
          /\ \A j \in Nat : j < n => new[o + j] = bytes[m + j + 1]
      BY <3>1, <3>2, <3>4, PutPageDone
    <3> QED
      BY <3>3 DEF new, old
  <2> HIDE DEF page, p, t, o
  <2>8. /\ System(u, h, kept, Safe, Lost) /\ Quiet(a, u) /\ u.err = a.err
        /\ OverIn(Cached(a), Cached(u), h, s, i, t, o, page)
        /\ \A slot \in SlotNumbers : Slot(Cached(u), slot) = Slot(Cached(a), slot)
    <3>1. Place(i, t, o) = pos /\ Len(h[s].bytes) <= Place(i, t, o) /\ KeptBefore(h, s, Place(i, t, o))
      <4>1. h[s].kept # NoFile => Len(h[s].kept) \in Nat
        <5>1. SUFFICES ASSUME h[s].kept # NoFile PROVE h[s].kept \in Seq(Byte)
          OBVIOUS
        <5>2. Cached(a) \in Whole(h)
          BY <1>1, ImageMembers DEF System
        <5> QED
          BY <5>1, <5>2 DEF Whole, Ok, Holds
      <4>2. Len(h[s].bytes) <= pos
        BY <1>0, <2>1
      <4>3. h[s].kept # NoFile => Len(h[s].kept) <= pos
        BY <1>0, <2>1, <4>1 DEF KeptBefore
      <4> QED
        BY <2>2, <4>2, <4>3 DEF t, o, KeptBefore
    <3>2. PageOn(a, h, s, i, t, o, page)
      BY <2>2, <2>3, <2>4, <2>7, <3>1 DEF PageOn, p
    <3> HIDE DEF u
    <3>3. u = BufferPage(a, page)
      BY DEF u
    <3> QED
      BY <1>1, <3>2, <3>3, PageWritten
  <2>9. /\ w \in Volume /\ SameBuffers(u, w) /\ w.f = [a.f EXCEPT !.offset = o + n] /\ w.count = m + n
        /\ w.got = a.got /\ Good(w)
    <3>1. w = [u EXCEPT !.f = [a.f EXCEPT !.offset = o + n], !.count = m + n]
      BY <1>3, <1>6 DEF BufferPage, o
    <3>2. u \in Volume /\ u.f = a.f /\ u.got = a.got /\ u.count = a.count /\ Good(u)
      BY <1>6, <2>8 DEF System, Vol, Quiet, Good
    <3>3. a.f \in Object /\ o + n \in Nat /\ m + n \in Nat
      <4>1. a.f \in Object
        BY <2>1 DEF Volume
      <4> QED
        BY <4>1, <2>3, <2>5
    <3>4. [a.f EXCEPT !.offset = o + n] \in Object
      BY <3>3 DEF Object
    <3> HIDE DEF u
    <3> QED
      BY <3>1, <3>2, <3>3, <3>4, ZenonT(40) DEF Volume, SameBuffers, SameFat, SameData, Good
  <2> DEFINE c == Cached(w)
  <2>10. System(w, h, kept, Safe, Lost) /\ Cached(w) = Cached(u)
    <3> HIDE DEF u
    <3> QED
      BY <2>8, <2>9, SystemBuffers
  <2> HIDE DEF u
  <2>11. SameFile(v.f, w.f) /\ w.got = v.got /\ w.f.cluster = p[i] /\ w.f.sector = t /\ w.f.offset = o + n
    <3>1. a.f \in Object
      BY <2>1 DEF Volume
    <3> QED
      BY <1>4, <2>2, <2>9, <3>1 DEF Object, SameFile, t
  <2>12. \A slot \in SlotNumbers : Slot(Cached(w), slot) = Slot(Cached(v), slot)
    BY <1>4, <2>8, <2>10
  <2>13. w.count \in 0 .. Len(bytes) /\ w.count > v.count /\ w.count = m + n /\ z + w.count = pos + n
    <3>1. z \in Nat /\ n \in Nat /\ n > 0 /\ Len(bytes) \in Nat /\ m + n <= Len(bytes)
      BY <1>0, <2>5
    <3>2. m + n \in 0 .. Len(bytes) /\ m + n > m /\ z + (m + n) = (z + m) + n
      BY <3>1, Sums
    <3>3. w.count = m + n /\ v.count = m /\ pos = z + m
      BY <1>0, <2>9
    <3>4. w.count \in 0 .. Len(bytes) /\ w.count > v.count
      BY <3>2, <3>3
    <3>5. z + w.count = pos + n
      BY <3>2, <3>3
    <3> QED
      BY <3>3, <3>4, <3>5
  <2>14. At(w.f, p, z + w.count)
    <3>1. Place(i, t, o + n) = Place(i, t, o) + n
      BY <2>3, <2>4, <2>5, PlaceNumber, Numbers DEF SectorNumbers
    <3>2. z + w.count = Place(i, t, o + n)
      BY <2>2, <2>13, <3>1 DEF t, o
    <3>3. o + n \in 0 .. SECTOR
      BY <2>3, <2>5, Numbers
    <3>4. i \in 1 .. Len(p)
      BY <2>2 DEF p
    <3> QED
      BY <2>3, <2>11, <3>2, <3>3, <3>4 DEF At
  <2>15. Put(w, p, z, bytes)
    <3>1. z + w.count <= Len(p) * ClusterBytes
      <4>1. Place(i, t, o + n) <= Len(p) * ClusterBytes
        <5>1. o + n \in 0 .. SECTOR /\ t \in 0 .. SPC - 1 /\ i <= Len(p) /\ Len(p) \in Nat
          BY <2>1, <2>2, <2>3, <2>5, Numbers DEF SectorNumbers, p
        <5> QED
          BY <2>4, <5>1, PlaceBound
      <4>2. Place(i, t, o + n) = Place(i, t, o) + n
        BY <2>3, <2>4, <2>5, PlaceNumber, Numbers DEF SectorNumbers
      <4> QED
        BY <2>2, <2>13, <4>1, <4>2 DEF t, o
    <3>2. /\ \A j \in Nat : j < pos => ByteAt(Cached(u), p, j) = ByteAt(Cached(a), p, j)
          /\ \A k \in Nat : o + k < SECTOR => ByteAt(Cached(u), p, pos + k) = page[o + k]
      <4>1. Cached(a) \in Card
        BY <2>1, ImagesTyped DEF Images
      <4>2. pos = Place(i, t, o)
        BY <2>2 DEF t, o
      <4> DEFINE x == Cached(a)
                 y == Cached(u)
      <4>3. OverIn(x, y, h, s, i, t, o, page) /\ x \in Card
        BY <2>8, <4>1
      <4> HIDE DEF x, y
      <4>4. /\ \A j \in Nat : j < pos => ByteAt(y, h[s].chain, j) = ByteAt(x, h[s].chain, j)
            /\ \A k \in Nat : o + k < SECTOR => ByteAt(y, h[s].chain, pos + k) = page[o + k]
        BY <2>1, <4>2, <4>3, BytesOverIn
      <4> QED
        BY <4>4 DEF x, y, p
    <3>3. \A j \in Nat : j < m => ByteAt(Cached(a), p, z + j) = bytes[j + 1]
      <4>1. ASSUME NEW j \in Nat, j < m PROVE ByteAt(Cached(a), p, z + j) = bytes[j + 1]
        <5> DEFINE q == g[s].chain
                   l == z + j
        <5>1. q \in Seq(Clusters) /\ Len(q) \in Nat /\ Len(q) <= Len(p) /\ \A e \in 1 .. Len(q) : p[e] = q[e]
          BY <1>2, ChainIn DEF Longer, System, p
        <5>2. l \in Nat /\ l < Len(q) * ClusterBytes
          <6>1. Len(q) * ClusterBytes \in Nat
            <7>1. ClusterBytes \in Nat
              BY Times, Numbers DEF ClusterBytes
            <7> QED
              BY <5>1, <7>1, Times
          <6>2. z + m <= Len(q) * ClusterBytes
            BY DEF Put
          <6> DEFINE most == Len(q) * ClusterBytes
          <6>3. most \in Nat /\ z + m <= most
            BY <6>1, <6>2
          <6> HIDE DEF most
          <6>4. l \in Nat /\ l < most
            BY <1>0, <4>1, <6>3
          <6> QED
            BY <6>4 DEF most
        <5>3. ByteAt(Cached(v), q, l) = bytes[j + 1]
          BY <4>1 DEF Put
        <5> HIDE DEF q, l
        <5>4. /\ ClusterOf(l) \in 1 .. Len(q) /\ q[ClusterOf(l)] \in Clusters
              /\ SectorIn(l) \in SectorNumbers
          <6>1. Len(q) \in 0 .. Len(q)
            BY <5>1
          <6> QED
            BY <5>1, <5>2, <6>1, BytePage
        <5>5. DataSector(q[ClusterOf(l)], SectorIn(l)) \in DataSectors
          BY <5>4, SectorOf DEF SectorNumbers
        <5>6. ByteAt(Cached(a), p, l) = ByteAt(Cached(v), q, l)
          BY <1>4, <5>1, <5>4, <5>5 DEF ByteAt
        <5> QED
          BY <5>3, <5>6 DEF l
      <4> QED
        BY <4>1
    <3>4. ASSUME NEW j \in Nat, j < w.count PROVE ByteAt(Cached(w), p, z + j) = bytes[j + 1]
      <4>1. CASE j < m
        <5>1. z + j \in Nat /\ z + j < pos
          BY <1>0, <4>1
        <5>2. ByteAt(Cached(u), p, z + j) = ByteAt(Cached(a), p, z + j)
          BY <3>2, <5>1
        <5> QED
          BY <2>10, <3>3, <4>1, <5>2
      <4>2. CASE ~(j < m)
        <5> DEFINE k == j - m
        <5>1. k \in Nat /\ k < n /\ o + k < SECTOR /\ z + j = pos + k /\ m + k + 1 = j + 1
          <6>1. j < m + n
            BY <2>13, <3>4
          <6> QED
            BY <1>0, <2>3, <2>5, <4>2, <6>1, Numbers
        <5> HIDE DEF k
        <5>2. ByteAt(Cached(u), p, pos + k) = page[o + k] /\ page[o + k] = bytes[m + k + 1]
          BY <2>7, <3>2, <5>1
        <5> QED
          BY <2>10, <5>1, <5>2
      <4> QED
        BY <4>1, <4>2
    <3> QED
      BY <3>1, <3>4 DEF Put
  <2> QED
    BY <1>2, <2>9, <2>10, <2>11, <2>12, <2>13, <2>14, <2>15 DEF WrittenOn, Stands, p
<1> QED
  BY <1>5, <1>6

-----------------------------------------------------------------------------
(* All of the bytes, one sector after the other.                           *)
WritingOn(v, e, g, h, s, z, bytes) ==
    /\ Longer(g, h, s) /\ SameFile(v.f, e.f) /\ e.got = v.got
    /\ \A slot \in SlotNumbers : Slot(Cached(e), slot) = Slot(Cached(v), slot)
    /\ Good(e) => /\ e.count \in 0 .. Len(bytes)
                  /\ Stands(e.f, h[s].chain, z + e.count)
                  /\ Put(e, h[s].chain, z, bytes)

Writing(v, g, kept, Safe, Lost, s, z, bytes) ==
    [k \in 0 .. Len(bytes) |->
        {e \in Volume :
            /\ \E h : System(e, h, kept, Safe, Lost) /\ WritingOn(v, e, g, h, s, z, bytes)
            /\ Good(e) => e.count >= k \/ e.count = Len(bytes)}]

OnSector(e, bytes) == Then(e, LAMBDA w : WriteSector(w, bytes))

LEMMA WritingStep ==
    ASSUME NEW v, NEW g, NEW kept, NEW Safe, NEW Lost, Owns(g),
           NEW s \in SlotNumbers, g[s].name \in Names, NEW z, EndAt(g, s, z), KeptBefore(g, s, z),
           NEW bytes \in Seq(Byte), NEW k \in 1 .. Len(bytes),
           NEW e \in Writing(v, g, kept, Safe, Lost, s, z, bytes)[k - 1]
    PROVE  OnSector(e, bytes) \in Writing(v, g, kept, Safe, Lost, s, z, bytes)[k]
<1> DEFINE w == OnSector(e, bytes)
<1>0. k - 1 \in 0 .. Len(bytes) /\ k \in 0 .. Len(bytes) /\ Len(bytes) \in Nat /\ k \in Nat
  OBVIOUS
<1>1. /\ e \in Volume
      /\ Good(e) => e.count >= k - 1 \/ e.count = Len(bytes)
  BY <1>0 DEF Writing
<1>2. PICK h : System(e, h, kept, Safe, Lost) /\ WritingOn(v, e, g, h, s, z, bytes)
  BY <1>0 DEF Writing
<1>3. ASSUME w = e, Good(e) => e.count = Len(bytes) PROVE w \in Writing(v, g, kept, Safe, Lost, s, z, bytes)[k]
  BY <1>0, <1>1, <1>2, <1>3 DEF Writing
<1>4. CASE ~Good(e)
  BY <1>3, <1>4 DEF OnSector, Then
<1>5. CASE Good(e) /\ e.count = Len(bytes)
  <2>1. w = e
    BY <1>5 DEF OnSector, Then, WriteSector
  <2> QED
    BY <1>3, <1>5, <2>1
<1>6. CASE Good(e) /\ e.count # Len(bytes)
  <2> DEFINE m == e.count
             pos == z + m
             x == WriteSector(e, bytes)
  <2>1. w = x
    BY <1>6 DEF OnSector, Then
  <2>2. m \in Nat /\ m < Len(bytes) /\ m >= k - 1 /\ Stands(e.f, h[s].chain, pos) /\ Put(e, h[s].chain, z, bytes)
    <3>1. m \in 0 .. Len(bytes) /\ Stands(e.f, h[s].chain, pos) /\ Put(e, h[s].chain, z, bytes)
      BY <1>2, <1>6 DEF WritingOn
    <3>2. m >= k - 1 /\ m # Len(bytes)
      BY <1>1, <1>6
    <3> HIDE DEF m, pos
    <3> QED
      BY <1>0, <3>1, <3>2
  <2>3. /\ h[s].name \in Names /\ EndAt(h, s, z) /\ KeptBefore(h, s, z) /\ NextAt(pos, z, m) /\ e.count = m
        /\ Longer(g, h, s)
    BY <1>2 DEF WritingOn, Longer, EndAt, KeptBefore, NextAt
  <2>4. x = WriteSector(e, bytes)
    OBVIOUS
  <2> HIDE DEF m, pos, x
  <2>5. PICK f : System(x, f, kept, Safe, Lost) /\ WrittenOn(e, x, h, f, s, z, bytes)
    BY <1>2, <1>6, <2>2, <2>3, <2>4, WriteSectorDone
  <2>6. Longer(g, f, s)
    BY <2>3, <2>5, LongerOn DEF WrittenOn
  <2>7. SameFile(v.f, x.f) /\ x.got = v.got
    BY <1>2, <2>5 DEF WritingOn, WrittenOn, SameFile
  <2>8. \A slot \in SlotNumbers : Slot(Cached(x), slot) = Slot(Cached(v), slot)
    BY <1>2, <2>5 DEF WritingOn, WrittenOn
  <2>9. Good(x) => /\ x.count \in 0 .. Len(bytes) /\ x.count > m
                   /\ Stands(x.f, f[s].chain, z + x.count)
                   /\ Put(x, f[s].chain, z, bytes)
    BY <2>3, <2>5 DEF WrittenOn
  <2>10. WritingOn(v, x, g, f, s, z, bytes)
    BY <2>6, <2>7, <2>8, <2>9 DEF WritingOn
  <2>11. Good(x) => x.count >= k
    <3> DEFINE l == x.count
    <3>1. Good(x) => l \in 0 .. Len(bytes) /\ l > m
      BY <2>9
    <3> HIDE DEF l
    <3>2. Good(x) => l >= k
      BY <1>0, <2>2, <3>1
    <3> QED
      BY <3>2 DEF l
  <2>12. x \in Volume
    BY <2>5 DEF System, Vol
  <2>13. x \in Writing(v, g, kept, Safe, Lost, s, z, bytes)[k]
    BY <1>0, <2>5, <2>10, <2>11, <2>12 DEF Writing
  <2> HIDE DEF w
  <2> QED
    BY <2>1, <2>13 DEF w
<1> QED
  BY <1>4, <1>5, <1>6

LEMMA WrittenDone ==
    ASSUME NEW v, NEW g, NEW kept, NEW Safe, NEW Lost, System(v, g, kept, Safe, Lost), Good(v), v.count = 0,
           NEW s \in SlotNumbers, g[s].name \in Names, NEW z, EndAt(g, s, z), KeptBefore(g, s, z),
           NEW bytes \in Seq(Byte), Stands(v.f, g[s].chain, z),
           NEW w, w = Written(v, bytes)
    PROVE  /\ \E h : System(w, h, kept, Safe, Lost) /\ WritingOn(v, w, g, h, s, z, bytes)
           /\ Good(w) => w.count = Len(bytes)
<1> DEFINE n == Len(bytes)
           Inv == Writing(v, g, kept, Safe, Lost, s, z, bytes)
           dom == UNION {Inv[k] : k \in 0 .. n}
           step == [ks \in (1 .. n) \X dom |-> OnSector(ks[2], bytes)]
           Eq(f) == f = [k \in 0 .. n |-> IF k = 0 THEN v ELSE OnSector(f[k - 1], bytes)]
           done == CHOOSE f : Eq(f)
<1>0. n \in Nat /\ Owns(g) /\ Vol(v) /\ v \in Volume
  BY DEF System, Vol
<1>1. v \in Inv[0]
  <2>1. z \in Nat /\ z + 0 = z /\ z <= Len(g[s].chain) * ClusterBytes
    <3>1. Full(Cached(v), g, s) /\ g[s].bytes \in Seq(Byte) /\ z = Len(g[s].bytes)
      BY DEF System, Current, Owns, EndAt
    <3>2. z \in Nat
      BY <3>1
    <3> QED
      BY <3>1, <3>2 DEF Full
  <2>2. 0 \in 0 .. n
    BY <1>0
  <2>3. Put(v, g[s].chain, z, bytes)
    <3> DEFINE c == v.count
    <3>1. c = 0
      OBVIOUS
    <3> HIDE DEF c
    <3>2. z + c <= Len(g[s].chain) * ClusterBytes /\ \A j \in Nat : ~(j < c)
      BY <2>1, <3>1
    <3> QED
      BY <3>2 DEF c, Put
  <2>4. Longer(g, g, s)
    BY <1>0, LongerSelf
  <2>5. SameFile(v.f, v.f) /\ v.count \in 0 .. n /\ Stands(v.f, g[s].chain, z + v.count)
    <3>1. z + v.count = z
      BY <2>1
    <3> QED
      BY <2>2, <3>1 DEF SameFile
  <2> HIDE DEF n
  <2>6. WritingOn(v, v, g, g, s, z, bytes)
    BY <2>3, <2>4, <2>5 DEF WritingOn, n
  <2>7. v.count >= 0
    BY <2>2
  <2> QED
    BY <1>0, <2>2, <2>6, <2>7 DEF Writing, n
<1>2. \A k \in 1 .. n : \A e \in Inv[k - 1] : OnSector(e, bytes) \in Inv[k]
  BY <1>0, WritingStep
<1>3. \A k \in 1 .. n : \A e \in Inv[k - 1] : step[<<k, e>>] = OnSector(e, bytes)
  <2> SUFFICES ASSUME NEW k \in 1 .. n, NEW e \in Inv[k - 1] PROVE step[<<k, e>>] = OnSector(e, bytes)
    OBVIOUS
  <2>1. k - 1 \in 0 .. n
    OBVIOUS
  <2>2. e \in dom
    BY <2>1
  <2> QED
    BY <2>2
<1> HIDE DEF step, dom
<1>4. \E f : Eq(f)
  <2>1. PICK f : IsLoop(f, v, step, n) /\ \A k \in 0 .. n : f[k] \in Inv[k]
    <3>1. \A k \in 1 .. n : \A e \in Inv[k - 1] : step[<<k, e>>] \in Inv[k]
      BY <1>2, <1>3
    <3> HIDE DEF Inv, n
    <3> QED
      BY <1>0, <1>1, <3>1, LoopIn
  <2>2. \A k \in 1 .. n : step[<<k, f[k - 1]>>] = OnSector(f[k - 1], bytes)
    <3>1. \A k \in 1 .. n : k - 1 \in 0 .. n
      BY <1>0
    <3> HIDE DEF Inv
    <3> QED
      BY <1>3, <2>1, <3>1
  <2>3. \A k \in 0 .. n : k = 0 \/ k \in 1 .. n
    BY <1>0
  <2>4. f = [k \in 0 .. n |-> IF k = 0 THEN v ELSE step[<<k, f[k - 1]>>]]
    BY <2>1 DEF IsLoop
  <2>5. Eq(f)
    BY <2>2, <2>3, <2>4
  <2> HIDE DEF Eq
  <2> QED
    BY <2>5
<1>5. Eq(done)
  <2> HIDE DEF Eq
  <2> QED
    BY <1>4
<1>6. w = done[n]
  BY DEF Written, done, OnSector
<1> HIDE DEF done, Inv, n
<1>7. done[0] = v /\ \A k \in 1 .. n : done[k] = OnSector(done[k - 1], bytes)
  BY <1>0, <1>5
<1>8. done[n] \in Inv[n]
  <2>1. done[0] \in Inv[0] /\ \A k \in 1 .. n : done[k - 1] \in Inv[k - 1] => done[k] \in Inv[k]
    BY <1>1, <1>2, <1>7
  <2>2. \A k \in 0 .. n : done[k] \in Inv[k]
    BY <1>0, <2>1, Rounds
  <2> QED
    BY <1>0, <2>2
<1>9. w \in Inv[n]
  BY <1>6, <1>8
<1>10. \E h : System(w, h, kept, Safe, Lost) /\ WritingOn(v, w, g, h, s, z, bytes)
  BY <1>0, <1>9 DEF Inv, Writing, n
<1>11. Good(w) => w.count >= n \/ w.count = n
  BY <1>0, <1>9 DEF Inv, Writing, n
<1>12. Good(w) => w.count \in 0 .. n
  BY <1>10 DEF WritingOn, n
<1>13. Good(w) => w.count = n
  BY <1>0, <1>11, <1>12
<1> QED
  BY <1>10, <1>13 DEF n

(* The file is longer by bytes that were put behind its end.               *)
Extended(h, s, new) ==
    [t \in SlotNumbers |-> IF t = s THEN [name |-> h[s].name, chain |-> h[s].chain,
                                          bytes |-> h[s].bytes \o new, kept |-> h[s].kept]
                           ELSE h[t]]

LEMMA ExtendedOwns ==
    ASSUME NEW h, Owns(h), NEW s \in SlotNumbers, h[s].name \in Names, NEW new \in Seq(Byte),
           NEW f, f = Extended(h, s, new)
    PROVE  /\ Owns(f) /\ \A kept : Keeps(h, kept) => Keeps(f, kept)
           /\ f[s].name = h[s].name /\ f[s].kept = h[s].kept /\ f[s].chain = h[s].chain
           /\ f[s].bytes = h[s].bytes \o new
           /\ \A t \in SlotNumbers : t # s => f[t] = h[t]
           /\ \A t \in SlotNumbers : f[t].name = h[t].name /\ f[t].kept = h[t].kept /\ f[t].chain = h[t].chain
<1>1. /\ f[s].name = h[s].name /\ f[s].kept = h[s].kept /\ f[s].chain = h[s].chain
      /\ f[s].bytes = h[s].bytes \o new
      /\ \A t \in SlotNumbers : t # s => f[t] = h[t]
  BY DEF Extended
<1> HIDE DEF Extended
<1>2. \A t \in SlotNumbers : f[t].name = h[t].name /\ f[t].kept = h[t].kept /\ f[t].chain = h[t].chain
  BY <1>1
<1>3. h[s].bytes \o new \in Seq(Byte)
  BY ConcatProperties DEF Owns
<1>4. \A t \in SlotNumbers : f[t].bytes \in Seq(Byte)
  BY <1>1, <1>3 DEF Owns
<1>5. \A t \in SlotNumbers : f[t].name \notin Names => f[t] = h[t]
  BY <1>1
<1>6. Owns(f)
  <2> SUFFICES ASSUME NEW t \in SlotNumbers
               PROVE  /\ f[t].chain \in Seq(Clusters)
                      /\ f[t].bytes \in Seq(Byte)
                      /\ f[t].name \notin Names => f[t].chain = <<>> /\ f[t].kept = NoFile /\ f[t].bytes = <<>>
                      /\ \A i, j \in 1 .. Len(f[t].chain) : f[t].chain[i] = f[t].chain[j] => i = j
                      /\ \A r \in SlotNumbers : r # t =>
                            /\ \A k : ~(InChain(f[t].chain, k) /\ InChain(f[r].chain, k))
                            /\ f[t].name \in Names => f[t].name # f[r].name
    BY Zenon DEF Owns
  <2>1. f[t].bytes \in Seq(Byte) /\ (f[t].name \notin Names => f[t] = h[t])
    BY <1>4, <1>5
  <2>2. f[t].name = h[t].name /\ f[t].chain = h[t].chain
    BY <1>2
  <2>3. ASSUME NEW r \in SlotNumbers, r # t
        PROVE  /\ \A k : ~(InChain(f[t].chain, k) /\ InChain(f[r].chain, k))
               /\ f[t].name \in Names => f[t].name # f[r].name
    <3>1. f[r].name = h[r].name /\ f[r].chain = h[r].chain
      BY <1>2
    <3> QED
      BY <2>2, <2>3, <3>1, ZenonT(40) DEF Owns
  <2>4. /\ f[t].chain \in Seq(Clusters)
        /\ \A i, j \in 1 .. Len(f[t].chain) : f[t].chain[i] = f[t].chain[j] => i = j
    BY <2>2 DEF Owns
  <2>5. f[t].name \notin Names => f[t].chain = <<>> /\ f[t].kept = NoFile /\ f[t].bytes = <<>>
    BY <2>1 DEF Owns
  <2> QED
    BY <2>1, <2>3, <2>4, <2>5
<1>7. \A kept : Keeps(h, kept) => Keeps(f, kept)
  BY <1>2 DEF Keeps
<1> QED
  BY <1>1, <1>2, <1>6, <1>7

LEMMA ExtendedSystem ==
    ASSUME NEW v, NEW h, NEW kept, NEW Safe, NEW Lost, System(v, h, kept, Safe, Lost),
           NEW s \in SlotNumbers, h[s].name \in Names, NEW z, EndAt(h, s, z), NEW new \in Seq(Byte),
           v.count = Len(new), Put(v, h[s].chain, z, new),
           NEW f, f = Extended(h, s, new)
    PROVE  System(v, f, kept, Safe, Lost)
<1>1. /\ Owns(f) /\ Keeps(f, kept)
      /\ f[s].bytes = h[s].bytes \o new /\ f[s].chain = h[s].chain
      /\ \A t \in SlotNumbers : t # s => f[t] = h[t]
      /\ \A t \in SlotNumbers : f[t].name = h[t].name /\ f[t].kept = h[t].kept /\ f[t].chain = h[t].chain
  BY ExtendedOwns DEF System
<1> HIDE DEF Extended
<1>2. Whole(f) = Whole(h)
  <2>1. ASSUME NEW c, NEW t \in SlotNumbers PROVE Ok(c, f, t) <=> Ok(c, h, t)
    BY <1>1 DEF Ok, Fits, Holds
  <2> QED
    BY <2>1 DEF Whole
<1>3. Tight(Cached(v), f, Lost)
  BY <1>1 DEF System, Tight
<1> DEFINE c == Cached(v)
           p == h[s].chain
           old == h[s].bytes
           n == Len(new)
<1>4. z \in Nat /\ old \in Seq(Byte) /\ z = Len(old) /\ n \in Nat /\ z + n <= Len(p) * ClusterBytes
  <2>1. old \in Seq(Byte)
    BY DEF System, Owns
  <2> QED
    BY <2>1 DEF EndAt, Put
<1>5. Full(c, h, s)
  BY DEF System, Current
<1>6. Full(c, f, s)
  <2>1. f[s].bytes = old \o new /\ Len(f[s].bytes) = z + n
    BY <1>1, <1>4, ConcatProperties
  <2>2. \A j \in Nat : j < n => ByteAt(c, p, z + j) = new[j + 1]
    BY DEF Put
  <2>3. \A j \in 1 .. z : ByteAt(c, p, j - 1) = old[j]
    BY <1>4, <1>5 DEF Full
  <2>4. /\ \A j \in 1 .. z : f[s].bytes[j] = old[j]
        /\ \A j \in 1 .. n : f[s].bytes[z + j] = new[j]
    BY <1>4, <2>1, ConcatProperties
  <2> HIDE DEF c, p, n, old
  <2>5. ASSUME NEW j \in 1 .. z + n PROVE ByteAt(c, p, j - 1) = f[s].bytes[j]
    <3>1. CASE j <= z
      <4>1. j \in 1 .. z
        BY <1>4, <3>1
      <4> QED
        BY <2>3, <2>4, <4>1
    <3>2. CASE j > z
      <4> DEFINE i == j - z
      <4>1. i \in 1 .. n /\ i - 1 \in Nat /\ i - 1 < n /\ j - 1 = z + (i - 1) /\ j = z + i /\ (i - 1) + 1 = i
        BY <1>4, <3>2
      <4> HIDE DEF i
      <4>2. ByteAt(c, p, z + (i - 1)) = new[(i - 1) + 1] /\ f[s].bytes[z + i] = new[i]
        BY <2>2, <2>4, <4>1
      <4> QED
        BY <4>1, <4>2
    <3> QED
      BY <1>4, <3>1, <3>2
  <2>6. Named(c, s) <=> h[s].name \in Names
    BY <1>5 DEF Full
  <2>7. f[s].chain = p /\ f[s].name = h[s].name /\ Runs(c, p, Len(p))
    BY <1>1, <1>5 DEF Full, p
  <2> QED
    BY <1>4, <2>1, <2>5, <2>6, <2>7 DEF Full
<1>7. \A t \in SlotNumbers : t # s => Full(c, f, t)
  <2> SUFFICES ASSUME NEW t \in SlotNumbers, t # s PROVE Full(c, f, t)
    OBVIOUS
  <2>1. Full(c, h, t)
    BY DEF System, Current
  <2>2. f[t] = h[t]
    BY <1>1
  <2> QED
    BY <2>1, <2>2 DEF Full
<1>8. Current(c, f)
  BY <1>6, <1>7 DEF Current
<1> QED
  BY <1>1, <1>2, <1>3, <1>8 DEF System
=============================================================================
