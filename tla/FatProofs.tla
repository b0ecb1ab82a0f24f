------------------------------ MODULE FatProofs ------------------------------
(***************************************************************************)
(* The calls of the FAT library, on top of FatVolumeProofs.                *)
(*                                                                         *)
(* Every operation of the library turns a System for g into one for some   *)
(* other ghost h (Grown, Longer, Gone, Renamed, ...). FatInv, which is     *)
(* inductive, says that between two calls some ghost exists for which the  *)
(* drive is Settled and each open file object is a handle on a file of it. *)
(* That what is read from a card, along its chains, are the files of the   *)
(* ghost (EntriesRead and what follows) gives the properties.              *)
(*                                                                         *)
(* The sections: the calls; what is read from a card; the invariant; the   *)
(* theorems; and the refinement of Files.                                  *)
(***************************************************************************)
EXTENDS FatVolumeProofs

-----------------------------------------------------------------------------
(* A call on the file of a slot: the clusters that it had it keeps, other  *)
(* files are not touched.                                                  *)
Later(g, h, s) ==
    /\ Owns(h) /\ h[s].name = g[s].name /\ h[s].kept = g[s].kept
    /\ Len(g[s].chain) <= Len(h[s].chain)
    /\ \A i \in 1 .. Len(g[s].chain) : h[s].chain[i] = g[s].chain[i]
    /\ \A t \in SlotNumbers : t # s => h[t] = g[t]
SameHandle(f, h) ==
    h.first = f.first /\ h.entry = f.entry /\ h.read = f.read /\ h.write = f.write
    /\ h.open = f.open /\ h.failed = f.failed
SameEntries(x, y) == \A slot \in SlotNumbers : Slot(y, slot) = Slot(x, slot)

Wrote(v, w, g, h, s, bytes) ==
    /\ Later(g, h, s) /\ SameHandle(v.f, w.f) /\ w.got = v.got
    /\ SameEntries(Cached(v), Cached(w))
    /\ h[s].bytes = IF Good(w) THEN g[s].bytes \o bytes ELSE g[s].bytes
    /\ w.f.size = Len(h[s].bytes)
    /\ Good(w) => w.f.pos = w.f.size /\ Stands(w.f, h[s].chain, w.f.pos)
    /\ ~Good(w) => w.f.pos = v.f.pos

Counted(w) == [w EXCEPT !.f.size = @ + w.count, !.f.pos = @ + w.count]

LEMMA CountedDone ==
    ASSUME NEW v \in Volume, NEW w, w = Counted(v)
    PROVE  /\ w \in Volume /\ SameBuffers(v, w) /\ w.err = v.err /\ w.got = v.got
           /\ SameHandle(v.f, w.f) /\ w.f.size = v.f.size + v.count /\ w.f.pos = v.f.pos + v.count
           /\ w.f.cluster = v.f.cluster /\ w.f.sector = v.f.sector /\ w.f.offset = v.f.offset
<1> DEFINE f == [v.f EXCEPT !.size = @ + v.count, !.pos = @ + v.count]
<1>1. w = [v EXCEPT !.f = f]
  BY DEF Counted, Volume, Object
<1>2. v.f \in Object /\ v.count \in Nat
  BY DEF Volume
<1>3. /\ f \in Object /\ f.size = v.f.size + v.count /\ f.pos = v.f.pos + v.count
      /\ f.cluster = v.f.cluster /\ f.sector = v.f.sector /\ f.offset = v.f.offset /\ SameHandle(v.f, f)
  <2>1. v.f.size + v.count \in Nat /\ v.f.pos + v.count \in Nat
    BY <1>2 DEF Object
  <2> QED
    BY <1>2, <2>1 DEF Object, SameHandle
<1> HIDE DEF f
<1> QED
  BY <1>1, <1>3 DEF Volume, SameBuffers, SameFat, SameData

LEMMA WriteDone ==
    ASSUME NEW v, NEW g, NEW kept, NEW Safe, NEW Lost, System(v, g, kept, Safe, Lost), Good(v), v.count = 0,
           NEW s \in SlotNumbers, g[s].name \in Names, KeptBefore(g, s, v.f.size), EndAt(g, s, v.f.size),
           v.f.pos = v.f.size, NEW bytes \in Seq(Byte), Stands(v.f, g[s].chain, v.f.size),
           NEW w, w = Write(v, bytes)
    PROVE  \E h : System(w, h, kept, Safe, Lost) /\ Wrote(v, w, g, h, s, bytes)
<1> DEFINE z == v.f.size
           e == Written(v, bytes)
<1>0. EndAt(g, s, z) /\ KeptBefore(g, s, z) /\ Stands(v.f, g[s].chain, z) /\ Owns(g) /\ v.f.pos = z
  BY DEF System
<1>1. e = Written(v, bytes) /\ w = IF Good(e) THEN Counted(e) ELSE e
  BY DEF Write, Then, Counted
<1> HIDE DEF z, e
<1>2. /\ \E h : System(e, h, kept, Safe, Lost) /\ WritingOn(v, e, g, h, s, z, bytes)
      /\ Good(e) => e.count = Len(bytes)
  BY <1>0, <1>1, WrittenDone
<1>3. PICK h : System(e, h, kept, Safe, Lost) /\ WritingOn(v, e, g, h, s, z, bytes)
  BY <1>2
<1>4. /\ Longer(g, h, s) /\ SameFile(v.f, e.f) /\ e.got = v.got
      /\ SameEntries(Cached(v), Cached(e)) /\ Vol(e) /\ e \in Volume
  BY <1>3 DEF WritingOn, SameEntries, System, Vol
<1>5. /\ Later(g, h, s) /\ SameHandle(v.f, e.f) /\ h[s].bytes = g[s].bytes /\ e.f.size = z /\ e.f.pos = v.f.pos
      /\ z = Len(g[s].bytes) /\ z \in Nat
  <2>1. g[s].bytes \in Seq(Byte)
    BY <1>0 DEF Owns
  <2> QED
    BY <1>0, <1>4, <2>1 DEF Longer, Later, SameFile, SameHandle, EndAt, z
<1>6. CASE ~Good(e)
  <2>1. w = e
    BY <1>1, <1>6
  <2> QED
    BY <1>3, <1>4, <1>5, <1>6, <2>1 DEF Wrote
<1>7. CASE Good(e)
  <2> DEFINE f == Extended(h, s, bytes)
             n == Len(bytes)
  <2>1. w = Counted(e)
    BY <1>1, <1>7
  <2>2. /\ w \in Volume /\ SameBuffers(e, w) /\ w.err = e.err /\ w.got = e.got
        /\ SameHandle(e.f, w.f) /\ w.f.size = e.f.size + e.count /\ w.f.pos = e.f.pos + e.count
        /\ w.f.cluster = e.f.cluster /\ w.f.sector = e.f.sector /\ w.f.offset = e.f.offset
    BY <1>4, <2>1, CountedDone
  <2>3. h[s].name \in Names /\ EndAt(h, s, z) /\ e.count = Len(bytes) /\ Put(e, h[s].chain, z, bytes)
        /\ Stands(e.f, h[s].chain, z + e.count)
    BY <1>2, <1>3, <1>5, <1>7 DEF Later, EndAt, WritingOn
  <2>4. f = Extended(h, s, bytes)
    OBVIOUS
  <2> HIDE DEF f
  <2>5. System(e, f, kept, Safe, Lost)
    BY <1>3, <2>3, <2>4, ExtendedSystem
  <2>6. System(w, f, kept, Safe, Lost) /\ Cached(w) = Cached(e)
    BY <2>2, <2>5, SystemBuffers
  <2>7. /\ Owns(f) /\ f[s].name = h[s].name /\ f[s].kept = h[s].kept /\ f[s].chain = h[s].chain
        /\ f[s].bytes = h[s].bytes \o bytes /\ \A t \in SlotNumbers : t # s => f[t] = h[t]
    <3>1. Owns(h)
      BY <1>4 DEF Longer
    <3> QED
      BY <2>3, <2>4, <3>1, ExtendedOwns
  <2>8. Later(g, f, s)
    BY <1>5, <2>7 DEF Later
  <2>9. Good(w) /\ SameHandle(v.f, w.f) /\ SameEntries(Cached(v), Cached(w)) /\ w.got = v.got
    BY <1>4, <1>5, <1>7, <2>2, <2>6 DEF Good, SameHandle
  <2>10. f[s].bytes = g[s].bytes \o bytes /\ Len(f[s].bytes) = z + n
    <3>1. g[s].bytes \in Seq(Byte)
      BY <1>0 DEF Owns
    <3> QED
      BY <1>5, <2>7, <3>1, ConcatProperties
  <2>11. w.f.size = z + n /\ w.f.pos = z + n
    BY <1>0, <1>5, <2>2, <2>3
  <2>12. Stands(w.f, f[s].chain, z + n)
    <3>1. Stands(e.f, f[s].chain, z + n)
      BY <2>3, <2>7
    <3> QED
      BY <2>2, <3>1 DEF Stands, At, Behind
  <2> QED
    BY <2>6, <2>8, <2>9, <2>10, <2>11, <2>12 DEF Wrote
<1> QED
  BY <1>6, <1>7

-----------------------------------------------------------------------------
(* The bytes of a file from a position to another.                         *)
Part(bytes, a, b) == [i \in 1 .. b - a |-> bytes[a + i]]

LEMMA PartTyped ==
    ASSUME NEW bytes \in Seq(Byte), NEW a \in Nat, NEW b \in Nat, a <= b, b <= Len(bytes)
    PROVE  /\ Part(bytes, a, b) \in Seq(Byte) /\ Len(Part(bytes, a, b)) = b - a
           /\ \A i \in 1 .. b - a : Part(bytes, a, b)[i] = bytes[a + i]
<1>1. b - a \in Nat /\ \A i \in 1 .. b - a : a + i \in 1 .. Len(bytes)
  OBVIOUS
<1>2. \A i \in 1 .. b - a : bytes[a + i] \in Byte
  BY <1>1
<1> QED
  BY <1>1, <1>2 DEF Part

LEMMA PartNone ==
    ASSUME NEW bytes \in Seq(Byte), NEW a \in Nat
    PROVE  Part(bytes, a, a) = <<>>
<1>1. 1 .. a - a = {}
  OBVIOUS
<1> QED
  BY <1>1 DEF Part

LEMMA Joined ==
    ASSUME NEW S, NEW p \in Seq(S), NEW q \in Seq(S)
    PROVE  /\ p \o q \in Seq(S) /\ Len(p \o q) = Len(p) + Len(q)
           /\ \A i \in 1 .. Len(p) : (p \o q)[i] = p[i]
           /\ \A i \in 1 .. Len(q) : (p \o q)[Len(p) + i] = q[i]
<1>1. Len(p) \in Nat /\ Len(q) \in Nat
  OBVIOUS
<1>2. p \o q \in Seq(S) /\ Len(p \o q) = Len(p) + Len(q)
  BY ConcatProperties
<1>3. \A i \in 1 .. Len(p) + Len(q) : (p \o q)[i] = IF i <= Len(p) THEN p[i] ELSE q[i - Len(p)]
  BY ConcatProperties
<1> DEFINE m == Len(p)
           n == Len(q)
           r == p \o q
<1>4. m \in Nat /\ n \in Nat /\ \A i \in 1 .. m + n : r[i] = IF i <= m THEN p[i] ELSE q[i - m]
  BY <1>1, <1>3
<1> HIDE DEF m, n, r
<1>5. \A i \in 1 .. m : r[i] = p[i]
  BY <1>4
<1>6. \A i \in 1 .. n : r[m + i] = q[i]
  <2> SUFFICES ASSUME NEW i \in 1 .. n PROVE r[m + i] = q[i]
    OBVIOUS
  <2>1. m + i \in 1 .. m + n /\ ~(m + i <= m) /\ m + i - m = i
    BY <1>4
  <2> QED
    BY <1>4, <2>1
<1> QED
  BY <1>2, <1>5, <1>6 DEF m, n, r

LEMMA PartMore ==
    ASSUME NEW bytes \in Seq(Byte), NEW a \in Nat, NEW b \in Nat, NEW c \in Nat, a <= b, b <= c, c <= Len(bytes)
    PROVE  Part(bytes, a, b) \o Part(bytes, b, c) = Part(bytes, a, c)
<1> DEFINE p == Part(bytes, a, b)
           more == Part(bytes, b, c)
           q == Part(bytes, a, c)
<1>1. /\ p \in Seq(Byte) /\ Len(p) = b - a /\ \A i \in 1 .. b - a : p[i] = bytes[a + i]
  <2>1. b <= Len(bytes)
    OBVIOUS
  <2> QED
    BY <2>1, PartTyped
<1>2. more \in Seq(Byte) /\ Len(more) = c - b /\ \A i \in 1 .. c - b : more[i] = bytes[b + i]
  BY PartTyped
<1>3. q \in Seq(Byte) /\ Len(q) = c - a /\ \A i \in 1 .. c - a : q[i] = bytes[a + i]
  <2>1. a <= c
    OBVIOUS
  <2> QED
    BY <2>1, PartTyped
<1> HIDE DEF p, q, more
<1>4. /\ p \o more \in Seq(Byte) /\ Len(p \o more) = (b - a) + (c - b)
      /\ \A i \in 1 .. b - a : (p \o more)[i] = p[i]
      /\ \A i \in 1 .. c - b : (p \o more)[(b - a) + i] = more[i]
  <2>1. /\ p \o more \in Seq(Byte) /\ Len(p \o more) = Len(p) + Len(more)
        /\ \A i \in 1 .. Len(p) : (p \o more)[i] = p[i]
        /\ \A i \in 1 .. Len(more) : (p \o more)[Len(p) + i] = more[i]
    <3>1. p \in Seq(Byte) /\ more \in Seq(Byte)
      BY <1>1, <1>2
    <3> QED
      BY <3>1, Joined
  <2>2. Len(p) = b - a /\ Len(more) = c - b
    BY <1>1, <1>2
  <2> QED
    BY <2>1, <2>2
<1>5. (b - a) + (c - b) = c - a
  OBVIOUS
<1> DEFINE r == p \o more
<1>6. r \in Seq(Byte) /\ Len(r) = c - a /\ (\A i \in 1 .. b - a : r[i] = p[i])
      /\ \A i \in 1 .. c - b : r[(b - a) + i] = more[i]
  BY <1>4, <1>5
<1> HIDE DEF r
<1>7. ASSUME NEW i \in 1 .. c - a PROVE r[i] = q[i]
  <2>1. CASE i <= b - a
    <3>1. i \in 1 .. b - a
      BY <2>1
    <3> QED
      BY <1>1, <1>3, <1>6, <3>1
  <2>2. CASE i > b - a
    <3> DEFINE j == i - (b - a)
    <3>1. j \in 1 .. c - b /\ i = (b - a) + j /\ a + i = b + j
      BY <2>2
    <3> HIDE DEF j
    <3>2. r[(b - a) + j] = bytes[b + j]
      BY <1>2, <1>6, <3>1
    <3>3. q[i] = bytes[a + i]
      BY <1>3
    <3> QED
      BY <3>1, <3>2, <3>3
  <2> QED
    BY <2>1, <2>2
<1>8. r = q
  BY <1>3, <1>6, <1>7, SeqEqual
<1> QED
  BY <1>8 DEF r, q, p, more

LEMMA ByteHere ==
    ASSUME NEW p, NEW i \in Nat \ {0}, NEW t \in SectorNumbers, NEW o \in Nat, NEW k \in Nat, o + k < SECTOR,
           NEW c, NEW pos, NextAt(pos, Place(i, t, o), k)
    PROVE  ByteAt(c, p, pos) = c[DataSector(p[i], t)][o + k] /\ pos \in Nat
<1>1. t \in Nat /\ SECTOR \in Nat /\ t \in 0 .. SPC - 1
  BY Numbers DEF SectorNumbers
<1> DEFINE b == o + k
<1>2. b \in 0 .. SECTOR - 1 /\ Place(i, t, b) = Place(i, t, o) + k /\ Place(i, t, o) \in Nat
  BY <1>1, PlaceNumber
<1>3. pos = Place(i, t, b) /\ pos \in Nat
  BY <1>2 DEF NextAt
<1> HIDE DEF b
<1> DEFINE d == ClusterOf(pos)
           r == SectorIn(pos)
           e == OffsetIn(pos)
<1>4. d \in Nat \ {0} /\ r \in 0 .. SPC - 1 /\ e \in 0 .. SECTOR - 1 /\ pos = Place(d, r, e)
  BY <1>3, PlaceOf
<1>5. d = i /\ r = t /\ e = b
  <2> HIDE DEF d, r, e
  <2>1. Place(d, r, e) = Place(i, t, b)
    BY <1>3, <1>4
  <2> QED
    BY <1>1, <1>2, <1>4, <2>1, PlaceOnce, SMTT(30)
<1>6. ByteAt(c, p, pos) = c[DataSector(p[i], t)][b]
  BY <1>5 DEF ByteAt
<1> QED
  BY <1>3, <1>6 DEF b

(* A call that reads: the handle stays, the position moves over what was   *)
(* taken.                                                                  *)
ReadingOn(v, e, g, s) ==
    /\ Moves(v, e) /\ SameHandle(v.f, e.f) /\ e.f.size = v.f.size
    /\ Stands(e.f, g[s].chain, e.f.pos)
    /\ v.f.pos <= e.f.pos /\ e.f.pos <= v.f.size
    /\ e.got = Part(g[s].bytes, v.f.pos, e.f.pos)

Amount(here) == Least({Least({SECTOR - here.f.offset, here.count}), here.f.size - here.f.pos})
Taken(here, n, left) ==
    [here EXCEPT !.got = @ \o [i \in 1 .. n |-> here.data[here.f.offset + i - 1]],
                 !.f.offset = @ + n, !.f.pos = @ + n, !.count = left]

IsAmount(n, o, m, size, pos) == n = Least({Least({SECTOR - o, m}), size - pos})

LEMMA AmountOf ==
    ASSUME NEW o \in Nat, o < SECTOR, NEW m \in Nat, NEW size \in Nat, NEW pos \in Nat, pos <= size,
           NEW n, IsAmount(n, o, m, size, pos)
    PROVE  /\ n \in Nat /\ o + n <= SECTOR /\ pos + n <= size /\ o + n \in 0 .. SECTOR
           /\ m - n \in Nat
<1> DEFINE room == Least({SECTOR - o, m})
<1>1. SECTOR - o \in Nat /\ size - pos \in Nat /\ SECTOR \in Nat
  BY Numbers
<1>2. room \in Nat /\ room <= SECTOR - o /\ room <= m
  BY <1>1, LeastOf
<1> HIDE DEF room
<1>3. n \in Nat /\ n <= room /\ n <= size - pos
  <2>1. n = Least({room, size - pos})
    BY DEF IsAmount, room
  <2> QED
    BY <1>1, <1>2, <2>1, LeastOf
<1> QED
  BY <1>1, <1>2, <1>3

SectorBytes(page, o, n) == [k \in 1 .. n |-> page[o + k - 1]]
MoreGot(a, n) == a.got \o SectorBytes(a.data, a.f.offset, n)

LEMMA TakenFields ==
    ASSUME NEW a \in Volume, NEW n \in Nat, NEW left \in Nat, MoreGot(a, n) \in Seq(Byte), NEW w, w = Taken(a, n, left)
    PROVE  /\ w \in Volume /\ SameBuffers(a, w) /\ w.err = a.err /\ SameHandle(a.f, w.f) /\ w.f.size = a.f.size
           /\ w.f.pos = a.f.pos + n /\ w.f.offset = a.f.offset + n
           /\ w.f.cluster = a.f.cluster /\ w.f.sector = a.f.sector
           /\ w.got = MoreGot(a, n) /\ w.count = left
<1> DEFINE f == [a.f EXCEPT !.offset = @ + n, !.pos = @ + n]
           got == MoreGot(a, n)
<1>1. w = [a EXCEPT !.f = f, !.got = got, !.count = left]
  BY DEF MoreGot, SectorBytes, Taken, Volume, Object
<1>2. /\ f \in Object /\ f.size = a.f.size /\ f.pos = a.f.pos + n /\ f.offset = a.f.offset + n
      /\ f.cluster = a.f.cluster /\ f.sector = a.f.sector /\ SameHandle(a.f, f)
  <2>1. a.f \in Object
    BY DEF Volume
  <2>2. a.f.offset + n \in Nat /\ a.f.pos + n \in Nat
    <3>1. a.f.offset \in Nat /\ a.f.pos \in Nat
      BY <2>1 DEF Object
    <3> QED
      BY <3>1
  <2> QED
    BY <2>1, <2>2 DEF Object, SameHandle
<1>3. got \in Seq(Byte) /\ got = MoreGot(a, n)
  OBVIOUS
<1> HIDE DEF f, got
<1> QED
  BY <1>1, <1>2, <1>3 DEF Volume, SameBuffers, SameFat, SameData

LEMMA UpTo ==
    ASSUME NEW from \in Nat, NEW pos \in Nat, NEW n \in Nat, NEW size \in Nat,
           from <= pos, pos + n <= size
    PROVE  /\ from \in Nat /\ pos \in Nat /\ pos + n \in Nat
           /\ from <= pos /\ from <= pos + n /\ pos <= pos + n /\ pos + n <= size
OBVIOUS

-----------------------------------------------------------------------------
(* The bytes of a sector that is in the buffer.                            *)
LEMMA TakenBytes ==
    ASSUME NEW g, Owns(g), NEW s \in SlotNumbers, NEW c, Full(c, g, s),
           NEW i \in Nat \ {0}, NEW t \in SectorNumbers, NEW o \in Nat, NEW n \in Nat, o + n <= SECTOR,
           NEW pos, NextAt(pos, Place(i, t, o), 0), pos + n <= Len(g[s].bytes)
    PROVE  SectorBytes(c[DataSector(g[s].chain[i], t)], o, n) = Part(g[s].bytes, pos, pos + n)
<1> DEFINE p == g[s].chain
           bytes == g[s].bytes
           most == Len(bytes)
<1>0. SECTOR \in Nat /\ most \in Nat /\ pos + n <= most /\ bytes \in Seq(Byte)
      /\ Place(i, t, o) \in Nat /\ pos = Place(i, t, o) /\ pos \in Nat
  <2>1. bytes \in Seq(Byte)
    BY DEF Owns
  <2>2. most \in Nat /\ pos + n <= most
    BY <2>1
  <2>3. t \in Nat
    BY DEF SectorNumbers
  <2>4. Place(i, t, o) \in Nat
    BY <2>3, PlaceNumber
  <2>5. pos = Place(i, t, o)
    BY <2>4 DEF NextAt
  <2> QED
    BY <2>1, <2>2, <2>4, <2>5, Numbers
<1>1. \A j \in 1 .. most : ByteAt(c, p, j - 1) = bytes[j]
  BY DEF Full
<1> HIDE DEF p, bytes, most
<1>2. ASSUME NEW k \in 1 .. n PROVE c[DataSector(p[i], t)][o + k - 1] = bytes[pos + k]
  <2> DEFINE l == k - 1
             r == pos + l
  <2>1. l \in Nat /\ o + l < SECTOR /\ o + l = o + k - 1 /\ r + 1 = pos + k /\ r + 1 \in 1 .. most /\ (r + 1) - 1 = r
    BY <1>0
  <2>2. NextAt(r, Place(i, t, o), l)
    BY <1>0 DEF NextAt
  <2> HIDE DEF l, r
  <2>3. ByteAt(c, p, r) = c[DataSector(p[i], t)][o + l]
    BY <2>1, <2>2, ByteHere
  <2>4. ByteAt(c, p, r) = bytes[r + 1]
    BY <1>1, <2>1
  <2> QED
    BY <2>1, <2>3, <2>4
<1>3. 1 .. n = 1 .. (pos + n) - pos
  BY <1>0
<1>4. [k \in 1 .. n |-> c[DataSector(p[i], t)][o + k - 1]] = [k \in 1 .. (pos + n) - pos |-> bytes[pos + k]]
  BY <1>2, <1>3
<1> QED
  BY <1>4 DEF Part, p, bytes, SectorBytes

LEMMA ReadSectorDone ==
    ASSUME NEW v, Vol(v), NEW g, Owns(g), NEW s \in SlotNumbers, Full(Cached(v), g, s), EndAt(g, s, v.f.size),
           NEW e, Good(e), ReadingOn(v, e, g, s), NEW w, w = ReadSector(e)
    PROVE  ReadingOn(v, w, g, s)
<1> DEFINE a == HereRead(e)
           o == a.f.offset
           n == Amount(a)
           room == Least({SECTOR - o, a.count})
           left == IF n < room THEN 0 ELSE a.count - n
           p == g[s].chain
           bytes == g[s].bytes
           pos == e.f.pos
           size == v.f.size
<1>1. w = IF e.count = 0 THEN e ELSE IF Good(a) THEN Taken(a, n, left) ELSE a
  BY DEF ReadSector, Then, HereRead, Taken, Amount
<1>2. /\ Vol(e) /\ Cached(e) = Cached(v) /\ Moves(v, e) /\ SameHandle(v.f, e.f) /\ e.f.size = size
      /\ Stands(e.f, p, pos) /\ v.f.pos <= pos /\ pos <= size /\ e.got = Part(bytes, v.f.pos, pos)
  BY DEF ReadingOn, Moves
<1>3. /\ p \in Seq(Clusters) /\ Runs(Cached(e), p, Len(p)) /\ bytes \in Seq(Byte) /\ size = Len(bytes) /\ size \in Nat
  <2>1. bytes \in Seq(Byte) /\ size = Len(bytes)
    BY DEF Owns, EndAt
  <2> QED
    BY <1>2, <2>1 DEF Owns, Full
<1>4. /\ Moves(e, a) /\ Steps(e, a)
      /\ \/ Good(a) /\ At(a.f, p, pos) /\ a.f.offset < SECTOR /\ a.dataSector = Sector(a)
         \/ ~Good(a) /\ Behind(a.f)
  <2>1. a = HereRead(e)
    OBVIOUS
  <2> HIDE DEF a, p, pos
  <2> QED
    BY <1>2, <1>3, <2>1, HereReadDone
<1> HIDE DEF a
<1>5. /\ Moves(v, a) /\ SameHandle(v.f, a.f) /\ a.f.size = size /\ a.f.pos = pos /\ a.got = Part(bytes, v.f.pos, pos)
      /\ Vol(a) /\ a \in Volume /\ Cached(a) = Cached(v)
  <2>1. Moves(v, a)
    BY <1>2, <1>4, MovesOn
  <2> QED
    BY <1>2, <1>4, <2>1 DEF Steps, SameFile, SameHandle, Moves, Vol
<1>6. CASE e.count = 0
  BY <1>1, <1>6
<1>7. CASE e.count # 0 /\ ~Good(a)
  <2>1. w = a
    BY <1>1, <1>7
  <2>2. Behind(a.f)
    BY <1>4, <1>7
  <2> QED
    BY <1>2, <1>5, <2>1, <2>2 DEF ReadingOn, Stands
<1>8. CASE e.count # 0 /\ Good(a)
  <2>1. w = Taken(a, n, left)
    BY <1>1, <1>8
  <2>2. At(a.f, p, pos) /\ o < SECTOR /\ a.dataSector = Sector(a)
    BY <1>4, <1>8
  <2> DEFINE m == a.count
             t == a.f.sector
  <2>3. PICK i \in 1 .. Len(p) : a.f.cluster = p[i] /\ pos = Place(i, t, o)
    BY <2>2 DEF At
  <2>4. /\ t \in SectorNumbers /\ o \in Nat /\ i \in Nat \ {0} /\ p[i] \in Clusters
        /\ m \in Nat /\ pos \in Nat /\ v.f.pos \in Nat
    <3>1. t \in SectorNumbers /\ o \in Nat
      BY <2>2 DEF At
    <3>2. m \in Nat /\ e.f.pos \in Nat /\ v.f.pos \in Nat
      BY <1>2, <1>5 DEF Vol, Volume, Object
    <3>3. i \in Nat \ {0} /\ p[i] \in Clusters
      BY <1>3, <2>3
    <3> QED
      BY <3>1, <3>2, <3>3
  <2>5. n \in Nat /\ o + n <= SECTOR /\ pos + n <= size /\ o + n \in 0 .. SECTOR /\ m - n \in Nat
    <3>1. IsAmount(n, o, m, size, pos)
      BY <1>5 DEF Amount, IsAmount
    <3>2. pos <= size
      BY <1>2
    <3> HIDE DEF n, o, m, pos, size
    <3> QED
      BY <1>3, <2>2, <2>4, <3>1, <3>2, AmountOf
  <2>6. left \in Nat
    BY <2>5
  <2> HIDE DEF n, left
  <2> DEFINE more == SectorBytes(a.data, o, n)
  <2>7. more = Part(bytes, pos, pos + n)
    <3> DEFINE c == Cached(v)
               sec == DataSector(p[i], t)
    <3>1. a.data = c[sec]
      <4>1. a.dataSector = sec
        BY <2>2, <2>3 DEF Sector
      <4>2. sec \in DataSectors
        BY <2>4, SectorOf DEF SectorNumbers
      <4> HIDE DEF sec
      <4>3. sec \in DirSectors \cup DataSectors
        BY <4>2
      <4>4. a.data = Cached(a)[sec]
        BY <1>5, <4>1, <4>3, PageRead
      <4> QED
        BY <1>5, <4>4
    <3>2. NextAt(pos, Place(i, t, o), 0)
      <4>1. t \in Nat
        BY <2>4 DEF SectorNumbers
      <4>2. Place(i, t, o) \in Nat
        BY <2>4, <4>1, PlaceNumber
      <4> QED
        BY <2>3, <4>2 DEF NextAt
    <3>3. pos + n <= Len(g[s].bytes)
      BY <1>3, <2>5
    <3> HIDE DEF c, pos, t, o
    <3>4. Full(c, g, s)
      BY DEF c
    <3>5. SectorBytes(c[DataSector(g[s].chain[i], t)], o, n) = Part(g[s].bytes, pos, pos + n)
      <4>1. /\ i \in Nat \ {0} /\ t \in SectorNumbers /\ o \in Nat /\ n \in Nat /\ o + n <= SECTOR
            /\ Owns(g) /\ s \in SlotNumbers
        BY <2>4, <2>5 DEF o
      <4> QED
        BY <4>1, <3>2, <3>3, <3>4, TakenBytes
    <3> QED
      BY <3>1, <3>5
  <2>8. a.got \o more = Part(bytes, v.f.pos, pos + n)
    <3> DEFINE from == v.f.pos
               to == pos + n
               got == a.got
    <3>1. from \in Nat /\ pos \in Nat /\ to \in Nat /\ from <= pos /\ pos <= to /\ to <= Len(bytes)
      <4>1. /\ from \in Nat /\ pos \in Nat /\ n \in Nat /\ Len(bytes) \in Nat
            /\ from <= pos /\ pos + n <= Len(bytes)
        BY <1>2, <1>3, <2>4, <2>5, Zenon
      <4> HIDE DEF from, pos, bytes
      <4> QED
        BY <4>1, UpTo
    <3>2. got = Part(bytes, from, pos) /\ more = Part(bytes, pos, to)
      BY <1>5, <2>7
    <3> HIDE DEF from, to, got, more, pos, bytes
    <3>3. got \o more = Part(bytes, from, to)
      BY <1>3, <3>1, <3>2, PartMore
    <3> QED
      BY <3>3 DEF from, to, got
  <2>9. a.got \o more \in Seq(Byte)
    <3>1. pos + n \in Nat /\ v.f.pos <= pos + n /\ pos + n <= Len(bytes)
      <4>1. /\ v.f.pos \in Nat /\ pos \in Nat /\ n \in Nat /\ Len(bytes) \in Nat
            /\ v.f.pos <= pos /\ pos + n <= Len(bytes)
        BY <1>2, <1>3, <2>4, <2>5, Zenon
      <4> HIDE DEF pos, bytes
      <4> QED
        BY <4>1, UpTo
    <3>2. Part(bytes, v.f.pos, pos + n) \in Seq(Byte)
      BY <1>3, <2>4, <3>1, PartTyped
    <3> QED
      BY <2>8, <3>2
  <2>15. MoreGot(a, n) \in Seq(Byte) /\ MoreGot(a, n) = Part(bytes, v.f.pos, pos + n)
    BY <2>8, <2>9 DEF MoreGot
  <2>10. /\ w \in Volume /\ SameBuffers(a, w) /\ w.err = a.err /\ SameHandle(a.f, w.f) /\ w.f.size = a.f.size
         /\ w.f.pos = a.f.pos + n /\ w.f.offset = a.f.offset + n
         /\ w.f.cluster = a.f.cluster /\ w.f.sector = a.f.sector
         /\ w.got = MoreGot(a, n) /\ w.count = left
    <3>1. a \in Volume /\ n \in Nat /\ left \in Nat /\ MoreGot(a, n) \in Seq(Byte)
      BY <1>5, <2>5, <2>6, <2>15
    <3> HIDE DEF n, left, a
    <3> QED
      BY <2>1, <3>1, TakenFields
  <2> HIDE DEF more
  <2>11. Moves(v, w)
    <3>1. Moves(a, w)
      BY <1>5, <2>10, OtherFields
    <3> QED
      BY <1>5, <3>1, MovesOn
  <2>12. w.f.pos = pos + n /\ SameHandle(v.f, w.f) /\ w.f.size = size /\ w.got = Part(bytes, v.f.pos, pos + n)
    BY <1>5, <2>15, <2>10 DEF SameHandle
  <2>13. v.f.pos <= w.f.pos /\ w.f.pos <= size
    <3>1. /\ v.f.pos \in Nat /\ pos \in Nat /\ n \in Nat /\ size \in Nat
          /\ v.f.pos <= pos /\ pos + n <= size
      <4>1. v.f.pos \in Nat /\ pos \in Nat /\ n \in Nat /\ pos + n <= size
        BY <2>4, <2>5
      <4>2. v.f.pos <= pos /\ size \in Nat
        BY <1>2, <1>3
      <4> QED
        BY <4>1, <4>2
    <3> HIDE DEF pos, size
    <3>2. v.f.pos <= pos + n /\ pos + n <= size
      BY <3>1, UpTo
    <3> QED
      BY <2>12, <3>2
  <2>14. At(w.f, p, pos + n)
    <3>1. Place(i, t, o + n) = Place(i, t, o) + n
      <4>1. t \in Nat
        BY <2>4 DEF SectorNumbers
      <4> HIDE DEF o, t
      <4> QED
        BY <2>4, <2>5, <4>1, PlaceNumber
    <3>2. pos + n = Place(i, t, o + n)
      BY <2>3, <3>1
    <3>3. w.f.sector = t /\ w.f.offset = o + n /\ w.f.cluster = p[i]
      BY <2>3, <2>10
    <3> HIDE DEF o, t
    <3> QED
      BY <2>3, <2>4, <2>5, <3>2, <3>3 DEF At
  <2> QED
    BY <2>11, <2>12, <2>13, <2>14 DEF ReadingOn, Stands
<1> QED
  BY <1>6, <1>7, <1>8

OnRead(e) == Then(e, ReadSector)
Counting(v, length) == [v EXCEPT !.count = length]

LEMMA ReadDone ==
    ASSUME NEW v, Vol(v), Good(v), NEW g, Owns(g), NEW s \in SlotNumbers, Full(Cached(v), g, s), EndAt(g, s, v.f.size),
           Stands(v.f, g[s].chain, v.f.pos), v.f.pos <= v.f.size, v.got = <<>>,
           NEW n \in Nat, NEW w, w = Read(v, n)
    PROVE  ReadingOn(v, w, g, s)
<1> DEFINE u == Counting(v, n)
           Inv == [k \in 0 .. n |-> {e \in Volume : ReadingOn(v, e, g, s)}]
           dom == UNION {Inv[k] : k \in 0 .. n}
           step == [ks \in (1 .. n) \X dom |-> OnRead(ks[2])]
           Eq(f) == f = [k \in 0 .. n |-> IF k = 0 THEN u ELSE OnRead(f[k - 1])]
           done == CHOOSE f : Eq(f)
<1>1. u \in Inv[0]
  <2>1. u = [v EXCEPT !.count = n] /\ v \in Volume /\ v.f \in Object /\ v.f.pos \in Nat
    BY DEF Counting, Vol, Volume, Object
  <2> HIDE DEF u
  <2>2. u \in Volume /\ SameBuffers(v, u) /\ u.f = v.f /\ u.got = v.got
    BY <2>1 DEF Volume, SameBuffers, SameFat, SameData
  <2>3. Moves(v, u)
    BY <2>2, OtherFields
  <2>4. v.got = Part(g[s].bytes, v.f.pos, v.f.pos)
    <3>1. g[s].bytes \in Seq(Byte)
      BY DEF Owns
    <3> QED
      BY <2>1, <3>1, PartNone
  <2>5. v.f.pos <= v.f.pos
    BY <2>1
  <2>6. ReadingOn(v, u, g, s)
    BY <2>2, <2>3, <2>4, <2>5 DEF ReadingOn, SameHandle
  <2> QED
    BY <2>2, <2>6
<1>2. \A k \in 1 .. n : \A e \in Inv[k - 1] : OnRead(e) \in Inv[k]
  <2> SUFFICES ASSUME NEW k \in 1 .. n, NEW e \in Inv[k - 1] PROVE OnRead(e) \in Inv[k]
    OBVIOUS
  <2>1. k - 1 \in 0 .. n /\ k \in 0 .. n
    OBVIOUS
  <2>2. e \in Volume /\ ReadingOn(v, e, g, s)
    BY <2>1
  <2> DEFINE x == OnRead(e)
  <2>3. ReadingOn(v, x, g, s)
    <3>1. CASE Good(e)
      <4>1. x = ReadSector(e)
        BY <3>1 DEF OnRead, Then
      <4> HIDE DEF x
      <4> QED
        BY <2>2, <3>1, <4>1, ReadSectorDone
    <3>2. CASE ~Good(e)
      <4>1. x = e
        BY <3>2 DEF OnRead, Then
      <4> QED
        BY <2>2, <4>1
    <3> QED
      BY <3>1, <3>2
  <2>4. x \in Volume
    BY <2>3 DEF ReadingOn, Moves, Vol
  <2> QED
    BY <2>1, <2>3, <2>4
<1>3. \A k \in 1 .. n : \A e \in Inv[k - 1] : step[<<k, e>>] = OnRead(e)
  <2> SUFFICES ASSUME NEW k \in 1 .. n, NEW e \in Inv[k - 1] PROVE step[<<k, e>>] = OnRead(e)
    OBVIOUS
  <2>1. k - 1 \in 0 .. n
    OBVIOUS
  <2>2. e \in dom
    BY <2>1
  <2> QED
    BY <2>2
<1> HIDE DEF step, dom
<1>4. \E f : Eq(f)
  <2>1. PICK f : IsLoop(f, u, step, n) /\ \A k \in 0 .. n : f[k] \in Inv[k]
    <3>1. \A k \in 1 .. n : \A e \in Inv[k - 1] : step[<<k, e>>] \in Inv[k]
      BY <1>2, <1>3
    <3> HIDE DEF Inv, u
    <3> QED
      BY <1>1, <3>1, LoopIn
  <2>2. \A k \in 1 .. n : step[<<k, f[k - 1]>>] = OnRead(f[k - 1])
    <3>1. \A k \in 1 .. n : k - 1 \in 0 .. n
      OBVIOUS
    <3> HIDE DEF Inv
    <3> QED
      BY <1>3, <2>1, <3>1
  <2>3. \A k \in 0 .. n : k = 0 \/ k \in 1 .. n
    OBVIOUS
  <2>4. f = [k \in 0 .. n |-> IF k = 0 THEN u ELSE step[<<k, f[k - 1]>>]]
    BY <2>1 DEF IsLoop
  <2>5. Eq(f)
    BY <2>2, <2>3, <2>4
  <2> HIDE DEF Eq
  <2> QED
    BY <2>5
<1>5. Eq(done)
  <2> HIDE DEF Eq
  <2> QED
    BY <1>4
<1>6. w = done[n]
  BY DEF Read, done, OnRead, Counting
<1> HIDE DEF done, Inv, u
<1>7. done[0] = u /\ \A k \in 1 .. n : done[k] = OnRead(done[k - 1])
  BY <1>5
<1>8. done[n] \in Inv[n]
  <2>1. done[0] \in Inv[0] /\ \A k \in 1 .. n : done[k - 1] \in Inv[k - 1] => done[k] \in Inv[k]
    BY <1>1, <1>2, <1>7
  <2>2. \A k \in 0 .. n : done[k] \in Inv[k]
    BY <2>1, Rounds
  <2> QED
    BY <2>2
<1> QED
  BY <1>6, <1>8 DEF Inv

-----------------------------------------------------------------------------
(* The cluster of a position is looked for from the first on.              *)
Sought(v, w, g, h, s, pos) ==
    /\ Longer(g, h, s) /\ Steps(v, w) /\ SameData(v, w) /\ SameRest(Cached(w), Cached(v))
    /\ Good(w) => At(w.f, h[s].chain, pos)

(* Where the search for a position begins.                                 *)
AtFirst(f, p, pos) ==
    /\ Len(p) > 0 /\ f.cluster = p[1] /\ f.first = p[1]
    /\ pos \in Nat /\ f.sector = SectorIn(pos) /\ f.offset = OffsetIn(pos)

LEMMA AtCluster ==
    ASSUME NEW p, NEW pos \in Nat, NEW f, ClusterOf(pos) \in 1 .. Len(p), f.cluster = p[ClusterOf(pos)],
           f.sector = SectorIn(pos), f.offset = OffsetIn(pos)
    PROVE  At(f, p, pos)
<1> DEFINE c == ClusterOf(pos)
           r == SectorIn(pos)
           b == OffsetIn(pos)
<1>1. c \in Nat \ {0} /\ r \in 0 .. SPC - 1 /\ b \in 0 .. SECTOR - 1 /\ pos = Place(c, r, b)
  BY PlaceOf
<1>2. c \in 1 .. Len(p) /\ f.cluster = p[c] /\ f.sector = r /\ f.offset = b
  OBVIOUS
<1> HIDE DEF c, r, b
<1>3. b \in 0 .. SECTOR
  BY <1>1, Numbers
<1> QED
  BY <1>1, <1>2, <1>3 DEF At, SectorNumbers

LEMMA FirstDone ==
    ASSUME NEW v, Vol(v), NEW w, w = First(v), v.f.first \in Nat
    PROVE  /\ w \in Volume /\ SameBuffers(v, w) /\ Moves(v, w) /\ Steps(v, w) /\ SameData(v, w)
           /\ w.err = v.err /\ w.f = [v.f EXCEPT !.cluster = v.f.first] /\ Cached(w) = Cached(v)
           /\ w.f.cluster = v.f.first /\ w.f.sector = v.f.sector /\ w.f.offset = v.f.offset
<1> DEFINE f == [v.f EXCEPT !.cluster = v.f.first]
<1>1. v \in Volume /\ v.f \in Object
  BY DEF Vol, Volume
<1>2. w = Refiled(v, f) /\ f \in Object /\ SameFile(v.f, f)
        /\ f.cluster = v.f.first /\ f.sector = v.f.sector /\ f.offset = v.f.offset
  BY <1>1 DEF First, Refiled, Object, SameFile, Volume
<1>3. f = [v.f EXCEPT !.cluster = v.f.first]
  OBVIOUS
<1> HIDE DEF f
<1>4. /\ w \in Volume /\ SameBuffers(v, w) /\ Moves(v, w) /\ Steps(v, w) /\ SameData(v, w)
      /\ w.err = v.err /\ w.f = f /\ Cached(w) = Cached(v)
  BY <1>2, Replaced
<1> QED
  BY <1>2, <1>3, <1>4

(* Over the end of the chain, from the first cluster to the last.          *)
LEMMA SeekLastDone ==
    ASSUME NEW v, Vol(v), Good(v), NEW p \in Seq(Clusters), Len(p) > 0, Runs(Cached(v), p, Len(p)),
           v.f.first = p[1], NEW w, w = SeekLast(v, Len(p))
    PROVE  /\ Moves(v, w) /\ Steps(v, w) /\ SameData(v, w) /\ Good(w)
           /\ w.f.sector = v.f.sector /\ w.f.offset = v.f.offset /\ w.f.cluster = EndOf(p)
<1> DEFINE n == Len(p)
           u == First(v)
<1>0. n \in Nat /\ n > 0 /\ 1 \in 1 .. n /\ n \in 1 .. n /\ p[1] \in Clusters /\ p[1] \in Nat
  <2>1. n \in Nat /\ n > 0 /\ 1 \in 1 .. n /\ n \in 1 .. n
    OBVIOUS
  <2>2. p[1] \in Clusters
    BY <2>1
  <2> QED
    BY <2>1, <2>2, ClusterWord
<1>1. /\ u \in Volume /\ SameBuffers(v, u) /\ Moves(v, u) /\ Steps(v, u) /\ SameData(v, u)
      /\ u.err = v.err /\ Cached(u) = Cached(v)
      /\ u.f.cluster = p[1] /\ u.f.sector = v.f.sector /\ u.f.offset = v.f.offset
  <2>1. u = First(v) /\ v.f.first \in Nat
    BY <1>0
  <2> HIDE DEF u
  <2> QED
    BY <2>1, FirstDone
<1>2. w = IF n = 1 THEN u ELSE NextClusterGet(u, n - 1)
  BY DEF SeekLast
<1> HIDE DEF u
<1>3. Vol(u) /\ Good(u)
  BY <1>1 DEF Moves, Good
<1>4. CASE n = 1
  <2>1. w = u
    BY <1>2, <1>4
  <2> QED
    BY <1>1, <1>3, <1>4, <2>1 DEF EndOf
<1>5. CASE n # 1
  <2> DEFINE k == n - 1
             m == 1 + k
  <2>1. k \in Nat /\ m = n
    BY <1>0, <1>5
  <2>2. w = NextClusterGet(u, k)
    BY <1>2, <1>5
  <2>3. m = 1 + k
    OBVIOUS
  <2>4. m <= n + 1 /\ Runs(Cached(u), p, n) /\ p \in Seq(Clusters) /\ u.f.cluster = p[1]
    BY <1>0, <1>1, <2>1
  <2> HIDE DEF k, m
  <2>8. k \in Nat /\ 1 \in 1 .. Len(p) /\ Vol(u) /\ Good(u)
    BY <1>0, <1>3, <2>1
  <2>5. /\ Moves(u, w) /\ Steps(u, w) /\ SameData(u, w) /\ w.f.sector = u.f.sector /\ w.f.offset = u.f.offset
        /\ m <= Len(p) => Good(w) /\ w.f.cluster = p[m]
    BY <2>2, <2>3, <2>4, <2>8, NextClusterGetDone
  <2>6. Good(w) /\ w.f.cluster = p[n]
    BY <1>0, <2>1, <2>5
  <2>7. Moves(v, w) /\ Steps(v, w)
    BY <1>1, <2>5, MovesOn, StepsOn
  <2> QED
    BY <1>1, <2>5, <2>6, <2>7 DEF SameData, EndOf
<1> QED
  BY <1>4, <1>5

LEMMA SeekEndDone ==
    ASSUME NEW v, NEW g, NEW kept, NEW Safe, NEW Lost, System(v, g, kept, Safe, Lost), Good(v),
           NEW s \in SlotNumbers, g[s].name \in Names, Len(g[s].chain) > 0, v.f.cluster = EndOf(g[s].chain),
           NEW pos \in Nat, NextAt(pos, Len(g[s].chain) * ClusterBytes, 0),
           v.f.sector = SectorIn(pos), v.f.offset = OffsetIn(pos),
           NEW w, w = SeekEnd(v)
    PROVE  \E h : System(w, h, kept, Safe, Lost) /\ Sought(v, w, g, h, s, pos)
<1> DEFINE p == g[s].chain
           n == Len(p)
           x == ClusterAllocate(v, EndOf(p))
           f == [v.f EXCEPT !.offset = SECTOR, !.sector = SPC - 1]
           y == Refiled(v, f)
<1>0. /\ Vol(v) /\ Owns(g) /\ v \in Volume /\ p \in Seq(Clusters) /\ n \in Nat \ {0} /\ n \in 1 .. n
      /\ SECTOR \in Nat /\ SPC \in Nat \ {0}
  <2>1. Vol(v) /\ Owns(g) /\ p \in Seq(Clusters) /\ n \in Nat
    BY ChainIn DEF System
  <2> QED
    BY <2>1, Numbers DEF Vol
<1>1. pos = n * ClusterBytes /\ n * ClusterBytes \in Nat /\ ClusterBytes \in Nat
  <2>1. ClusterBytes \in Nat
    BY <1>0, Times DEF ClusterBytes
  <2>2. n * ClusterBytes \in Nat
    BY <1>0, <2>1, Times
  <2> DEFINE most == n * ClusterBytes
  <2>3. most \in Nat /\ pos = most + 0
    BY <2>2 DEF NextAt
  <2> HIDE DEF most
  <2>4. pos = most
    BY <2>3
  <2> QED
    BY <2>1, <2>2, <2>4 DEF most
<1>2. Ignoring(v) = v
  BY <1>0, IgnoringGood
<1>3. CASE v.f.write
  <2>1. w = x
    BY <1>2, <1>3 DEF SeekEnd
  <2>2. x = ClusterAllocate(v, EndOf(p)) /\ EndOf(p) = EndOf(g[s].chain)
    OBVIOUS
  <2> HIDE DEF x, p, n
  <2>3. \/ /\ System(x, g, kept, Safe, Lost) /\ x.err = "full" /\ Cached(x) = Cached(v)
           /\ x.f = v.f /\ x.count = v.count /\ x.got = v.got /\ SameData(v, x)
        \/ \E h : Allocated(v, x, g, h, s) /\ System(x, h, kept, Safe, Lost)
    BY <2>2, AllocateDone
  <2>4. CASE /\ System(x, g, kept, Safe, Lost) /\ x.err = "full" /\ Cached(x) = Cached(v)
             /\ x.f = v.f /\ x.count = v.count /\ x.got = v.got /\ SameData(v, x)
    <3>1. Longer(g, g, s)
      BY <1>0, LongerSelf
    <3>2. Steps(v, x) /\ SameRest(Cached(x), Cached(v)) /\ ~Good(x)
      BY <2>4 DEF Steps, SameFile, SameRest, Good
    <3> QED
      BY <2>1, <2>4, <3>1, <3>2 DEF Sought
  <2>5. ASSUME NEW h, Allocated(v, x, g, h, s), System(x, h, kept, Safe, Lost) PROVE Sought(v, w, g, h, s, pos)
    <3> DEFINE q == h[s].chain
               i == n + 1
    <3>1. /\ Longer(g, h, s) /\ Len(q) = i /\ x.f = [v.f EXCEPT !.cluster = q[Len(q)]]
          /\ x.count = v.count /\ x.got = v.got /\ SameRest(Cached(x), Cached(v)) /\ SameData(v, x)
      BY <2>5 DEF Allocated, n, p
    <3>2. Steps(v, x)
      BY <1>0, <3>1 DEF Steps, SameFile, Volume, Object
    <3>3. x.f.cluster = q[Len(q)] /\ x.f.sector = SectorIn(pos) /\ x.f.offset = OffsetIn(pos)
      BY <1>0, <3>1 DEF Volume, Object
    <3>4. ClusterOf(pos) = i
      <4> DEFINE c == ClusterOf(pos)
                 r == SectorIn(pos)
                 b == OffsetIn(pos)
      <4>1. c \in Nat \ {0} /\ r \in 0 .. SPC - 1 /\ b \in 0 .. SECTOR - 1 /\ pos = Place(c, r, b)
        BY PlaceOf
      <4> HIDE DEF c, r, b
      <4>2. i \in Nat \ {0} /\ 0 \in 0 .. SPC - 1 /\ 0 \in 0 .. SECTOR - 1
        BY <1>0, Numbers
      <4>3. Place(i, 0, 0) = pos
        <5>1. Place(n, SPC, 0) = Place(n + 1, 0, 0) /\ Place(n, SPC, 0) = n * ClusterBytes
          <6>1. 0 \in Nat /\ SPC \in Nat
            BY <1>0
          <6> QED
            BY <1>0, <6>1, PlaceNumber
        <5> QED
          BY <1>1, <5>1
      <4> HIDE DEF i
      <4>4. Place(c, r, b) = Place(i, 0, 0)
        BY <4>1, <4>3
      <4>5. c = i
        BY <4>1, <4>2, <4>4, PlaceOnce, SMTT(30)
      <4> QED
        BY <4>5 DEF c
    <3>5. ClusterOf(pos) \in 1 .. Len(q) /\ x.f.cluster = q[ClusterOf(pos)]
      <4>1. i \in 1 .. i
        BY <1>0
      <4> QED
        BY <3>1, <3>3, <3>4, <4>1
    <3> HIDE DEF q
    <3>6. At(x.f, q, pos)
      BY <3>3, <3>5, AtCluster
    <3> QED
      BY <2>1, <3>1, <3>2, <3>6 DEF Sought, q
  <2> QED
    BY <2>1, <2>3, <2>4, <2>5
<1>4. CASE ~v.f.write
  <2>1. w = y
    BY <1>0, <1>4 DEF SeekEnd, Refiled, Volume, Object
  <2>2. f \in Object /\ SameFile(v.f, f) /\ f.offset = SECTOR /\ f.sector = SPC - 1 /\ f.cluster = v.f.cluster
    <3>1. v.f \in Object /\ SPC - 1 \in Nat /\ SECTOR \in Nat
      BY <1>0 DEF Volume
    <3> DEFINE sec == SPC - 1
    <3>2. f = [v.f EXCEPT !.offset = SECTOR, !.sector = sec] /\ sec \in Nat
      BY <3>1
    <3> HIDE DEF sec
    <3>3. f \in Object /\ SameFile(v.f, f) /\ f.offset = SECTOR /\ f.sector = sec /\ f.cluster = v.f.cluster
      BY <3>1, <3>2 DEF SameFile, Object
    <3> QED
      BY <3>3 DEF sec
  <2>3. y = Refiled(v, f)
    OBVIOUS
  <2> HIDE DEF y, f
  <2>4. /\ y \in Volume /\ SameBuffers(v, y) /\ Moves(v, y) /\ Steps(v, y) /\ SameData(v, y)
        /\ y.f = f /\ Cached(y) = Cached(v)
    BY <1>0, <2>2, <2>3, Replaced
  <2>5. System(y, g, kept, Safe, Lost)
    BY <2>4, SystemMoves
  <2>6. Place(n, SPC - 1, SECTOR) = pos
    <3>1. Place(n, SPC - 1, SECTOR) = Place(n, (SPC - 1) + 1, 0) /\ Place(n, SPC, 0) = n * ClusterBytes
      <4>1. 0 \in Nat /\ SPC \in Nat /\ SPC - 1 \in Nat
        BY <1>0
      <4> QED
        BY <1>0, <4>1, PlaceNumber
    <3>2. (SPC - 1) + 1 = SPC
      BY <1>0
    <3> QED
      BY <1>1, <3>1, <3>2
  <2>7. At(y.f, p, pos)
    <3>1. SPC - 1 \in 0 .. SPC - 1 /\ SECTOR \in 0 .. SECTOR
      BY <1>0
    <3> QED
      BY <1>0, <2>2, <2>4, <2>6, <3>1 DEF At, SectorNumbers, EndOf
  <2>8. Longer(g, g, s) /\ SameRest(Cached(y), Cached(v))
    BY <1>0, <2>4, LongerSelf DEF SameRest
  <2> QED
    BY <2>1, <2>4, <2>5, <2>7, <2>8 DEF Sought
<1> QED
  BY <1>3, <1>4

-----------------------------------------------------------------------------
(* A position in a file is in one of its clusters, or behind the last.     *)
Reaches(p, pos) == pos <= Len(p) * ClusterBytes

LEMMA ReachedCluster ==
    ASSUME NEW p \in Seq(Clusters), NEW pos \in Nat, Reaches(p, pos), NEW k, k = ClusterOf(pos) - 1
    PROVE  /\ k \in Nat /\ k <= Len(p) /\ ClusterOf(pos) = k + 1
           /\ k = Len(p) => NextAt(pos, Len(p) * ClusterBytes, 0)
<1> DEFINE n == Len(p)
           c == ClusterOf(pos)
           r == SectorIn(pos)
           b == OffsetIn(pos)
           A == (c - 1) * ClusterBytes
           B == n * ClusterBytes
<1>1. n \in Nat /\ ClusterBytes \in Nat /\ pos <= B /\ SECTOR \in Nat /\ ClusterBytes > 0
  <2>1. SPC \in Nat \ {0} /\ SECTOR \in Nat \ {0}
    BY Numbers
  <2>2. SPC * SECTOR \in Nat /\ SPC * SECTOR > 0
    <3>1. 1 * SECTOR <= SPC * SECTOR /\ SPC * SECTOR \in Nat
      <4>1. 1 \in Nat /\ SPC \in Nat /\ 1 <= SPC /\ SECTOR \in Nat
        BY <2>1
      <4> QED
        BY <4>1, TimesMore, Times
    <3>2. 1 * SECTOR = SECTOR
      BY <2>1
    <3> DEFINE q == SPC * SECTOR
    <3>3. SECTOR <= q /\ q \in Nat
      BY <3>1, <3>2
    <3> HIDE DEF q
    <3>4. q > 0
      BY <2>1, <3>3
    <3> QED
      BY <3>3, <3>4 DEF q
  <2> QED
    BY <2>1, <2>2 DEF Reaches, ClusterBytes
<1>2. c \in Nat \ {0} /\ r \in 0 .. SPC - 1 /\ b \in 0 .. SECTOR - 1 /\ pos = Place(c, r, b)
  BY PlaceOf
<1>3. A \in Nat /\ B \in Nat /\ A <= pos
  <2> HIDE DEF c, r, b
  <2>1. Place(c, r, b) = (c - 1) * ClusterBytes + r * SECTOR + b
    <3>1. r \in Nat /\ b \in Nat
      BY <1>1, <1>2, Numbers
    <3> QED
      BY <1>2, <3>1, PlaceNumber
  <2>2. r * SECTOR \in Nat /\ b \in Nat
    <3>1. r \in Nat /\ b \in Nat
      BY <1>1, <1>2, Numbers
    <3> QED
      BY <1>1, <3>1, Times
  <2>3. A \in Nat
    <3>1. c - 1 \in Nat
      BY <1>2
    <3> QED
      BY <1>1, <3>1, Times
  <2>4. B \in Nat
    BY <1>1, Times
  <2> DEFINE R == r * SECTOR
  <2>5. pos = A + R + b /\ R \in Nat
    BY <1>2, <2>1, <2>2
  <2> HIDE DEF R, A
  <2>6. A <= pos
    BY <2>2, <2>3, <2>5
  <2> QED
    BY <2>3, <2>4, <2>6
<1> HIDE DEF c, r, b
<1>4. k \in Nat /\ c = k + 1
  BY <1>2 DEF c
<1>5. k <= n
  <2>1. CASE k > n
    <3>1. (n + 1) * ClusterBytes <= (c - 1) * ClusterBytes
      <4>1. n + 1 \in Nat /\ c - 1 \in Nat /\ n + 1 <= c - 1
        BY <1>1, <1>4, <2>1
      <4> QED
        BY <1>1, <4>1, TimesMore
    <3>2. (n + 1) * ClusterBytes = n * ClusterBytes + ClusterBytes
      BY <1>1, SMT
    <3>3. B + ClusterBytes <= A
      BY <3>1, <3>2
    <3> HIDE DEF A, B
    <3> QED
      BY <1>1, <1>3, <3>3
  <2> QED
    BY <1>1, <1>4, <2>1
<1>6. k = n => pos = B
  <2> SUFFICES ASSUME k = n PROVE pos = B
    OBVIOUS
  <2>1. c - 1 = n
    BY <1>1, <1>4
  <2>2. A = B
    BY <2>1
  <2> HIDE DEF A, B
  <2> QED
    BY <1>1, <1>3, <2>2
<1>7. k = n => NextAt(pos, B, 0)
  <2> HIDE DEF B
  <2> QED
    BY <1>3, <1>6 DEF NextAt
<1> QED
  BY <1>4, <1>5, <1>7 DEF c

LEMMA SeekClusterDone ==
    ASSUME NEW v, NEW g, NEW kept, NEW Safe, NEW Lost, System(v, g, kept, Safe, Lost), Good(v),
           NEW s \in SlotNumbers, g[s].name \in Names,
           NEW pos, AtFirst(v.f, g[s].chain, pos), Reaches(g[s].chain, pos),
           NEW k, k = ClusterOf(pos) - 1, NEW w, w = SeekCluster(v, k)
    PROVE  \E h : System(w, h, kept, Safe, Lost) /\ Sought(v, w, g, h, s, pos)
<1> DEFINE p == g[s].chain
           n == Len(p)
           u == NextClusterGet(v, k)
           m == 1 + k
<1>0. /\ Vol(v) /\ Owns(g) /\ v \in Volume /\ p \in Seq(Clusters) /\ n \in Nat /\ n > 0 /\ 1 \in 1 .. n
      /\ Runs(Cached(v), p, n) /\ v.f.cluster = p[1] /\ v.f.first = p[1] /\ pos \in Nat
      /\ v.f.sector = SectorIn(pos) /\ v.f.offset = OffsetIn(pos)
  <2>1. /\ Vol(v) /\ Owns(g) /\ p \in Seq(Clusters) /\ n \in Nat
        /\ Full(Cached(v), g, s)
    BY ChainIn DEF System, Current
  <2>2. n > 0 /\ v.f.cluster = p[1] /\ v.f.first = p[1] /\ pos \in Nat
        /\ v.f.sector = SectorIn(pos) /\ v.f.offset = OffsetIn(pos)
    BY DEF AtFirst
  <2>3. 1 \in 1 .. n
    BY <2>1, <2>2
  <2> QED
    BY <2>1, <2>2, <2>3 DEF Full, Vol
<1>1. k \in Nat /\ k <= n /\ ClusterOf(pos) = k + 1 /\ (k = n => NextAt(pos, n * ClusterBytes, 0))
  <2>1. Reaches(p, pos)
    OBVIOUS
  <2> HIDE DEF p
  <2> QED
    BY <1>0, <2>1, ReachedCluster
<1>2. Longer(g, g, s)
  BY <1>0, LongerSelf
<1>3. CASE k = 0
  <2>1. w = v
    BY <1>3 DEF SeekCluster
  <2>2. At(v.f, p, pos)
    <3>1. ClusterOf(pos) = 1
      BY <1>1, <1>3
    <3>2. ClusterOf(pos) \in 1 .. Len(p) /\ v.f.cluster = p[ClusterOf(pos)]
      BY <1>0, <3>1
    <3> HIDE DEF p
    <3> QED
      BY <1>0, <3>2, AtCluster
  <2>3. Steps(v, v) /\ SameData(v, v) /\ SameRest(Cached(v), Cached(v))
    BY DEF Steps, SameFile, SameData, SameRest
  <2> QED
    BY <1>2, <2>1, <2>2, <2>3 DEF Sought
<1>4. CASE k # 0
  <2>1. w = SeekFound(u, k)
    BY <1>4 DEF SeekCluster
  <2>2. /\ Moves(v, u) /\ Steps(v, u) /\ SameData(v, u) /\ u.f.sector = v.f.sector /\ u.f.offset = v.f.offset
        /\ m <= Len(p) => Good(u) /\ u.f.cluster = p[m]
        /\ m > Len(p) => u.err = "eof" /\ u.f.cluster >= Eof
    <3>1. u = NextClusterGet(v, k) /\ m = 1 + k /\ m <= Len(p) + 1
      BY <1>0, <1>1
    <3>2. k \in Nat /\ 1 \in 1 .. Len(p) /\ Runs(Cached(v), p, Len(p)) /\ p \in Seq(Clusters) /\ v.f.cluster = p[1]
      BY <1>0, <1>1
    <3> HIDE DEF u, m, p
    <3> QED
      BY <1>0, <3>1, <3>2, NextClusterGetDone
  <2> HIDE DEF u
  <2>3. System(u, g, kept, Safe, Lost) /\ Cached(u) = Cached(v) /\ Vol(u) /\ u \in Volume
    <3>1. Vol(u) /\ Cached(u) = Cached(v)
      BY <2>2 DEF Moves
    <3> QED
      BY <2>2, <3>1, SystemMoves DEF Vol
  <2>4. CASE k < n
    <3>1. m <= n /\ Good(u) /\ u.f.cluster = p[m]
      BY <1>0, <1>1, <2>2, <2>4
    <3>2. w = u
      BY <2>1, <3>1 DEF SeekFound, Good
    <3>3. ClusterOf(pos) \in 1 .. n /\ u.f.cluster = p[ClusterOf(pos)]
      <4>1. m = ClusterOf(pos) /\ m \in 1 .. n
        BY <1>0, <1>1, <2>4
      <4> QED
        BY <3>1, <4>1
    <3>4. u.f.sector = SectorIn(pos) /\ u.f.offset = OffsetIn(pos)
      BY <1>0, <2>2
    <3>5. At(u.f, p, pos)
      BY <1>0, <3>3, <3>4, AtCluster
    <3>6. SameRest(Cached(u), Cached(v))
      BY <2>3 DEF SameRest
    <3> QED
      BY <1>2, <2>2, <2>3, <3>2, <3>5, <3>6 DEF Sought
  <2>5. CASE k = n
    <3> DEFINE a == Ignoring(u)
               b == SeekLast(a, n)
    <3>1. u.err = "eof"
      <4>1. m > Len(p)
        BY <1>0, <2>5
      <4> QED
        BY <2>2, <4>1
    <3>2. w = SeekEnd(b)
      BY <2>1, <2>5, <3>1 DEF SeekFound
    <3>3. /\ a \in Volume /\ SameBuffers(u, a) /\ a.f = u.f /\ a.count = u.count /\ a.got = u.got /\ Good(a)
      BY <2>3 DEF Ignoring, Volume, Errors, SameBuffers, SameFat, SameData, Good
    <3>4. Moves(u, a) /\ Cached(a) = Cached(u) /\ Vol(a) /\ Steps(u, a) /\ SameData(u, a)
      <4>1. Moves(u, a)
        BY <2>3, <3>3, OtherFields
      <4> QED
        BY <3>3, <4>1 DEF Moves, Steps, SameFile, SameBuffers
    <3>5. b = SeekLast(a, n)
      OBVIOUS
    <3> HIDE DEF a, b
    <3>6. /\ Moves(a, b) /\ Steps(a, b) /\ SameData(a, b) /\ Good(b)
          /\ b.f.sector = a.f.sector /\ b.f.offset = a.f.offset /\ b.f.cluster = EndOf(p)
      <4>1. Runs(Cached(a), p, Len(p)) /\ a.f.first = p[1] /\ Len(p) > 0 /\ b = SeekLast(a, Len(p))
        BY <1>0, <2>2, <2>3, <3>3, <3>4, <3>5 DEF Steps, SameFile
      <4> HIDE DEF p, n
      <4> QED
        BY <1>0, <3>3, <3>4, <4>1, SeekLastDone
    <3>7. System(b, g, kept, Safe, Lost) /\ Cached(b) = Cached(v) /\ Steps(v, b) /\ SameData(v, b)
      <4>1. Moves(u, b)
        BY <3>4, <3>6, MovesOn
      <4>2. System(b, g, kept, Safe, Lost)
        BY <2>3, <4>1, SystemMoves
      <4>3. Steps(u, b)
        BY <3>4, <3>6, StepsOn
      <4>4. Steps(v, b)
        BY <2>2, <4>3, StepsOn
      <4> QED
        BY <2>2, <2>3, <3>4, <3>6, <4>1, <4>2, <4>4 DEF SameData, Moves
    <3>8. b.f.sector = SectorIn(pos) /\ b.f.offset = OffsetIn(pos) /\ b.f.cluster = EndOf(g[s].chain)
      BY <1>0, <2>2, <3>3, <3>6
    <3>9. NextAt(pos, Len(g[s].chain) * ClusterBytes, 0) /\ Len(g[s].chain) > 0
      BY <1>0, <1>1, <2>5
    <3>10. PICK h : System(w, h, kept, Safe, Lost) /\ Sought(b, w, g, h, s, pos)
      BY <1>0, <3>2, <3>6, <3>7, <3>8, <3>9, SeekEndDone
    <3>11. Steps(v, w)
      BY <3>7, <3>10, StepsOn DEF Sought
    <3>12. Sought(v, w, g, h, s, pos)
      BY <3>7, <3>10, <3>11 DEF Sought, SameData
    <3> QED
      BY <3>10, <3>12
  <2> QED
    BY <1>0, <1>1, <2>4, <2>5
<1> QED
  BY <1>3, <1>4

-----------------------------------------------------------------------------
LEMMA PlacedDone ==
    ASSUME NEW v, Vol(v), NEW pos \in Nat, NEW w, w = Placed(v, pos)
    PROVE  /\ w \in Volume /\ SameBuffers(v, w) /\ Moves(v, w) /\ SameData(v, w) /\ w.err = v.err
           /\ Cached(w) = Cached(v) /\ w.got = v.got
           /\ SameHandle(v.f, w.f) /\ w.f.size = v.f.size /\ w.f.pos = pos
           /\ w.f.cluster = v.f.first /\ w.f.sector = SectorIn(pos) /\ w.f.offset = OffsetIn(pos)
<1> DEFINE f == [v.f EXCEPT !.cluster = v.f.first, !.pos = pos, !.offset = OffsetIn(pos), !.sector = SectorIn(pos)]
<1>1. v \in Volume /\ v.f \in Object
  BY DEF Vol, Volume
<1>2. w = [v EXCEPT !.f = f]
  BY <1>1 DEF Placed, First, Volume, Object, OffsetIn, SectorIn
<1>3. OffsetIn(pos) \in Nat /\ SectorIn(pos) \in Nat
  <2>1. SectorIn(pos) \in 0 .. SPC - 1 /\ OffsetIn(pos) \in 0 .. SECTOR - 1
    BY PlaceOf
  <2> DEFINE r == SectorIn(pos)
             b == OffsetIn(pos)
  <2> HIDE DEF r, b
  <2>2. r \in Nat /\ b \in Nat
    BY <2>1, Numbers DEF r, b
  <2> QED
    BY <2>2 DEF r, b
<1>4. /\ f \in Object /\ SameHandle(v.f, f) /\ f.size = v.f.size /\ f.pos = pos
      /\ f.cluster = v.f.first /\ f.sector = SectorIn(pos) /\ f.offset = OffsetIn(pos)
  <2> DEFINE r == SectorIn(pos)
             b == OffsetIn(pos)
  <2>1. f = [v.f EXCEPT !.cluster = v.f.first, !.pos = pos, !.offset = b, !.sector = r] /\ r \in Nat /\ b \in Nat
    BY <1>3
  <2> HIDE DEF f, r, b
  <2>2. /\ f \in Object /\ SameHandle(v.f, f) /\ f.size = v.f.size /\ f.pos = pos
        /\ f.cluster = v.f.first /\ f.sector = r /\ f.offset = b
    BY <1>1, <2>1 DEF Object, SameHandle
  <2> QED
    BY <2>2 DEF r, b
<1> HIDE DEF f
<1>5. w \in Volume /\ SameBuffers(v, w) /\ w.err = v.err /\ w.got = v.got /\ w.f = f
  BY <1>1, <1>2, <1>4 DEF Volume, SameBuffers, SameFat, SameData
<1>6. Moves(v, w)
  BY <1>5, OtherFields
<1> QED
  BY <1>4, <1>5, <1>6 DEF Moves, SameBuffers

Seeked(v, w, g, h, s, pos) ==
    /\ Longer(g, h, s) /\ SameHandle(v.f, w.f) /\ w.f.size = v.f.size /\ w.f.pos = pos /\ w.got = v.got
    /\ SameEntries(Cached(v), Cached(w))
    /\ Good(w) => Stands(w.f, h[s].chain, pos)

LEMMA SeekDone ==
    ASSUME NEW v, NEW g, NEW kept, NEW Safe, NEW Lost, System(v, g, kept, Safe, Lost), Good(v),
           NEW s \in SlotNumbers, g[s].name \in Names, Len(g[s].chain) > 0, v.f.first = g[s].chain[1],
           EndAt(g, s, v.f.size), NEW pos \in 0 .. v.f.size, NEW w, w = SeekTo(v, pos)
    PROVE  \E h : System(w, h, kept, Safe, Lost) /\ Seeked(v, w, g, h, s, pos)
<1> DEFINE p == g[s].chain
           n == Len(p)
           size == v.f.size
           fl == FlushData(v)
           u == Placed(fl, pos)
           k == ClusterOf(pos) - 1
           a == SeekCluster(u, k)
<1>0. /\ Vol(v) /\ Owns(g) /\ p \in Seq(Clusters) /\ n \in Nat
      /\ size \in Nat /\ pos \in Nat /\ ~(pos > size) /\ Reaches(p, pos)
  <2>1. /\ Vol(v) /\ Owns(g) /\ p \in Seq(Clusters) /\ n \in Nat
        /\ Full(Cached(v), g, s) /\ g[s].bytes \in Seq(Byte) /\ size = Len(g[s].bytes)
    BY ChainIn DEF System, Current, Owns, EndAt
  <2>2. size \in Nat /\ size <= n * ClusterBytes
    BY <2>1 DEF Full
  <2>3. n * ClusterBytes \in Nat
    <3>1. SPC \in Nat /\ SECTOR \in Nat
      BY Numbers
    <3>2. ClusterBytes \in Nat
      BY <3>1, Times DEF ClusterBytes
    <3> QED
      BY <2>1, <3>2, Times
  <2> DEFINE most == n * ClusterBytes
  <2>4. most \in Nat /\ size <= most
    BY <2>2, <2>3
  <2>6. size \in Nat /\ pos \in 0 .. size
    BY <2>2
  <2> HIDE DEF most, size
  <2>5. pos \in Nat /\ ~(pos > size) /\ pos <= most
    BY <2>4, <2>6
  <2> QED
    BY <2>1, <2>5, <2>6 DEF most, Reaches
<1>1. /\ Moves(v, fl) /\ Quiet(v, fl) /\ Good(fl) /\ ~fl.dataDirty
  <2>1. fl = FlushData(v)
    OBVIOUS
  <2> HIDE DEF fl
  <2> QED
    BY <1>0, <2>1, FlushDataDone
<1>2. w = IF Good(a) THEN ReadData(a, Sector(a)) ELSE a
  <2>1. k = (pos \div SECTOR) \div SPC
    <3>1. SECTOR \in Nat \ {0} /\ SPC \in Nat \ {0} /\ pos \in Nat
      BY <1>0, Numbers
    <3>2. pos \div SECTOR \in Nat
      BY <3>1, DivMod
    <3> DEFINE q == pos \div SECTOR
    <3> HIDE DEF q
    <3>3. q \div SPC \in Nat
      BY <3>1, <3>2, DivMod DEF q
    <3> DEFINE z == q \div SPC
    <3> HIDE DEF z
    <3>4. (z + 1) - 1 = z
      BY <3>3 DEF z
    <3>5. ClusterOf(pos) = z + 1
      BY DEF ClusterOf, q, z
    <3> QED
      BY <3>4, <3>5 DEF q, z
  <2>2. ~(pos > v.f.size)
    BY <1>0
  <2>3. w = IF Good(fl) THEN (IF pos > v.f.size THEN Failed(First(fl), "argument")
                              ELSE IF Good(a) THEN ReadData(a, Sector(a)) ELSE a) ELSE fl
    BY <2>1 DEF SeekTo, Then
  <2> HIDE DEF fl, k
  <2> QED
    BY <1>1, <2>2, <2>3
<1> HIDE DEF fl, size
<1>3. System(fl, g, kept, Safe, Lost) /\ Vol(fl) /\ fl \in Volume /\ Cached(fl) = Cached(v)
  <2>1. System(fl, g, kept, Safe, Lost)
    BY <1>1, SystemMoves
  <2> QED
    BY <1>1, <2>1 DEF System, Vol, Moves
<1>4. /\ u \in Volume /\ SameBuffers(fl, u) /\ Moves(fl, u) /\ SameData(fl, u) /\ u.err = fl.err
      /\ Cached(u) = Cached(fl) /\ u.got = fl.got
      /\ SameHandle(fl.f, u.f) /\ u.f.size = fl.f.size /\ u.f.pos = pos
      /\ u.f.cluster = fl.f.first /\ u.f.sector = SectorIn(pos) /\ u.f.offset = OffsetIn(pos)
  <2>1. u = Placed(fl, pos)
    OBVIOUS
  <2> HIDE DEF u
  <2> QED
    BY <1>0, <1>3, <2>1, PlacedDone
<1> HIDE DEF u
<1>5. System(u, g, kept, Safe, Lost) /\ Good(u) /\ AtFirst(u.f, p, pos)
  <2>1. System(u, g, kept, Safe, Lost)
    BY <1>3, <1>4, SystemMoves
  <2>2. u.f.first = v.f.first /\ u.f.cluster = v.f.first /\ Good(u)
    BY <1>1, <1>4 DEF SameHandle, Quiet, Good
  <2> QED
    BY <1>0, <1>4, <2>1, <2>2 DEF AtFirst
<1>6. PICK h : System(a, h, kept, Safe, Lost) /\ Sought(u, a, g, h, s, pos)
  <2>1. k = ClusterOf(pos) - 1 /\ a = SeekCluster(u, k) /\ Reaches(g[s].chain, pos) /\ AtFirst(u.f, g[s].chain, pos)
    BY <1>0, <1>5
  <2> HIDE DEF k, a, p
  <2> QED
    BY <1>5, <2>1, SeekClusterDone
<1> HIDE DEF a
<1>7. /\ Longer(g, h, s) /\ SameHandle(v.f, a.f) /\ a.f.size = size /\ a.f.pos = pos /\ a.got = v.got
      /\ SameEntries(Cached(v), Cached(a)) /\ ~a.dataDirty /\ Vol(a)
      /\ Good(a) => At(a.f, h[s].chain, pos)
  <2>1. Longer(g, h, s) /\ Steps(u, a) /\ SameData(u, a) /\ SameRest(Cached(a), Cached(u))
        /\ (Good(a) => At(a.f, h[s].chain, pos)) /\ Vol(a)
    BY <1>6 DEF Sought, System
  <2>2. SameEntries(Cached(v), Cached(a))
    BY <1>3, <1>4, <2>1, SameSlots DEF SameEntries
  <2>3. ~a.dataDirty
    BY <1>1, <1>4, <2>1 DEF SameData
  <2>4. SameHandle(v.f, a.f) /\ a.f.size = size /\ a.f.pos = pos /\ a.got = v.got
    BY <1>1, <1>4, <2>1 DEF Steps, SameFile, SameHandle, Quiet, size
  <2> QED
    BY <2>1, <2>2, <2>3, <2>4
<1>8. CASE ~Good(a)
  <2>1. w = a
    BY <1>2, <1>8
  <2> QED
    BY <1>6, <1>7, <1>8, <2>1 DEF Seeked, size
<1>9. CASE Good(a)
  <2>1. w = ReadData(a, Sector(a))
    BY <1>2, <1>9
  <2> DEFINE sec == Sector(a)
  <2>2. sec \in DirSectors \cup DataSectors
    <3>1. h[s].chain \in Seq(Clusters)
      BY <1>7 DEF Longer, Owns
    <3> QED
      BY <1>7, <1>9, <3>1, SectorAt
  <2>3. Moves(a, w) /\ Quiet(a, w) /\ Good(w)
    <3>1. w = ReadData(a, sec)
      BY <2>1
    <3> HIDE DEF sec
    <3> QED
      BY <1>7, <1>9, <2>2, <3>1, ReadDataDone
  <2>4. System(w, h, kept, Safe, Lost) /\ Cached(w) = Cached(a)
    BY <1>6, <2>3, SystemMoves DEF Moves
  <2> QED
    BY <1>7, <1>9, <2>3, <2>4 DEF Seeked, size, Quiet, SameEntries, Stands
<1> QED
  BY <1>8, <1>9

-----------------------------------------------------------------------------
(* An entry is written: the clusters and their bytes stay where they are.  *)
LEMMA SlotKeepsBytes ==
    ASSUME NEW x \in Card, NEW s \in SlotNumbers, NEW e \in SlotEntry, NEW y, y = SetSlot(x, s, e),
           NEW p \in Seq(Clusters)
    PROVE  /\ \A n : Runs(x, p, n) => Runs(y, p, n)
           /\ \A n \in 0 .. Len(p) : \A j \in Nat : j < n * ClusterBytes => ByteAt(y, p, j) = ByteAt(x, p, j)
<1>1. SameTable(y, x) /\ \A t \in DataSectors : y[t] = x[t]
  BY SlotSet
<1>2. \A k : InChain(p, k) => k \in Clusters
  BY DEF InChain
<1>3. \A k : InChain(p, k) => Link(y, k) = Link(x, k)
  BY <1>1, <1>2, SameLinks
<1>4. \A n : Runs(x, p, n) => Runs(y, p, n)
  BY <1>3, RunsFrame
<1>5. ASSUME NEW n \in 0 .. Len(p), NEW j \in Nat, j < n * ClusterBytes
      PROVE  ByteAt(y, p, j) = ByteAt(x, p, j)
  <2>1. p[ClusterOf(j)] \in Clusters /\ SectorIn(j) \in SectorNumbers
    BY <1>5, BytePage
  <2>2. DataSector(p[ClusterOf(j)], SectorIn(j)) \in DataSectors
    BY <2>1, SectorOf DEF SectorNumbers
  <2> QED
    BY <1>1, <2>2 DEF ByteAt
<1> QED
  BY <1>4, <1>5

LEMMA SlotKeepsFull ==
    ASSUME NEW x \in Card, NEW s \in SlotNumbers, NEW e \in SlotEntry, NEW y, y = SetSlot(x, s, e),
           NEW g, Owns(g), NEW t \in SlotNumbers, Full(x, g, t), Named(y, t) <=> Named(x, t)
    PROVE  Full(y, g, t)
<1>1. SameTable(y, x) /\ \A r \in DataSectors : y[r] = x[r]
  BY SlotSet
<1>2. \A k : InChain(g[t].chain, k) => k \in Clusters
  BY ChainIn DEF InChain
<1>3. \A k : InChain(g[t].chain, k) => Link(y, k) = Link(x, k)
  BY <1>1, <1>2, SameLinks
<1>4. \A k, i : InChain(g[t].chain, k) /\ i \in SectorNumbers => y[DataSector(k, i)] = x[DataSector(k, i)]
  BY <1>1, <1>2, SectorOf DEF SectorNumbers
<1>5. g[t].chain \in Seq(Clusters) /\ g[t].bytes \in Seq(Byte)
  BY DEF Owns
<1> QED
  BY <1>3, <1>4, <1>5, FullFrame

(* The size of a file goes into its entry: all of its bytes are kept.      *)
Stored(g, s) ==
    [t \in SlotNumbers |-> IF t = s THEN [name |-> g[s].name, chain |-> g[s].chain,
                                          bytes |-> g[s].bytes, kept |-> g[s].bytes]
                           ELSE g[t]]
Keeping(kept, n, bytes) == [m \in Names |-> IF m = n THEN bytes ELSE kept[m]]
WithSize(e, size) == [e EXCEPT !.size = size]

LEMMA StoredOwns ==
    ASSUME NEW g, Owns(g), NEW s \in SlotNumbers, g[s].name \in Names, NEW h, h = Stored(g, s)
    PROVE  /\ Owns(h)
           /\ \A kept : Keeps(g, kept) => Keeps(h, Keeping(kept, g[s].name, g[s].bytes))
           /\ h[s].kept = g[s].bytes
           /\ \A t \in SlotNumbers : t # s => h[t] = g[t]
           /\ \A t \in SlotNumbers : h[t].name = g[t].name /\ h[t].chain = g[t].chain /\ h[t].bytes = g[t].bytes
<1>1. /\ h[s].name = g[s].name /\ h[s].kept = g[s].bytes /\ h[s].chain = g[s].chain /\ h[s].bytes = g[s].bytes
      /\ \A t \in SlotNumbers : t # s => h[t] = g[t]
  BY DEF Stored
<1> HIDE DEF Stored
<1>2. \A t \in SlotNumbers : h[t].name = g[t].name /\ h[t].chain = g[t].chain /\ h[t].bytes = g[t].bytes
  BY <1>1
<1>3. \A t \in SlotNumbers : h[t].name \notin Names => h[t] = g[t]
  BY <1>1
<1>4. Owns(h)
  <2> SUFFICES ASSUME NEW t \in SlotNumbers
               PROVE  /\ h[t].chain \in Seq(Clusters)
                      /\ h[t].bytes \in Seq(Byte)
                      /\ h[t].name \notin Names => h[t].chain = <<>> /\ h[t].kept = NoFile /\ h[t].bytes = <<>>
                      /\ \A i, j \in 1 .. Len(h[t].chain) : h[t].chain[i] = h[t].chain[j] => i = j
                      /\ \A r \in SlotNumbers : r # t =>
                            /\ \A k : ~(InChain(h[t].chain, k) /\ InChain(h[r].chain, k))
                            /\ h[t].name \in Names => h[t].name # h[r].name
    BY Zenon DEF Owns
  <2>2. h[t].name = g[t].name /\ h[t].chain = g[t].chain /\ h[t].bytes = g[t].bytes
    BY <1>2
  <2>3. ASSUME NEW r \in SlotNumbers, r # t
        PROVE  /\ \A k : ~(InChain(h[t].chain, k) /\ InChain(h[r].chain, k))
               /\ h[t].name \in Names => h[t].name # h[r].name
    <3>1. h[r].name = g[r].name /\ h[r].chain = g[r].chain
      BY <1>2
    <3> QED
      <4>1. /\ \A k : ~(InChain(g[t].chain, k) /\ InChain(g[r].chain, k))
            /\ g[t].name \in Names => g[t].name # g[r].name
        BY <2>3, Zenon DEF Owns
      <4> QED
        BY <2>2, <3>1, <4>1, Zenon
  <2>4. /\ h[t].chain \in Seq(Clusters) /\ h[t].bytes \in Seq(Byte)
        /\ \A i, j \in 1 .. Len(h[t].chain) : h[t].chain[i] = h[t].chain[j] => i = j
    BY <2>2 DEF Owns
  <2>5. h[t].name \notin Names => h[t].chain = <<>> /\ h[t].kept = NoFile /\ h[t].bytes = <<>>
    BY <1>3 DEF Owns
  <2> QED
    BY <2>3, <2>4, <2>5
<1>5. ASSUME NEW kept, Keeps(g, kept) PROVE Keeps(h, Keeping(kept, g[s].name, g[s].bytes))
  <2> DEFINE new == Keeping(kept, g[s].name, g[s].bytes)
  <2>0. \A m \in Names : new[m] = IF m = g[s].name THEN g[s].bytes ELSE kept[m]
    BY DEF Keeping
  <2> HIDE DEF new
  <2> SUFFICES ASSUME NEW n \in Names, new[n] # NoFile
               PROVE  \E t \in SlotNumbers : h[t].name = n /\ h[t].kept = new[n]
    BY DEF Keeps, new
  <2>1. CASE n = g[s].name
    BY <1>1, <2>0, <2>1
  <2>2. CASE n # g[s].name
    <3>1. PICK t \in SlotNumbers : g[t].name = n /\ g[t].kept = kept[n]
      BY <1>5, <2>0, <2>2 DEF Keeps
    <3>2. t # s
      BY <2>2, <3>1
    <3> QED
      BY <1>1, <2>0, <2>2, <3>1, <3>2
  <2> QED
    BY <2>1, <2>2
<1> QED
  BY <1>1, <1>2, <1>4, <1>5

LEMMA StoredWhole ==
    ASSUME NEW g, Owns(g), NEW s \in SlotNumbers, g[s].name \in Names, NEW x \in Whole(g), Current(x, g),
           NEW size, EndAt(g, s, size), Slot(x, s).size <= size,
           NEW h, h = Stored(g, s), NEW y, y = SetSlot(x, s, WithSize(Slot(x, s), size))
    PROVE  /\ y \in Whole(g) /\ y \in Whole(h) /\ Current(y, h) /\ SameTable(y, x)
           /\ Slot(y, s) = WithSize(Slot(x, s), size)
           /\ \A t \in SlotNumbers : t # s => Slot(y, t) = Slot(x, t)
<1> DEFINE e == WithSize(Slot(x, s), size)
           p == g[s].chain
           b == g[s].bytes
<1>1. /\ Owns(h) /\ h[s].kept = b
      /\ \A t \in SlotNumbers : t # s => h[t] = g[t]
      /\ \A t \in SlotNumbers : h[t].name = g[t].name /\ h[t].chain = g[t].chain /\ h[t].bytes = g[t].bytes
  BY StoredOwns
<1> HIDE DEF Stored
<1>2. x \in Card /\ DirEnds(x) /\ (\A t \in SlotNumbers : Ok(x, g, t)) /\ Full(x, g, s)
  BY DEF Whole, Current
<1>3. p \in Seq(Clusters) /\ b \in Seq(Byte) /\ size = Len(b) /\ size \in Nat /\ Len(p) \in Nat
  BY DEF Owns, EndAt
<1>4. Slot(x, s) \in SlotEntry
  BY <1>2, SlotTyped
<1>5. /\ e \in SlotEntry /\ e.name = Slot(x, s).name /\ e.first = Slot(x, s).first /\ e.size = size
  BY <1>3, <1>4 DEF WithSize, SlotEntry
<1> HIDE DEF e
<1>6. /\ y \in Card /\ Slot(y, s) = e
      /\ \A t \in SlotNumbers : t # s => Slot(y, t) = Slot(x, t)
      /\ SameTable(y, x)
  <2>1. y = SetSlot(x, s, e)
    BY DEF e
  <2>2. y \in Card
    BY <1>2, <1>5, <2>1, SetSlotCard DEF SlotNumbers
  <2> QED
    BY <1>2, <1>5, <2>1, <2>2, SlotSet
<1>7. \A t \in SlotNumbers : Slot(y, t).name = Slot(x, t).name
  BY <1>5, <1>6
<1>8. DirEnds(y)
  BY <1>2, <1>7 DEF DirEnds, SlotNumbers
<1>9. /\ \A n : Runs(x, p, n) => Runs(y, p, n)
      /\ \A n \in 0 .. Len(p) : \A j \in Nat : j < n * ClusterBytes => ByteAt(y, p, j) = ByteAt(x, p, j)
  <2>1. y = SetSlot(x, s, e)
    BY DEF e
  <2> QED
    BY <1>2, <1>3, <1>5, <2>1, SlotKeepsBytes
<1>10. /\ Runs(x, p, Len(p)) /\ Len(b) <= Len(p) * ClusterBytes /\ Named(x, s)
       /\ \A j \in 1 .. Len(b) : ByteAt(x, p, j - 1) = b[j]
  BY <1>2 DEF Full
<1>11. Named(y, s) /\ Slot(y, s).name = g[s].name /\ Slot(y, s).first = FirstOf(p) /\ Slot(y, s).size = size
  BY <1>2, <1>5, <1>6, <1>10 DEF Named, Ok, Fits
<1>12. \A j \in 1 .. Len(b) : ByteAt(y, p, j - 1) = ByteAt(x, p, j - 1)
  <2>1. Len(p) * ClusterBytes \in Nat
    <3>1. ClusterBytes \in Nat
      BY Numbers, Times DEF ClusterBytes
    <3> QED
      BY <1>3, <3>1, Times
  <2>2. Len(p) \in 0 .. Len(p)
    BY <1>3
  <2> DEFINE most == Len(p) * ClusterBytes
  <2>3. most \in Nat /\ Len(b) <= most /\ \A j \in Nat : j < most => ByteAt(y, p, j) = ByteAt(x, p, j)
    BY <1>9, <1>10, <2>1, <2>2
  <2> HIDE DEF most, p, b
  <2>4. \A j \in 1 .. Len(b) : j - 1 \in Nat /\ j - 1 < most
    BY <1>3, <2>3
  <2> QED
    BY <2>3, <2>4
<1>13. Runs(y, p, Len(p)) /\ \A j \in 1 .. Len(b) : ByteAt(y, p, j - 1) = b[j]
  BY <1>9, <1>10, <1>12
<1>14. Fits(y, g, s) /\ Fits(y, h, s)
  <2>1. \E n \in Nat : Runs(y, p, n) /\ Slot(y, s).size <= n * ClusterBytes
    BY <1>3, <1>10, <1>11, <1>13
  <2> QED
    BY <1>1, <1>11, <2>1 DEF Fits
<1>15. Holds(y, h, s)
  BY <1>1, <1>3, <1>11, <1>13 DEF Holds
<1>16. Holds(y, g, s)
  <2> SUFFICES ASSUME g[s].kept # NoFile
               PROVE  /\ g[s].kept \in Seq(Byte) /\ Len(g[s].kept) <= Slot(y, s).size
                      /\ \A j \in 1 .. Len(g[s].kept) : ByteAt(y, p, j - 1) = g[s].kept[j]
    BY <1>11 DEF Holds
  <2> DEFINE q == g[s].kept
  <2>1. q \in Seq(Byte) /\ Len(q) <= Slot(x, s).size /\ \A j \in 1 .. Len(q) : ByteAt(x, p, j - 1) = q[j]
    BY <1>2 DEF Ok, Holds
  <2>2. Slot(x, s).size \in Nat
    BY <1>4 DEF SlotEntry
  <2> HIDE DEF q
  <2>3. Len(q) \in Nat /\ Len(q) <= size /\ 1 .. Len(q) \subseteq 1 .. Len(b)
    BY <1>3, <2>1, <2>2
  <2>4. \A j \in 1 .. Len(q) : ByteAt(y, p, j - 1) = q[j]
    BY <1>12, <2>1, <2>3
  <2> QED
    BY <1>11, <2>1, <2>3, <2>4 DEF q
<1>17. ASSUME NEW t \in SlotNumbers, t # s PROVE Ok(y, g, t) /\ Ok(y, h, t)
  <2>1. y = SetSlot(x, s, e)
    BY DEF e
  <2>2. Ok(y, g, t)
    BY <1>2, <1>5, <1>17, <2>1, OkSlot
  <2>3. h[t] = g[t]
    BY <1>1, <1>17
  <2> QED
    BY <2>2, <2>3 DEF Ok, Fits, Holds
<1>18. y \in Whole(g) /\ y \in Whole(h)
  BY <1>6, <1>8, <1>14, <1>15, <1>16, <1>17 DEF Whole, Ok
<1>19. Current(y, h)
  <2> SUFFICES ASSUME NEW t \in SlotNumbers PROVE Full(y, h, t)
    BY DEF Current
  <2>1. Full(x, g, t) /\ (Named(y, t) <=> Named(x, t))
    BY <1>7 DEF Current, Named
  <2>2. Full(y, g, t)
    <3>1. y = SetSlot(x, s, e)
      BY DEF e
    <3> QED
      BY <1>2, <1>5, <2>1, <3>1, SlotKeepsFull
  <2> QED
    BY <1>1, <2>2 DEF Full
<1> QED
  BY <1>6, <1>18, <1>19 DEF e

-----------------------------------------------------------------------------
(* A system between two calls.                                             *)
Settled(v, g, kept, Lost) ==
    /\ Vol(v) /\ Owns(g) /\ Keeps(g, kept)
    /\ Images(v) \subseteq Whole(g) /\ Current(Cached(v), g) /\ Tight(Cached(v), g, Lost)

LEMMA SystemSettled ==
    ASSUME NEW v, NEW g, NEW kept, NEW Safe, NEW Lost
    PROVE  System(v, g, kept, Safe, Lost)
              <=> Settled(v, g, kept, Lost) /\ WholeCards(kept) \subseteq Safe /\ v.cuts \subseteq Safe
BY DEF System, Settled

LEMMA IgnoringDone ==
    ASSUME NEW v, Vol(v), NEW w, w = Ignoring(v)
    PROVE  w \in Volume /\ SameBuffers(v, w) /\ Moves(v, w) /\ Quiet(v, w) /\ SameData(v, w) /\ Good(w)
<1>1. w \in Volume /\ SameBuffers(v, w) /\ Quiet(v, w) /\ SameData(v, w) /\ Good(w)
  BY DEF Vol, Ignoring, Volume, Errors, SameBuffers, SameFat, SameData, Quiet, Good
<1> QED
  BY <1>1, OtherFields

(* The size goes into the entry in the buffer, and that onto the card.     *)
Even(v) == \A x \in Images(v) : x = Cached(v)

LEMMA EvenMoves ==
    ASSUME NEW v, NEW w, Moves(v, w), Even(v) PROVE Even(w) /\ Cached(w) = Cached(v)
BY MovesImages DEF Even, Moves

LEMMA SizedDone ==
    ASSUME NEW v, Vol(v), Good(v), Even(v), NEW s \in SlotNumbers, v.f.entry = s, v.f.size \in Nat,
           NEW w, w = Sized(v), NEW y, y = SetSlot(Cached(v), s, WithSize(Slot(Cached(v), s), v.f.size))
    PROVE  /\ Vol(w) /\ Good(w) /\ Quiet(v, w) /\ w.dataSector = DirSector(s)
           /\ w.card = Cached(v) /\ WithFat(w) = Cached(v) /\ WithData(w) = y /\ Cached(w) = y
           /\ w.cuts \subseteq v.cuts \cup {Cached(v)}
<1> DEFINE a == DirectoryEntryCache(v, s)
           d == DirSector(s)
           size == v.f.size
<1>1. d \in DirSectors /\ d \in DirSectors \cup DataSectors
  BY SectorOf DEF SlotNumbers
<1>2. a = CacheData(v, d)
  <2>1. ~(s >= ROOT)
    BY Numbers DEF SlotNumbers
  <2> QED
    BY <2>1 DEF DirectoryEntryCache
<1> HIDE DEF d
<1>3. Moves(v, a) /\ Quiet(v, a) /\ Good(a) /\ SameFat(v, a) /\ a.dataSector = d
  BY <1>1, <1>2, CacheDataDone
<1>4. Vol(a) /\ Even(a) /\ Cached(a) = Cached(v) /\ a.f = v.f
  BY <1>3, EvenMoves DEF Moves, Quiet
<1>5. w = SetEntry(a, s, [Entry(a, s) EXCEPT !.size = size])
  <2>1. w = IF Good(a) THEN SetEntry(a, s, [Entry(a, s) EXCEPT !.size = a.f.size]) ELSE a
    <3>1. w = IF Good(a) THEN SetEntry(a, a.f.entry, [Entry(a, a.f.entry) EXCEPT !.size = a.f.size]) ELSE a
      BY <1>4 DEF Sized, Then
    <3> QED
      BY <1>4, <3>1
  <2> QED
    BY <1>3, <1>4, <2>1
<1> HIDE DEF a
<1>6. Entry(a, s) = Slot(Cached(v), s)
  BY <1>3, <1>4, SlotRead DEF SlotNumbers, d
<1> DEFINE e == WithSize(Slot(Cached(v), s), size)
<1>7. w = SetEntry(a, s, e)
  BY <1>5, <1>6 DEF WithSize
<1>8. e \in SlotEntry
  <2>1. Cached(v) \in Card
    BY ImagesTyped, ImageMembers
  <2>2. Slot(Cached(v), s) \in SlotEntry
    BY <2>1, SlotTyped
  <2> QED
    BY <2>2 DEF SlotEntry, WithSize
<1>9. y = SetSlot(Cached(v), s, e)
  OBVIOUS
<1> HIDE DEF e
<1>10. /\ Vol(w) /\ Quiet(a, w) /\ w.err = a.err /\ w.cuts = a.cuts /\ w.dataSector = a.dataSector
       /\ w.card = a.card /\ WithFat(w) = WithFat(a)
       /\ WithData(w) = SetSlot(WithData(a), s, e) /\ Cached(w) = SetSlot(Cached(a), s, e)
  BY <1>3, <1>4, <1>7, <1>8, ChangeSlot DEF SlotNumbers, d
<1>11. a.card = Cached(v) /\ WithFat(a) = Cached(v) /\ WithData(a) = Cached(v)
  BY <1>4, ImageMembers DEF Even
<1>12. a.cuts \subseteq v.cuts \cup {Cached(v)}
  BY <1>3 DEF Moves, Even
<1>13. Quiet(v, w)
  BY <1>3, <1>10, QuietOn
<1> QED
  BY <1>3, <1>4, <1>9, <1>10, <1>11, <1>12, <1>13 DEF Good, d

LEMMA FlushEntryDone ==
    ASSUME NEW v, Vol(v), Good(v), Even(v), NEW s \in SlotNumbers, v.f.entry = s, v.f.size \in Nat, v.f.cluster \in Nat,
           NEW w, w = FlushEntry(v), NEW y, y = SetSlot(Cached(v), s, WithSize(Slot(Cached(v), s), v.f.size))
    PROVE  /\ Vol(w) /\ Good(w) /\ Quiet(v, w) /\ w.dataSector = DirSector(s) /\ ~w.dataDirty
           /\ Even(w) /\ Cached(w) = y /\ w.cuts \subseteq v.cuts \cup {Cached(v), y}
<1> DEFINE a == FATRead(v, v.f.cluster)
           b == Ignoring(a)
           c == Sized(b)
<1>1. Moves(v, a) /\ Quiet(v, a)
  BY FATReadDone
<1>2. w = IF Good(c) THEN FlushData(c) ELSE c
  BY DEF FlushEntry, Then
<1> HIDE DEF a
<1>3. Moves(a, b) /\ Quiet(a, b) /\ Good(b)
  BY <1>1, IgnoringDone DEF Moves
<1> HIDE DEF b
<1>4. Moves(v, b) /\ Quiet(v, b) /\ Good(b)
  BY <1>1, <1>3, MovesOn, QuietOn
<1>5. Vol(b) /\ Even(b) /\ Cached(b) = Cached(v) /\ b.f = v.f
  BY <1>4, EvenMoves DEF Moves, Quiet
<1>6. b.cuts \subseteq v.cuts \cup {Cached(v)}
  BY <1>4 DEF Moves, Even
<1>7. /\ Vol(c) /\ Good(c) /\ Quiet(b, c) /\ c.dataSector = DirSector(s)
      /\ c.card = Cached(v) /\ WithFat(c) = Cached(v) /\ WithData(c) = y /\ Cached(c) = y
      /\ c.cuts \subseteq b.cuts \cup {Cached(v)}
  BY <1>4, <1>5, SizedDone
<1> HIDE DEF c
<1>8. w = FlushData(c)
  BY <1>2, <1>7
<1>9. /\ Moves(c, w) /\ Quiet(c, w) /\ Good(w) /\ w.dataSector = c.dataSector /\ ~w.dataDirty
      /\ w.card = WithData(c) /\ WithFat(w) = Cached(c) /\ w.cuts \subseteq c.cuts \cup {c.card}
  BY <1>7, <1>8, FlushDataDone
<1>10. Vol(w) /\ Cached(w) = y /\ w.card = y /\ WithFat(w) = y
  BY <1>7, <1>9 DEF Moves
<1>11. WithData(w) = y
  BY <1>9, <1>10, CleanImages
<1>12. Even(w)
  BY <1>10, <1>11 DEF Even, Images
<1>13. Quiet(v, w)
  BY <1>4, <1>7, <1>9, QuietOn
<1> QED
  BY <1>6, <1>7, <1>9, <1>10, <1>12, <1>13

(* FILEIO_Flush of a file that is written, and the part of FILEIO_Close.   *)
Flushes(v, w, g, h, s, kept, Safe, Lost) ==
    /\ Settled(w, h, Keeping(kept, g[s].name, g[s].bytes), Lost)
    /\ Good(w) /\ Quiet(v, w) /\ w.cuts \subseteq Safe
    /\ Slot(Cached(w), s) = WithSize(Slot(Cached(v), s), v.f.size)
    /\ \A t \in SlotNumbers : t # s => Slot(Cached(w), t) = Slot(Cached(v), t)

LEMMA FlushDone ==
    ASSUME NEW v, NEW g, NEW kept, NEW Safe, NEW Lost, System(v, g, kept, Safe, Lost), Good(v),
           NEW s \in SlotNumbers, g[s].name \in Names, EndAt(g, s, v.f.size), v.f.entry = s,
           Slot(Cached(v), s).size <= v.f.size, v.f.write, NEW w, w = Flush(v)
    PROVE  Flushes(v, w, g, Stored(g, s), s, kept, Safe, Lost)
<1> DEFINE a == FlushData(v)
           b == FlushFat(a)
           c == FlushEntry(b)
           h == Stored(g, s)
           y == SetSlot(Cached(v), s, WithSize(Slot(Cached(v), s), v.f.size))
<1>0. Vol(v) /\ v.f.cluster \in Nat /\ v.f.size \in Nat
  BY DEF System, Vol, Volume, Object
<1>1. Moves(v, b) /\ Quiet(v, b) /\ Good(b) /\ Good(a) /\ Even(b)
  <2>1. Moves(v, b) /\ Quiet(v, b) /\ Good(b) /\ Good(a) /\ (\A x \in Images(b) : x = Cached(b))
    <3> DEFINE q == Cached(v)
    <3>1. Moves(v, b) /\ Quiet(v, b) /\ Good(b) /\ Good(a) /\ \A x \in Images(b) : x = q
      BY <1>0, BothFlushed
    <3> QED
      BY <3>1 DEF Moves
  <2> QED
    BY <2>1 DEF Even
<1>2. w = IF Good(c) THEN ReadData(c, c.dataSector) ELSE c
  BY <1>1 DEF Flush, Then
<1> HIDE DEF a, b
<1>3. Vol(b) /\ Cached(b) = Cached(v) /\ b.f = v.f
  BY <1>1 DEF Moves, Quiet
<1>4. /\ Vol(c) /\ Good(c) /\ Quiet(b, c) /\ c.dataSector = DirSector(s) /\ ~c.dataDirty
      /\ Even(c) /\ Cached(c) = y /\ c.cuts \subseteq b.cuts \cup {Cached(v), y}
  BY <1>0, <1>1, <1>3, FlushEntryDone
<1> HIDE DEF c
<1>5. Moves(c, w) /\ Quiet(c, w) /\ Good(w)
  <2>1. DirSector(s) \in DirSectors \cup DataSectors
    BY SectorOf DEF SlotNumbers
  <2>2. w = ReadData(c, DirSector(s))
    BY <1>2, <1>4
  <2> QED
    BY <1>4, <2>1, <2>2, ReadDataDone
<1>6. Vol(w) /\ Even(w) /\ Cached(w) = y /\ w.cuts \subseteq c.cuts \cup {y}
  <2>1. Even(w) /\ Cached(w) = y
    BY <1>4, <1>5, EvenMoves
  <2> QED
    BY <1>4, <1>5, <2>1 DEF Moves, Even
<1>7. Cached(v) \in Whole(g) /\ Current(Cached(v), g) /\ Owns(g) /\ Keeps(g, kept) /\ Tight(Cached(v), g, Lost)
  BY ImageMembers DEF System
<1>8. /\ y \in Whole(g) /\ y \in Whole(h) /\ Current(y, h) /\ SameTable(y, Cached(v))
      /\ Slot(y, s) = WithSize(Slot(Cached(v), s), v.f.size)
      /\ \A t \in SlotNumbers : t # s => Slot(y, t) = Slot(Cached(v), t)
  BY <1>7, StoredWhole
<1>9. /\ Owns(h) /\ Keeps(h, Keeping(kept, g[s].name, g[s].bytes))
      /\ \A t \in SlotNumbers : h[t].chain = g[t].chain
  BY <1>7, StoredOwns
<1> HIDE DEF h, y
<1>10. Tight(y, h, Lost)
  BY <1>7, <1>8, <1>9, SameLinks DEF Tight
<1>11. w.cuts \subseteq Safe
  <2>1. Whole(g) \subseteq Safe
    BY <1>7, WholeSafe DEF System
  <2>2. b.cuts \subseteq v.cuts \cup Images(v) /\ v.cuts \subseteq Safe /\ Images(v) \subseteq Whole(g)
    BY <1>1 DEF Moves, System
  <2> QED
    BY <1>4, <1>6, <1>7, <1>8, <2>1, <2>2
<1>12. Settled(w, h, Keeping(kept, g[s].name, g[s].bytes), Lost)
  BY <1>6, <1>8, <1>9, <1>10 DEF Settled, Even
<1>13. Quiet(v, w)
  BY <1>1, <1>4, <1>5, QuietOn
<1> QED
  BY <1>5, <1>6, <1>8, <1>11, <1>12, <1>13 DEF Flushes, h

-----------------------------------------------------------------------------
(* A name is looked for.                                                   *)
LEMMA SlotNames ==
    ASSUME NEW g, NEW c \in Whole(g), Current(c, g), NEW t \in SlotNumbers
    PROVE  /\ g[t].name \in Names => Slot(c, t).name = g[t].name /\ Slot(c, t).first = FirstOf(g[t].chain)
           /\ Slot(c, t).name \in Names => Slot(c, t).name = g[t].name /\ Slot(c, t).first = FirstOf(g[t].chain)
BY DEF Whole, Current, Full, Ok, Fits, Named

Found(v, w, g, n) ==
    \/ /\ Good(w) /\ w.found \in SlotNumbers /\ w.dataSector = DirSector(w.found)
       /\ g[w.found].name = n /\ Entry(w, w.found) = Slot(Cached(v), w.found)
       /\ Slot(Cached(v), w.found).first = FirstOf(g[w.found].chain)
    \/ w.err = "done" /\ \A t \in SlotNumbers : g[t].name # n

LEMMA FoundDone ==
    ASSUME NEW v, NEW g, NEW kept, NEW Safe, NEW Lost, System(v, g, kept, Safe, Lost), Good(v),
           NEW n \in Names, NEW w, w = FindShortFileName(v, n)
    PROVE  System(w, g, kept, Safe, Lost) /\ Moves(v, w) /\ Kept(v, w) /\ Found(v, w, g, n)
<1>1. Vol(v) /\ Cached(v) \in Whole(g) /\ Current(Cached(v), g) /\ DirEnds(Cached(v))
  BY ImageMembers DEF System, Whole
<1>2. /\ Moves(v, w) /\ Kept(v, w)
      /\ \/ /\ Good(w) /\ w.found \in SlotNumbers /\ w.dataSector = DirSector(w.found)
            /\ Slot(Cached(v), w.found).name = n
         \/ w.err = "done" /\ \A t \in SlotNumbers : Slot(Cached(v), t).name # n
  BY <1>1, FindShortFileNameDone
<1>3. Vol(w) /\ Cached(w) = Cached(v)
  BY <1>2 DEF Moves
<1>4. System(w, g, kept, Safe, Lost)
  BY <1>2, SystemMoves
<1>5. CASE /\ Good(w) /\ w.found \in SlotNumbers /\ w.dataSector = DirSector(w.found)
           /\ Slot(Cached(v), w.found).name = n
  <2>1. Entry(w, w.found) = Slot(Cached(v), w.found)
    BY <1>3, <1>5, SlotRead DEF SlotNumbers
  <2>2. g[w.found].name = n /\ Slot(Cached(v), w.found).first = FirstOf(g[w.found].chain)
    BY <1>1, <1>5, SlotNames
  <2> QED
    BY <1>2, <1>4, <1>5, <2>1, <2>2 DEF Found
<1>6. CASE w.err = "done" /\ \A t \in SlotNumbers : Slot(Cached(v), t).name # n
  <2>1. \A t \in SlotNumbers : g[t].name # n
    BY <1>1, <1>6, SlotNames
  <2> QED
    BY <1>2, <1>4, <1>6, <2>1 DEF Found
<1> QED
  BY <1>2, <1>5, <1>6

(* The file object of an entry that was found.                             *)
LEMMA FilledDone ==
    ASSUME NEW v, Vol(v), NEW s \in SlotNumbers, v.found = s, v.dataSector = DirSector(s), NEW w, w = Filled(v)
    PROVE  /\ w \in Volume /\ SameBuffers(v, w) /\ Moves(v, w) /\ w.err = v.err /\ w.got = v.got /\ w.count = v.count
           /\ w.f.entry = s /\ w.f.first = Slot(Cached(v), s).first /\ w.f.size = Slot(Cached(v), s).size
           /\ w.f.cluster = w.f.first /\ w.f.sector = 0 /\ w.f.offset = 0 /\ w.f.pos = 0
           /\ w.f.open = v.f.open /\ w.f.failed = v.f.failed
<1>1. Entry(v, s) = Slot(Cached(v), s)
  BY SlotRead DEF SlotNumbers
<1>2. Slot(Cached(v), s) \in SlotEntry
  BY ImagesTyped, ImageMembers, SlotTyped
<1> DEFINE e == Slot(Cached(v), s)
           f == [v.f EXCEPT !.first = e.first, !.cluster = e.first, !.size = e.size,
                            !.entry = s, !.pos = 0, !.sector = 0, !.offset = 0]
<1>3. w = [v EXCEPT !.f = f]
  <2>1. v \in Volume /\ v.f \in Object
    BY DEF Vol, Volume
  <2> QED
    BY <1>1, <2>1 DEF Filled, Volume, Object
<1>4. e.first \in Nat /\ e.size \in Nat /\ s \in Nat
  <2>1. e.first \in Word /\ e.size \in Nat
    BY <1>2 DEF SlotEntry
  <2>2. s \in Nat
    BY Numbers DEF SlotNumbers
  <2>3. \A word \in Word : word \in Nat
    BY WordNat
  <2> HIDE DEF e
  <2> QED
    BY <2>1, <2>2, <2>3
<1> HIDE DEF e
<1>5. /\ f \in Object /\ f.entry = s /\ f.first = e.first /\ f.size = e.size
      /\ f.cluster = f.first /\ f.sector = 0 /\ f.offset = 0 /\ f.pos = 0
      /\ f.open = v.f.open /\ f.failed = v.f.failed
  <2>1. v.f \in Object
    BY DEF Vol, Volume
  <2> QED
    BY <1>4, <2>1 DEF Object
<1> HIDE DEF f
<1>6. w \in Volume /\ SameBuffers(v, w) /\ w.err = v.err /\ w.got = v.got /\ w.count = v.count /\ w.f = f
  BY <1>3, <1>5 DEF Vol, Volume, SameBuffers, SameFat, SameData
<1>7. Moves(v, w)
  BY <1>6, OtherFields
<1> QED
  BY <1>5, <1>6, <1>7 DEF e

LEMMA EnabledDone ==
    ASSUME NEW v, Vol(v), NEW mode, NEW w, w = Enabled(v, mode)
    PROVE  /\ w \in Volume /\ SameBuffers(v, w) /\ Moves(v, w) /\ w.err = v.err /\ w.got = v.got /\ w.count = v.count
           /\ w.f.read = ("READ" \in mode) /\ w.f.write = ("WRITE" \in mode)
           /\ w.f.first = v.f.first /\ w.f.entry = v.f.entry /\ w.f.size = v.f.size /\ w.f.pos = v.f.pos
           /\ w.f.cluster = v.f.cluster /\ w.f.sector = v.f.sector /\ w.f.offset = v.f.offset
           /\ w.f.open = v.f.open /\ w.f.failed = v.f.failed
<1> DEFINE a == "READ" \in mode
           b == "WRITE" \in mode
           f == [v.f EXCEPT !.read = a, !.write = b]
<1>1. w = [v EXCEPT !.f = f]
  <2>1. v \in Volume /\ v.f \in Object
    BY DEF Vol, Volume
  <2> QED
    BY <2>1 DEF Enabled, Volume, Object
<1>2. a \in BOOLEAN /\ b \in BOOLEAN
  OBVIOUS
<1> HIDE DEF a, b
<1>3. /\ f \in Object /\ f.read = a /\ f.write = b
      /\ f.first = v.f.first /\ f.entry = v.f.entry /\ f.size = v.f.size /\ f.pos = v.f.pos
      /\ f.cluster = v.f.cluster /\ f.sector = v.f.sector /\ f.offset = v.f.offset
      /\ f.open = v.f.open /\ f.failed = v.f.failed
  <2>1. v.f \in Object
    BY DEF Vol, Volume
  <2> QED
    BY <1>2, <2>1 DEF Object
<1> HIDE DEF f
<1>4. w \in Volume /\ SameBuffers(v, w) /\ w.err = v.err /\ w.got = v.got /\ w.count = v.count /\ w.f = f
  BY <1>1, <1>3 DEF Vol, Volume, SameBuffers, SameFat, SameData
<1>5. Moves(v, w)
  BY <1>4, OtherFields
<1> QED
  BY <1>3, <1>4, <1>5 DEF a, b

-----------------------------------------------------------------------------
(* The file object of a file of the directory.                             *)
HandleOn(f, g, s) ==
    /\ s \in SlotNumbers /\ f.entry = s /\ g[s].name \in Names
    /\ Len(g[s].chain) > 0 /\ f.first = g[s].chain[1] /\ EndAt(g, s, f.size)

LEMMA HandleSize ==
    ASSUME NEW g, Owns(g), NEW s, NEW f, HandleOn(f, g, s)
    PROVE  f.size \in Nat /\ f.size = Len(g[s].bytes) /\ f.size \in 0 .. f.size
<1>1. g[s].bytes \in Seq(Byte) /\ f.size = Len(g[s].bytes)
  BY DEF HandleOn, Owns, EndAt
<1>2. Len(g[s].bytes) \in Nat
  BY <1>1
<1>3. f.size \in Nat
  BY <1>1, <1>2
<1> DEFINE z == f.size
<1>4. z \in Nat
  BY <1>3
<1> HIDE DEF z
<1>5. z \in 0 .. z
  BY <1>4
<1> QED
  BY <1>1, <1>3, <1>5 DEF z

LEMMA LongerHandle ==
    ASSUME NEW g, Owns(g), NEW h, NEW s, Longer(g, h, s), NEW f, HandleOn(f, g, s), NEW e,
           SameHandle(f, e), e.size = f.size
    PROVE  HandleOn(e, h, s)
<1>1. Len(g[s].chain) \in Nat /\ Len(h[s].chain) \in Nat /\ Len(g[s].chain) <= Len(h[s].chain) /\ Len(g[s].chain) > 0
  BY ChainIn DEF Longer, HandleOn
<1> DEFINE n == Len(g[s].chain)
           m == Len(h[s].chain)
<1>2. m > 0 /\ 1 \in 1 .. n
  <2>1. n \in Nat /\ m \in Nat /\ n <= m /\ n > 0
    BY <1>1
  <2> HIDE DEF n, m
  <2> QED
    BY <2>1
<1>3. h[s].chain[1] = g[s].chain[1] /\ h[s].name = g[s].name /\ h[s].bytes = g[s].bytes
  BY <1>2 DEF Longer
<1> QED
  BY <1>2, <1>3 DEF HandleOn, SameHandle, EndAt

(* To the first byte of a file: there is always a cluster for it.          *)
LEMMA SeekZero ==
    ASSUME NEW v, Vol(v), Good(v), v.f.size = 0, NEW c \in Clusters, v.f.first = c, NEW w, w = SeekTo(v, 0)
    PROVE  Good(w)
<1> DEFINE fl == FlushData(v)
           u == Placed(fl, 0)
<1>1. Moves(v, fl) /\ Quiet(v, fl) /\ Good(fl) /\ ~fl.dataDirty /\ Vol(fl)
  <2>1. fl = FlushData(v)
    OBVIOUS
  <2> HIDE DEF fl
  <2> QED
    BY <2>1, FlushDataDone DEF Moves
<1>2. (0 \div SECTOR) \div SPC = 0 /\ ~(0 > 0) /\ SectorIn(0) = 0
  BY Numbers DEF SectorIn
<1>3. w = IF Good(u) THEN ReadData(u, Sector(u)) ELSE u
  <2>1. w = IF Good(fl) THEN (IF 0 > v.f.size THEN Failed(First(fl), "argument")
                              ELSE IF Good(u) THEN ReadData(u, Sector(u)) ELSE u) ELSE fl
    BY <1>2 DEF SeekTo, Then, SeekCluster
  <2> HIDE DEF fl, u
  <2> QED
    BY <1>1, <1>2, <2>1
<1> HIDE DEF fl
<1>4. /\ Moves(fl, u) /\ SameData(fl, u) /\ u.err = fl.err
      /\ u.f.cluster = fl.f.first /\ u.f.sector = SectorIn(0)
  <2>1. u = Placed(fl, 0) /\ 0 \in Nat
    OBVIOUS
  <2> HIDE DEF u
  <2> QED
    BY <1>1, <2>1, PlacedDone
<1> HIDE DEF u
<1>5. Vol(u) /\ Good(u) /\ ~u.dataDirty /\ u.f.cluster = c /\ u.f.sector = 0
  BY <1>1, <1>2, <1>4 DEF Moves, Quiet, Good, SameData
<1>6. Sector(u) \in DirSectors \cup DataSectors
  <2>1. 0 \in 0 .. SPC - 1
    BY Numbers
  <2> QED
    BY <1>5, <2>1, SectorOf DEF Sector
<1> QED
  BY <1>3, <1>5, <1>6, ReadDataDone

AtEnd(v, w, g, h, s) ==
    /\ Longer(g, h, s) /\ SameHandle(v.f, w.f) /\ w.f.size = v.f.size /\ w.got = v.got
    /\ SameEntries(Cached(v), Cached(w))
    /\ Good(w) => w.f.pos = w.f.size /\ Stands(w.f, h[s].chain, w.f.pos)
    /\ v.f.size = 0 => Good(w)

LEMMA SeekOrFailDone ==
    ASSUME NEW v, NEW g, NEW kept, NEW Safe, NEW Lost, System(v, g, kept, Safe, Lost), Good(v),
           NEW s, HandleOn(v.f, g, s), NEW w, w = SeekOrFail(v)
    PROVE  \E h : System(w, h, kept, Safe, Lost) /\ AtEnd(v, w, g, h, s)
<1> DEFINE u == SeekTo(v, v.f.size)
<1>0. Owns(g) /\ Vol(v) /\ v.f.size \in 0 .. v.f.size
  BY HandleSize DEF System
<1>1. PICK h : System(u, h, kept, Safe, Lost) /\ Seeked(v, u, g, h, s, v.f.size)
  <2>1. u = SeekTo(v, v.f.size)
    OBVIOUS
  <2> HIDE DEF u
  <2> QED
    BY <1>0, <2>1, SeekDone DEF HandleOn
<1>2. v.f.size = 0 => Good(u)
  <2>1. g[s].chain[1] \in Clusters
    <3>1. Len(g[s].chain) \in Nat /\ Len(g[s].chain) > 0 /\ g[s].chain \in Seq(Clusters)
      BY <1>0, ChainIn DEF HandleOn
    <3> QED
      BY <3>1
  <2> QED
    BY <1>0, <2>1, SeekZero DEF HandleOn
<1>3. w = [u EXCEPT !.err = IF Good(u) THEN @ ELSE "seek"]
  BY DEF SeekOrFail
<1> HIDE DEF u
<1>4. w \in Volume /\ SameBuffers(u, w) /\ w.f = u.f /\ w.got = u.got /\ (Good(w) <=> Good(u))
  <2>1. u \in Volume
    BY <1>1 DEF System, Vol
  <2> QED
    BY <1>3, <2>1 DEF Volume, Errors, SameBuffers, SameFat, SameData, Good
<1>5. System(w, h, kept, Safe, Lost) /\ Cached(w) = Cached(u)
  BY <1>1, <1>4, SystemBuffers
<1>6. AtEnd(v, w, g, h, s)
  BY <1>1, <1>2, <1>4, <1>5 DEF Seeked, AtEnd
<1> QED
  BY <1>5, <1>6

-----------------------------------------------------------------------------
(* A file is opened: the other files of the directory are not touched, and *)
(* the file is the one that was found, or an empty one, or is gone.        *)
Others(v, w, g, h, n) ==
    \A t \in SlotNumbers : g[t].name \in Names \ {n} \/ h[t].name \in Names \ {n}
        => h[t] = g[t] /\ Slot(Cached(w), t) = Slot(Cached(v), t)
Sizes(w, h, n) == \A t \in SlotNumbers : h[t].name = n => Slot(Cached(w), t).size = Len(h[t].bytes)
SameBytes(g, h, n) ==
    \A t \in SlotNumbers : /\ h[t].name = n <=> g[t].name = n
                           /\ g[t].name = n => h[t].bytes = g[t].bytes
Opens(w, h, s, n) ==
    /\ HandleOn(w.f, h, s) /\ h[s].name = n /\ Stands(w.f, h[s].chain, w.f.pos) /\ w.f.pos \in {0, w.f.size}
Opened(v, w, g, h, n) ==
    /\ Others(v, w, g, h, n) /\ Sizes(w, h, n) /\ w.got = v.got
    /\ Good(w) => \E s : Opens(w, h, s, n)
    /\ \/ SameBytes(g, h, n)
       \/ IF Good(w) THEN \A t \in SlotNumbers : h[t].name = n => h[t].bytes = <<>>
          ELSE \A t \in SlotNumbers : h[t].name # n

LEMMA StartsAt ==
    ASSUME NEW f, NEW p, Len(p) > 0, f.cluster = p[1], f.sector = 0, f.offset = 0, Len(p) \in Nat
    PROVE  Stands(f, p, 0)
<1>1. 0 \in SectorNumbers /\ 0 \in 0 .. SECTOR
  BY Numbers DEF SectorNumbers
<1>2. 0 = Place(1, 0, 0)
  <2>1. 0 * SPC = 0 /\ 0 * SECTOR = 0 /\ 1 - 1 = 0
    BY Numbers
  <2> QED
    BY <2>1 DEF Place
<1>3. 1 \in 1 .. Len(p)
  OBVIOUS
<1>4. f.cluster = p[1] /\ 0 = Place(1, f.sector, f.offset)
  BY <1>2
<1> QED
  BY <1>1, <1>3, <1>4 DEF Stands, At

(* The end of the file is looked for.                                      *)
ToEnd(m, mode) == SeekOrFail(Enabled(m, mode))

LEMMA ToEndDone ==
    ASSUME NEW v, NEW g, NEW kept, NEW Safe, NEW Lost, System(v, g, kept, Safe, Lost), Good(v),
           NEW s, HandleOn(v.f, g, s), NEW mode, NEW w, w = ToEnd(v, mode)
    PROVE  \E h : /\ System(w, h, kept, Safe, Lost) /\ Longer(g, h, s) /\ SameEntries(Cached(v), Cached(w))
                  /\ w.got = v.got /\ (v.f.size = 0 => Good(w))
                  /\ Good(w) => Opens(w, h, s, g[s].name)
<1> DEFINE e == Enabled(v, mode)
<1>1. Vol(v) /\ Owns(g)
  BY DEF System
<1>2. /\ e \in Volume /\ SameBuffers(v, e) /\ Moves(v, e) /\ e.err = v.err /\ e.got = v.got
      /\ e.f.first = v.f.first /\ e.f.entry = v.f.entry /\ e.f.size = v.f.size
  <2>1. e = Enabled(v, mode)
    OBVIOUS
  <2> HIDE DEF e
  <2> QED
    BY <1>1, <2>1, EnabledDone
<1>3. w = SeekOrFail(e)
  BY DEF ToEnd
<1> HIDE DEF e
<1>4. System(e, g, kept, Safe, Lost) /\ Good(e) /\ HandleOn(e.f, g, s) /\ Cached(e) = Cached(v)
  <2>1. System(e, g, kept, Safe, Lost)
    BY <1>2, SystemMoves
  <2> QED
    BY <1>2, <2>1 DEF Good, HandleOn, EndAt, Moves
<1>5. PICK h : System(w, h, kept, Safe, Lost) /\ AtEnd(e, w, g, h, s)
  BY <1>3, <1>4, SeekOrFailDone
<1>6. HandleOn(w.f, h, s)
  BY <1>1, <1>4, <1>5, LongerHandle DEF AtEnd
<1>7. h[s].name = g[s].name
  BY <1>5 DEF AtEnd, Longer
<1>8. SameEntries(Cached(v), Cached(w)) /\ w.got = v.got /\ (v.f.size = 0 => Good(w)) /\ Longer(g, h, s)
      /\ (Good(w) => w.f.pos = w.f.size /\ Stands(w.f, h[s].chain, w.f.pos))
  BY <1>2, <1>4, <1>5 DEF AtEnd
<1>9. Good(w) => Opens(w, h, s, g[s].name)
  BY <1>6, <1>7, <1>8 DEF Opens
<1> QED
  BY <1>5, <1>8, <1>9

(* A file is made.                                                         *)
OnMade(m, mode) == Then(m, LAMBDA x : SeekOrFail(Enabled(x, mode)))

LEMMA MadeDone ==
    ASSUME NEW v, NEW g, NEW kept, NEW Safe, NEW Lost, System(v, g, kept, Safe, Lost), Good(v),
           NEW n \in Names, \A t \in SlotNumbers : g[t].name # n, NEW mode,
           NEW w, w = OnMade(DirectoryEntryCreate(v, n), mode)
    PROVE  \E h : System(w, h, kept, Safe, Lost) /\ Opened(v, w, g, h, n)
<1> DEFINE m == DirectoryEntryCreate(v, n)
<1>0. w = IF Good(m) THEN ToEnd(m, mode) ELSE m
  BY DEF OnMade, Then, ToEnd
<1>1. \/ System(m, g, kept, Safe, Lost) /\ ~Good(m) /\ Kept(v, m) /\ Cached(m) = Cached(v)
      \/ \E s, k : System(m, Fresh(g, s, n, k), kept, Safe, Lost) /\ Populated(v, m, g, Fresh(g, s, n, k), n, s, k)
  BY DirectoryEntryCreateDone
<1> HIDE DEF m
<1>2. CASE System(m, g, kept, Safe, Lost) /\ ~Good(m) /\ Kept(v, m) /\ Cached(m) = Cached(v)
  <2>1. w = m
    BY <1>0, <1>2
  <2>2. Opened(v, w, g, g, n)
    BY <1>2, <2>1 DEF Opened, Others, Sizes, SameBytes, Kept
  <2> QED
    BY <1>2, <2>1, <2>2
<1>3. ASSUME NEW s, NEW k, System(m, Fresh(g, s, n, k), kept, Safe, Lost),
             Populated(v, m, g, Fresh(g, s, n, k), n, s, k)
      PROVE  \E h : System(w, h, kept, Safe, Lost) /\ Opened(v, w, g, h, n)
  <2> DEFINE f == Fresh(g, s, n, k)
  <2>1. /\ k \in Clusters /\ Free(g, k) /\ s \in SlotNumbers /\ g[s].name \notin Names /\ Good(m)
        /\ m.f = NewObject(v.f, k, s) /\ m.got = v.got /\ Slot(Cached(m), s) = NewEntry(n, k)
        /\ \A t \in SlotNumbers : t # s => Slot(Cached(m), t) = Slot(Cached(v), t)
    BY <1>3 DEF Populated
  <2>2. Owns(g) /\ Vol(v)
    BY DEF System
  <2>3. /\ Owns(f) /\ f[s].name = n /\ f[s].bytes = <<>> /\ f[s].chain = <<k>>
        /\ \A t \in SlotNumbers : t # s => f[t] = g[t]
    <3>1. f = Fresh(g, s, n, k)
      OBVIOUS
    <3> HIDE DEF f
    <3> QED
      BY <2>1, <2>2, <3>1, FreshOwns
  <2>4. System(m, f, kept, Safe, Lost)
    BY <1>3
  <2> HIDE DEF f
  <2>5. m.f.entry = s /\ m.f.first = k /\ m.f.size = 0
    <3>1. v.f \in Object
      BY <2>2 DEF Vol, Volume
    <3> QED
      BY <2>1, <3>1 DEF NewObject, Object
  <2>6. HandleOn(m.f, f, s)
    <3>1. Len(<<k>>) = 1 /\ <<k>>[1] = k /\ Len(<<>>) = 0
      OBVIOUS
    <3> QED
      BY <2>1, <2>3, <2>5, <3>1 DEF HandleOn, EndAt
  <2>7. PICK h : /\ System(w, h, kept, Safe, Lost) /\ Longer(f, h, s) /\ SameEntries(Cached(m), Cached(w))
                 /\ w.got = m.got /\ (m.f.size = 0 => Good(w))
                 /\ Good(w) => Opens(w, h, s, f[s].name)
    BY <1>0, <2>1, <2>4, <2>6, ToEndDone
  <2>8. h[s].name = n /\ h[s].bytes = <<>> /\ \A t \in SlotNumbers : t # s => h[t] = g[t]
    BY <2>3, <2>7 DEF Longer
  <2>9. /\ Slot(Cached(w), s).size = 0
        /\ \A t \in SlotNumbers : t # s => Slot(Cached(w), t) = Slot(Cached(v), t)
    BY <2>1, <2>7 DEF SameEntries, NewEntry
  <2>10. Others(v, w, g, h, n)
    BY <2>1, <2>8, <2>9 DEF Others
  <2>11. \A t \in SlotNumbers : h[t].name = n => t = s
    BY <2>8
  <2>12. Sizes(w, h, n)
    <3>1. Len(<<>>) = 0
      OBVIOUS
    <3> QED
      BY <2>8, <2>9, <2>11, <3>1 DEF Sizes
  <2>13. Opened(v, w, g, h, n)
    BY <2>1, <2>3, <2>5, <2>7, <2>8, <2>10, <2>11, <2>12 DEF Opened
  <2> QED
    BY <2>7, <2>13
<1> QED
  BY <1>1, <1>2, <1>3

-----------------------------------------------------------------------------
(* FILEIO_Open. A file is only erased where that is allowed.               *)
Discards(c, s, mode) == "TRUNCATE" \in mode \/ Slot(c, s).first = 0
MayErase(v, g, n, mode, kept, Safe) ==
    \A s \in SlotNumbers : g[s].name = n /\ Discards(Cached(v), s, mode) => kept[n] = NoFile /\ But(g, s) \subseteq Safe

LEMMA OpenOld ==
    ASSUME NEW v, NEW g, NEW kept, NEW Safe, NEW Lost, System(v, g, kept, Safe, Lost), Good(v),
           NEW s \in SlotNumbers, v.found = s, v.dataSector = DirSector(s), g[s].name \in Names, NEW mode,
           Slot(Cached(v), s).first = FirstOf(g[s].chain), ~Discards(Cached(v), s, mode),
           Slot(Cached(v), s).size = Len(g[s].bytes), NEW append \in BOOLEAN,
           NEW w, w = IF append THEN ToEnd(Filled(v), mode) ELSE Enabled(Filled(v), mode)
    PROVE  \E h : System(w, h, kept, Safe, Lost) /\ Opened(v, w, g, h, g[s].name)
<1> DEFINE a == Filled(v)
           n == g[s].name
<1>0. Vol(v) /\ Owns(g)
  BY DEF System
<1>1. /\ a \in Volume /\ SameBuffers(v, a) /\ Moves(v, a) /\ a.err = v.err /\ a.got = v.got
      /\ a.f.entry = s /\ a.f.first = Slot(Cached(v), s).first /\ a.f.size = Slot(Cached(v), s).size
      /\ a.f.cluster = a.f.first /\ a.f.sector = 0 /\ a.f.offset = 0 /\ a.f.pos = 0
  <2>1. a = Filled(v)
    OBVIOUS
  <2> HIDE DEF a
  <2> QED
    BY <1>0, <2>1, FilledDone
<1> HIDE DEF a
<1>2. System(a, g, kept, Safe, Lost) /\ Good(a) /\ Cached(a) = Cached(v) /\ Vol(a)
  <2>1. System(a, g, kept, Safe, Lost)
    BY <1>1, SystemMoves
  <2> QED
    BY <1>1, <2>1 DEF Good, Moves
<1>3. Len(g[s].chain) > 0 /\ Len(g[s].chain) \in Nat /\ a.f.first = g[s].chain[1]
  <2>1. g[s].chain # <<>> /\ FirstOf(g[s].chain) = g[s].chain[1]
    BY DEF Discards, FirstOf
  <2>2. g[s].chain \in Seq(Clusters) /\ Len(g[s].chain) \in Nat
    BY <1>0, ChainIn
  <2>3. Len(g[s].chain) # 0
    BY <2>1, <2>2, EmptySeq
  <2> QED
    BY <1>1, <2>1, <2>2, <2>3
<1>4. HandleOn(a.f, g, s)
  BY <1>1, <1>3 DEF HandleOn, EndAt
<1>5. CASE append
  <2>0. w = ToEnd(a, mode)
    BY <1>5 DEF a
  <2>1. PICK h : /\ System(w, h, kept, Safe, Lost) /\ Longer(g, h, s) /\ SameEntries(Cached(a), Cached(w))
                 /\ w.got = a.got /\ (Good(w) => Opens(w, h, s, n))
    BY <1>2, <1>4, <2>0, ToEndDone
  <2>2. h[s].name = n /\ h[s].bytes = g[s].bytes /\ \A t \in SlotNumbers : t # s => h[t] = g[t]
    BY <2>1 DEF Longer
  <2>3. \A t \in SlotNumbers : Slot(Cached(w), t) = Slot(Cached(v), t)
    BY <1>2, <2>1 DEF SameEntries
  <2>4. Others(v, w, g, h, n)
    BY <2>2, <2>3 DEF Others
  <2>5. \A t \in SlotNumbers : (h[t].name = n <=> t = s) /\ (g[t].name = n <=> t = s)
    BY <1>0, <2>2 DEF Owns
  <2>6. Sizes(w, h, n) /\ SameBytes(g, h, n)
    BY <2>2, <2>3, <2>5 DEF Sizes, SameBytes
  <2>7. Opened(v, w, g, h, n)
    BY <1>1, <2>1, <2>4, <2>6 DEF Opened
  <2> QED
    BY <2>1, <2>7
<1>6. CASE ~append
  <2>0. w = Enabled(a, mode)
    BY <1>6 DEF a
  <2>1. /\ w \in Volume /\ SameBuffers(a, w) /\ Moves(a, w) /\ w.err = a.err /\ w.got = a.got
        /\ w.f.first = a.f.first /\ w.f.entry = a.f.entry /\ w.f.size = a.f.size /\ w.f.pos = a.f.pos
        /\ w.f.cluster = a.f.cluster /\ w.f.sector = a.f.sector /\ w.f.offset = a.f.offset
    BY <1>2, <2>0, EnabledDone
  <2>2. System(w, g, kept, Safe, Lost) /\ Cached(w) = Cached(v)
    <3>1. System(w, g, kept, Safe, Lost)
      BY <1>2, <2>1, SystemMoves
    <3> QED
      BY <1>2, <2>1, <3>1 DEF Moves
  <2>3. HandleOn(w.f, g, s)
    BY <1>4, <2>1 DEF HandleOn, EndAt
  <2>4. Stands(w.f, g[s].chain, 0)
    BY <1>1, <1>3, <2>1, StartsAt
  <2>5. Opens(w, g, s, n)
    BY <1>1, <2>1, <2>3, <2>4 DEF Opens
  <2>6. \A t \in SlotNumbers : g[t].name = n <=> t = s
    BY <1>0 DEF Owns
  <2>7. Sizes(w, g, n) /\ SameBytes(g, g, n) /\ Others(v, w, g, g, n)
    BY <2>2, <2>6 DEF Sizes, SameBytes, Others
  <2>8. Opened(v, w, g, g, n)
    BY <1>1, <2>1, <2>5, <2>7 DEF Opened
  <2> QED
    BY <2>2, <2>8
<1> QED
  BY <1>5, <1>6

(* The file is erased, and made again.                                     *)
OnErased(u, n) == Then(u, LAMBDA x : DirectoryEntryCreate(x, n))

LEMMA OpenAgain ==
    ASSUME NEW v, NEW g, NEW kept, NEW Safe, NEW Lost, System(v, g, kept, Safe, Lost), Good(v),
           NEW s \in SlotNumbers, v.found = s, v.dataSector = DirSector(s), g[s].name \in Names, NEW mode,
           Slot(Cached(v), s).first = FirstOf(g[s].chain),
           kept[g[s].name] = NoFile, But(g, s) \subseteq Safe,
           NEW w, w = OnMade(OnErased(EraseFile(Filled(v)), g[s].name), mode)
    PROVE  \E h : System(w, h, kept, Safe, Lost) /\ Opened(v, w, g, h, g[s].name)
<1> DEFINE a == Filled(v)
           u == EraseFile(a)
           n == g[s].name
           f == Gone(g, s)
<1>0. Vol(v) /\ Owns(g)
  BY DEF System
<1>1. /\ Moves(v, a) /\ a.err = v.err /\ a.got = v.got /\ a.f.entry = s /\ a.f.first = Slot(Cached(v), s).first
  <2>1. a = Filled(v)
    OBVIOUS
  <2> HIDE DEF a
  <2> QED
    BY <1>0, <2>1, FilledDone
<1> HIDE DEF a
<1>2. System(a, g, kept, Safe, Lost) /\ Good(a) /\ Cached(a) = Cached(v)
  <2>1. System(a, g, kept, Safe, Lost)
    BY <1>1, SystemMoves
  <2> QED
    BY <1>1, <2>1 DEF Good, Moves
<1>3. /\ System(u, f, kept, Safe, Lost) /\ Good(u) /\ Kept(a, u)
      /\ \A t \in SlotNumbers : t # s => Slot(Cached(u), t) = Slot(Cached(a), t)
  <2>1. u = EraseFile(a)
    OBVIOUS
  <2> HIDE DEF u
  <2> QED
    BY <1>1, <1>2, <2>1, EraseFileDone
<1>4. f[s].name = "deleted" /\ \A t \in SlotNumbers : t # s => f[t] = g[t]
  <2>1. f = Gone(g, s)
    OBVIOUS
  <2> HIDE DEF f
  <2> QED
    BY <1>0, <2>1, GoneOwns
<1>5. \A t \in SlotNumbers : f[t].name # n
  BY <1>0, <1>4, Numbers DEF Owns
<1>6. w = OnMade(DirectoryEntryCreate(u, n), mode)
  BY <1>3 DEF OnErased, Then, a
<1> HIDE DEF u, f
<1>7. PICK h : System(w, h, kept, Safe, Lost) /\ Opened(u, w, f, h, n)
  BY <1>3, <1>5, <1>6, MadeDone
<1>8. Others(v, w, g, h, n)
  <2> SUFFICES ASSUME NEW t \in SlotNumbers, g[t].name \in Names \ {n} \/ h[t].name \in Names \ {n}
               PROVE  h[t] = g[t] /\ Slot(Cached(w), t) = Slot(Cached(v), t)
    BY DEF Others
  <2>1. t # s => f[t] = g[t]
    BY <1>4
  <2>2. f[t].name \in Names \ {n} \/ h[t].name \in Names \ {n}
    BY <2>1
  <2>3. h[t] = f[t] /\ Slot(Cached(w), t) = Slot(Cached(u), t)
    BY <1>7, <2>2 DEF Opened, Others
  <2>4. t # s
    BY <1>4, <2>2, <2>3, Numbers
  <2> QED
    BY <1>2, <1>3, <2>1, <2>3, <2>4
<1>9. SameBytes(f, h, n) => \A t \in SlotNumbers : h[t].name # n
  BY <1>5 DEF SameBytes
<1>10. Good(w) => \E t \in SlotNumbers : h[t].name = n
  BY <1>7 DEF Opened, Opens, HandleOn
<1>11. Opened(v, w, g, h, n)
  BY <1>1, <1>3, <1>7, <1>8, <1>9, <1>10 DEF Opened, Kept
<1> QED
  BY <1>7, <1>11

LEMMA OpenDone ==
    ASSUME NEW v, NEW g, NEW kept, NEW Safe, NEW Lost, System(v, g, kept, Safe, Lost), Good(v),
           NEW n \in Names, NEW mode, MayErase(v, g, n, mode, kept, Safe), Sizes(v, g, n),
           NEW w, w = Open(v, n, mode)
    PROVE  \E h : System(w, h, kept, Safe, Lost) /\ Opened(v, w, g, h, n)
<1> DEFINE u == FindShortFileName(v, n)
<1>1. System(u, g, kept, Safe, Lost) /\ Moves(v, u) /\ Kept(v, u) /\ Found(v, u, g, n)
  BY FoundDone
<1>2. w = OpenFound(u, n, mode)
  BY DEF Open
<1> HIDE DEF u
<1>3. Cached(u) = Cached(v) /\ u.got = v.got /\ Vol(u)
  BY <1>1 DEF Moves, Kept
<1>4. \A h : Opened(u, w, g, h, n) => Opened(v, w, g, h, n)
  BY <1>3 DEF Opened, Others
<1>5. SUFFICES \E h : System(w, h, kept, Safe, Lost) /\ Opened(u, w, g, h, n)
  BY <1>4
<1> DEFINE s == u.found
<1>6. ASSUME Good(u), s \in SlotNumbers, u.dataSector = DirSector(s), g[s].name = n,
             Entry(u, s) = Slot(Cached(v), s), Slot(Cached(v), s).first = FirstOf(g[s].chain)
      PROVE  \E h : System(w, h, kept, Safe, Lost) /\ Opened(u, w, g, h, n)
  <2>0. ~Anew(u, mode)
    BY <1>6 DEF Anew, Good
  <2>1. Again(u, mode) <=> Discards(Cached(u), s, mode)
    BY <1>3, <1>6 DEF Again, Discards
  <2>2. CASE ~Discards(Cached(u), s, mode)
    <3> DEFINE append == "APPEND" \in mode
    <3>1. w = IF append THEN ToEnd(Filled(u), mode) ELSE Enabled(Filled(u), mode)
      <4>1. Made(u, n, mode) = Filled(u)
        BY <1>6, <2>0, <2>1, <2>2 DEF Made, Then
      <4>2. Good(Filled(u))
        BY <1>3, <1>6, FilledDone DEF Good
      <4> QED
        BY <1>2, <2>0, <2>1, <2>2, <4>1, <4>2 DEF OpenFound, Then, ToEnd
    <3>2. Slot(Cached(u), s).size = Len(g[s].bytes) /\ append \in BOOLEAN
      BY <1>3, <1>6 DEF Sizes
    <3> HIDE DEF append
    <3> QED
      BY <1>1, <1>3, <1>6, <2>2, <3>1, <3>2, OpenOld
  <2>3. CASE Discards(Cached(u), s, mode)
    <3>1. w = OnMade(OnErased(EraseFile(Filled(u)), n), mode)
      <4>1. Made(u, n, mode) = OnErased(EraseFile(Filled(u)), n)
        BY <2>1, <2>3 DEF Made, Then, OnErased
      <4> QED
        BY <1>2, <2>1, <2>3, <4>1 DEF OpenFound, Then, OnMade
    <3>2. kept[n] = NoFile /\ But(g, s) \subseteq Safe
      BY <1>3, <1>6, <2>3 DEF MayErase
    <3> QED
      BY <1>1, <1>3, <1>6, <3>1, <3>2, OpenAgain
  <2> QED
    BY <2>2, <2>3
<1>7. ASSUME u.err = "done", \A t \in SlotNumbers : g[t].name # n
      PROVE  \E h : System(w, h, kept, Safe, Lost) /\ Opened(u, w, g, h, n)
  <2>1. ~Good(u) /\ ~Again(u, mode)
    BY <1>7 DEF Good, Again
  <2>2. CASE Anew(u, mode)
    <3> DEFINE i == Ignoring(u)
    <3>1. i \in Volume /\ SameBuffers(u, i) /\ Quiet(u, i) /\ Good(i)
      BY <1>3, IgnoringDone
    <3>2. w = OnMade(DirectoryEntryCreate(i, n), mode)
      <4>1. Made(u, n, mode) = DirectoryEntryCreate(i, n)
        BY <2>1, <2>2 DEF Made
      <4> QED
        BY <1>2, <2>2, <4>1 DEF OpenFound, Then, OnMade
    <3> HIDE DEF i
    <3>3. System(i, g, kept, Safe, Lost) /\ Cached(i) = Cached(u)
      BY <1>1, <3>1, SystemBuffers
    <3>4. PICK h : System(w, h, kept, Safe, Lost) /\ Opened(i, w, g, h, n)
      BY <1>7, <3>1, <3>2, <3>3, MadeDone
    <3>5. Opened(u, w, g, h, n)
      BY <3>1, <3>3, <3>4 DEF Opened, Others, Quiet
    <3> QED
      BY <3>4, <3>5
  <2>3. CASE ~Anew(u, mode)
    <3>1. w = u
      BY <1>2, <2>1, <2>3 DEF OpenFound, Made, Then
    <3>2. Opened(u, w, g, g, n)
      BY <1>7, <2>1, <3>1 DEF Opened, Others, Sizes, SameBytes
    <3> QED
      BY <1>1, <3>1, <3>2
  <2> QED
    BY <2>2, <2>3
<1> QED
  BY <1>1, <1>6, <1>7 DEF Found

-----------------------------------------------------------------------------
(* FILEIO_Remove.                                                          *)
Removed(v, w, g, h, n) ==
    /\ Others(v, w, g, h, n) /\ w.got = v.got /\ \A t \in SlotNumbers : h[t].name # n
    /\ Good(w) <=> \E t \in SlotNumbers : g[t].name = n
    /\ ~Good(w) => h = g
MayRemove(g, n, kept, Safe) == \A s \in SlotNumbers : g[s].name = n => kept[n] = NoFile /\ But(g, s) \subseteq Safe

LEMMA RemoveDone ==
    ASSUME NEW v, NEW g, NEW kept, NEW Safe, NEW Lost, System(v, g, kept, Safe, Lost), Good(v),
           NEW n \in Names, MayRemove(g, n, kept, Safe), NEW w, w = RemoveFile(v, n)
    PROVE  \E h : System(w, h, kept, Safe, Lost) /\ Removed(v, w, g, h, n)
<1> DEFINE u == FindShortFileName(v, n)
           s == u.found
<1>1. System(u, g, kept, Safe, Lost) /\ Moves(v, u) /\ Kept(v, u) /\ Found(v, u, g, n)
  BY FoundDone
<1>2. w = IF Good(u) THEN EraseFound(u) ELSE u
  BY DEF RemoveFile, Then
<1> HIDE DEF u
<1>3. Cached(u) = Cached(v) /\ u.got = v.got /\ Vol(u) /\ Owns(g)
  BY <1>1 DEF Moves, Kept, System
<1>4. ASSUME u.err = "done", \A t \in SlotNumbers : g[t].name # n
      PROVE  \E h : System(w, h, kept, Safe, Lost) /\ Removed(v, w, g, h, n)
  <2>1. w = u /\ ~Good(u)
    BY <1>2, <1>4 DEF Good
  <2>2. Removed(v, w, g, g, n)
    BY <1>3, <1>4, <2>1 DEF Removed, Others
  <2> QED
    BY <1>1, <2>1, <2>2
<1>5. ASSUME Good(u), s \in SlotNumbers, u.dataSector = DirSector(s), g[s].name = n,
             Entry(u, s) = Slot(Cached(v), s), Slot(Cached(v), s).first = FirstOf(g[s].chain)
      PROVE  \E h : System(w, h, kept, Safe, Lost) /\ Removed(v, w, g, h, n)
  <2> DEFINE first == FirstOf(g[s].chain)
             f == [u.f EXCEPT !.first = first, !.entry = s]
             a == [u EXCEPT !.f = f]
             h == Gone(g, s)
  <2>1. w = EraseFile(a)
    <3>1. u \in Volume /\ u.f \in Object
      BY <1>3 DEF Vol, Volume
    <3> QED
      BY <1>2, <1>5, <3>1 DEF EraseFound, Volume, Object
  <2>2. first \in Nat /\ s \in Nat
    <3>1. Slot(Cached(v), s) \in SlotEntry
      BY <1>3, <1>5, ImagesTyped, ImageMembers, SlotTyped
    <3>2. first \in Word
      BY <1>5, <3>1 DEF SlotEntry
    <3>3. \A word \in Word : word \in Nat
      BY WordNat
    <3>4. s \in Nat
      BY <1>5, Numbers DEF SlotNumbers
    <3> HIDE DEF first
    <3> QED
      BY <3>2, <3>3, <3>4
  <2> HIDE DEF first
  <2>3. f \in Object /\ f.first = first /\ f.entry = s
    <3>1. u.f \in Object
      BY <1>3 DEF Vol, Volume
    <3> QED
      BY <2>2, <3>1 DEF Object
  <2> HIDE DEF f
  <2>4. a \in Volume /\ SameBuffers(u, a) /\ a.err = u.err /\ a.got = u.got /\ a.f = f
    BY <1>3, <2>3 DEF Vol, Volume, SameBuffers, SameFat, SameData
  <2> HIDE DEF a
  <2>5. System(a, g, kept, Safe, Lost) /\ Cached(a) = Cached(v) /\ Good(a)
    BY <1>1, <1>3, <1>5, <2>4, SystemBuffers DEF Good
  <2>6. kept[n] = NoFile /\ But(g, s) \subseteq Safe
    BY <1>5 DEF MayRemove
  <2>7. /\ System(w, h, kept, Safe, Lost) /\ Good(w) /\ Kept(a, w)
        /\ \A t \in SlotNumbers : t # s => Slot(Cached(w), t) = Slot(Cached(a), t)
    BY <1>5, <2>1, <2>3, <2>4, <2>5, <2>6, EraseFileDone DEF first
  <2>8. h[s].name = "deleted" /\ \A t \in SlotNumbers : t # s => h[t] = g[t]
    <3>1. h = Gone(g, s)
      OBVIOUS
    <3> HIDE DEF h
    <3> QED
      BY <1>3, <1>5, <3>1, GoneOwns
  <2> HIDE DEF h
  <2>9. \A t \in SlotNumbers : g[t].name = n <=> t = s
    BY <1>3, <1>5 DEF Owns
  <2>10. \A t \in SlotNumbers : h[t].name # n
    BY <2>8, <2>9, Numbers
  <2>11. Others(v, w, g, h, n)
    <3> SUFFICES ASSUME NEW t \in SlotNumbers, g[t].name \in Names \ {n} \/ h[t].name \in Names \ {n}
                 PROVE  h[t] = g[t] /\ Slot(Cached(w), t) = Slot(Cached(v), t)
      BY DEF Others
    <3>1. t # s
      BY <1>5, <2>8, Numbers
    <3> QED
      BY <2>5, <2>7, <2>8, <3>1
  <2>12. w.got = v.got
    BY <1>3, <2>4, <2>7 DEF Kept
  <2>13. Removed(v, w, g, h, n)
    BY <1>5, <2>7, <2>10, <2>11, <2>12 DEF Removed
  <2> QED
    BY <2>7, <2>13
<1> QED
  BY <1>1, <1>4, <1>5 DEF Found

-----------------------------------------------------------------------------
(* FILEIO_Rename.                                                          *)
Renamed(g, s, m) ==
    [t \in SlotNumbers |-> IF t = s THEN [name |-> m, chain |-> g[s].chain, bytes |-> g[s].bytes, kept |-> g[s].kept]
                           ELSE g[t]]
Renaming(kept, n, m) == [k \in Names |-> IF k = n THEN NoFile ELSE IF k = m THEN kept[n] ELSE kept[k]]
WithName(e, m) == [e EXCEPT !.name = m]

LEMMA RenamedOwns ==
    ASSUME NEW g, Owns(g), NEW s \in SlotNumbers, g[s].name \in Names, NEW m \in Names,
           \A t \in SlotNumbers : g[t].name # m, NEW h, h = Renamed(g, s, m)
    PROVE  /\ Owns(h) /\ \A kept : Keeps(g, kept) => Keeps(h, Renaming(kept, g[s].name, m))
           /\ h[s].name = m
           /\ \A t \in SlotNumbers : t # s => h[t] = g[t]
           /\ \A t \in SlotNumbers : h[t].chain = g[t].chain /\ h[t].bytes = g[t].bytes /\ h[t].kept = g[t].kept
<1>1. /\ h[s].name = m /\ h[s].kept = g[s].kept /\ h[s].chain = g[s].chain /\ h[s].bytes = g[s].bytes
      /\ \A t \in SlotNumbers : t # s => h[t] = g[t]
  BY DEF Renamed
<1> HIDE DEF Renamed
<1>2. \A t \in SlotNumbers : h[t].chain = g[t].chain /\ h[t].bytes = g[t].bytes /\ h[t].kept = g[t].kept
  BY <1>1
<1>3. Owns(h)
  <2> SUFFICES ASSUME NEW t \in SlotNumbers
               PROVE  /\ h[t].chain \in Seq(Clusters)
                      /\ h[t].bytes \in Seq(Byte)
                      /\ h[t].name \notin Names => h[t].chain = <<>> /\ h[t].kept = NoFile /\ h[t].bytes = <<>>
                      /\ \A i, j \in 1 .. Len(h[t].chain) : h[t].chain[i] = h[t].chain[j] => i = j
                      /\ \A r \in SlotNumbers : r # t =>
                            /\ \A k : ~(InChain(h[t].chain, k) /\ InChain(h[r].chain, k))
                            /\ h[t].name \in Names => h[t].name # h[r].name
    BY Zenon DEF Owns
  <2>2. h[t].kept = g[t].kept /\ h[t].chain = g[t].chain /\ h[t].bytes = g[t].bytes
    BY <1>2
  <2>3. ASSUME NEW r \in SlotNumbers, r # t
        PROVE  /\ \A k : ~(InChain(h[t].chain, k) /\ InChain(h[r].chain, k))
               /\ h[t].name \in Names => h[t].name # h[r].name
    <3>1. h[r].chain = g[r].chain
      BY <1>2
    <3>2. \A k : ~(InChain(h[t].chain, k) /\ InChain(h[r].chain, k))
      BY <2>2, <2>3, <3>1 DEF Owns
    <3>3. h[t].name \in Names => h[t].name # h[r].name
      BY <1>1, <2>3 DEF Owns
    <3> QED
      BY <3>2, <3>3
  <2>4. /\ h[t].chain \in Seq(Clusters) /\ h[t].bytes \in Seq(Byte)
        /\ \A i, j \in 1 .. Len(h[t].chain) : h[t].chain[i] = h[t].chain[j] => i = j
    BY <2>2 DEF Owns
  <2>5. h[t].name \notin Names => h[t].chain = <<>> /\ h[t].kept = NoFile /\ h[t].bytes = <<>>
    <3>1. h[t].name \notin Names => h[t] = g[t]
      BY <1>1
    <3> QED
      BY <3>1 DEF Owns
  <2> QED
    BY <2>3, <2>4, <2>5
<1>4. ASSUME NEW kept, Keeps(g, kept) PROVE Keeps(h, Renaming(kept, g[s].name, m))
  <2> DEFINE n == g[s].name
             new == Renaming(kept, n, m)
  <2>0. /\ \A k \in Names : new[k] = IF k = n THEN NoFile ELSE IF k = m THEN kept[n] ELSE kept[k]
        /\ n # m
    BY DEF Renaming
  <2> HIDE DEF new
  <2> SUFFICES ASSUME NEW k \in Names, new[k] # NoFile
               PROVE  \E t \in SlotNumbers : h[t].name = k /\ h[t].kept = new[k]
    BY DEF Keeps, new
  <2>1. k # n
    BY <2>0
  <2>2. CASE k = m
    <3>1. PICK t \in SlotNumbers : g[t].name = n /\ g[t].kept = kept[n]
      BY <1>4, <2>0, <2>1, <2>2 DEF Keeps
    <3>2. t = s
      BY <3>1 DEF Owns
    <3> QED
      BY <1>1, <2>0, <2>1, <2>2, <3>1, <3>2
  <2>3. CASE k # m
    <3>1. PICK t \in SlotNumbers : g[t].name = k /\ g[t].kept = kept[k]
      BY <1>4, <2>0, <2>1, <2>3 DEF Keeps
    <3>2. t # s
      BY <2>1, <3>1
    <3> QED
      BY <1>1, <2>0, <2>1, <2>3, <3>1, <3>2
  <2> QED
    BY <2>2, <2>3
<1> QED
  BY <1>1, <1>2, <1>3, <1>4

LEMMA RenamedWhole ==
    ASSUME NEW g, Owns(g), NEW s \in SlotNumbers, g[s].name \in Names, NEW m \in Names,
           \A t \in SlotNumbers : g[t].name # m, NEW h, h = Renamed(g, s, m),
           NEW x \in Whole(g), Named(x, s), NEW y, y = SetSlot(x, s, WithName(Slot(x, s), m))
    PROVE  /\ y \in Whole(h) /\ SameTable(y, x)
           /\ Slot(y, s) = WithName(Slot(x, s), m)
           /\ \A t \in SlotNumbers : t # s => Slot(y, t) = Slot(x, t)
           /\ Current(x, g) => Current(y, h)
<1> DEFINE e == WithName(Slot(x, s), m)
           p == g[s].chain
           b == g[s].bytes
<1>1. /\ Owns(h) /\ h[s].name = m
      /\ \A t \in SlotNumbers : t # s => h[t] = g[t]
      /\ \A t \in SlotNumbers : h[t].chain = g[t].chain /\ h[t].bytes = g[t].bytes /\ h[t].kept = g[t].kept
  BY RenamedOwns
<1> HIDE DEF Renamed
<1>2. x \in Card /\ DirEnds(x) /\ (\A t \in SlotNumbers : Ok(x, g, t))
  BY DEF Whole
<1>3. p \in Seq(Clusters) /\ b \in Seq(Byte) /\ Len(p) \in Nat
  BY DEF Owns
<1>4. Slot(x, s) \in SlotEntry
  BY <1>2, SlotTyped
<1>5. e \in SlotEntry /\ e.name = m /\ e.first = Slot(x, s).first /\ e.size = Slot(x, s).size
  BY <1>4 DEF WithName, SlotEntry
<1> HIDE DEF e
<1>51. y = SetSlot(x, s, e)
  BY DEF e
<1>6. /\ y \in Card /\ Slot(y, s) = e
      /\ \A t \in SlotNumbers : t # s => Slot(y, t) = Slot(x, t)
      /\ SameTable(y, x)
  <2>2. y \in Card
    BY <1>2, <1>5, <1>51, SetSlotCard DEF SlotNumbers
  <2> QED
    BY <1>2, <1>5, <1>51, <2>2, SlotSet
<1>7. \A t \in SlotNumbers : Slot(y, t).name = "empty" <=> Slot(x, t).name = "empty"
  BY <1>5, <1>6, Numbers DEF Named
<1>8. DirEnds(y)
  BY <1>2, <1>7 DEF DirEnds, SlotNumbers
<1>9. /\ \A n : Runs(x, p, n) => Runs(y, p, n)
      /\ \A n \in 0 .. Len(p) : \A j \in Nat : j < n * ClusterBytes => ByteAt(y, p, j) = ByteAt(x, p, j)
  BY <1>2, <1>3, <1>5, <1>51, SlotKeepsBytes
<1>10. Ok(y, h, s)
  <2>1. Fits(x, g, s) /\ Holds(x, g, s)
    BY <1>2 DEF Ok
  <2>2. PICK n \in Nat : Runs(x, p, n) /\ Slot(x, s).size <= n * ClusterBytes
    BY <2>1 DEF Fits
  <2>3. Slot(y, s).name = m /\ Slot(y, s).first = FirstOf(p) /\ Slot(y, s).size = Slot(x, s).size
    BY <1>5, <1>6, <2>1 DEF Fits
  <2>4. Fits(y, h, s)
    BY <1>1, <1>9, <2>2, <2>3 DEF Fits
  <2>5. Holds(y, h, s)
    <3> SUFFICES ASSUME g[s].kept # NoFile
                 PROVE  /\ Named(y, s) /\ g[s].kept \in Seq(Byte) /\ Len(g[s].kept) <= Slot(y, s).size
                        /\ \A j \in 1 .. Len(g[s].kept) : ByteAt(y, p, j - 1) = g[s].kept[j]
      BY <1>1 DEF Holds
    <3> DEFINE q == g[s].kept
    <3>1. q \in Seq(Byte) /\ Len(q) <= Slot(x, s).size /\ \A j \in 1 .. Len(q) : ByteAt(x, p, j - 1) = q[j]
      BY <2>1 DEF Holds
    <3>2. Named(y, s)
      BY <2>3 DEF Named
    <3>3. n \in 0 .. Len(p) /\ n * ClusterBytes \in Nat
      <4>1. ClusterBytes \in Nat
        BY Numbers, Times DEF ClusterBytes
      <4>2. n * ClusterBytes \in Nat
        BY <4>1, Times
      <4> QED
        BY <2>2, <4>2 DEF Runs
    <3> DEFINE most == n * ClusterBytes
               size == Slot(x, s).size
    <3>4. most \in Nat /\ size \in Nat /\ size <= most /\ \A j \in Nat : j < most => ByteAt(y, p, j) = ByteAt(x, p, j)
      BY <1>4, <1>9, <2>2, <3>3 DEF SlotEntry
    <3>5. q \in Seq(Byte) /\ Len(q) <= size
      BY <3>1
    <3> HIDE DEF most, size, q
    <3>6. \A j \in 1 .. Len(q) : j - 1 \in Nat /\ j - 1 < most
      <4>1. Len(q) \in Nat
        BY <3>5
      <4> QED
        BY <3>4, <3>5, <4>1
    <3>7. \A j \in 1 .. Len(q) : ByteAt(y, p, j - 1) = q[j]
      BY <3>1, <3>4, <3>6 DEF q
    <3> QED
      BY <2>3, <3>1, <3>2, <3>7 DEF q
  <2> QED
    BY <2>4, <2>5 DEF Ok
<1>11. ASSUME NEW t \in SlotNumbers, t # s PROVE Ok(y, h, t)
  <2>1. Ok(y, g, t)
    BY <1>2, <1>5, <1>11, <1>51, OkSlot
  <2>2. h[t] = g[t]
    BY <1>1, <1>11
  <2> QED
    BY <2>1, <2>2 DEF Ok, Fits, Holds
<1>12. y \in Whole(h)
  BY <1>6, <1>8, <1>10, <1>11 DEF Whole
<1>13. ASSUME Current(x, g) PROVE Current(y, h)
  <2> SUFFICES ASSUME NEW t \in SlotNumbers PROVE Full(y, h, t)
    BY DEF Current
  <2>1. Full(x, g, t) /\ (Named(y, t) <=> Named(x, t))
    <3>1. Named(y, s)
      BY <1>5, <1>6 DEF Named
    <3> QED
      BY <1>6, <1>13, <3>1 DEF Current, Named
  <2>2. Full(y, g, t)
    BY <1>2, <1>5, <1>51, <2>1, SlotKeepsFull
  <2>3. h[t].name \in Names <=> g[t].name \in Names
    BY <1>1
  <2> QED
    BY <1>1, <2>2, <2>3 DEF Full
<1> QED
  BY <1>6, <1>12, <1>13 DEF e

Refounded(v, w, g, h, s, kept, m, Safe, Lost) ==
    /\ Settled(w, h, Renaming(kept, g[s].name, m), Lost)
    /\ Good(w) /\ w.got = v.got /\ w.cuts \subseteq Safe
    /\ Slot(Cached(w), s) = WithName(Slot(Cached(v), s), m)
    /\ \A t \in SlotNumbers : t # s => Slot(Cached(w), t) = Slot(Cached(v), t)

LEMMA NameFoundDone ==
    ASSUME NEW v, NEW g, NEW kept, NEW Safe, NEW Lost, System(v, g, kept, Safe, Lost), Good(v),
           NEW s \in SlotNumbers, v.found = s, g[s].name \in Names, NEW m \in Names, \A t \in SlotNumbers : g[t].name # m,
           NEW w, w = NameFound(v, m)
    PROVE  Refounded(v, w, g, Renamed(g, s, m), s, kept, m, Safe, Lost)
<1> DEFINE a == DirectoryEntryCache(v, s)
           d == DirSector(s)
           h == Renamed(g, s, m)
<1>0. Vol(v) /\ Owns(g) /\ Keeps(g, kept)
  BY DEF System
<1>1. d \in DirSectors /\ d \in DirSectors \cup DataSectors
  BY SectorOf DEF SlotNumbers
<1>2. a = CacheData(v, d)
  <2>1. ~(s >= ROOT)
    BY Numbers DEF SlotNumbers
  <2> QED
    BY <2>1 DEF DirectoryEntryCache
<1>3. Moves(v, a) /\ Quiet(v, a) /\ Good(a) /\ a.dataSector = d
  <2>1. d = DirSector(s)
    OBVIOUS
  <2> HIDE DEF d, a
  <2> QED
    BY <1>0, <1>1, <1>2, CacheDataDone
<1>4. w = FlushData(SetEntry(a, s, [Entry(a, s) EXCEPT !.name = m]))
  <2>1. w = IF Good(a) THEN FlushData(SetEntry(a, s, [Entry(a, s) EXCEPT !.name = m])) ELSE a
    BY DEF NameFound, Then
  <2> HIDE DEF a
  <2> QED
    BY <1>3, <2>1
<1> HIDE DEF a
<1>5. System(a, g, kept, Safe, Lost) /\ Vol(a) /\ Cached(a) = Cached(v)
  <2>1. System(a, g, kept, Safe, Lost)
    BY <1>3, SystemMoves
  <2> QED
    BY <1>3, <2>1 DEF System, Moves
<1> DEFINE x == Cached(a)
           z == WithData(a)
           e == WithName(Slot(x, s), m)
<1>6. /\ x \in Whole(g) /\ z \in Whole(g) /\ x \in Card /\ z \in Card /\ Current(x, g) /\ Tight(x, g, Lost)
      /\ a.card \in Whole(g) /\ a.cuts \subseteq Safe
  BY <1>5, ImageMembers DEF System, Whole
<1>7. SameRest(z, x)
  BY <1>5, HalfImages
<1>8. Slot(z, s) = Slot(x, s) /\ Entry(a, s) = Slot(x, s)
  <2>1. Entry(a, s) = Slot(x, s)
    BY <1>3, <1>5, SlotRead DEF SlotNumbers
  <2> QED
    BY <1>7, <2>1, SameSlots
<1>9. Slot(x, s) \in SlotEntry
  BY <1>6, SlotTyped
<1>10. e \in SlotEntry
  BY <1>9 DEF SlotEntry, WithName
<1> DEFINE b == SetEntry(a, s, e)
<1>11. w = FlushData(b)
  BY <1>4, <1>8 DEF WithName
<1>111. SetSlot(x, s, e) = SetSlot(x, s, WithName(Slot(x, s), m)) /\ SetSlot(z, s, e) = SetSlot(z, s, WithName(Slot(z, s), m))
  BY <1>8
<1> HIDE DEF e
<1>12. /\ Vol(b) /\ Quiet(a, b) /\ b.err = a.err /\ b.cuts = a.cuts
       /\ b.card = a.card /\ WithFat(b) = WithFat(a)
       /\ WithData(b) = SetSlot(z, s, e) /\ Cached(b) = SetSlot(x, s, e)
  <2>1. b = SetEntry(a, s, e)
    OBVIOUS
  <2> HIDE DEF b
  <2> QED
    BY <1>3, <1>5, <1>10, <2>1, ChangeSlot DEF SlotNumbers
<1> HIDE DEF b
<1>13. /\ Moves(b, w) /\ Quiet(b, w) /\ Good(w) /\ ~w.dataDirty
       /\ w.card = WithData(b) /\ WithFat(w) = Cached(b) /\ w.cuts \subseteq b.cuts \cup {b.card}
  BY <1>3, <1>11, <1>12, FlushDataDone DEF Good
<1>14. Vol(w) /\ Cached(w) = SetSlot(x, s, e) /\ w.card = SetSlot(z, s, e) /\ WithFat(w) = Cached(w) /\ WithData(w) = w.card
  BY <1>12, <1>13, CleanImages DEF Moves
<1>15. Named(x, s) /\ Named(z, s)
  <2>1. Named(x, s)
    BY <1>6 DEF Current, Full
  <2> QED
    BY <1>8, <2>1 DEF Named
<1>16. /\ SetSlot(x, s, e) \in Whole(h) /\ SameTable(SetSlot(x, s, e), x)
       /\ Slot(SetSlot(x, s, e), s) = WithName(Slot(x, s), m)
       /\ \A t \in SlotNumbers : t # s => Slot(SetSlot(x, s, e), t) = Slot(x, t)
       /\ Current(SetSlot(x, s, e), h)
  <2>1. h = Renamed(g, s, m)
    OBVIOUS
  <2> DEFINE y == SetSlot(x, s, e)
  <2>2. y = SetSlot(x, s, WithName(Slot(x, s), m))
    BY <1>111
  <2> HIDE DEF h, y, x
  <2>3. /\ y \in Whole(h) /\ SameTable(y, x)
        /\ Slot(y, s) = WithName(Slot(x, s), m)
        /\ \A t \in SlotNumbers : t # s => Slot(y, t) = Slot(x, t)
        /\ Current(y, h)
    BY <1>0, <1>6, <1>15, <2>1, <2>2, RenamedWhole
  <2> QED
    BY <2>3 DEF y
<1>17. SetSlot(z, s, e) \in Whole(h)
  <2>1. h = Renamed(g, s, m)
    OBVIOUS
  <2> DEFINE y == SetSlot(z, s, e)
  <2>2. y = SetSlot(z, s, WithName(Slot(z, s), m))
    BY <1>111
  <2> HIDE DEF h, y, z
  <2>3. y \in Whole(h)
    BY <1>0, <1>6, <1>15, <2>1, <2>2, RenamedWhole
  <2> QED
    BY <2>3 DEF y
<1>18. Owns(h) /\ Keeps(h, Renaming(kept, g[s].name, m)) /\ \A t \in SlotNumbers : h[t].chain = g[t].chain
  <2>1. h = Renamed(g, s, m)
    OBVIOUS
  <2> HIDE DEF h
  <2> QED
    BY <1>0, <2>1, RenamedOwns
<1> HIDE DEF h, x, z
<1>19. Images(w) \subseteq Whole(h) /\ Current(Cached(w), h)
  BY <1>14, <1>16, <1>17, ImageMembers
<1>20. Tight(Cached(w), h, Lost)
  BY <1>6, <1>14, <1>16, <1>18, SameLinks DEF Tight
<1>21. Settled(w, h, Renaming(kept, g[s].name, m), Lost)
  BY <1>14, <1>18, <1>19, <1>20 DEF Settled
<1>22. w.cuts \subseteq Safe
  <2>1. Whole(g) \subseteq Safe
    BY <1>0, WholeSafe DEF System
  <2> QED
    BY <1>6, <1>12, <1>13, <2>1
<1>23. w.got = v.got
  BY <1>3, <1>12, <1>13 DEF Quiet
<1>24. x = Cached(v)
  BY <1>5 DEF x
<1> QED
  BY <1>13, <1>14, <1>16, <1>21, <1>22, <1>23, <1>24 DEF Refounded, h

Renames(v, w, g, kept, n, m, Safe, Lost) ==
    \/ /\ System(w, g, kept, Safe, Lost) /\ ~Good(w) /\ w.got = v.got /\ Cached(w) = Cached(v)
       /\ (\A t \in SlotNumbers : g[t].name # n) \/ (\E t \in SlotNumbers : g[t].name = m)
    \/ \E s \in SlotNumbers :
        /\ g[s].name = n /\ \A t \in SlotNumbers : g[t].name # m
        /\ Refounded(v, w, g, Renamed(g, s, m), s, kept, m, Safe, Lost)

LEMMA RenameDone ==
    ASSUME NEW v, NEW g, NEW kept, NEW Safe, NEW Lost, System(v, g, kept, Safe, Lost), Good(v),
           NEW n \in Names, NEW m \in Names, NEW w, w = Rename(v, n, m)
    PROVE  Renames(v, w, g, kept, n, m, Safe, Lost)
<1> DEFINE new == FindShortFileName(v, m)
           i == Ignoring(new)
           old == FindShortFileName(i, n)
<1>1. System(new, g, kept, Safe, Lost) /\ Moves(v, new) /\ Kept(v, new) /\ Found(v, new, g, m)
  BY FoundDone
<1>2. w = IF Good(new) THEN Failed(new, "exists") ELSE IF Good(old) THEN NameFound(old, m) ELSE old
  BY DEF Rename, Then
<1> HIDE DEF new
<1>3. Cached(new) = Cached(v) /\ Vol(new) /\ new.got = v.got
  BY <1>1 DEF Moves, Kept
<1>4. CASE Good(new)
  <2>1. w = Failed(new, "exists")
    BY <1>2, <1>4
  <2>2. w \in Volume /\ SameBuffers(new, w) /\ ~Good(w) /\ w.got = new.got
    BY <1>3, <2>1 DEF Vol, Volume, Errors, Failed, SameBuffers, SameFat, SameData, Good
  <2>3. System(w, g, kept, Safe, Lost) /\ Cached(w) = Cached(new)
    BY <1>1, <2>2, SystemBuffers
  <2>4. \E t \in SlotNumbers : g[t].name = m
    BY <1>1, <1>4 DEF Found, Good
  <2> QED
    BY <1>3, <2>2, <2>3, <2>4 DEF Renames
<1>5. CASE ~Good(new)
  <2>1. \A t \in SlotNumbers : g[t].name # m
    BY <1>1, <1>5 DEF Found
  <2>2. i \in Volume /\ SameBuffers(new, i) /\ Quiet(new, i) /\ Good(i)
    BY <1>3, IgnoringDone
  <2> HIDE DEF i
  <2>3. System(i, g, kept, Safe, Lost) /\ Cached(i) = Cached(v)
    BY <1>1, <1>3, <2>2, SystemBuffers
  <2>4. System(old, g, kept, Safe, Lost) /\ Moves(i, old) /\ Kept(i, old) /\ Found(i, old, g, n)
    BY <2>2, <2>3, FoundDone
  <2> HIDE DEF old
  <2>5. Cached(old) = Cached(v) /\ old.got = v.got
    BY <1>3, <2>2, <2>3, <2>4 DEF Moves, Kept, Quiet
  <2>6. CASE Good(old)
    <3> DEFINE s == old.found
    <3>1. s \in SlotNumbers /\ g[s].name = n
      BY <2>4, <2>6 DEF Found, Good
    <3>2. w = NameFound(old, m)
      BY <1>2, <1>5, <2>6
    <3>3. Refounded(old, w, g, Renamed(g, s, m), s, kept, m, Safe, Lost)
      BY <2>1, <2>4, <2>6, <3>1, <3>2, NameFoundDone
    <3>4. Refounded(v, w, g, Renamed(g, s, m), s, kept, m, Safe, Lost)
      BY <2>5, <3>3 DEF Refounded
    <3> QED
      BY <2>1, <3>1, <3>4 DEF Renames
  <2>7. CASE ~Good(old)
    <3>1. w = old
      BY <1>2, <1>5, <2>7
    <3>2. \A t \in SlotNumbers : g[t].name # n
      BY <2>4, <2>7 DEF Found
    <3> QED
      BY <2>4, <2>5, <2>7, <3>1, <3>2 DEF Renames
  <2> QED
    BY <2>6, <2>7
<1> QED
  BY <1>4, <1>5

-----------------------------------------------------------------------------
(* The chain of a file, as it is read from a card.                         *)
LEMMA RangeIn ==
    ASSUME NEW p \in Seq(Clusters), NEW k
    PROVE  k \in Range(p) <=> InChain(p, k)
BY DEF Range, InChain

LEMMA LinksDone ==
    ASSUME NEW c, NEW first, NEW Inv, FirstLink(first) \in Inv[0],
           \A k \in 1 .. CLUSTERS - 1 : \A p \in Inv[k - 1] : NextLink(c, p) \in Inv[k]
    PROVE  Links(c, first) \in Inv[CLUSTERS - 1]
<1> DEFINE n == CLUSTERS - 1
           dom == UNION {Inv[k] : k \in 0 .. n}
           a == FirstLink(first)
           step == [ks \in (1 .. n) \X dom |-> NextLink(c, ks[2])]
           Eq(f) == f = [k \in 0 .. n |-> IF k = 0 THEN a ELSE NextLink(c, f[k - 1])]
           chain == CHOOSE f : Eq(f)
<1>0. n \in Nat
  BY Numbers
<1>1. a \in Inv[0] /\ \A k \in 1 .. n : \A p \in Inv[k - 1] : NextLink(c, p) \in Inv[k]
  OBVIOUS
<1>6. Links(c, first) = chain[n]
  BY DEF Links, chain
<1> HIDE DEF n, a
<1>3. \A k \in 1 .. n : \A e \in Inv[k - 1] : step[<<k, e>>] = NextLink(c, e)
  <2> SUFFICES ASSUME NEW k \in 1 .. n, NEW e \in Inv[k - 1] PROVE step[<<k, e>>] = NextLink(c, e)
    OBVIOUS
  <2>1. k - 1 \in 0 .. n
    BY <1>0
  <2>2. e \in dom
    BY <2>1
  <2> QED
    BY <2>2
<1> HIDE DEF step, dom
<1>4. \E f : Eq(f)
  <2>1. PICK f : IsLoop(f, a, step, n) /\ \A k \in 0 .. n : f[k] \in Inv[k]
    <3>1. \A k \in 1 .. n : \A s \in Inv[k - 1] : step[<<k, s>>] \in Inv[k]
      BY <1>1, <1>3
    <3> QED
      BY <1>0, <1>1, <3>1, LoopIn
  <2>2. \A k \in 1 .. n : step[<<k, f[k - 1]>>] = NextLink(c, f[k - 1])
    <3>1. \A k \in 1 .. n : k - 1 \in 0 .. n
      BY <1>0
    <3> QED
      BY <1>3, <2>1, <3>1
  <2>3. \A k \in 0 .. n : k = 0 \/ k \in 1 .. n
    BY <1>0
  <2>4. f = [k \in 0 .. n |-> IF k = 0 THEN a ELSE step[<<k, f[k - 1]>>]]
    BY <2>1 DEF IsLoop
  <2>5. Eq(f)
    BY <2>2, <2>3, <2>4
  <2> HIDE DEF Eq
  <2> QED
    BY <2>5
<1>5. Eq(chain)
  <2> HIDE DEF Eq
  <2> QED
    BY <1>4
<1> HIDE DEF chain
<1>7. chain[0] = a /\ \A k \in 1 .. n : chain[k] = NextLink(c, chain[k - 1])
  BY <1>0, <1>5
<1>8. chain[n] \in Inv[n]
  <2>1. chain[0] \in Inv[0] /\ \A k \in 1 .. n : chain[k - 1] \in Inv[k - 1] => chain[k] \in Inv[k]
    BY <1>1, <1>7
  <2>2. \A k \in 0 .. n : chain[k] \in Inv[k]
    BY <1>0, <2>1, Rounds
  <2> QED
    BY <1>0, <2>2
<1> QED
  BY <1>6, <1>8 DEF n

(* A chain that links follow, with no cluster twice.                       *)
Follows(c, p, first) ==
    /\ p \in Seq(Clusters) /\ Injective(p)
    /\ p # <<>> => p[1] = first
    /\ first \in Clusters => p # <<>>
    /\ \A i \in 1 .. Len(p) - 1 : Link(c, p[i]) = p[i + 1]

LEMMA AppendNew ==
    ASSUME NEW p \in Seq(Clusters), Injective(p), NEW k \in Clusters, ~InChain(p, k), NEW q, q = Append(p, k)
    PROVE  Injective(q)
<1>1. Len(q) = Len(p) + 1 /\ Len(p) \in Nat /\ (\A i \in 1 .. Len(p) : q[i] = p[i]) /\ q[Len(p) + 1] = k
  BY GrownChain
<1>2. SUFFICES ASSUME NEW i \in 1 .. Len(p) + 1, NEW j \in 1 .. Len(p) + 1, q[i] = q[j] PROVE i = j
  BY <1>1 DEF Injective
<1>3. CASE i = Len(p) + 1 /\ j # Len(p) + 1
  <2>1. j \in 1 .. Len(p)
    BY <1>1, <1>3
  <2> QED
    BY <1>1, <1>2, <1>3, <2>1 DEF InChain
<1>4. CASE j = Len(p) + 1 /\ i # Len(p) + 1
  <2>1. i \in 1 .. Len(p)
    BY <1>1, <1>4
  <2> QED
    BY <1>1, <1>2, <1>4, <2>1 DEF InChain
<1>5. CASE i # Len(p) + 1 /\ j # Len(p) + 1
  <2>1. i \in 1 .. Len(p) /\ j \in 1 .. Len(p)
    BY <1>1, <1>5
  <2>2. p[i] = p[j]
    BY <1>1, <1>2, <2>1
  <2> QED
    BY <2>1, <2>2 DEF Injective
<1> QED
  BY <1>3, <1>4, <1>5

LEMMA LinksFollow ==
    ASSUME NEW c, NEW first, NEW p, p = Links(c, first)
    PROVE  Follows(c, p, first)
<1> DEFINE S == {q \in Seq(Clusters) : Follows(c, q, first)}
           Inv == [k \in 0 .. CLUSTERS - 1 |-> S]
<1>1. FirstLink(first) \in S
  <2>1. CASE first \in Clusters
    <3> DEFINE q == <<first>>
    <3>1. q \in Seq(Clusters) /\ Len(q) = 1 /\ q[1] = first /\ q # <<>>
      BY <2>1
    <3>2. FirstLink(first) = q
      BY <2>1 DEF FirstLink
    <3> HIDE DEF q
    <3>3. Injective(q) /\ 1 .. Len(q) - 1 = {}
      BY <3>1 DEF Injective
    <3> QED
      BY <3>1, <3>2, <3>3 DEF Follows
  <2>2. CASE first \notin Clusters
    <3> DEFINE q == <<>>
    <3>1. q \in Seq(Clusters) /\ Len(q) = 0 /\ q = <<>>
      OBVIOUS
    <3>2. FirstLink(first) = q
      BY <2>2 DEF FirstLink
    <3> HIDE DEF q
    <3>3. Injective(q) /\ 1 .. Len(q) - 1 = {}
      BY <3>1 DEF Injective
    <3> QED
      BY <2>2, <3>1, <3>2, <3>3 DEF Follows
  <2> QED
    BY <2>1, <2>2
<1>2. ASSUME NEW q \in S PROVE NextLink(c, q) \in S
  <2> DEFINE k == IF q = <<>> THEN 0 ELSE Link(c, q[Len(q)])
  <2>0. q \in Seq(Clusters) /\ Follows(c, q, first)
    BY <1>2
  <2>1. NextLink(c, q) = IF k \in Clusters /\ k \notin Range(q) THEN Append(q, k) ELSE q
    BY DEF NextLink
  <2>2. CASE k \in Clusters /\ k \notin Range(q)
    <3> DEFINE r == Append(q, k)
               n == Len(q)
    <3>1. ~InChain(q, k)
      BY <2>0, <2>2, RangeIn
    <3>2. q # <<>>
      BY <2>2, ClusterRange
    <3>3. k = Link(c, q[n])
      BY <3>2
    <3> HIDE DEF k
    <3>4. r \in Seq(Clusters) /\ Len(r) = n + 1 /\ n \in Nat /\ (\A i \in 1 .. n : r[i] = q[i]) /\ r[n + 1] = k
      BY <2>0, <2>2, GrownChain
    <3>5. Injective(r)
      BY <2>0, <2>2, <3>1, AppendNew DEF Follows
    <3>6. n > 0
      BY <2>0, <3>2, EmptySeq
    <3> HIDE DEF r, n
    <3>7. r # <<>> /\ r[1] = first
      <4>1. 1 \in 1 .. n
        BY <3>4, <3>6
      <4>2. r[1] = q[1] /\ q[1] = first
        BY <2>0, <3>2, <3>4, <4>1 DEF Follows
      <4>3. r # <<>>
        BY <3>4, <3>6
      <4> QED
        BY <4>2, <4>3
    <3>8. \A i \in 1 .. n - 1 : Link(c, q[i]) = q[i + 1]
      BY <2>0 DEF Follows, n
    <3>9. \A i \in 1 .. Len(r) - 1 : Link(c, r[i]) = r[i + 1]
      <4> SUFFICES ASSUME NEW i \in 1 .. n PROVE Link(c, r[i]) = r[i + 1]
        BY <3>4
      <4>1. CASE i = n
        BY <3>3, <3>4, <3>6, <4>1
      <4>2. CASE i # n
        <5>1. i \in 1 .. n - 1 /\ i + 1 \in 1 .. n
          BY <3>4, <4>2
        <5> QED
          BY <3>4, <3>8, <5>1
      <4> QED
        BY <4>1, <4>2
    <3>10. Follows(c, r, first)
      BY <3>4, <3>5, <3>7, <3>9 DEF Follows
    <3> QED
      BY <2>1, <2>2, <3>4, <3>10 DEF r
  <2>3. CASE ~(k \in Clusters /\ k \notin Range(q))
    BY <2>1, <2>3, <1>2
  <2> QED
    BY <2>2, <2>3
<1> HIDE DEF S
<1>3. CLUSTERS - 1 \in Nat
  BY Numbers
<1>4. FirstLink(first) \in Inv[0] /\ \A k \in 1 .. CLUSTERS - 1 : \A q \in Inv[k - 1] : NextLink(c, q) \in Inv[k]
  BY <1>1, <1>2, <1>3
<1>5. p \in Inv[CLUSTERS - 1]
  <2> HIDE DEF Inv
  <2> QED
    BY <1>4, LinksDone
<1>6. p \in S
  BY <1>3, <1>5
<1> QED
  BY <1>6 DEF S

(* A chain that the links of a card run along is what is read from it.     *)
Reads(p, n, q) == Len(q) = n /\ \A i \in 1 .. n : q[i] = p[i]
ReadingLinks(p, n) ==
    [k \in 0 .. CLUSTERS - 1 |->
        {q \in Seq(Clusters) : /\ Len(q) <= n /\ (Len(q) = n \/ Len(q) = k + 1)
                               /\ \A i \in 1 .. Len(q) : q[i] = p[i]}]

LEMMA LinksRunStep ==
    ASSUME NEW c \in Card, NEW p \in Seq(Clusters), Injective(p), NEW n, Runs(c, p, n), n > 0,
           NEW k \in 1 .. CLUSTERS - 1, NEW q \in ReadingLinks(p, n)[k - 1]
    PROVE  NextLink(c, q) \in ReadingLinks(p, n)[k]
<1>1. CLUSTERS \in Nat /\ k \in Nat /\ k - 1 \in 0 .. CLUSTERS - 1 /\ k \in 0 .. CLUSTERS - 1 /\ (k - 1) + 1 = k
  BY Numbers
<1>2. n \in 0 .. Len(p) /\ (\A i \in 1 .. n - 1 : Link(c, p[i]) = p[i + 1]) /\ Link(c, p[n]) >= Eof
  BY DEF Runs
<1>3. Len(p) \in Nat /\ n \in Nat /\ \A i \in 1 .. n : i \in 1 .. Len(p) /\ p[i] \in Clusters
  <2>1. Len(p) \in Nat /\ n \in Nat
    BY <1>2
  <2>2. \A i \in 1 .. Len(p) : p[i] \in Clusters
    OBVIOUS
  <2> QED
    BY <1>2, <2>1, <2>2
<1>4. q \in Seq(Clusters) /\ Len(q) <= n /\ (Len(q) = n \/ Len(q) = k) /\ \A i \in 1 .. Len(q) : q[i] = p[i]
  BY <1>1 DEF ReadingLinks
<1>5. Len(q) \in Nat /\ Len(q) > 0 /\ q # <<>>
  BY <1>1, <1>3, <1>4
<1> DEFINE m == Len(q)
           next == Link(c, q[m])
<1>6. NextLink(c, q) = IF next \in Clusters /\ next \notin Range(q) THEN Append(q, next) ELSE q
  BY <1>5 DEF NextLink
<1>7. q[m] = p[m] /\ m \in 1 .. n
  BY <1>3, <1>4, <1>5
<1>8. CASE m = n
  <2>1. next >= Eof
    BY <1>2, <1>7, <1>8
  <2>2. next \notin Clusters
    BY <2>1, ClusterWord DEF Eof, EndLimit
  <2>3. NextLink(c, q) = q
    BY <1>6, <2>2
  <2> QED
    BY <1>1, <1>4, <1>8, <2>3 DEF ReadingLinks
<1>9. CASE m # n
  <2>1. m \in 1 .. n - 1 /\ m + 1 \in 1 .. n /\ m = k
    BY <1>3, <1>4, <1>7, <1>9
  <2>2. next = p[m + 1]
    BY <1>2, <1>7, <2>1
  <2>3. next \in Clusters
    BY <1>3, <2>1, <2>2
  <2>4. ~InChain(q, next)
    <3> SUFFICES ASSUME NEW i \in 1 .. m, q[i] = next PROVE FALSE
      BY DEF InChain
    <3>1. p[i] = p[m + 1] /\ i \in 1 .. Len(p) /\ m + 1 \in 1 .. Len(p) /\ i # m + 1
      BY <1>3, <1>4, <2>1, <2>2
    <3> QED
      BY <3>1 DEF Injective
  <2>5. NextLink(c, q) = Append(q, next)
    BY <1>4, <1>6, <2>3, <2>4, RangeIn
  <2> DEFINE r == Append(q, next)
  <2> HIDE DEF next
  <2>6. r \in Seq(Clusters) /\ Len(r) = m + 1 /\ (\A i \in 1 .. m : r[i] = q[i]) /\ r[m + 1] = next
    BY <1>4, <2>3, GrownChain
  <2> HIDE DEF r
  <2>7. \A i \in 1 .. Len(r) : r[i] = p[i]
    <3> SUFFICES ASSUME NEW i \in 1 .. m + 1 PROVE r[i] = p[i]
      BY <2>6
    <3>1. CASE i = m + 1
      BY <2>2, <2>6, <3>1
    <3>2. CASE i # m + 1
      <4>1. i \in 1 .. m
        BY <1>5, <3>2
      <4> QED
        BY <1>4, <2>6, <4>1
    <3> QED
      BY <3>1, <3>2
  <2>8. Len(r) = k + 1 /\ Len(r) <= n
    BY <1>3, <2>1, <2>6
  <2>9. r \in ReadingLinks(p, n)[k]
    BY <1>1, <2>6, <2>7, <2>8 DEF ReadingLinks
  <2> QED
    BY <2>5, <2>9 DEF r
<1> QED
  BY <1>8, <1>9

LEMMA LinksRun ==
    ASSUME NEW c \in Card, NEW p \in Seq(Clusters), Injective(p), NEW n, Runs(c, p, n)
    PROVE  Links(c, FirstOf(p)) \in Seq(Clusters) /\ Reads(p, n, Links(c, FirstOf(p)))
<1> DEFINE q == Links(c, FirstOf(p))
           Inv == ReadingLinks(p, n)
<1>0. CLUSTERS \in Nat \ {0}
  BY Numbers
<1>1. n \in 0 .. Len(p) /\ (n = 0 => p = <<>>) /\ Len(p) \in Nat /\ n \in Nat
  BY DEF Runs
<1>2. CASE n = 0
  <2>1. FirstOf(p) \notin Clusters
    BY <1>1, <1>2, ClusterRange DEF FirstOf
  <2>2. Follows(c, q, FirstOf(p))
    BY LinksFollow
  <2>3. q = <<>>
    <3> SUFFICES ASSUME q # <<>> PROVE FALSE
      OBVIOUS
    <3>1. q \in Seq(Clusters) /\ q[1] = FirstOf(p)
      BY <2>2 DEF Follows
    <3> HIDE DEF q
    <3>2. q[1] \in Clusters
      BY <3>1, EmptySeq
    <3> QED
      BY <2>1, <3>1, <3>2
  <2> HIDE DEF q
  <2> QED
    BY <1>2, <2>3 DEF Reads, q
<1>3. CASE n # 0
  <2>1. n > 0 /\ 1 \in 1 .. Len(p)
    BY <1>1, <1>3
  <2>2. p # <<>> /\ FirstOf(p) = p[1] /\ p[1] \in Clusters
    BY <2>1 DEF FirstOf
  <2>3. FirstLink(FirstOf(p)) \in Inv[0]
    <3> DEFINE f == <<p[1]>>
    <3>1. f \in Seq(Clusters) /\ Len(f) = 1 /\ f[1] = p[1]
      BY <2>2
    <3>2. FirstLink(FirstOf(p)) = f
      BY <2>2 DEF FirstLink
    <3> HIDE DEF f
    <3>3. Len(f) <= n /\ Len(f) = 0 + 1 /\ \A i \in 1 .. Len(f) : f[i] = p[i]
      BY <1>1, <2>1, <3>1
    <3>4. f \in Inv[0]
      BY <1>0, <3>1, <3>3 DEF ReadingLinks
    <3> QED
      BY <3>2, <3>4
  <2>4. \A k \in 1 .. CLUSTERS - 1 : \A r \in Inv[k - 1] : NextLink(c, r) \in Inv[k]
    BY <2>1, LinksRunStep
  <2>5. q \in Inv[CLUSTERS - 1]
    <3> HIDE DEF Inv
    <3> QED
      BY <2>3, <2>4, LinksDone
  <2> HIDE DEF q
  <2>6. q \in Seq(Clusters) /\ Len(q) <= n /\ (Len(q) = n \/ Len(q) = CLUSTERS) /\ \A i \in 1 .. Len(q) : q[i] = p[i]
    BY <1>0, <2>5 DEF ReadingLinks
  <2>7. Len(p) <= CLUSTERS
    BY ChainLength DEF Injective
  <2>8. Len(q) = n
    BY <1>0, <1>1, <2>6, <2>7
  <2>9. q \in Seq(Clusters) /\ Reads(p, n, q)
    BY <2>6, <2>8 DEF Reads
  <2> QED
    BY <2>9 DEF q
<1> QED
  BY <1>2, <1>3

-----------------------------------------------------------------------------
(* The files that are read from a card: the entries name what is owned.    *)
NamesAs(c, g) == \A t \in SlotNumbers : Named(c, t) => Slot(c, t).name = g[t].name

LEMMA WholeNames ==
    ASSUME NEW g, NEW c
    PROVE  /\ c \in Whole(g) => NamesAs(c, g)
           /\ \A s \in SlotNumbers : c \in But(g, s) => NamesAs(c, g)
<1>1. c \in Whole(g) => NamesAs(c, g)
  BY DEF Whole, NamesAs, Ok, Fits
<1>2. ASSUME NEW s \in SlotNumbers, c \in But(g, s) PROVE NamesAs(c, g)
  <2>1. (Named(c, s) => Slot(c, s).name = g[s].name) /\ \A t \in SlotNumbers : t # s => Ok(c, g, t)
    BY <1>2 DEF But
  <2> QED
    BY <2>1 DEF NamesAs, Ok, Fits
<1> QED
  BY <1>1, <1>2

LEMMA EntryFound ==
    ASSUME NEW g, Owns(g), NEW c, NamesAs(c, g), NEW s \in SlotNumbers, Named(c, s)
    PROVE  /\ g[s].name \in Names /\ Slots(c, g[s].name) = {s} /\ g[s].name \in Present(c)
           /\ EntryOf(c, g[s].name) = Slot(c, s)
           /\ Chain(c, g[s].name) = Links(c, Slot(c, s).first)
<1> DEFINE n == g[s].name
<1>1. Slot(c, s).name = n /\ n \in Names
  BY DEF NamesAs, Named
<1>2. \A t \in SlotNumbers : Slot(c, t).name = n => t = s
  <2> SUFFICES ASSUME NEW t \in SlotNumbers, Slot(c, t).name = n, t # s PROVE FALSE
    OBVIOUS
  <2>1. g[t].name = n
    BY <1>1 DEF NamesAs, Named
  <2> QED
    BY <1>1, <2>1 DEF Owns
<1> HIDE DEF n
<1>3. Slots(c, n) = {s}
  BY <1>1, <1>2 DEF Slots, SlotNumbers
<1>4. EntryOf(c, n) = Slot(c, s)
  BY <1>3 DEF EntryOf
<1>5. Chain(c, n) = Links(c, Slot(c, s).first)
  BY <1>4 DEF Chain
<1>6. n \in Present(c)
  BY <1>1, <1>3 DEF Present
<1> QED
  BY <1>1, <1>3, <1>4, <1>5, <1>6 DEF n

LEMMA EntryNotFound ==
    ASSUME NEW c, NEW n \in Names, \A t \in SlotNumbers : Slot(c, t).name # n
    PROVE  n \notin Present(c) /\ OnCard(c, n) = NoFile
<1>1. Slots(c, n) = {}
  BY DEF Slots, SlotNumbers
<1>2. n \notin Present(c)
  BY <1>1 DEF Present
<1> QED
  BY <1>2 DEF OnCard

LEMMA BytesAre ==
    ASSUME NEW c, NEW n, NEW size
    PROVE  LET most == Len(Chain(c, n)) * SPC * SECTOR
           IN  Bytes(c, n, size) = [k \in 1 .. IF size < most THEN size ELSE most |-> ByteAt(c, Chain(c, n), k - 1)]
BY Zenon DEF Bytes, ByteAt, ClusterOf, SectorIn, OffsetIn

LEMMA TimesClusterBytes ==
    ASSUME NEW n \in Nat
    PROVE  n * SPC * SECTOR = n * ClusterBytes /\ n * ClusterBytes \in Nat
<1>1. SPC \in Nat /\ SECTOR \in Nat
  BY Numbers
<1>2. (n * SPC) * SECTOR = n * (SPC * SECTOR)
  BY <1>1
<1>3. ClusterBytes \in Nat
  BY <1>1, Times DEF ClusterBytes
<1>4. n * ClusterBytes \in Nat
  BY <1>3, Times
<1> QED
  BY <1>2, <1>4 DEF ClusterBytes

(* Bytes of a file that are within its chain.                              *)
FileBytes(c, p, size) == [k \in 1 .. size |-> ByteAt(c, p, k - 1)]

LEMMA ReadsBytes ==
    ASSUME NEW c, NEW p \in Seq(Clusters), NEW n, n \in 0 .. Len(p), NEW q \in Seq(Clusters), Reads(p, n, q),
           NEW j \in Nat, j < n * ClusterBytes
    PROVE  ByteAt(c, q, j) = ByteAt(c, p, j)
<1>1. ClusterOf(j) \in 1 .. n
  BY BytePage
<1>2. q[ClusterOf(j)] = p[ClusterOf(j)]
  BY <1>1 DEF Reads
<1> QED
  BY <1>2 DEF ByteAt

LEMMA FileRead ==
    ASSUME NEW g, Owns(g), NEW c \in Card, NamesAs(c, g), NEW s \in SlotNumbers, Named(c, s), Fits(c, g, s),
           NEW n, Runs(c, g[s].chain, n)
    PROVE  /\ Chain(c, g[s].name) \in Seq(Clusters) /\ Reads(g[s].chain, n, Chain(c, g[s].name))
           /\ \A size \in Nat : size <= n * ClusterBytes =>
                 Bytes(c, g[s].name, size) = FileBytes(c, g[s].chain, size)
<1> DEFINE p == g[s].chain
           q == Chain(c, g[s].name)
<1>1. p \in Seq(Clusters) /\ Injective(p) /\ n \in 0 .. Len(p) /\ n \in Nat /\ Len(p) \in Nat
  BY DEF Owns, Injective, Runs
<1>2. q = Links(c, FirstOf(p))
  BY EntryFound DEF Fits
<1>3. q \in Seq(Clusters) /\ Reads(p, n, q)
  BY <1>1, <1>2, LinksRun
<1> HIDE DEF q
<1>4. ASSUME NEW size \in Nat, size <= n * ClusterBytes
      PROVE  Bytes(c, g[s].name, size) = FileBytes(c, p, size)
  <2> DEFINE most == Len(q) * SPC * SECTOR
  <2>1. most = n * ClusterBytes /\ most \in Nat
    BY <1>1, <1>3, TimesClusterBytes DEF Reads
  <2>2. Bytes(c, g[s].name, size) = [k \in 1 .. IF size < most THEN size ELSE most |-> ByteAt(c, q, k - 1)]
    BY BytesAre DEF q
  <2> HIDE DEF most, p
  <2>3. (IF size < most THEN size ELSE most) = size
    BY <1>4, <2>1
  <2>4. Bytes(c, g[s].name, size) = FileBytes(c, q, size)
    BY <2>2, <2>3, Zenon DEF FileBytes
  <2>5. \A k \in 1 .. size : ByteAt(c, q, k - 1) = ByteAt(c, p, k - 1)
    <3> SUFFICES ASSUME NEW k \in 1 .. size PROVE ByteAt(c, q, k - 1) = ByteAt(c, p, k - 1)
      OBVIOUS
    <3>1. k - 1 \in Nat /\ k - 1 < size
      OBVIOUS
    <3>2. k - 1 < n * ClusterBytes
      BY <1>4, <2>1, <3>1
    <3> HIDE DEF p
    <3> QED
      BY <1>1, <1>3, <3>1, <3>2, ReadsBytes
  <2>6. FileBytes(c, q, size) = FileBytes(c, p, size)
    BY <2>5, Zenon DEF FileBytes
  <2> QED
    BY <2>4, <2>6
<1> QED
  BY <1>3, <1>4 DEF q, p

LEMMA ByteTyped ==
    ASSUME NEW c \in Card, NEW p \in Seq(Clusters), NEW n \in 0 .. Len(p), NEW j \in Nat, j < n * ClusterBytes
    PROVE  ByteAt(c, p, j) \in Byte
<1>1. p[ClusterOf(j)] \in Clusters /\ SectorIn(j) \in SectorNumbers /\ OffsetIn(j) \in 0 .. SECTOR - 1
  BY BytePage
<1>2. DataSector(p[ClusterOf(j)], SectorIn(j)) \in DataSectors
  BY <1>1, SectorOf DEF SectorNumbers
<1>3. c[DataSector(p[ClusterOf(j)], SectorIn(j))] \in DataPages
  BY <1>2, PageTyped
<1> QED
  BY <1>1, <1>3 DEF DataPages, ByteAt

LEMMA FileBytesTyped ==
    ASSUME NEW c \in Card, NEW p \in Seq(Clusters), NEW n \in 0 .. Len(p), NEW size \in Nat, size <= n * ClusterBytes
    PROVE  /\ FileBytes(c, p, size) \in Seq(Byte) /\ Len(FileBytes(c, p, size)) = size
           /\ \A i \in 1 .. size : FileBytes(c, p, size)[i] = ByteAt(c, p, i - 1)
<1>1. n \in Nat /\ n * ClusterBytes \in Nat
  BY TimesClusterBytes
<1>2. \A k \in 1 .. size : ByteAt(c, p, k - 1) \in Byte
  <2> SUFFICES ASSUME NEW k \in 1 .. size PROVE ByteAt(c, p, k - 1) \in Byte
    OBVIOUS
  <2>1. k - 1 \in Nat /\ k - 1 < n * ClusterBytes
    BY <1>1
  <2> QED
    BY <2>1, ByteTyped
<1> DEFINE b(k) == ByteAt(c, p, k - 1)
           q == [k \in 1 .. size |-> b(k)]
<1>3. q = FileBytes(c, p, size) /\ \A k \in 1 .. size : b(k) \in Byte
  BY <1>2 DEF FileBytes
<1> HIDE DEF b
<1>4. q \in Seq(Byte) /\ Len(q) = size /\ \A i \in 1 .. size : q[i] = b(i)
  BY <1>3
<1> QED
  BY <1>3, <1>4, Zenon DEF b

(* The byte that stands for no file is never on a card.                    *)
LEMMA NoFileByte == NoFile = << <<"no file", 0, 0>> >> /\ NoFile[1] \notin Byte
<1>1. NoFile = << <<"no file", 0, 0>> >> /\ NoFile[1] = <<"no file", 0, 0>>
  BY DEF NoFile
<1>2. NoFile[1] # <<"zero", 0, 0>>
  BY <1>1
<1>3. NoFile[1] \notin Names \X Nat \X (Nat \ {0})
  BY <1>1
<1>4. NoFile[1] \notin {c[s][i] : c \in Cards, s \in DataSectors, i \in 0 .. SECTOR - 1}
  <2> SUFFICES ASSUME NEW c \in Cards, NEW s \in DataSectors, NEW i \in 0 .. SECTOR - 1 PROVE c[s][i] # NoFile[1]
    OBVIOUS
  <2>1. Formatted(c)
    BY CardsAssumption
  <2> QED
    BY <2>1 DEF Formatted
<1> DEFINE T == Names \X Nat \X (Nat \ {0})
           U == {c[s][i] : c \in Cards, s \in DataSectors, i \in 0 .. SECTOR - 1}
           b == NoFile[1]
<1>5. Byte = {<<"zero", 0, 0>>} \cup T \cup U
  BY DEF Byte
<1>6. b # <<"zero", 0, 0>> /\ b \notin T /\ b \notin U
  BY <1>2, <1>3, <1>4
<1> HIDE DEF T, U, b
<1>7. b \notin Byte
  BY <1>5, <1>6
<1> QED
  BY <1>1, <1>7 DEF b

LEMMA NotNoFile == ASSUME NEW q \in Seq(Byte) PROVE q # NoFile
<1> SUFFICES ASSUME q = NoFile PROVE FALSE
  OBVIOUS
<1>1. Len(q) = 1 /\ q[1] = NoFile[1]
  BY NoFileByte
<1>2. q[1] \in Byte
  BY <1>1
<1> QED
  BY <1>1, <1>2, NoFileByte

LEMMA PrefixOf ==
    ASSUME NEW p \in Seq(Byte), NEW q \in Seq(Byte), Len(p) <= Len(q), \A i \in 1 .. Len(p) : p[i] = q[i]
    PROVE  IsPrefix(p, q)
<1> DEFINE a == SubSeq(p, 1, Len(p))
           b == SubSeq(q, 1, Len(p))
<1>1. Len(p) \in Nat /\ Len(q) \in Nat
  OBVIOUS
<1>2. a \in Seq(Byte) /\ Len(a) = Len(p) /\ \A i \in 1 .. Len(p) : a[i] = p[i]
  BY <1>1, SubSeqProperties
<1>3. b \in Seq(Byte) /\ Len(b) = Len(p) /\ \A i \in 1 .. Len(p) : b[i] = q[i]
  BY <1>1, SubSeqProperties
<1>4. a = b
  <2> HIDE DEF a, b
  <2> QED
    BY <1>2, <1>3, SeqEqual
<1> QED
  BY <1>4 DEF IsPrefix

(* What is on a card of a file that it describes.                          *)
LEMMA OnCardOk ==
    ASSUME NEW g, Owns(g), NEW c \in Card, NamesAs(c, g), NEW s \in SlotNumbers, Named(c, s), Ok(c, g, s)
    PROVE  /\ g[s].name \in Names /\ g[s].name \in Present(c)
           /\ OnCard(c, g[s].name) = FileBytes(c, g[s].chain, Slot(c, s).size)
           /\ OnCard(c, g[s].name) \in Seq(Byte) /\ Len(OnCard(c, g[s].name)) = Slot(c, s).size
           /\ g[s].kept # NoFile => IsPrefix(g[s].kept, OnCard(c, g[s].name))
<1> DEFINE p == g[s].chain
           size == Slot(c, s).size
           there == OnCard(c, g[s].name)
<1>1. p \in Seq(Clusters) /\ size \in Nat
  BY SlotTyped DEF Owns, SlotEntry
<1>2. PICK n \in Nat : Runs(c, p, n) /\ size <= n * ClusterBytes
  BY DEF Ok, Fits
<1>3. n \in 0 .. Len(p)
  BY <1>2 DEF Runs
<1>4. Fits(c, g, s) /\ Holds(c, g, s)
  BY DEF Ok
<1>5. g[s].name \in Names /\ g[s].name \in Present(c) /\ EntryOf(c, g[s].name) = Slot(c, s)
  BY EntryFound
<1>6. there = Bytes(c, g[s].name, size)
  BY <1>5 DEF OnCard
<1>7. there = FileBytes(c, p, size)
  <2> HIDE DEF there, size
  <2> QED
    BY <1>1, <1>2, <1>4, <1>6, FileRead
<1>8. there \in Seq(Byte) /\ Len(there) = size /\ \A i \in 1 .. size : there[i] = ByteAt(c, p, i - 1)
  <2> HIDE DEF there, size, p
  <2> QED
    BY <1>1, <1>2, <1>3, <1>7, FileBytesTyped
<1>9. ASSUME g[s].kept # NoFile PROVE IsPrefix(g[s].kept, there)
  <2>1. g[s].kept \in Seq(Byte) /\ Len(g[s].kept) <= size /\ \A i \in 1 .. Len(g[s].kept) : ByteAt(c, p, i - 1) = g[s].kept[i]
    BY <1>4, <1>9 DEF Holds
  <2> HIDE DEF there, size, p
  <2>2. \A i \in 1 .. Len(g[s].kept) : i \in 1 .. size
    BY <1>1, <2>1
  <2>3. \A i \in 1 .. Len(g[s].kept) : g[s].kept[i] = there[i]
    BY <1>8, <2>1, <2>2
  <2> QED
    BY <1>8, <2>1, <2>3, PrefixOf
<1> QED
  BY <1>5, <1>7, <1>8, <1>9

(* Whatever was flushed is the beginning of what is on the card.           *)
Survive(c, kept) ==
    \A n \in Names : kept[n] # NoFile =>
        LET there == OnCard(c, n) IN there # NoFile /\ IsPrefix(kept[n], there)

LEMMA OkSurvives ==
    ASSUME NEW g, Owns(g), NEW c \in Card, NamesAs(c, g), NEW kept, Keeps(g, kept),
           \A s \in SlotNumbers : g[s].name \in Names /\ kept[g[s].name] # NoFile => Ok(c, g, s)
    PROVE  Survive(c, kept)
<1> SUFFICES ASSUME NEW n \in Names, kept[n] # NoFile
             PROVE  OnCard(c, n) # NoFile /\ IsPrefix(kept[n], OnCard(c, n))
  BY DEF Survive
<1>1. PICK s \in SlotNumbers : g[s].name = n /\ g[s].kept = kept[n]
  BY DEF Keeps
<1>2. Ok(c, g, s)
  BY <1>1
<1>3. Named(c, s)
  BY <1>1, <1>2 DEF Ok, Holds
<1>4. OnCard(c, n) \in Seq(Byte) /\ IsPrefix(kept[n], OnCard(c, n))
  BY <1>1, <1>2, <1>3, OnCardOk
<1> QED
  BY <1>4, NotNoFile

-----------------------------------------------------------------------------
(* A card that describes what is owned passes a disk check.                *)
LEMMA PresentSlot ==
    ASSUME NEW c, NEW n
    PROVE  n \in Present(c) <=> n \in Names /\ \E s \in SlotNumbers : Slot(c, s).name = n
BY DEF Present, Slots, SlotNumbers

Proper(c) == \A n \in Present(c) : EntryOf(c, n).first \in {0} \cup Clusters

(* The file of a slot, as it is read.                                      *)
ReadAs(c, g, s, m) ==
    /\ Named(c, s) /\ g[s].name \in Names /\ Slots(c, g[s].name) = {s}
    /\ EntryOf(c, g[s].name) = Slot(c, s)
    /\ Slot(c, s).first = FirstOf(g[s].chain)
    /\ m \in Nat /\ m \in 0 .. Len(g[s].chain) /\ Runs(c, g[s].chain, m)
    /\ Slot(c, s).size \in Nat /\ Slot(c, s).size <= m * ClusterBytes
    /\ Chain(c, g[s].name) \in Seq(Clusters) /\ Reads(g[s].chain, m, Chain(c, g[s].name))

LEMMA ReadAsDone ==
    ASSUME NEW g, Owns(g), NEW c \in Whole(g), NEW s \in SlotNumbers, Named(c, s)
    PROVE  g[s].name = Slot(c, s).name /\ \E m : ReadAs(c, g, s, m)
<1>1. c \in Card /\ NamesAs(c, g) /\ Ok(c, g, s) /\ Fits(c, g, s)
  BY WholeNames DEF Whole, Ok
<1>2. PICK m \in Nat : Runs(c, g[s].chain, m) /\ Slot(c, s).size <= m * ClusterBytes
  BY <1>1 DEF Fits
<1>3. Slot(c, s).first = FirstOf(g[s].chain) /\ Slot(c, s).name = g[s].name
  BY <1>1 DEF Fits
<1>4. m \in 0 .. Len(g[s].chain)
  BY <1>2 DEF Runs
<1>5. g[s].name \in Names /\ Slots(c, g[s].name) = {s} /\ EntryOf(c, g[s].name) = Slot(c, s)
  BY <1>1, EntryFound
<1>6. Chain(c, g[s].name) \in Seq(Clusters) /\ Reads(g[s].chain, m, Chain(c, g[s].name))
  BY <1>1, <1>2, FileRead
<1>7. Slot(c, s).size \in Nat
  BY <1>1, SlotTyped DEF SlotEntry
<1>8. ReadAs(c, g, s, m)
  BY <1>2, <1>3, <1>4, <1>5, <1>6, <1>7 DEF ReadAs
<1> QED
  BY <1>3, <1>8

LEMMA ReadsWithin ==
    ASSUME NEW p, NEW m \in Nat, m <= Len(p), Len(p) \in Nat, NEW q \in Seq(Clusters), Reads(p, m, q), NEW k, k \in Range(q)
    PROVE  InChain(p, k)
<1>1. PICK i \in 1 .. Len(q) : q[i] = k
  BY RangeIn DEF InChain
<1>2. Len(q) = m /\ q[i] = p[i] /\ i \in 1 .. Len(p)
  BY <1>1 DEF Reads
<1> QED
  BY <1>1, <1>2 DEF InChain

LEMMA WholeSound ==
    ASSUME NEW g, Owns(g), NEW c \in Whole(g)
    PROVE  Sound(c) /\ Proper(c)
<1>1. ASSUME NEW n \in Present(c)
      PROVE  LET chain == Chain(c, n)
             IN  /\ Cardinality(Slots(c, n)) = 1
                 /\ Len(chain) * SPC * SECTOR >= EntryOf(c, n).size
                 /\ chain # <<>> => Link(c, chain[Len(chain)]) >= Eof
                 /\ \A m \in Present(c) \ {n} : Range(chain) \cap Range(Chain(c, m)) = {}
  <2>1. PICK s \in SlotNumbers : Slot(c, s).name = n /\ Named(c, s)
    BY <1>1, PresentSlot DEF Named
  <2>2. PICK m : ReadAs(c, g, s, m)
    BY <2>1, ReadAsDone
  <2>3. g[s].name = n
    BY <2>1, ReadAsDone
  <2> DEFINE chain == Chain(c, n)
             p == g[s].chain
  <2>4. m \in Nat /\ m \in 0 .. Len(p) /\ Runs(c, p, m) /\ chain \in Seq(Clusters) /\ Reads(p, m, chain)
        /\ Slots(c, n) = {s} /\ EntryOf(c, n) = Slot(c, s) /\ Slot(c, s).size \in Nat /\ Slot(c, s).size <= m * ClusterBytes
    BY <2>2, <2>3 DEF ReadAs
  <2>5. Len(chain) = m /\ Len(p) \in Nat /\ \A i \in 1 .. m : chain[i] = p[i]
    BY <2>4 DEF Reads, Owns
  <2>6. Cardinality(Slots(c, n)) = 1
    BY <2>4, FS_Singleton
  <2>7. Len(chain) * SPC * SECTOR >= EntryOf(c, n).size
    <3>1. m * SPC * SECTOR = m * ClusterBytes /\ m * ClusterBytes \in Nat
      BY <2>4, TimesClusterBytes
    <3> HIDE DEF chain
    <3> QED
      BY <2>4, <2>5, <3>1
  <2>8. chain # <<>> => Link(c, chain[Len(chain)]) >= Eof
    <3> SUFFICES ASSUME chain # <<>> PROVE Link(c, chain[Len(chain)]) >= Eof
      OBVIOUS
    <3> HIDE DEF chain
    <3>1. m > 0
      BY <2>4, <2>5, EmptySeq
    <3>2. chain[Len(chain)] = p[m]
      BY <2>4, <2>5, <3>1
    <3> QED
      BY <2>4, <3>1, <3>2 DEF Runs
  <2>9. ASSUME NEW o \in Present(c) \ {n} PROVE Range(chain) \cap Range(Chain(c, o)) = {}
    <3>1. PICK t \in SlotNumbers : Slot(c, t).name = o /\ Named(c, t)
      BY <2>9, PresentSlot DEF Named
    <3>2. PICK l : ReadAs(c, g, t, l)
      BY <3>1, ReadAsDone
    <3>3. g[t].name = o /\ t # s
      BY <2>1, <2>9, <3>1, ReadAsDone
    <3>4. l \in Nat /\ l \in 0 .. Len(g[t].chain) /\ Chain(c, o) \in Seq(Clusters) /\ Reads(g[t].chain, l, Chain(c, o))
      BY <3>2, <3>3 DEF ReadAs
    <3>5. l <= Len(g[t].chain) /\ Len(g[t].chain) \in Nat /\ m <= Len(p)
      BY <2>4, <3>4 DEF Owns
    <3> SUFFICES ASSUME NEW k, k \in Range(chain), k \in Range(Chain(c, o)) PROVE FALSE
      OBVIOUS
    <3> HIDE DEF chain, p
    <3>6. InChain(p, k)
      BY <2>4, <2>5, <3>5, ReadsWithin
    <3>7. InChain(g[t].chain, k)
      BY <3>4, <3>5, ReadsWithin
    <3> QED
      BY <3>3, <3>6, <3>7 DEF Owns, p
  <2> HIDE DEF chain
  <2>10. \A o \in Present(c) \ {n} : Range(chain) \cap Range(Chain(c, o)) = {}
    BY <2>9
  <2> QED
    BY <2>6, <2>7, <2>8, <2>10 DEF chain
<1>2. ASSUME NEW n \in Present(c) PROVE EntryOf(c, n).first \in {0} \cup Clusters
  <2>1. PICK s \in SlotNumbers : Slot(c, s).name = n /\ Named(c, s)
    BY <1>2, PresentSlot DEF Named
  <2>2. PICK m : ReadAs(c, g, s, m)
    BY <2>1, ReadAsDone
  <2>3. g[s].name = n
    BY <2>1, ReadAsDone
  <2>4. EntryOf(c, n).first = FirstOf(g[s].chain)
    BY <2>2, <2>3 DEF ReadAs
  <2>5. g[s].chain \in Seq(Clusters)
    BY DEF Owns
  <2>6. g[s].chain # <<>> => g[s].chain[1] \in Clusters
    BY <2>5, EmptySeq
  <2> QED
    BY <2>4, <2>6 DEF FirstOf
<1> QED
  BY <1>1, <1>2 DEF Sound, Proper

-----------------------------------------------------------------------------
(* A card that passes a disk check is put in: every cluster that a chain   *)
(* comes to is owned, and all that is in the files is kept.                *)
OnlyName(n) == [name |-> n, chain |-> <<>>, bytes |-> <<>>, kept |-> NoFile]
FileIn(c, n) == [name |-> n, chain |-> Chain(c, n), bytes |-> OnCard(c, n), kept |-> OnCard(c, n)]
FromCard(c) ==
    [s \in SlotNumbers |-> IF Named(c, s) THEN FileIn(c, Slot(c, s).name) ELSE OnlyName(Slot(c, s).name)]
AllOf(c) == [n \in Names |-> OnCard(c, n)]

(* The file of an entry.                                                   *)
Checked(c, s, n) ==
    /\ s \in SlotNumbers /\ n = Slot(c, s).name /\ n \in Present(c) /\ n \in Names
    /\ Slots(c, n) = {s} /\ EntryOf(c, n) = Slot(c, s)
    /\ Chain(c, n) \in Seq(Clusters) /\ Injective(Chain(c, n))
    /\ FirstOf(Chain(c, n)) = Slot(c, s).first
    /\ Runs(c, Chain(c, n), Len(Chain(c, n)))
    /\ Slot(c, s).size \in Nat /\ Slot(c, s).size <= Len(Chain(c, n)) * ClusterBytes
    /\ OnCard(c, n) = FileBytes(c, Chain(c, n), Slot(c, s).size)
    /\ OnCard(c, n) \in Seq(Byte) /\ Len(OnCard(c, n)) = Slot(c, s).size
    /\ \A i \in 1 .. Slot(c, s).size : OnCard(c, n)[i] = ByteAt(c, Chain(c, n), i - 1)

LEMMA CheckedEntry ==
    ASSUME NEW c \in Card, Sound(c), Proper(c), NEW s \in SlotNumbers, Named(c, s), NEW n, n = Slot(c, s).name
    PROVE  Checked(c, s, n)
<1> DEFINE p == Chain(c, n)
           size == Slot(c, s).size
<1>1. n \in Names /\ n \in Present(c)
  BY PresentSlot DEF Named
<1>2. /\ Cardinality(Slots(c, n)) = 1 /\ Len(p) * SPC * SECTOR >= EntryOf(c, n).size
      /\ p # <<>> => Link(c, p[Len(p)]) >= Eof
  BY <1>1 DEF Sound
<1>3. Slots(c, n) = {s} /\ EntryOf(c, n) = Slot(c, s)
  <2>1. s \in Slots(c, n) /\ Slots(c, n) \subseteq SlotNumbers
    BY DEF Slots, SlotNumbers
  <2>2. IsFiniteSet(Slots(c, n))
    <3>1. 0 \in Int /\ ROOT - 1 \in Int
      BY Numbers
    <3>2. IsFiniteSet(SlotNumbers)
      BY <3>1, FS_Interval DEF SlotNumbers
    <3> QED
      BY <2>1, <3>2, FS_Subset
  <2>3. \E x : Slots(c, n) = {x}
    BY <1>2, <2>2, FS_Singleton
  <2>4. Slots(c, n) = {s}
    BY <2>1, <2>3
  <2> QED
    BY <2>4 DEF EntryOf
<1>4. p = Links(c, Slot(c, s).first)
  BY <1>3 DEF Chain
<1>5. Follows(c, p, Slot(c, s).first)
  BY <1>4, LinksFollow
<1>6. Slot(c, s).first \in {0} \cup Clusters
  BY <1>1, <1>3 DEF Proper
<1>7. p \in Seq(Clusters) /\ Injective(p) /\ (p # <<>> => p[1] = Slot(c, s).first)
      /\ (Slot(c, s).first \in Clusters => p # <<>>) /\ \A i \in 1 .. Len(p) - 1 : Link(c, p[i]) = p[i + 1]
  BY <1>5 DEF Follows
<1>8. size \in Nat
  BY SlotTyped DEF SlotEntry
<1> HIDE DEF p, size
<1>9. FirstOf(p) = Slot(c, s).first
  <2>1. CASE p = <<>>
    BY <1>6, <1>7, <2>1 DEF FirstOf
  <2>2. CASE p # <<>>
    BY <1>7, <2>2 DEF FirstOf
  <2> QED
    BY <2>1, <2>2
<1>10. Len(p) \in Nat /\ (Len(p) = 0 => p = <<>>) /\ (Len(p) > 0 => p # <<>>)
  BY <1>7, EmptySeq
<1>11. Runs(c, p, Len(p))
  BY <1>2, <1>7, <1>10 DEF Runs, p
<1> DEFINE most == Len(p) * SPC * SECTOR
<1>12. most = Len(p) * ClusterBytes /\ most \in Nat
  BY <1>10, TimesClusterBytes
<1>13. most >= size
  BY <1>2, <1>3 DEF p, size
<1>14. OnCard(c, n) = [k \in 1 .. IF size < most THEN size ELSE most |-> ByteAt(c, p, k - 1)]
  <2>1. OnCard(c, n) = Bytes(c, n, size)
    BY <1>1, <1>3 DEF OnCard, size
  <2> QED
    BY <2>1, BytesAre DEF p
<1> HIDE DEF most
<1>15. (IF size < most THEN size ELSE most) = size
  BY <1>8, <1>12, <1>13
<1>16. OnCard(c, n) = FileBytes(c, p, size)
  BY <1>14, <1>15, Zenon DEF FileBytes
<1>17. size <= Len(p) * ClusterBytes /\ Len(p) \in 0 .. Len(p)
  BY <1>8, <1>10, <1>12, <1>13
<1>18. OnCard(c, n) \in Seq(Byte) /\ Len(OnCard(c, n)) = size /\ \A i \in 1 .. size : OnCard(c, n)[i] = ByteAt(c, p, i - 1)
  BY <1>7, <1>8, <1>16, <1>17, FileBytesTyped
<1> QED
  BY <1>1, <1>3, <1>7, <1>8, <1>9, <1>11, <1>16, <1>17, <1>18 DEF Checked, p, size

(* The ghost of a card has in every slot what the entry says.              *)
LEMMA FromCardSlot ==
    ASSUME NEW c \in Card, Sound(c), Proper(c), NEW s \in SlotNumbers, NEW g, g = FromCard(c)
    PROVE  /\ g[s].name = Slot(c, s).name /\ (g[s].name \in Names <=> Named(c, s))
           /\ Named(c, s) => /\ Checked(c, s, g[s].name) /\ g[s].chain = Chain(c, g[s].name)
                             /\ g[s].bytes = OnCard(c, g[s].name) /\ g[s].kept = OnCard(c, g[s].name)
           /\ ~Named(c, s) => g[s].chain = <<>> /\ g[s].bytes = <<>> /\ g[s].kept = NoFile
<1>1. CASE Named(c, s)
  <2>1. g[s] = FileIn(c, Slot(c, s).name)
    BY <1>1 DEF FromCard
  <2>2. Checked(c, s, Slot(c, s).name)
    BY <1>1, CheckedEntry
  <2>3. Slot(c, s).name \in Names
    BY <1>1 DEF Named
  <2> QED
    BY <1>1, <2>1, <2>2, <2>3 DEF FileIn
<1>2. CASE ~Named(c, s)
  <2>1. g[s] = OnlyName(Slot(c, s).name)
    BY <1>2 DEF FromCard
  <2>2. Slot(c, s).name \notin Names
    BY <1>2 DEF Named
  <2> QED
    BY <1>2, <2>1, <2>2 DEF OnlyName
<1> QED
  BY <1>1, <1>2

LEMMA FromCardOwns ==
    ASSUME NEW c \in Card, Sound(c), Proper(c), NEW g, g = FromCard(c)
    PROVE  Owns(g) /\ Keeps(g, AllOf(c))
<1>1. ASSUME NEW s \in SlotNumbers
      PROVE  /\ g[s].chain \in Seq(Clusters) /\ g[s].bytes \in Seq(Byte)
             /\ g[s].name \notin Names => g[s].chain = <<>> /\ g[s].kept = NoFile /\ g[s].bytes = <<>>
             /\ \A i, j \in 1 .. Len(g[s].chain) : g[s].chain[i] = g[s].chain[j] => i = j
  <2>1. CASE Named(c, s)
    <3>1. Checked(c, s, g[s].name) /\ g[s].chain = Chain(c, g[s].name) /\ g[s].bytes = OnCard(c, g[s].name)
          /\ g[s].name \in Names
      BY <2>1, FromCardSlot
    <3>2. /\ Chain(c, g[s].name) \in Seq(Clusters) /\ Injective(Chain(c, g[s].name))
          /\ OnCard(c, g[s].name) \in Seq(Byte)
      BY <3>1 DEF Checked
    <3>3. Injective(g[s].chain)
      BY <3>1, <3>2
    <3> QED
      BY <3>1, <3>2, <3>3 DEF Injective
  <2>2. CASE ~Named(c, s)
    <3>1. g[s].chain = <<>> /\ g[s].bytes = <<>> /\ g[s].kept = NoFile
      BY <2>2, FromCardSlot
    <3>2. <<>> \in Seq(Clusters) /\ <<>> \in Seq(Byte) /\ Len(<<>>) = 0
      OBVIOUS
    <3>3. 1 .. Len(g[s].chain) = {}
      BY <3>1, <3>2
    <3> QED
      BY <3>1, <3>2, <3>3
  <2> QED
    BY <2>1, <2>2
<1>2. ASSUME NEW s \in SlotNumbers, NEW t \in SlotNumbers, t # s
      PROVE  /\ \A k : ~(InChain(g[s].chain, k) /\ InChain(g[t].chain, k))
             /\ g[s].name \in Names => g[s].name # g[t].name
  <2>1. CASE Named(c, s) /\ Named(c, t)
    <3>1. Checked(c, s, g[s].name) /\ g[s].chain = Chain(c, g[s].name)
      BY <2>1, FromCardSlot
    <3>2. Checked(c, t, g[t].name) /\ g[t].chain = Chain(c, g[t].name)
      BY <2>1, FromCardSlot
    <3>3. g[s].name # g[t].name
      <4>1. Slots(c, g[s].name) = {s} /\ Slots(c, g[t].name) = {t}
        BY <3>1, <3>2 DEF Checked
      <4> QED
        BY <1>2, <4>1
    <3>4. g[s].name \in Present(c) /\ g[t].name \in Present(c) \ {g[s].name}
      BY <3>1, <3>2, <3>3 DEF Checked
    <3>5. Range(g[s].chain) \cap Range(g[t].chain) = {}
      BY <3>1, <3>2, <3>4 DEF Sound
    <3>6. g[s].chain \in Seq(Clusters) /\ g[t].chain \in Seq(Clusters)
      BY <1>1
    <3>7. \A k : ~(InChain(g[s].chain, k) /\ InChain(g[t].chain, k))
      BY <3>5, <3>6, RangeIn
    <3> QED
      BY <3>3, <3>7
  <2>2. CASE ~Named(c, s)
    <3>1. g[s].chain = <<>> /\ g[s].name \notin Names
      BY <2>2, FromCardSlot
    <3>2. \A k : ~InChain(g[s].chain, k)
      BY <3>1 DEF InChain
    <3> QED
      BY <3>1, <3>2
  <2>3. CASE Named(c, s) /\ ~Named(c, t)
    <3>1. g[t].chain = <<>> /\ g[t].name \notin Names
      BY <2>3, FromCardSlot
    <3>2. \A k : ~InChain(g[t].chain, k)
      BY <3>1 DEF InChain
    <3> QED
      BY <3>1, <3>2
  <2> QED
    BY <2>1, <2>2, <2>3
<1>3. Owns(g)
  BY <1>1, <1>2, Zenon DEF Owns
<1>4. Keeps(g, AllOf(c))
  <2> SUFFICES ASSUME NEW n \in Names, AllOf(c)[n] # NoFile
               PROVE  \E s \in SlotNumbers : g[s].name = n /\ g[s].kept = AllOf(c)[n]
    BY DEF Keeps
  <2>1. AllOf(c)[n] = OnCard(c, n) /\ n \in Present(c)
    BY DEF AllOf, OnCard
  <2>2. PICK s \in SlotNumbers : Slot(c, s).name = n
    BY <2>1, PresentSlot
  <2>3. Named(c, s)
    BY <2>2 DEF Named
  <2> QED
    BY <2>1, <2>2, <2>3, FromCardSlot
<1> QED
  BY <1>3, <1>4

LEMMA FromCardWhole ==
    ASSUME NEW c \in Card, Sound(c), Proper(c), DirEnds(c), NEW g, g = FromCard(c)
    PROVE  /\ Owns(g) /\ Keeps(g, AllOf(c)) /\ c \in Whole(g) /\ Current(c, g)
           /\ \A s \in SlotNumbers : g[s].name \in Names => Slot(c, s).size = Len(g[s].bytes)
<1>1. Owns(g) /\ Keeps(g, AllOf(c))
  BY FromCardOwns
<1>2. ASSUME NEW s \in SlotNumbers PROVE Fits(c, g, s) /\ Holds(c, g, s)
  <2>1. CASE Named(c, s)
    <3> DEFINE n == g[s].name
               p == g[s].chain
    <3>1. Checked(c, s, n) /\ p = Chain(c, n) /\ g[s].kept = OnCard(c, n) /\ Slot(c, s).name = n
      BY <2>1, FromCardSlot
    <3> HIDE DEF n
    <3>2. /\ p \in Seq(Clusters) /\ FirstOf(p) = Slot(c, s).first /\ Runs(c, p, Len(p))
          /\ Slot(c, s).size \in Nat /\ Slot(c, s).size <= Len(p) * ClusterBytes
          /\ OnCard(c, n) \in Seq(Byte) /\ Len(OnCard(c, n)) = Slot(c, s).size
          /\ \A i \in 1 .. Slot(c, s).size : OnCard(c, n)[i] = ByteAt(c, p, i - 1)
      BY <3>1 DEF Checked
    <3>3. Len(p) \in Nat
      BY <3>2
    <3>4. Fits(c, g, s)
      BY <3>1, <3>2, <3>3 DEF Fits, n
    <3>5. Len(g[s].kept) <= Slot(c, s).size /\ g[s].kept \in Seq(Byte)
          /\ \A j \in 1 .. Len(g[s].kept) : ByteAt(c, p, j - 1) = g[s].kept[j]
      BY <3>1, <3>2
    <3>6. Holds(c, g, s)
      BY <2>1, <3>5 DEF Holds
    <3> QED
      BY <3>4, <3>6
  <2>2. CASE ~Named(c, s)
    <3>1. g[s].kept = NoFile
      BY <2>2, FromCardSlot
    <3> QED
      BY <2>2, <3>1 DEF Fits, Holds
  <2> QED
    BY <2>1, <2>2
<1>3. c \in Whole(g)
  BY <1>2 DEF Whole, Ok
<1>4. ASSUME NEW s \in SlotNumbers PROVE Full(c, g, s) /\ (g[s].name \in Names => Slot(c, s).size = Len(g[s].bytes))
  <2>0. g[s].name \in Names <=> Named(c, s)
    BY FromCardSlot
  <2>1. CASE Named(c, s)
    <3> DEFINE n == g[s].name
               p == g[s].chain
    <3>1. Checked(c, s, n) /\ p = Chain(c, n) /\ g[s].bytes = OnCard(c, n)
      BY <2>1, FromCardSlot
    <3> HIDE DEF n
    <3>2. /\ p \in Seq(Clusters) /\ Runs(c, p, Len(p))
          /\ Slot(c, s).size \in Nat /\ Slot(c, s).size <= Len(p) * ClusterBytes
          /\ OnCard(c, n) \in Seq(Byte) /\ Len(OnCard(c, n)) = Slot(c, s).size
          /\ \A i \in 1 .. Slot(c, s).size : OnCard(c, n)[i] = ByteAt(c, p, i - 1)
      BY <3>1 DEF Checked
    <3>3. Len(g[s].bytes) = Slot(c, s).size /\ \A j \in 1 .. Len(g[s].bytes) : ByteAt(c, p, j - 1) = g[s].bytes[j]
      BY <3>1, <3>2
    <3> QED
      BY <2>0, <3>2, <3>3 DEF Full
  <2>2. CASE ~Named(c, s)
    <3> DEFINE p == g[s].chain
               b == g[s].bytes
    <3>1. p = <<>> /\ b = <<>> /\ Len(<<>>) = 0 /\ Len(p) = 0 /\ Len(b) = 0
      BY <2>2, FromCardSlot
    <3>2. Runs(c, p, Len(p))
      <4> HIDE DEF p
      <4>1. 1 .. Len(p) - 1 = {} /\ Len(p) \in 0 .. Len(p)
        BY <3>1
      <4> QED
        BY <3>1, <4>1 DEF Runs
    <3>3. Len(b) <= Len(p) * ClusterBytes
      <4>1. 0 * ClusterBytes = 0
        BY TimesClusterBytes, Numbers, Times DEF ClusterBytes
      <4> HIDE DEF p, b
      <4> QED
        BY <3>1, <4>1
    <3>4. \A j \in 1 .. Len(b) : ByteAt(c, p, j - 1) = b[j]
      <4> HIDE DEF p, b
      <4>1. 1 .. Len(b) = {}
        BY <3>1
      <4> QED
        BY <4>1
    <3> QED
      BY <2>0, <2>2, <3>2, <3>3, <3>4 DEF Full
  <2> QED
    BY <2>1, <2>2
<1>5. Current(c, g)
  BY <1>4 DEF Current
<1> QED
  BY <1>1, <1>3, <1>4, <1>5

(* No cluster is lost on it if a disk check finds none.                    *)
LEMMA FromCardTight ==
    ASSUME NEW c \in Card, Sound(c), Proper(c), NEW g, g = FromCard(c)
    PROVE  /\ Tight(c, g, Clusters)
           /\ LinkedClusters(c) = FileClusters(c) => Tight(c, g, {})
<1>1. Tight(c, g, Clusters)
  BY DEF Tight
<1>2. ASSUME LinkedClusters(c) = FileClusters(c), NEW k \in Clusters, Link(c, k) # Empty
      PROVE  \E s \in SlotNumbers : InChain(g[s].chain, k)
  <2>1. k \in FileClusters(c)
    BY <1>2 DEF LinkedClusters
  <2>2. PICK n \in Present(c) : k \in Range(Chain(c, n))
    BY <2>1 DEF FileClusters
  <2>3. PICK s \in SlotNumbers : Slot(c, s).name = n /\ n \in Names
    BY <2>2, PresentSlot
  <2>4. Named(c, s)
    BY <2>3 DEF Named
  <2>5. Checked(c, s, n) /\ g[s].chain = Chain(c, n)
    BY <2>3, <2>4, FromCardSlot
  <2>6. Chain(c, n) \in Seq(Clusters)
    BY <2>5 DEF Checked
  <2>7. InChain(g[s].chain, k)
    BY <2>2, <2>5, <2>6, RangeIn
  <2> QED
    BY <2>7
<1> QED
  BY <1>1, <1>2 DEF Tight

(* Conversely, what the buffers hold loses no cluster.                     *)
LEMMA CurrentLoses ==
    ASSUME NEW g, Owns(g), NEW c \in Whole(g), Current(c, g), Tight(c, g, {})
    PROVE  LinkedClusters(c) = FileClusters(c)
<1>0. \A s \in SlotNumbers : g[s].chain \in Seq(Clusters)
  BY DEF Owns
<1>1. ASSUME NEW s \in SlotNumbers, Named(c, s)
      PROVE  /\ g[s].name = Slot(c, s).name /\ g[s].name \in Present(c)
             /\ Chain(c, g[s].name) \in Seq(Clusters) /\ \A k : InChain(Chain(c, g[s].name), k) <=> InChain(g[s].chain, k)
  <2>1. c \in Card /\ NamesAs(c, g) /\ Fits(c, g, s)
    BY WholeNames DEF Whole, Ok
  <2>2. Full(c, g, s)
    BY DEF Current
  <2>3. Runs(c, g[s].chain, Len(g[s].chain))
    BY <2>2 DEF Full
  <2>4. Chain(c, g[s].name) \in Seq(Clusters) /\ Reads(g[s].chain, Len(g[s].chain), Chain(c, g[s].name))
    BY <1>1, <2>1, <2>3, FileRead
  <2>5. g[s].name \in Present(c)
    BY <1>1, <2>1, EntryFound
  <2>6. g[s].name = Slot(c, s).name
    BY <1>1, <2>1 DEF NamesAs
  <2>7. \A k : InChain(Chain(c, g[s].name), k) <=> InChain(g[s].chain, k)
    BY <2>4 DEF InChain, Reads
  <2> QED
    BY <2>4, <2>5, <2>6, <2>7
<1>2. ASSUME NEW k \in Clusters, Link(c, k) # Empty PROVE k \in FileClusters(c)
  <2>1. PICK s \in SlotNumbers : InChain(g[s].chain, k)
    BY <1>2 DEF Tight
  <2>2. g[s].name \in Names
    <3> SUFFICES ASSUME g[s].name \notin Names PROVE FALSE
      OBVIOUS
    <3>1. g[s].chain = <<>>
      BY DEF Owns
    <3> QED
      BY <2>1, <3>1 DEF InChain
  <2>3. Named(c, s)
    BY <2>2 DEF Current, Full
  <2>4. g[s].name \in Present(c) /\ k \in Range(Chain(c, g[s].name))
    BY <1>1, <2>1, <2>3, RangeIn
  <2> QED
    BY <2>4 DEF FileClusters
<1>3. ASSUME NEW k \in FileClusters(c) PROVE k \in Clusters /\ Link(c, k) # Empty
  <2>1. PICK n \in Present(c) : k \in Range(Chain(c, n))
    BY <1>3 DEF FileClusters
  <2>2. PICK s \in SlotNumbers : Slot(c, s).name = n /\ n \in Names
    BY <2>1, PresentSlot
  <2>3. Named(c, s)
    BY <2>2 DEF Named
  <2>4. InChain(g[s].chain, k)
    BY <1>1, <2>1, <2>2, <2>3, RangeIn
  <2>5. k \in Clusters
    BY <1>0, <2>4, ChainIn DEF InChain
  <2>6. Link(c, k) # Empty
    <3> SUFFICES ASSUME Link(c, k) = Empty PROVE FALSE
      OBVIOUS
    <3>1. Free(g, k)
      BY <2>5, NotOwned
    <3> QED
      BY <2>4, <3>1 DEF Free
  <2> QED
    BY <2>5, <2>6
<1> QED
  BY <1>2, <1>3 DEF LinkedClusters

-----------------------------------------------------------------------------
(* The cards that are put in, and the drive with empty buffers.            *)
LEMMA CardsAreCards ==
    ASSUME NEW c \in Cards
    PROVE  c \in Card /\ Sound(c) /\ Proper(c) /\ DirEnds(c) /\ LinkedClusters(c) = FileClusters(c)
<1>1. Formatted(c) /\ Sound(c) /\ Proper(c) /\ DirEnds(c) /\ LinkedClusters(c) = FileClusters(c)
  BY CardsAssumption DEF Proper
<1>2. ASSUME NEW s \in CardSectors PROVE c[s] \in Pages(s) /\ c[s] \in FatPage \cup DirPages \cup DataPages
  <2>1. CASE s \in FatSectors
    <3>1. c[s] \in FatPages(s)
      BY <1>1, <2>1 DEF Formatted
    <3> QED
      BY <2>1, <3>1 DEF Pages, FatPage
  <2>2. CASE s \in DirSectors
    <3>1. c[s] \in DirPages
      BY <1>1, <2>2 DEF Formatted
    <3> QED
      BY <2>2, <3>1, SectorKinds DEF Pages
  <2>3. CASE s \in DataSectors
    <3>1. c[s] = [i \in 0 .. SECTOR - 1 |-> c[s][i]]
      BY <1>1, <2>3 DEF Formatted
    <3>2. \A i \in 0 .. SECTOR - 1 : c[s][i] \in Byte
      BY <2>3 DEF Byte
    <3>3. [i \in 0 .. SECTOR - 1 |-> c[s][i]] \in DataPages
      BY <3>2, Zenon DEF DataPages
    <3>4. c[s] \in DataPages
      BY <3>1, <3>3, Zenon
    <3> QED
      BY <2>3, <3>4, SectorKinds DEF Pages
  <2> QED
    BY <2>1, <2>2, <2>3 DEF CardSectors
<1>3. c \in [CardSectors -> FatPage \cup DirPages \cup DataPages]
  <2>1. c = [s \in CardSectors |-> c[s]]
    BY <1>1 DEF Formatted
  <2>2. [s \in CardSectors |-> c[s]] \in [CardSectors -> FatPage \cup DirPages \cup DataPages]
    BY <1>2, Zenon
  <2> QED
    BY <2>1, <2>2, Zenon
<1>4. c \in Card
  BY <1>2, <1>3 DEF Card
<1> QED
  BY <1>1, <1>4

LEMMA ClosedObject == Closed \in Object /\ ~Closed.open /\ ~Closed.failed
BY DEF Closed, Object

LEMMA MountedDone ==
    ASSUME NEW c \in Card, NEW v, v = Mounted(c)
    PROVE  Vol(v) /\ Cached(v) = c /\ Images(v) = {c} /\ v.card = c
           /\ v.cuts = {} /\ Good(v) /\ v.f = Closed /\ v.count = 0 /\ v.got = <<>>
<1>1. /\ v.card = c /\ v.fat = <<>> /\ v.fatSector = None /\ v.fatDirty = FALSE
      /\ v.data = <<>> /\ v.dataSector = None /\ v.dataDirty = FALSE
      /\ v.cuts = {} /\ v.err = "none" /\ v.found = 0 /\ v.f = Closed /\ v.count = 0 /\ v.got = <<>>
  BY DEF Mounted
<1>2. v \in Volume
  <2>1. Closed \in Object /\ "none" \in Errors /\ <<>> \in Seq(Byte)
    BY ClosedObject DEF Errors
  <2> QED
    BY <2>1 DEF Mounted, Volume
<1>3. FatCoherent(v) /\ DataCoherent(v)
  BY <1>1 DEF FatCoherent, DataCoherent
<1>4. WithFat(v) = c /\ WithData(v) = c /\ Cached(v) = c
  BY <1>1 DEF WithFat, WithData, Cached
<1> QED
  BY <1>1, <1>2, <1>3, <1>4 DEF Vol, Images, Good

LEMMA MountSettled ==
    ASSUME NEW c \in Card, Sound(c), Proper(c), DirEnds(c), NEW v, v = Mounted(c), NEW g, g = FromCard(c)
    PROVE  /\ Settled(v, g, AllOf(c), Clusters) /\ \A n \in Names : Sizes(v, g, n)
           /\ LinkedClusters(c) = FileClusters(c) => Settled(v, g, AllOf(c), {})
<1>1. Vol(v) /\ Cached(v) = c /\ Images(v) = {c}
  BY MountedDone
<1>2. /\ Owns(g) /\ Keeps(g, AllOf(c)) /\ c \in Whole(g) /\ Current(c, g)
      /\ \A s \in SlotNumbers : g[s].name \in Names => Slot(c, s).size = Len(g[s].bytes)
  BY FromCardWhole
<1>3. Tight(c, g, Clusters) /\ (LinkedClusters(c) = FileClusters(c) => Tight(c, g, {}))
  BY FromCardTight
<1>4. Images(v) \subseteq Whole(g)
  BY <1>1, <1>2
<1> QED
  BY <1>1, <1>2, <1>3, <1>4 DEF Settled, Sizes

-----------------------------------------------------------------------------
(* What a program sees of the files.                                       *)
Held(v, g, f, s, n) ==
    /\ HandleOn(f, g, s) /\ g[s].name = n
    /\ Slot(Cached(v), s).size <= f.size /\ (f.write \/ Slot(Cached(v), s).size = f.size)
    /\ f.failed \/ (Stands(f, g[s].chain, f.pos) /\ f.pos <= f.size)
Handle(v, g, f, n) ==
    /\ f \in Object
    /\ f.open => \E s : Held(v, g, f, s, n)
    /\ ~f.open => f = Closed /\ Sizes(v, g, n)
Handles(v, g, files) == \A n \in Names : Handle(v, g, files[n], n)
IsContent(g, bytes) ==
    \A n \in Names :
        /\ \A s \in SlotNumbers : g[s].name = n => bytes[n] = g[s].bytes
        /\ (\A s \in SlotNumbers : g[s].name # n) => bytes[n] = NoFile

LEMMA FullBytes ==
    ASSUME NEW g, Owns(g), NEW c \in Whole(g), Current(c, g), NEW s \in SlotNumbers, g[s].name \in Names
    PROVE  /\ Named(c, s) /\ Slot(c, s).name = g[s].name
           /\ Bytes(c, g[s].name, Len(g[s].bytes)) = g[s].bytes
           /\ EntryOf(c, g[s].name) = Slot(c, s) /\ g[s].name \in Present(c)
<1> DEFINE p == g[s].chain
           b == g[s].bytes
<1>1. c \in Card /\ NamesAs(c, g) /\ Fits(c, g, s)
  BY WholeNames DEF Whole, Ok
<1>2. /\ Named(c, s) /\ Runs(c, p, Len(p)) /\ Len(b) <= Len(p) * ClusterBytes
      /\ \A j \in 1 .. Len(b) : ByteAt(c, p, j - 1) = b[j]
  BY DEF Current, Full
<1>3. p \in Seq(Clusters) /\ b \in Seq(Byte)
  BY DEF Owns
<1> HIDE DEF p, b
<1>4. Len(p) \in 0 .. Len(p) /\ Len(b) \in Nat
  BY <1>3
<1>5. Bytes(c, g[s].name, Len(b)) = FileBytes(c, p, Len(b))
  BY <1>1, <1>2, <1>4, FileRead DEF p
<1>6. FileBytes(c, p, Len(b)) = b
  <2> DEFINE q == FileBytes(c, p, Len(b))
  <2>1. q \in Seq(Byte) /\ Len(q) = Len(b) /\ \A i \in 1 .. Len(b) : q[i] = ByteAt(c, p, i - 1)
    BY <1>1, <1>2, <1>3, <1>4, FileBytesTyped
  <2> HIDE DEF q
  <2>2. \A i \in 1 .. Len(q) : q[i] = b[i]
    BY <1>2, <2>1
  <2>3. q = b
    BY <1>3, <2>1, <2>2, SeqEqual
  <2> QED
    BY <2>3 DEF q
<1>7. EntryOf(c, g[s].name) = Slot(c, s) /\ g[s].name \in Present(c)
  BY <1>1, <1>2, EntryFound
<1>8. Slot(c, s).name = g[s].name
  BY <1>1, <1>2 DEF NamesAs
<1> QED
  BY <1>2, <1>5, <1>6, <1>7, <1>8 DEF b

LEMMA NotThere ==
    ASSUME NEW g, Owns(g), NEW c \in Whole(g), NEW n \in Names, \A s \in SlotNumbers : g[s].name # n
    PROVE  (\A t \in SlotNumbers : Slot(c, t).name # n) /\ n \notin Present(c) /\ OnCard(c, n) = NoFile
<1>1. NamesAs(c, g)
  BY WholeNames
<1>2. \A t \in SlotNumbers : Slot(c, t).name # n
  BY <1>1 DEF NamesAs, Named
<1> QED
  BY <1>2, EntryNotFound

LEMMA SeenDone ==
    ASSUME NEW v, NEW g, NEW kept, NEW Lost, Settled(v, g, kept, Lost), NEW files, Handles(v, g, files)
    PROVE  IsContent(g, Seen(v, files, TRUE))
<1> DEFINE c == Cached(v)
<1>1. Owns(g) /\ c \in Whole(g) /\ Current(c, g)
  BY ImageMembers DEF Settled
<1>2. \A n \in Names : Seen(v, files, TRUE)[n] = Content(v, files[n], n)
  BY DEF Seen
<1>3. ASSUME NEW n \in Names, NEW s \in SlotNumbers, g[s].name = n
      PROVE  Content(v, files[n], n) = g[s].bytes
  <2>0. Handle(v, g, files[n], n)
    BY DEF Handles
  <2>1. Bytes(c, n, Len(g[s].bytes)) = g[s].bytes /\ EntryOf(c, n) = Slot(c, s) /\ n \in Present(c)
    BY <1>1, <1>3, FullBytes
  <2>2. CASE files[n].open
    <3>1. PICK t : Held(v, g, files[n], t, n)
      BY <2>0, <2>2 DEF Handle
    <3>2. t \in SlotNumbers /\ g[t].name = n /\ files[n].size = Len(g[t].bytes)
      BY <3>1 DEF Held, HandleOn, EndAt
    <3>3. t = s
      BY <1>1, <1>3, <3>2 DEF Owns
    <3> QED
      BY <2>1, <2>2, <3>2, <3>3 DEF Content
  <2>3. CASE ~files[n].open
    <3>1. Slot(c, s).size = Len(g[s].bytes)
      BY <1>3, <2>0, <2>3 DEF Handle, Sizes
    <3> QED
      BY <2>1, <2>3, <3>1 DEF Content, OnCard
  <2> QED
    BY <2>2, <2>3
<1>4. ASSUME NEW n \in Names, \A s \in SlotNumbers : g[s].name # n
      PROVE  Content(v, files[n], n) = NoFile
  <2>0. Handle(v, g, files[n], n)
    BY DEF Handles
  <2>1. ~files[n].open
    <3> SUFFICES ASSUME files[n].open PROVE FALSE
      OBVIOUS
    <3>1. PICK t : Held(v, g, files[n], t, n)
      BY <2>0 DEF Handle
    <3> QED
      BY <1>4, <3>1 DEF Held, HandleOn
  <2>2. OnCard(c, n) = NoFile
    BY <1>1, <1>4, NotThere
  <2> QED
    BY <2>1, <2>2 DEF Content
<1> QED
  BY <1>2, <1>3, <1>4 DEF IsContent

-----------------------------------------------------------------------------
(* Where a call may be cut short: what is on the card then.                *)
Survivors(kept) == {c \in Card : Survive(c, kept)}
SafeCards(how, kept) == IF how = "torn" THEN Survivors(kept) ELSE WholeCards(kept)
LostIn(how) == IF how = "whole" THEN {} ELSE Clusters

LEMMA WholeSurvives ==
    ASSUME NEW kept
    PROVE  /\ WholeCards(kept) \subseteq Survivors(kept)
           /\ \A how : WholeCards(kept) \subseteq SafeCards(how, kept)
<1>1. ASSUME NEW c \in WholeCards(kept) PROVE c \in Survivors(kept)
  <2>1. PICK g : Owns(g) /\ Keeps(g, kept) /\ c \in Whole(g)
    BY <1>1 DEF WholeCards
  <2>2. c \in Card /\ NamesAs(c, g) /\ \A s \in SlotNumbers : Ok(c, g, s)
    BY <2>1, WholeNames DEF Whole
  <2>3. Survive(c, kept)
    BY <2>1, <2>2, OkSurvives
  <2> QED
    BY <2>2, <2>3 DEF Survivors
<1> QED
  BY <1>1 DEF SafeCards

LEMMA ButSurvives ==
    ASSUME NEW g, Owns(g), NEW kept, Keeps(g, kept), NEW s \in SlotNumbers, kept[g[s].name] = NoFile
    PROVE  But(g, s) \subseteq Survivors(kept)
<1> SUFFICES ASSUME NEW c \in But(g, s) PROVE Survive(c, kept) /\ c \in Card
  BY DEF Survivors
<1>1. NamesAs(c, g) /\ c \in Card /\ \A t \in SlotNumbers \ {s} : Ok(c, g, t)
  BY WholeNames DEF But
<1>2. \A t \in SlotNumbers : g[t].name \in Names /\ kept[g[t].name] # NoFile => Ok(c, g, t)
  BY <1>1
<1> QED
  BY <1>1, <1>2, OkSurvives

(* Less need not be kept.                                                  *)
Without(kept, n) == [m \in Names |-> IF m = n THEN NoFile ELSE kept[m]]

LEMMA KeepsLess ==
    ASSUME NEW g, NEW kept, NEW n, NEW less, less = Without(kept, n), Keeps(g, kept)
    PROVE  Keeps(g, less)
BY DEF Keeps, Without

-----------------------------------------------------------------------------
(* A call begins and ends.                                                 *)
Resting(v) ==
    v.cuts = {} /\ Good(v) /\ v.f = Closed /\ v.count = 0 /\ v.got = <<>>
Begin(v, f) == [v EXCEPT !.f = f]

LEMMA BeginDone ==
    ASSUME NEW v, Resting(v), NEW g, NEW kept, NEW Lost, Settled(v, g, kept, Lost), NEW f \in Object,
           NEW how, NEW w, w = Begin(v, f)
    PROVE  /\ System(w, g, kept, SafeCards(how, kept), Lost) /\ Good(w) /\ Cached(w) = Cached(v)
           /\ w.f = f /\ w.count = 0 /\ w.got = <<>>
<1>1. v \in Volume /\ Vol(v)
  BY DEF Settled, Vol
<1>2. /\ w \in Volume /\ SameBuffers(v, w) /\ w.err = v.err /\ w.f = f /\ w.count = v.count /\ w.got = v.got
      /\ w.cuts = v.cuts
  BY <1>1 DEF Begin, Volume, SameBuffers, SameFat, SameData
<1>3. WholeCards(kept) \subseteq SafeCards(how, kept)
  BY WholeSurvives
<1>4. v.cuts \subseteq SafeCards(how, kept)
  BY DEF Resting
<1>5. System(v, g, kept, SafeCards(how, kept), Lost)
  BY <1>3, <1>4, SystemSettled
<1>6. System(w, g, kept, SafeCards(how, kept), Lost) /\ Cached(w) = Cached(v)
  BY <1>2, <1>5, SystemBuffers
<1> QED
  BY <1>2, <1>6 DEF Resting, Good

LEMMA RestDone ==
    ASSUME NEW w, NEW h, NEW kept, NEW Lost, Settled(w, h, kept, Lost), NEW r, r = Rest(w)
    PROVE  Settled(r, h, kept, Lost) /\ Cached(r) = Cached(w) /\ Resting(r)
<1>1. w \in Volume /\ Vol(w)
  BY DEF Settled, Vol
<1>2. /\ r.card = w.card /\ SameFat(w, r) /\ SameData(w, r)
      /\ r.cuts = {} /\ r.err = "none" /\ r.found = 0 /\ r.f = Closed /\ r.count = 0 /\ r.got = <<>>
  BY <1>1 DEF Rest, Volume, SameFat, SameData
<1>3. r \in Volume
  <2>1. Closed \in Object /\ "none" \in Errors /\ <<>> \in Seq(Byte)
    BY ClosedObject DEF Errors
  <2> QED
    BY <1>1, <2>1 DEF Rest, Volume
<1>4. FatCoherent(r) /\ DataCoherent(r)
  BY <1>1, <1>2 DEF Vol, FatCoherent, DataCoherent, SameFat, SameData
<1>5. Vol(r)
  BY <1>3, <1>4 DEF Vol
<1>6. WithFat(r) = WithFat(w) /\ WithData(r) = WithData(w) /\ Cached(r) = Cached(w)
  BY <1>2 DEF WithFat, WithData, Cached, SameFat, SameData
<1>7. Images(r) = Images(w)
  BY <1>2, <1>6 DEF Images
<1>8. Resting(r)
  BY <1>2 DEF Resting, Good
<1> QED
  BY <1>5, <1>6, <1>7, <1>8 DEF Settled

(* The handles of the files that a call is not about.                      *)
Untouched(v, w, g, h, m) ==
    \A t \in SlotNumbers : g[t].name = m \/ h[t].name = m
        => h[t] = g[t] /\ Slot(Cached(w), t) = Slot(Cached(v), t)

LEMMA UntouchedHandle ==
    ASSUME NEW v, NEW w, NEW g, NEW h, NEW m, Untouched(v, w, g, h, m), NEW f, Handle(v, g, f, m)
    PROVE  Handle(w, h, f, m)
<1>1. ASSUME f.open PROVE \E s : Held(w, h, f, s, m)
  <2>1. PICK s : Held(v, g, f, s, m)
    BY <1>1 DEF Handle
  <2>2. s \in SlotNumbers /\ g[s].name = m
    BY <2>1 DEF Held, HandleOn
  <2>3. h[s] = g[s] /\ Slot(Cached(w), s) = Slot(Cached(v), s)
    BY <2>2 DEF Untouched
  <2>4. Held(w, h, f, s, m)
    BY <2>1, <2>3 DEF Held, HandleOn, EndAt
  <2> QED
    BY <2>4
<1>2. ASSUME ~f.open PROVE f = Closed /\ Sizes(w, h, m)
  <2>1. f = Closed /\ Sizes(v, g, m)
    BY <1>2 DEF Handle
  <2>2. ASSUME NEW t \in SlotNumbers, h[t].name = m PROVE Slot(Cached(w), t).size = Len(h[t].bytes)
    <3>1. h[t] = g[t] /\ Slot(Cached(w), t) = Slot(Cached(v), t)
      BY <2>2 DEF Untouched
    <3> QED
      BY <2>1, <2>2, <3>1 DEF Sizes
  <2> QED
    BY <2>1, <2>2 DEF Sizes
<1> QED
  BY <1>1, <1>2 DEF Handle

LEMMA SameCachedHandle ==
    ASSUME NEW v, NEW w, NEW g, NEW f, NEW m, Cached(w) = Cached(v), Handle(v, g, f, m)
    PROVE  Handle(w, g, f, m)
BY DEF Handle, Held, Sizes

HandlesBut(v, g, files, n) == \A m \in Names : m # n => Handle(v, g, files[m], m)

LEMMA OthersHandled ==
    ASSUME NEW v, NEW w, NEW g, NEW h, NEW n, Others(v, w, g, h, n), NEW u, Cached(u) = Cached(v),
           NEW files, Handles(u, g, files)
    PROVE  HandlesBut(w, h, files, n)
<1> SUFFICES ASSUME NEW m \in Names, m # n PROVE Handle(w, h, files[m], m)
  BY DEF HandlesBut
<1>1. Handle(v, g, files[m], m)
  BY SameCachedHandle DEF Handles
<1>2. Untouched(v, w, g, h, m)
  BY DEF Others, Untouched
<1> QED
  BY <1>1, <1>2, UntouchedHandle

(* A call on the file of a slot.                                           *)
OnlyOn(v, w, g, h, s) ==
    /\ h[s].name = g[s].name
    /\ \A t \in SlotNumbers : t # s => h[t] = g[t] /\ Slot(Cached(w), t) = Slot(Cached(v), t)

LEMMA OnlyOnOthers ==
    ASSUME NEW v, NEW w, NEW g, NEW h, NEW s \in SlotNumbers, OnlyOn(v, w, g, h, s), NEW n, g[s].name = n
    PROVE  Others(v, w, g, h, n)
BY DEF OnlyOn, Others

-----------------------------------------------------------------------------
(* Between two calls the card is in: a ghost describes the drive and the   *)
(* file objects, and after a removal that was cut short, nothing is run.   *)
Described(v, g, files, kept, how) == Settled(v, g, kept, LostIn(how)) /\ Handles(v, g, files)
Inside(v, files, kept, how) ==
    how # "torn" /\ Resting(v) /\ \E g : Described(v, g, files, kept, how)

(* Or it was pulled out: it is one that a call may leave.                  *)
Outside(v, files, kept, how) ==
    /\ how # "whole" /\ \A n \in Names : files[n] = Closed
    /\ v.card \in SafeCards(how, kept) /\ v = Mounted(v.card)

Typed ==
    /\ file \in [Names -> Object] /\ version \in [Names -> {0, 1}]
    /\ flushed \in [Names -> Seq(Byte) \cup {NoFile}]
    /\ plugged \in BOOLEAN /\ card \in {"whole", "cut", "torn"}
    /\ content = Seen(vol, file, plugged)

(* The inductive invariant.                                                *)
FatInv ==
    /\ Typed
    /\ plugged => Inside(vol, file, flushed, card)
    /\ ~plugged => Outside(vol, file, flushed, card)

LEMMA InsideSound ==
    ASSUME NEW v, NEW files, NEW kept, NEW how, Inside(v, files, kept, how)
    PROVE  /\ Sound(v.card) /\ Survive(v.card, kept)
           /\ how = "whole" => LinkedClusters(Cached(v)) = FileClusters(Cached(v))
<1>1. PICK g : Described(v, g, files, kept, how)
  BY DEF Inside
<1>2. /\ Owns(g) /\ Keeps(g, kept) /\ v.card \in Whole(g) /\ Cached(v) \in Whole(g) /\ Current(Cached(v), g)
      /\ Tight(Cached(v), g, LostIn(how))
  BY <1>1, ImageMembers DEF Described, Settled
<1>3. Sound(v.card)
  BY <1>2, WholeSound
<1>4. v.card \in Survivors(kept)
  BY <1>2, WholeSafe, WholeSurvives
<1>5. ASSUME how = "whole" PROVE LinkedClusters(Cached(v)) = FileClusters(Cached(v))
  <2>1. Tight(Cached(v), g, {})
    BY <1>2, <1>5 DEF LostIn
  <2> QED
    BY <1>2, <2>1, CurrentLoses
<1> QED
  BY <1>3, <1>4, <1>5 DEF Survivors

LEMMA OutsideSound ==
    ASSUME NEW v, NEW files, NEW kept, NEW how, Outside(v, files, kept, how)
    PROVE  (how # "torn" => Sound(v.card)) /\ Survive(v.card, kept)
<1>1. v.card \in SafeCards(how, kept)
  BY DEF Outside
<1>2. ASSUME how # "torn" PROVE Sound(v.card)
  <2>1. v.card \in WholeCards(kept)
    BY <1>1, <1>2 DEF SafeCards
  <2>2. PICK g : Owns(g) /\ v.card \in Whole(g)
    BY <2>1 DEF WholeCards
  <2> QED
    BY <2>2, WholeSound
<1>3. v.card \in Survivors(kept)
  BY <1>1, WholeSurvives DEF SafeCards
<1> QED
  BY <1>2, <1>3 DEF Survivors

LEMMA FatInvImplies ==
    ASSUME FatInv
    PROVE  CardSound /\ NoLostCluster /\ FlushedSurvives
<1>0. plugged \in BOOLEAN
  BY DEF FatInv, Typed
<1>1. CASE plugged
  <2>1. Inside(vol, file, flushed, card)
    BY <1>1 DEF FatInv
  <2>2. /\ Sound(vol.card) /\ Survive(vol.card, flushed)
        /\ card = "whole" => LinkedClusters(Cached(vol)) = FileClusters(Cached(vol))
    BY <2>1, InsideSound
  <2> QED
    BY <2>2 DEF CardSound, NoLostCluster, FlushedSurvives, Survive
<1>2. CASE ~plugged
  <2>1. Outside(vol, file, flushed, card)
    BY <1>2 DEF FatInv
  <2>2. (card # "torn" => Sound(vol.card)) /\ Survive(vol.card, flushed) /\ card # "whole"
    BY <2>1, OutsideSound DEF Outside
  <2> QED
    BY <2>2 DEF CardSound, NoLostCluster, FlushedSurvives, Survive
<1> QED
  BY <1>0, <1>1, <1>2

(* A call on a file returns.                                               *)
LEMMA ReturnDone ==
    ASSUME FatInv, plugged, NEW n \in Names, NEW v, NEW h, NEW object, NEW ended, NEW bytes,
           ReturnOf(n, v, object, ended, bytes), HandlesBut(v, h, file, n), Settled(v, h, flushed', LostIn(card)), Handle(v, h, object, n),
           version' \in [Names -> {0, 1}], flushed' \in [Names -> Seq(Byte) \cup {NoFile}]
    PROVE  FatInv'
<1> DEFINE r == Rest(v)
<1>1. /\ vol' = r /\ file' = [file EXCEPT ![n] = object] /\ content' = Seen(vol', file', TRUE)
      /\ plugged' = plugged /\ card' = card
  BY DEF ReturnOf
<1>2. Settled(r, h, flushed', LostIn(card)) /\ Cached(r) = Cached(v) /\ Resting(r)
  BY RestDone
<1> HIDE DEF r
<1>3. file \in [Names -> Object] /\ card \in {"whole", "cut", "torn"} /\ card # "torn" /\ plugged = TRUE
  BY DEF FatInv, Typed, Inside
<1>4. object \in Object
  BY DEF Handle
<1>5. file' \in [Names -> Object] /\ file'[n] = object /\ \A m \in Names : m # n => file'[m] = file[m]
  BY <1>1, <1>3, <1>4
<1>6. Handle(r, h, object, n)
  BY <1>2, SameCachedHandle
<1>7. ASSUME NEW m \in Names, m # n PROVE Handle(r, h, file'[m], m)
  <2>1. Handle(v, h, file[m], m) /\ file'[m] = file[m]
    BY <1>5, <1>7 DEF HandlesBut
  <2> QED
    BY <1>2, <2>1, SameCachedHandle
<1>8. Handles(vol', h, file')
  BY <1>1, <1>5, <1>6, <1>7 DEF Handles
<1>9. Inside(vol', file', flushed', card')
  <2>1. Described(vol', h, file', flushed', card')
    BY <1>1, <1>2, <1>8 DEF Described
  <2> QED
    BY <1>1, <1>2, <1>3, <2>1 DEF Inside
<1>10. Typed'
  BY <1>1, <1>3, <1>5 DEF Typed
<1> QED
  BY <1>1, <1>3, <1>9, <1>10 DEF FatInv

(* Or the card is pulled out before it does.                               *)
LEMMA PulledDone ==
    ASSUME FatInv, NEW v, NEW how, PulledOut(v, how), how \in {"cut", "torn"},
           v.cuts \subseteq SafeCards(how, flushed'),
           version' \in [Names -> {0, 1}], flushed' \in [Names -> Seq(Byte) \cup {NoFile}]
    PROVE  FatInv'
<1>1. /\ file' = [n \in Names |-> Closed] /\ content' = Seen(vol', file', FALSE) /\ plugged' = FALSE /\ card' = how
  BY DEF PulledOut
<1>2. PICK c \in v.cuts : vol' = Mounted(c)
  BY DEF PulledOut
<1>3. vol'.card = c
  BY <1>2 DEF Mounted
<1>4. \A n \in Names : file'[n] = Closed
  BY <1>1
<1>5. Outside(vol', file', flushed', card')
  BY <1>1, <1>2, <1>3, <1>4 DEF Outside
<1>6. file' \in [Names -> Object]
  BY <1>1, ClosedObject
<1>7. Typed'
  BY <1>1, <1>6 DEF Typed
<1> QED
  BY <1>1, <1>5, <1>7 DEF FatInv

-----------------------------------------------------------------------------
(* The calls one by one. The file object of one that begins.               *)
Begun(v, g, n) ==
    /\ Handles(vol, g, file) /\ Owns(g) /\ Settled(vol, g, flushed, LostIn(card))
    /\ System(v, g, flushed, WholeCards(flushed), LostIn(card)) /\ Vol(v)
    /\ Good(v) /\ Cached(v) = Cached(vol) /\ v.f = file[n] /\ v.count = 0 /\ v.got = <<>>
    /\ Handle(v, g, file[n], n)

LEMMA CallBegins ==
    ASSUME FatInv, plugged, NEW n \in Names
    PROVE  \E g : Begun(Start(n), g, n)
<1>1. Inside(vol, file, flushed, card) /\ Typed
  BY DEF FatInv
<1>2. PICK g : Described(vol, g, file, flushed, card)
  BY <1>1 DEF Inside
<1>3. Settled(vol, g, flushed, LostIn(card)) /\ Handles(vol, g, file) /\ Resting(vol) /\ Owns(g)
  BY <1>1, <1>2 DEF Described, Inside, Settled
<1>4. Handle(vol, g, file[n], n) /\ file[n] \in Object
  BY <1>3 DEF Handles, Handle
<1>5. Start(n) = Begin(vol, file[n])
  BY DEF Start, Begin
<1>6. /\ System(Start(n), g, flushed, SafeCards("cut", flushed), LostIn(card)) /\ Good(Start(n))
      /\ Cached(Start(n)) = Cached(vol)
      /\ Start(n).f = file[n] /\ Start(n).count = 0 /\ Start(n).got = <<>>
  BY <1>3, <1>4, <1>5, BeginDone
<1>7. System(Start(n), g, flushed, WholeCards(flushed), LostIn(card)) /\ Vol(Start(n))
  BY <1>6 DEF SafeCards, System
<1>8. Handle(Start(n), g, file[n], n)
  BY <1>4, <1>6, SameCachedHandle
<1> QED
  BY <1>3, <1>6, <1>7, <1>8 DEF Begun

LEMMA BegunOpen ==
    ASSUME NEW v, NEW g, NEW n \in Names, Begun(v, g, n), file[n].open
    PROVE  \E s \in SlotNumbers : Held(v, g, v.f, s, n)
BY DEF Begun, Handle, Held, HandleOn

(* How a file object is left.                                              *)
WithFailed(f, b) == [f EXCEPT !.failed = b]
WithOpen(f, b) == [f EXCEPT !.open = b]
LEMMA ObjectLeft ==
    ASSUME NEW f \in Object, NEW b \in BOOLEAN
    PROVE  /\ WithFailed(f, b) \in Object /\ WithOpen(f, b) \in Object
           /\ WithFailed(f, b).failed = b /\ WithFailed(f, b).open = f.open /\ WithOpen(f, b).open = b
           /\ \A g, s : HandleOn(f, g, s) => HandleOn(WithFailed(f, b), g, s) /\ HandleOn(WithOpen(f, b), g, s)
           /\ \A p, pos : Stands(f, p, pos) => Stands(WithFailed(f, b), p, pos) /\ Stands(WithOpen(f, b), p, pos)
           /\ WithFailed(f, b).pos = f.pos /\ WithFailed(f, b).size = f.size /\ WithFailed(f, b).write = f.write
           /\ WithOpen(f, b).pos = f.pos /\ WithOpen(f, b).size = f.size /\ WithOpen(f, b).write = f.write
<1>1. /\ WithFailed(f, b) \in Object /\ WithOpen(f, b) \in Object
      /\ WithFailed(f, b).failed = b /\ WithFailed(f, b).open = f.open /\ WithOpen(f, b).open = b
      /\ WithFailed(f, b).pos = f.pos /\ WithFailed(f, b).size = f.size /\ WithFailed(f, b).write = f.write
      /\ WithOpen(f, b).pos = f.pos /\ WithOpen(f, b).size = f.size /\ WithOpen(f, b).write = f.write
      /\ WithFailed(f, b).first = f.first /\ WithFailed(f, b).entry = f.entry
      /\ WithOpen(f, b).first = f.first /\ WithOpen(f, b).entry = f.entry
      /\ WithFailed(f, b).cluster = f.cluster /\ WithFailed(f, b).sector = f.sector /\ WithFailed(f, b).offset = f.offset
      /\ WithOpen(f, b).cluster = f.cluster /\ WithOpen(f, b).sector = f.sector /\ WithOpen(f, b).offset = f.offset
  BY DEF WithFailed, WithOpen, Object
<1>2. \A g, s : HandleOn(f, g, s) => HandleOn(WithFailed(f, b), g, s) /\ HandleOn(WithOpen(f, b), g, s)
  BY <1>1 DEF HandleOn, EndAt
<1>3. \A p, pos : Stands(f, p, pos) => Stands(WithFailed(f, b), p, pos) /\ Stands(WithOpen(f, b), p, pos)
  BY <1>1 DEF Stands, At, Behind
<1> QED
  BY <1>1, <1>2, <1>3

LEMMA HistoryTyped ==
    ASSUME FatInv
    PROVE  /\ version \in [Names -> {0, 1}] /\ flushed \in [Names -> Seq(Byte) \cup {NoFile}]
           /\ file \in [Names -> Object] /\ card \in {"whole", "cut", "torn"}
BY DEF FatInv, Typed

LEMMA CutSafe ==
    ASSUME NEW v, NEW g, NEW kept, NEW Lost, System(v, g, kept, WholeCards(kept), Lost)
    PROVE  v.cuts \subseteq SafeCards("cut", kept) /\ Settled(v, g, kept, Lost)
BY SystemSettled DEF SafeCards

(* A call that only reads leaves the files as they are.                    *)
LEMMA ReadingDone ==
    ASSUME NEW u, NEW v, NEW g, NEW n \in Names, Begun(u, g, n), file[n].open, ~file[n].failed,
           NEW length \in Nat, v = Read(u, length)
    PROVE  \E s \in SlotNumbers :
              /\ ReadingOn(u, v, g, s) /\ Held(u, g, u.f, s, n)
              /\ System(v, g, flushed, WholeCards(flushed), LostIn(card))
              /\ HandlesBut(v, g, file, n) /\ Handle(v, g, v.f, n)
<1>1. PICK s \in SlotNumbers : Held(u, g, u.f, s, n)
  BY BegunOpen
<1>2. /\ System(u, g, flushed, WholeCards(flushed), LostIn(card)) /\ Vol(u) /\ Owns(g)
      /\ Good(u) /\ Cached(u) = Cached(vol) /\ u.f = file[n] /\ u.got = <<>> /\ Handles(vol, g, file)
  BY DEF Begun
<1>3. /\ HandleOn(u.f, g, s) /\ g[s].name = n /\ Slot(Cached(u), s).size <= u.f.size
      /\ u.f.write \/ Slot(Cached(u), s).size = u.f.size
      /\ Stands(u.f, g[s].chain, u.f.pos) /\ u.f.pos <= u.f.size
  BY <1>1, <1>2 DEF Held
<1>4. Full(Cached(u), g, s)
  BY <1>2 DEF System, Current
<1>5. EndAt(g, s, u.f.size)
  BY <1>3 DEF HandleOn
<1>6. ReadingOn(u, v, g, s)
  BY <1>2, <1>3, <1>4, <1>5, ReadDone
<1>7. /\ Moves(u, v) /\ SameHandle(u.f, v.f) /\ v.f.size = u.f.size /\ Stands(v.f, g[s].chain, v.f.pos)
      /\ v.f.pos <= u.f.size
  BY <1>6 DEF ReadingOn
<1>8. System(v, g, flushed, WholeCards(flushed), LostIn(card))
  BY <1>2, <1>7, SystemMoves
<1>9. Cached(v) = Cached(u) /\ v.f \in Object
  BY <1>7 DEF Moves, Vol, Volume
<1>10. Handle(v, g, v.f, n)
  <2>1. HandleOn(v.f, g, s)
    BY <1>3, <1>7 DEF HandleOn, SameHandle
  <2>2. Held(v, g, v.f, s, n)
    BY <1>3, <1>7, <1>9, <2>1 DEF Held, SameHandle
  <2>3. v.f.open
    BY <1>2, <1>7 DEF SameHandle
  <2> QED
    BY <1>9, <2>2, <2>3 DEF Handle
<1>11. HandlesBut(v, g, file, n)
  BY <1>2, <1>9, SameCachedHandle DEF HandlesBut, Handles
<1> QED
  BY <1>1, <1>6, <1>8, <1>10, <1>11

LEMMA ReadKeeps ==
    ASSUME FatInv, NEW n \in Names, FILEIO_Read(n)
    PROVE  FatInv'
<1>1. /\ plugged /\ file[n].open /\ ~file[n].failed /\ version' = version /\ flushed' = flushed
  BY DEF FILEIO_Read, Usable
<1>2. PICK length \in Chunks : \E v \in {Read(Start(n), length)} : Return(n, v, v.f, TRUE) \/ PulledOut(v, "cut")
  BY DEF FILEIO_Read
<1> DEFINE v == Read(Start(n), length)
           t == TRUE
<1>3. Return(n, v, v.f, t) \/ PulledOut(v, "cut")
  BY <1>2
<1> HIDE DEF t
<1>4. length \in Nat
  BY ProgramAssumption
<1>5. PICK g : Begun(Start(n), g, n)
  BY <1>1, CallBegins
<1> HIDE DEF v
<1>6. /\ System(v, g, flushed, WholeCards(flushed), LostIn(card))
      /\ HandlesBut(v, g, file, n) /\ Handle(v, g, v.f, n)
  BY <1>1, <1>4, <1>5, ReadingDone DEF v
<1>7. v.cuts \subseteq SafeCards("cut", flushed') /\ Settled(v, g, flushed', LostIn(card))
  BY <1>1, <1>6, CutSafe
<1>8. version' \in [Names -> {0, 1}] /\ flushed' \in [Names -> Seq(Byte) \cup {NoFile}]
  BY <1>1, HistoryTyped
<1>9. CASE Return(n, v, v.f, t)
  BY <1>1, <1>6, <1>7, <1>8, <1>9, ReturnDone DEF Return
<1>10. CASE PulledOut(v, "cut")
  BY <1>7, <1>8, <1>10, PulledDone
<1> QED
  BY <1>3, <1>9, <1>10

(* A position is looked for.                                               *)
LEMMA SeekingDone ==
    ASSUME NEW u, NEW v, NEW g, NEW n \in Names, Begun(u, g, n), file[n].open, ~file[n].failed,
           NEW pos \in 0 .. file[n].size, v = SeekTo(u, pos), NEW b \in BOOLEAN, b = ~Good(v)
    PROVE  \E h : \E s \in SlotNumbers :
              /\ Seeked(u, v, g, h, s, pos) /\ Held(u, g, u.f, s, n)
              /\ System(v, h, flushed, WholeCards(flushed), LostIn(card))
              /\ HandlesBut(v, h, file, n) /\ Handle(v, h, WithFailed(v.f, b), n)
<1>1. PICK s \in SlotNumbers : Held(u, g, u.f, s, n)
  BY BegunOpen
<1>2. /\ System(u, g, flushed, WholeCards(flushed), LostIn(card)) /\ Vol(u) /\ Owns(g)
      /\ Good(u) /\ Cached(u) = Cached(vol) /\ u.f = file[n] /\ Handles(vol, g, file)
  BY DEF Begun
<1>3. /\ HandleOn(u.f, g, s) /\ g[s].name = n /\ Slot(Cached(u), s).size <= u.f.size
      /\ u.f.write \/ Slot(Cached(u), s).size = u.f.size
  BY <1>1, <1>2 DEF Held
<1>4. Len(g[s].chain) > 0 /\ u.f.first = g[s].chain[1] /\ EndAt(g, s, u.f.size) /\ g[s].name \in Names
  BY <1>3 DEF HandleOn
<1>5. pos \in 0 .. u.f.size
  BY <1>2
<1>6. PICK h : System(v, h, flushed, WholeCards(flushed), LostIn(card)) /\ Seeked(u, v, g, h, s, pos)
  BY <1>2, <1>4, <1>5, SeekDone
<1>7. /\ Longer(g, h, s) /\ SameHandle(u.f, v.f) /\ v.f.size = u.f.size /\ v.f.pos = pos
      /\ SameEntries(Cached(u), Cached(v)) /\ (Good(v) => Stands(v.f, h[s].chain, pos))
  BY <1>6 DEF Seeked
<1>8. v.f \in Object
  BY <1>6 DEF System, Vol, Volume
<1>9. HandleOn(v.f, h, s)
  BY <1>2, <1>3, <1>7, LongerHandle
<1>10. OnlyOn(u, v, g, h, s)
  BY <1>7 DEF OnlyOn, Longer, SameEntries
<1>11. HandlesBut(v, h, file, n)
  BY <1>2, <1>3, <1>10, OnlyOnOthers, OthersHandled
<1>12. Handle(v, h, WithFailed(v.f, b), n)
  <2> DEFINE o == WithFailed(v.f, b)
  <2>1. /\ o \in Object /\ o.failed = b /\ o.open = v.f.open /\ HandleOn(o, h, s)
        /\ (Stands(v.f, h[s].chain, pos) => Stands(o, h[s].chain, pos))
        /\ o.pos = v.f.pos /\ o.size = v.f.size /\ o.write = v.f.write
    BY <1>8, <1>9, ObjectLeft
  <2> HIDE DEF o
  <2>2. h[s].name = n /\ Slot(Cached(v), s) = Slot(Cached(u), s)
    BY <1>3, <1>7 DEF Longer, SameEntries
  <2>3. v.f.open = u.f.open /\ v.f.write = u.f.write
    BY <1>7 DEF SameHandle
  <2>7. o.pos <= o.size
    BY <1>5, <1>7, <2>1
  <2>8. o.failed \/ Stands(o, h[s].chain, o.pos)
    BY <1>7, <2>1
  <2>9. Slot(Cached(v), s).size <= o.size /\ (o.write \/ Slot(Cached(v), s).size = o.size)
    BY <1>3, <1>7, <2>1, <2>2, <2>3
  <2>4. Held(v, h, o, s, n)
    BY <2>1, <2>2, <2>7, <2>8, <2>9 DEF Held
  <2>5. o.open
    BY <1>2, <2>1, <2>3
  <2>6. Handle(v, h, o, n)
    BY <2>1, <2>4, <2>5 DEF Handle
  <2> QED
    BY <2>6 DEF o
<1> QED
  BY <1>1, <1>6, <1>11, <1>12

LEMMA SeekKeeps ==
    ASSUME FatInv, NEW n \in Names, FILEIO_Seek(n)
    PROVE  FatInv'
<1>1. /\ plugged /\ file[n].open /\ ~file[n].failed /\ version' = version /\ flushed' = flushed
  BY DEF FILEIO_Seek, Usable
<1>2. PICK pos \in 0 .. file[n].size : \E v \in {SeekTo(Start(n), pos)} :
        \/ Return(n, v, [v.f EXCEPT !.failed = ~Good(v)], Good(v)) \/ PulledOut(v, "cut")
  BY DEF FILEIO_Seek
<1> DEFINE v == SeekTo(Start(n), pos)
           b == ~Good(v)
           e == Good(v)
           o == WithFailed(v.f, b)
<1>3. Return(n, v, o, e) \/ PulledOut(v, "cut")
  BY <1>2 DEF WithFailed
<1>4. b \in BOOLEAN
  OBVIOUS
<1>5. PICK g : Begun(Start(n), g, n)
  BY <1>1, CallBegins
<1>a. b = ~Good(v)
  OBVIOUS
<1>b. v = SeekTo(Start(n), pos)
  OBVIOUS
<1> HIDE DEF v, b, e
<1>6. PICK h : /\ System(v, h, flushed, WholeCards(flushed), LostIn(card))
               /\ HandlesBut(v, h, file, n) /\ Handle(v, h, o, n)
  BY <1>1, <1>4, <1>5, <1>a, <1>b, SeekingDone
<1> HIDE DEF o
<1>7. v.cuts \subseteq SafeCards("cut", flushed') /\ Settled(v, h, flushed', LostIn(card))
  BY <1>1, <1>6, CutSafe
<1>8. version' \in [Names -> {0, 1}] /\ flushed' \in [Names -> Seq(Byte) \cup {NoFile}]
  BY <1>1, HistoryTyped
<1>9. CASE Return(n, v, o, e)
  BY <1>1, <1>6, <1>7, <1>8, <1>9, ReturnDone DEF Return
<1>10. CASE PulledOut(v, "cut")
  BY <1>7, <1>8, <1>10, PulledDone
<1> QED
  BY <1>3, <1>9, <1>10

(* What was flushed of a file is within its size.                          *)
LEMMA KeptWithin ==
    ASSUME NEW v, NEW g, NEW kept, NEW Safe, NEW Lost, System(v, g, kept, Safe, Lost), NEW s \in SlotNumbers,
           NEW size \in Nat, Slot(Cached(v), s).size <= size
    PROVE  KeptBefore(g, s, size)
<1>1. Cached(v) \in Whole(g)
  BY ImageMembers DEF System
<1>2. Holds(Cached(v), g, s) /\ Cached(v) \in Card
  BY <1>1 DEF Whole, Ok
<1>3. Slot(Cached(v), s).size \in Nat
  BY <1>2, SlotTyped DEF SlotEntry
<1>4. ASSUME g[s].kept # NoFile PROVE Len(g[s].kept) <= size
  <2>1. g[s].kept \in Seq(Byte) /\ Len(g[s].kept) <= Slot(Cached(v), s).size
    BY <1>2, <1>4 DEF Holds
  <2>2. Len(g[s].kept) \in Nat
    BY <2>1
  <2> QED
    BY <1>3, <2>1, <2>2
<1> QED
  BY <1>4 DEF KeptBefore

(* The bytes that a program writes.                                        *)
NewBytes(n, of, pos, length) == [i \in 1 .. length |-> <<n, of, pos + i>>]
LEMMA NewBytesTyped ==
    ASSUME NEW n \in Names, NEW of \in {0, 1}, NEW pos \in Nat, NEW length \in Nat
    PROVE  NewBytes(n, of, pos, length) \in Seq(Byte)
<1>1. \A i \in 1 .. length : <<n, of, pos + i>> \in Byte
  <2> SUFFICES ASSUME NEW i \in 1 .. length PROVE <<n, of, pos + i>> \in Byte
    OBVIOUS
  <2>1. of \in Nat /\ pos + i \in Nat \ {0}
    OBVIOUS
  <2> DEFINE k == pos + i
             T == Names \X Nat \X (Nat \ {0})
  <2>2. k \in Nat \ {0}
    BY <2>1
  <2> HIDE DEF k
  <2>3. <<n, of, k>> \in T
    BY <2>1, <2>2
  <2> DEFINE Z == {<<"zero", 0, 0>>}
             U == {c[s][j] : c \in Cards, s \in DataSectors, j \in 0 .. SECTOR - 1}
             t == <<n, of, k>>
  <2>5. Byte = Z \cup T \cup U
    BY DEF Byte
  <2>6. t \in T
    BY <2>3
  <2> HIDE DEF Z, T, U, t
  <2>7. t \in Byte
    BY <2>5, <2>6
  <2>4. <<n, of, k>> \in Byte
    BY <2>7 DEF t
  <2> QED
    BY <2>4 DEF k
<1> DEFINE b(i) == <<n, of, pos + i>>
<1>2. \A i \in 1 .. length : b(i) \in Byte
  BY <1>1
<1>4. NewBytes(n, of, pos, length) = [i \in 1 .. length |-> b(i)]
  BY Zenon DEF NewBytes
<1> HIDE DEF b
<1>3. [i \in 1 .. length |-> b(i)] \in Seq(Byte)
  BY <1>2
<1> QED
  BY <1>3, <1>4

LEMMA WritingDone ==
    ASSUME NEW u, NEW v, NEW g, NEW n \in Names, Begun(u, g, n), file[n].open, ~file[n].failed, file[n].write,
           file[n].pos = file[n].size, NEW bytes \in Seq(Byte), v = Write(u, bytes), NEW b \in BOOLEAN, b = ~Good(v)
    PROVE  \E h : \E s \in SlotNumbers :
              /\ Wrote(u, v, g, h, s, bytes) /\ Held(u, g, u.f, s, n)
              /\ System(v, h, flushed, WholeCards(flushed), LostIn(card))
              /\ HandlesBut(v, h, file, n) /\ Handle(v, h, WithFailed(v.f, b), n)
<1>1. PICK s \in SlotNumbers : Held(u, g, u.f, s, n)
  BY BegunOpen
<1>2. /\ System(u, g, flushed, WholeCards(flushed), LostIn(card)) /\ Vol(u) /\ Owns(g) /\ u.count = 0
      /\ Good(u) /\ Cached(u) = Cached(vol) /\ u.f = file[n] /\ Handles(vol, g, file)
  BY DEF Begun
<1>3. /\ HandleOn(u.f, g, s) /\ g[s].name = n /\ Slot(Cached(u), s).size <= u.f.size
      /\ Stands(u.f, g[s].chain, u.f.pos) /\ u.f.pos = u.f.size /\ u.f.write /\ u.f.open
  BY <1>1, <1>2 DEF Held
<1>4. Len(g[s].chain) > 0 /\ u.f.first = g[s].chain[1] /\ EndAt(g, s, u.f.size) /\ g[s].name \in Names /\ u.f.entry = s
  BY <1>3 DEF HandleOn
<1>5. u.f.size \in Nat /\ u.f.size = Len(g[s].bytes)
  BY <1>2, <1>3, HandleSize
<1>6. KeptBefore(g, s, u.f.size)
  BY <1>2, <1>3, <1>5, KeptWithin
<1>7. PICK h : System(v, h, flushed, WholeCards(flushed), LostIn(card)) /\ Wrote(u, v, g, h, s, bytes)
  BY <1>2, <1>3, <1>4, <1>6, WriteDone
<1>8. /\ Later(g, h, s) /\ SameHandle(u.f, v.f) /\ SameEntries(Cached(u), Cached(v))
      /\ h[s].bytes = IF Good(v) THEN g[s].bytes \o bytes ELSE g[s].bytes
      /\ v.f.size = Len(h[s].bytes)
      /\ (Good(v) => v.f.pos = v.f.size /\ Stands(v.f, h[s].chain, v.f.pos))
  BY <1>7 DEF Wrote
<1>9. v.f \in Object /\ g[s].bytes \in Seq(Byte)
  BY <1>2, <1>7 DEF System, Vol, Volume, Owns
<1>10. HandleOn(v.f, h, s) /\ h[s].name = n
  <2>1. h[s].name = g[s].name /\ Len(g[s].chain) <= Len(h[s].chain)
        /\ \A i \in 1 .. Len(g[s].chain) : h[s].chain[i] = g[s].chain[i]
    BY <1>8 DEF Later
  <2>2. Len(g[s].chain) \in Nat /\ Len(h[s].chain) \in Nat
    BY <1>2, <1>8 DEF Owns, Later
  <2>3. Len(h[s].chain) > 0 /\ h[s].chain[1] = g[s].chain[1]
    BY <1>4, <2>1, <2>2
  <2> QED
    BY <1>3, <1>4, <1>8, <2>1, <2>3 DEF HandleOn, SameHandle, EndAt
<1>11. OnlyOn(u, v, g, h, s)
  BY <1>8 DEF OnlyOn, Later, SameEntries
<1>12. HandlesBut(v, h, file, n)
  BY <1>2, <1>3, <1>11, OnlyOnOthers, OthersHandled
<1>13. v.f.size \in Nat /\ u.f.size <= v.f.size
  <2>1. Len(g[s].bytes \o bytes) = Len(g[s].bytes) + Len(bytes) /\ Len(bytes) \in Nat
    BY <1>9, Joined
  <2>2. CASE Good(v)
    BY <1>5, <1>8, <2>1, <2>2
  <2>3. CASE ~Good(v)
    BY <1>5, <1>8, <2>3
  <2> QED
    BY <2>2, <2>3
<1>14. Handle(v, h, WithFailed(v.f, b), n)
  <2> DEFINE o == WithFailed(v.f, b)
             pos == v.f.pos
  <2>1. /\ o \in Object /\ o.failed = b /\ o.open = v.f.open /\ HandleOn(o, h, s)
        /\ (Stands(v.f, h[s].chain, pos) => Stands(o, h[s].chain, pos))
        /\ o.pos = v.f.pos /\ o.size = v.f.size /\ o.write = v.f.write
    BY <1>9, <1>10, ObjectLeft
  <2> HIDE DEF o, pos
  <2>2. Slot(Cached(v), s) = Slot(Cached(u), s)
    BY <1>8 DEF SameEntries
  <2>3. v.f.open = u.f.open /\ v.f.write = u.f.write
    BY <1>8 DEF SameHandle
  <2>4. ~o.failed => Stands(o, h[s].chain, o.pos) /\ o.pos = o.size
    BY <1>8, <2>1 DEF pos
  <2>5. Slot(Cached(v), s).size <= o.size /\ o.size \in Nat
    <3>1. Slot(Cached(u), s).size \in Nat
      <4>1. Cached(u) \in Card
        BY <1>2, ImagesTyped, ImageMembers
      <4> QED
        BY <4>1, SlotTyped DEF SlotEntry
    <3> QED
      BY <1>3, <1>5, <1>13, <2>1, <2>2, <3>1
  <2>6. o.failed \/ (Stands(o, h[s].chain, o.pos) /\ o.pos <= o.size)
    BY <2>4, <2>5
  <2>7. Held(v, h, o, s, n)
    BY <1>3, <1>10, <2>1, <2>3, <2>5, <2>6 DEF Held
  <2>8. o.open
    BY <1>3, <2>1, <2>3
  <2>9. Handle(v, h, o, n)
    BY <2>1, <2>7, <2>8 DEF Handle
  <2> QED
    BY <2>9 DEF o
<1> QED
  BY <1>1, <1>7, <1>12, <1>14

LEMMA WriteKeeps ==
    ASSUME FatInv, Habits = {}, NEW n \in Names, FILEIO_Write(n)
    PROVE  FatInv'
<1>1. /\ plugged /\ file[n].open /\ ~file[n].failed /\ file[n].write /\ file[n].pos = file[n].size
      /\ version' = version /\ flushed' = flushed
  BY DEF FILEIO_Write, Usable
<1> DEFINE bytes(length) == NewBytes(n, version[n], file[n].pos, length)
<1>2. PICK length \in Chunks : \E v \in {Write(Start(n), bytes(length))} :
        \/ ReturnOf(n, v, [v.f EXCEPT !.failed = ~Good(v)], Good(v), bytes(length))
        \/ PulledOut(v, "cut")
  BY DEF FILEIO_Write, NewBytes
<1> DEFINE new == bytes(length)
           v == Write(Start(n), new)
           b == ~Good(v)
           e == Good(v)
           o == WithFailed(v.f, b)
<1>3. ReturnOf(n, v, o, e, new) \/ PulledOut(v, "cut")
  BY <1>2 DEF WithFailed
<1>4. new \in Seq(Byte)
  <2>1. version[n] \in {0, 1} /\ file[n] \in Object
    BY HistoryTyped
  <2>2. file[n].pos \in Nat
    BY <2>1 DEF Object
  <2>3. length \in Nat
    BY ProgramAssumption
  <2> QED
    BY <2>1, <2>2, <2>3, NewBytesTyped
<1>5. PICK g : Begun(Start(n), g, n)
  BY <1>1, CallBegins
<1>a. b = ~Good(v) /\ b \in BOOLEAN
  OBVIOUS
<1>b. v = Write(Start(n), new)
  OBVIOUS
<1> HIDE DEF new, v, b, e
<1>6. PICK h : /\ System(v, h, flushed, WholeCards(flushed), LostIn(card))
               /\ HandlesBut(v, h, file, n) /\ Handle(v, h, o, n)
  BY <1>1, <1>4, <1>5, <1>a, <1>b, WritingDone
<1> HIDE DEF o
<1>7. v.cuts \subseteq SafeCards("cut", flushed') /\ Settled(v, h, flushed', LostIn(card))
  BY <1>1, <1>6, CutSafe
<1>8. version' \in [Names -> {0, 1}] /\ flushed' \in [Names -> Seq(Byte) \cup {NoFile}]
  BY <1>1, HistoryTyped
<1>9. CASE ReturnOf(n, v, o, e, new)
  BY <1>1, <1>6, <1>7, <1>8, <1>9, ReturnDone
<1>10. CASE PulledOut(v, "cut")
  BY <1>7, <1>8, <1>10, PulledDone
<1> QED
  BY <1>3, <1>9, <1>10

(* The buffers are written: all of the bytes of the file are kept.         *)
LEMMA FlushingDone ==
    ASSUME FatInv, plugged, NEW u, NEW v, NEW g, NEW n \in Names, Begun(u, g, n), file[n].open, file[n].write,
           v = Flush(u), NEW kept, kept = Keeping(flushed, n, content[n])
    PROVE  \E h : /\ Settled(v, h, kept, LostIn(card)) /\ Good(v) /\ v.got = <<>>
                  /\ \A t \in SlotNumbers : h[t].name = g[t].name /\ h[t].bytes = g[t].bytes
                  /\ v.cuts \subseteq WholeCards(flushed)
                  /\ HandlesBut(v, h, file, n) /\ Handle(v, h, v.f, n) /\ Handle(v, h, Closed, n)
                  /\ v.f = u.f
<1>1. PICK s \in SlotNumbers : Held(u, g, u.f, s, n)
  BY BegunOpen
<1>2. /\ System(u, g, flushed, WholeCards(flushed), LostIn(card)) /\ Vol(u) /\ Owns(g)
      /\ Good(u) /\ Cached(u) = Cached(vol) /\ u.f = file[n] /\ Handles(vol, g, file) /\ u.got = <<>>
      /\ Settled(vol, g, flushed, LostIn(card))
  BY DEF Begun
<1>3. /\ HandleOn(u.f, g, s) /\ g[s].name = n /\ Slot(Cached(u), s).size <= u.f.size
      /\ u.f.failed \/ (Stands(u.f, g[s].chain, u.f.pos) /\ u.f.pos <= u.f.size)
      /\ u.f.write /\ u.f.open
  BY <1>1, <1>2 DEF Held
<1>4. EndAt(g, s, u.f.size) /\ g[s].name \in Names /\ u.f.entry = s
  BY <1>3 DEF HandleOn
<1>5. u.f.size \in Nat /\ u.f.size = Len(g[s].bytes) /\ u.f \in Object
  BY <1>2, <1>3, HandleSize DEF Vol, Volume
<1>6. content[n] = g[s].bytes
  <2>1. IsContent(g, Seen(vol, file, TRUE))
    BY <1>2, SeenDone
  <2>2. content = Seen(vol, file, TRUE)
    BY DEF FatInv, Typed
  <2> QED
    BY <1>3, <2>1, <2>2 DEF IsContent
<1> DEFINE h == Stored(g, s)
<1>7. Flushes(u, v, g, h, s, flushed, WholeCards(flushed), LostIn(card))
  BY <1>2, <1>3, <1>4, FlushDone
<1>8. /\ Settled(v, h, kept, LostIn(card)) /\ Good(v) /\ Quiet(u, v) /\ v.cuts \subseteq WholeCards(flushed)
      /\ Slot(Cached(v), s) = WithSize(Slot(Cached(u), s), u.f.size)
      /\ \A t \in SlotNumbers : t # s => Slot(Cached(v), t) = Slot(Cached(u), t)
  BY <1>3, <1>6, <1>7 DEF Flushes
<1>9. /\ \A t \in SlotNumbers : t # s => h[t] = g[t]
      /\ \A t \in SlotNumbers : h[t].name = g[t].name /\ h[t].chain = g[t].chain /\ h[t].bytes = g[t].bytes
  BY <1>2, <1>4, StoredOwns
<1> HIDE DEF h
<1>10. v.f = u.f /\ v.got = <<>>
  BY <1>2, <1>8 DEF Quiet
<1>11. OnlyOn(u, v, g, h, s)
  BY <1>8, <1>9 DEF OnlyOn
<1>12. HandlesBut(v, h, file, n)
  BY <1>2, <1>3, <1>11, OnlyOnOthers, OthersHandled
<1>13. Slot(Cached(v), s).size = u.f.size
  <2>1. Cached(u) \in Card
    BY <1>2, ImagesTyped, ImageMembers
  <2>2. Slot(Cached(u), s) \in SlotEntry
    BY <2>1, SlotTyped
  <2> QED
    BY <1>8, <2>2 DEF WithSize, SlotEntry
<1>14. Handle(v, h, v.f, n)
  <2>1. HandleOn(v.f, h, s)
    BY <1>3, <1>9, <1>10 DEF HandleOn, EndAt
  <2>2. Held(v, h, v.f, s, n)
    BY <1>3, <1>5, <1>9, <1>10, <1>13, <2>1 DEF Held
  <2> QED
    BY <1>3, <1>5, <1>10, <2>2 DEF Handle
<1>15. Sizes(v, h, n)
  <2> SUFFICES ASSUME NEW t \in SlotNumbers, h[t].name = n PROVE Slot(Cached(v), t).size = Len(h[t].bytes)
    BY DEF Sizes
  <2>1. t = s
    BY <1>2, <1>3, <1>4, <1>9 DEF Owns
  <2> QED
    BY <1>5, <1>9, <1>13, <2>1
<1>16. Handle(v, h, Closed, n)
  BY <1>15, ClosedObject DEF Handle
<1>17. \A t \in SlotNumbers : h[t].name = g[t].name /\ h[t].bytes = g[t].bytes
  BY <1>9
<1> QED
  BY <1>8, <1>10, <1>12, <1>14, <1>16, <1>17

LEMMA KeepingTyped ==
    ASSUME FatInv, plugged, NEW n \in Names
    PROVE  /\ [flushed EXCEPT ![n] = content[n]] = Keeping(flushed, n, content[n])
           /\ [flushed EXCEPT ![n] = @] = flushed
           /\ Keeping(flushed, n, content[n]) \in [Names -> Seq(Byte) \cup {NoFile}]
<1>1. flushed \in [Names -> Seq(Byte) \cup {NoFile}]
  BY HistoryTyped
<1>2. PICK g : Begun(Start(n), g, n)
  BY CallBegins
<1>3. content[n] \in Seq(Byte) \cup {NoFile}
  <2>1. IsContent(g, Seen(vol, file, TRUE))
    BY <1>2, SeenDone DEF Begun
  <2>2. content = Seen(vol, file, TRUE)
    BY DEF FatInv, Typed
  <2>3. \A s \in SlotNumbers : g[s].bytes \in Seq(Byte)
    BY <1>2 DEF Begun, Owns
  <2> QED
    BY <2>1, <2>2, <2>3 DEF IsContent
<1> DEFINE b == content[n]
<1> HIDE DEF b
<1>4. [flushed EXCEPT ![n] = b] = Keeping(flushed, n, b)
  BY <1>1 DEF Keeping
<1>5. [flushed EXCEPT ![n] = @] = flushed
  BY <1>1
<1>6. Keeping(flushed, n, b) \in [Names -> Seq(Byte) \cup {NoFile}]
  BY <1>1, <1>3 DEF Keeping, b
<1> QED
  BY <1>4, <1>5, <1>6 DEF b

LEMMA FlushKeeps ==
    ASSUME FatInv, NEW n \in Names, FILEIO_Flush(n)
    PROVE  FatInv'
<1>1. /\ plugged /\ file[n].open /\ file[n].write /\ version' = version
      /\ flushed' = [flushed EXCEPT ![n] = IF plugged' THEN content[n] ELSE @]
  BY DEF FILEIO_Flush, Usable
<1> DEFINE v == Flush(Start(n))
           e == Good(v)
           kept == Keeping(flushed, n, content[n])
<1>2. Return(n, v, v.f, e) \/ PulledOut(v, "cut")
  BY DEF FILEIO_Flush
<1>3. PICK g : Begun(Start(n), g, n)
  BY <1>1, CallBegins
<1>b. v = Flush(Start(n)) /\ kept = Keeping(flushed, n, content[n])
  OBVIOUS
<1>4. version' \in [Names -> {0, 1}] /\ flushed \in [Names -> Seq(Byte) \cup {NoFile}]
  BY <1>1, HistoryTyped
<1>5. kept \in [Names -> Seq(Byte) \cup {NoFile}]
  BY <1>1, KeepingTyped
<1>6. (plugged' => flushed' = kept) /\ (~plugged' => flushed' = flushed)
  BY <1>1, KeepingTyped
<1> HIDE DEF v, kept, e
<1>7. PICK h : /\ Settled(v, h, kept, LostIn(card)) /\ v.cuts \subseteq WholeCards(flushed)
               /\ HandlesBut(v, h, file, n) /\ Handle(v, h, v.f, n)
  BY <1>1, <1>3, <1>b, FlushingDone
<1>9. CASE Return(n, v, v.f, e)
  <2>1. flushed' = kept
    BY <1>1, <1>6, <1>9 DEF Return, ReturnOf
  <2> QED
    BY <1>1, <1>4, <1>5, <1>7, <1>9, <2>1, ReturnDone DEF Return
<1>10. CASE PulledOut(v, "cut")
  <2>1. flushed' = flushed
    BY <1>6, <1>10 DEF PulledOut
  <2>2. v.cuts \subseteq SafeCards("cut", flushed')
    BY <1>7, <2>1 DEF SafeCards
  <2> QED
    BY <1>4, <1>10, <2>1, <2>2, PulledDone
<1> QED
  BY <1>2, <1>9, <1>10

(* A file that was only read is closed without a transfer.                 *)
LEMMA ClosingDone ==
    ASSUME NEW u, NEW g, NEW n \in Names, Begun(u, g, n), file[n].open, ~file[n].write
    PROVE  HandlesBut(u, g, file, n) /\ Handle(u, g, Closed, n)
<1>1. PICK s \in SlotNumbers : Held(u, g, u.f, s, n)
  BY BegunOpen
<1>2. Cached(u) = Cached(vol) /\ u.f = file[n] /\ Handles(vol, g, file) /\ Owns(g)
  BY DEF Begun
<1>3. HandleOn(u.f, g, s) /\ g[s].name = n /\ Slot(Cached(u), s).size = u.f.size /\ u.f.size = Len(g[s].bytes)
  BY <1>1, <1>2 DEF Held, HandleOn, EndAt
<1>4. Sizes(u, g, n)
  BY <1>2, <1>3 DEF Sizes, Owns
<1>5. Handle(u, g, Closed, n)
  BY <1>4, ClosedObject DEF Handle
<1>6. HandlesBut(u, g, file, n)
  BY <1>2, SameCachedHandle DEF HandlesBut, Handles
<1> QED
  BY <1>5, <1>6

LEMMA CloseKeeps ==
    ASSUME FatInv, NEW n \in Names, FILEIO_Close(n)
    PROVE  FatInv'
<1>1. /\ plugged /\ file[n].open /\ version' = version
      /\ flushed' = [flushed EXCEPT ![n] = IF plugged' /\ file[n].write THEN content[n] ELSE @]
  BY DEF FILEIO_Close
<1> DEFINE v == Flush(Start(n))
           e == Good(v)
           kept == Keeping(flushed, n, content[n])
<1>2. Return(n, v, Closed, e) \/ PulledOut(v, "cut")
  BY DEF FILEIO_Close
<1>3. PICK g : Begun(Start(n), g, n)
  BY <1>1, CallBegins
<1>b. v = Flush(Start(n)) /\ kept = Keeping(flushed, n, content[n])
  OBVIOUS
<1>4. version' \in [Names -> {0, 1}] /\ flushed \in [Names -> Seq(Byte) \cup {NoFile}]
  BY <1>1, HistoryTyped
<1>5. kept \in [Names -> Seq(Byte) \cup {NoFile}]
  BY <1>1, KeepingTyped
<1>6. /\ plugged' /\ file[n].write => flushed' = kept
      /\ ~plugged' \/ ~file[n].write => flushed' = flushed
  BY <1>1, KeepingTyped
<1> HIDE DEF v, kept, e
<1>7. CASE file[n].write
  <2>1. PICK h : /\ Settled(v, h, kept, LostIn(card)) /\ v.cuts \subseteq WholeCards(flushed)
                 /\ HandlesBut(v, h, file, n) /\ Handle(v, h, Closed, n)
    BY <1>1, <1>3, <1>b, <1>7, FlushingDone
  <2>2. CASE Return(n, v, Closed, e)
    <3>1. flushed' = kept
      BY <1>1, <1>6, <1>7, <2>2 DEF Return, ReturnOf
    <3> QED
      BY <1>1, <1>4, <1>5, <2>1, <2>2, <3>1, ReturnDone DEF Return
  <2>3. CASE PulledOut(v, "cut")
    <3>1. flushed' = flushed
      BY <1>6, <2>3 DEF PulledOut
    <3>2. v.cuts \subseteq SafeCards("cut", flushed')
      BY <2>1, <3>1 DEF SafeCards
    <3> QED
      BY <1>4, <2>3, <3>1, <3>2, PulledDone
  <2> QED
    BY <1>2, <2>2, <2>3
<1>8. CASE ~file[n].write
  <2>1. v = Start(n)
    BY <1>3, <1>8 DEF v, Flush, Begun
  <2>2. flushed' = flushed
    BY <1>6, <1>8
  <2>3. v.cuts \subseteq SafeCards("cut", flushed') /\ Settled(v, g, flushed', LostIn(card))
    BY <1>3, <2>1, <2>2, CutSafe DEF Begun
  <2>4. HandlesBut(v, g, file, n) /\ Handle(v, g, Closed, n)
    BY <1>1, <1>3, <1>8, <2>1, ClosingDone
  <2>5. CASE Return(n, v, Closed, e)
    BY <1>1, <1>4, <2>2, <2>3, <2>4, <2>5, ReturnDone DEF Return
  <2>6. CASE PulledOut(v, "cut")
    BY <1>4, <2>2, <2>3, <2>6, PulledDone
  <2> QED
    BY <1>2, <2>5, <2>6
<1> QED
  BY <1>7, <1>8

(* A file that is erased need not be kept.                                 *)
KeptOnOpen(kept, n, erases) == IF erases THEN Without(kept, n) ELSE kept
HowOnOpen(erases) == IF erases THEN "torn" ELSE "cut"
LEMMA LessTyped ==
    ASSUME FatInv, NEW n \in Names, NEW kept, kept = Without(flushed, n)
    PROVE  kept \in [Names -> Seq(Byte) \cup {NoFile}] /\ kept = [flushed EXCEPT ![n] = NoFile] /\ kept[n] = NoFile
<1>1. flushed \in [Names -> Seq(Byte) \cup {NoFile}]
  BY HistoryTyped
<1> DEFINE z == NoFile
           F == Seq(Byte) \cup {NoFile}
<1>2. z \in F
  OBVIOUS
<1>3. Without(flushed, n) = [m \in Names |-> IF m = n THEN z ELSE flushed[m]]
  BY DEF Without
<1>5. flushed \in [Names -> F]
  BY <1>1
<1> HIDE DEF z, F
<1>4. [m \in Names |-> IF m = n THEN z ELSE flushed[m]] = [flushed EXCEPT ![n] = z]
  BY <1>5
<1>6. [m \in Names |-> IF m = n THEN z ELSE flushed[m]] \in [Names -> F]
  BY <1>2, <1>5
<1>7. [flushed EXCEPT ![n] = z][n] = z
  BY <1>5
<1> QED
  BY <1>3, <1>4, <1>6, <1>7 DEF z, F

LEMMA MayEraseHere ==
    ASSUME NEW v, NEW g, Owns(g), Cached(v) \in Whole(g), Current(Cached(v), g), NEW n \in Names, NEW mode,
           NEW kept, Keeps(g, kept), NEW erases \in BOOLEAN,
           (/\ n \in Present(Cached(v))
            /\ "TRUNCATE" \in mode \/ EntryOf(Cached(v), n).first = 0) => erases,
           erases => kept[n] = NoFile
    PROVE  MayErase(v, g, n, mode, kept, SafeCards(HowOnOpen(erases), kept))
<1> SUFFICES ASSUME NEW s \in SlotNumbers, g[s].name = n, Discards(Cached(v), s, mode)
             PROVE  kept[n] = NoFile /\ But(g, s) \subseteq SafeCards(HowOnOpen(erases), kept)
  BY DEF MayErase
<1>1. EntryOf(Cached(v), n) = Slot(Cached(v), s) /\ n \in Present(Cached(v))
  BY FullBytes
<1>2. erases
  BY <1>1 DEF Discards
<1>3. kept[g[s].name] = NoFile
  BY <1>2
<1>4. But(g, s) \subseteq Survivors(kept)
  BY <1>3, ButSurvives
<1>5. SafeCards(HowOnOpen(erases), kept) = Survivors(kept)
  BY <1>2 DEF SafeCards, HowOnOpen
<1> QED
  BY <1>2, <1>4, <1>5

(* A call on a file that is not open begins.                               *)
BegunClosed(u, g, n, kept, how) ==
    /\ Handles(vol, g, file) /\ Owns(g) /\ Cached(u) \in Whole(g) /\ Current(Cached(u), g) /\ Keeps(g, kept)
    /\ System(u, g, kept, SafeCards(how, kept), LostIn(card))
    /\ Good(u) /\ Cached(u) = Cached(vol) /\ u.got = <<>> /\ Sizes(u, g, n)
LEMMA CallBeginsClosed ==
    ASSUME FatInv, plugged, NEW n \in Names, ~file[n].open, NEW kept,
           kept = flushed \/ kept = Without(flushed, n), NEW how
    PROVE  \E g : BegunClosed(Start(n), g, n, kept, how)
<1>1. Inside(vol, file, flushed, card) /\ file \in [Names -> Object]
  BY DEF FatInv, Typed
<1>2. PICK g : Described(vol, g, file, flushed, card)
  BY <1>1 DEF Inside
<1>3. Resting(vol)
  BY <1>1 DEF Inside
<1>4. Settled(vol, g, flushed, LostIn(card)) /\ Handles(vol, g, file)
  BY <1>2 DEF Described
<1>5. Keeps(g, kept)
  BY <1>4, KeepsLess DEF Settled
<1>6. Settled(vol, g, kept, LostIn(card))
  BY <1>4, <1>5 DEF Settled
<1> DEFINE f == file[n]
           u == Start(n)
<1>7. f \in Object
  BY <1>1
<1>8. u = Begin(vol, f)
  BY DEF Start, Begin
<1> HIDE DEF f, u
<1>9. /\ System(u, g, kept, SafeCards(how, kept), LostIn(card)) /\ Good(u) /\ Cached(u) = Cached(vol)
      /\ u.got = <<>>
  BY <1>3, <1>6, <1>7, <1>8, BeginDone
<1>10. Handle(vol, g, file[n], n)
  BY <1>4 DEF Handles
<1>11. Sizes(u, g, n)
  BY <1>9, <1>10 DEF Handle, Sizes
<1>12. Cached(u) \in Whole(g) /\ Owns(g) /\ Current(Cached(u), g)
  BY <1>9, ImageMembers DEF System
<1> QED
  BY <1>4, <1>5, <1>9, <1>11, <1>12 DEF BegunClosed, u

LEMMA OpenedHandle ==
    ASSUME NEW u, NEW v, NEW g, NEW h, NEW n \in Names, Opened(u, v, g, h, n), v.f \in Object, Owns(h), NEW t \in BOOLEAN, t,
           NEW e \in BOOLEAN, e = Good(v), NEW o, o = IF e THEN WithOpen(v.f, t) ELSE Closed
    PROVE  Handle(v, h, o, n)
<1>1. Sizes(v, h, n)
  BY DEF Opened
<1>2. CASE ~e
  BY <1>1, <1>2, ClosedObject DEF Handle
<1>3. CASE e
  <2>1. PICK s : Opens(v, h, s, n)
    BY <1>3 DEF Opened
  <2> DEFINE w == WithOpen(v.f, t)
             pos == v.f.pos
             p == h[s].chain
  <2>2. HandleOn(v.f, h, s) /\ h[s].name = n /\ Stands(v.f, p, pos) /\ pos \in {0, v.f.size} /\ s \in SlotNumbers
    BY <2>1 DEF Opens, HandleOn
  <2>3. v.f.size \in Nat /\ v.f.size = Len(h[s].bytes)
    BY <2>2, HandleSize
  <2>4. /\ w \in Object /\ w.open = t /\ HandleOn(w, h, s)
        /\ (Stands(v.f, p, pos) => Stands(w, p, pos))
        /\ w.pos = pos /\ w.size = v.f.size
    BY <2>2, ObjectLeft
  <2> HIDE DEF w, pos, p
  <2>5. Slot(Cached(v), s).size = w.size
    BY <1>1, <2>2, <2>3, <2>4 DEF Sizes
  <2>6. w.pos <= w.size /\ w.size <= w.size
    BY <2>2, <2>3, <2>4
  <2>7. Held(v, h, w, s, n)
    BY <2>2, <2>4, <2>5, <2>6 DEF Held, p
  <2>8. o = w
    BY <1>3 DEF w
  <2> QED
    BY <2>4, <2>7, <2>8 DEF Handle
<1> QED
  BY <1>2, <1>3

LEMMA OpeningDone ==
    ASSUME FatInv, plugged, NEW n \in Names, ~file[n].open, NEW mode, NEW v, v = Open(Start(n), n, mode),
           NEW erases \in BOOLEAN, erases = Erases(n, mode), NEW kept, kept = KeptOnOpen(flushed, n, erases)
    PROVE  \E g : \E h : /\ BegunClosed(Start(n), g, n, kept, HowOnOpen(erases))
                  /\ System(v, h, kept, SafeCards(HowOnOpen(erases), kept), LostIn(card))
                  /\ Opened(Start(n), v, g, h, n) /\ HandlesBut(v, h, file, n)
<1> DEFINE u == Start(n)
           how == HowOnOpen(erases)
<1>1. kept = flushed \/ kept = Without(flushed, n)
  BY DEF KeptOnOpen
<1>2. PICK g : BegunClosed(u, g, n, kept, how)
  BY <1>1, CallBeginsClosed
<1>3. v = Open(u, n, mode)
  OBVIOUS
<1>4. erases => kept[n] = NoFile
  BY LessTyped DEF KeptOnOpen
<1> HIDE DEF u
<1>5. /\ Handles(vol, g, file) /\ Owns(g) /\ Cached(u) \in Whole(g) /\ Current(Cached(u), g) /\ Keeps(g, kept)
      /\ System(u, g, kept, SafeCards(how, kept), LostIn(card))
      /\ Good(u) /\ Cached(u) = Cached(vol) /\ u.got = <<>> /\ Sizes(u, g, n)
  BY <1>2 DEF BegunClosed
<1>6. (/\ n \in Present(Cached(u))
       /\ "TRUNCATE" \in mode \/ EntryOf(Cached(u), n).first = 0) => erases
  BY <1>5 DEF Erases
<1>7. MayErase(u, g, n, mode, kept, SafeCards(how, kept))
  BY <1>4, <1>5, <1>6, MayEraseHere
<1> HIDE DEF how
<1>8. PICK h : System(v, h, kept, SafeCards(how, kept), LostIn(card)) /\ Opened(u, v, g, h, n)
  BY <1>3, <1>5, <1>7, OpenDone
<1>9. HandlesBut(v, h, file, n)
  BY <1>5, <1>8, OthersHandled DEF Opened
<1> QED
  BY <1>2, <1>8, <1>9 DEF u, how

LEMMA OpenKeeps ==
    ASSUME FatInv, NEW n \in Names, NEW mode, FILEIO_Open(n, mode)
    PROVE  FatInv'
<1> DEFINE v == Open(Start(n), n, mode)
           e == Good(v)
           t == TRUE
           erases == Erases(n, mode)
           kept == KeptOnOpen(flushed, n, erases)
           how == HowOnOpen(erases)
           o == IF e THEN WithOpen(v.f, t) ELSE Closed
<1>1. plugged /\ ~file[n].open /\ version' = [version EXCEPT ![n] = IF Creates(n, mode) THEN 1 - @ ELSE @]
      /\ flushed' = [flushed EXCEPT ![n] = IF erases THEN NoFile ELSE @]
  BY DEF FILEIO_Open
<1>2. Return(n, v, o, e) \/ PulledOut(v, how)
  BY DEF FILEIO_Open, WithOpen, HowOnOpen
<1>3. version' \in [Names -> {0, 1}]
  <2>1. version \in [Names -> {0, 1}]
    BY HistoryTyped
  <2> DEFINE creates == Creates(n, mode)
  <2>2. version' = [version EXCEPT ![n] = IF creates THEN 1 - @ ELSE @]
    BY <1>1
  <2> HIDE DEF creates
  <2> QED
    BY <2>1, <2>2
<1>4. flushed' = kept /\ kept \in [Names -> Seq(Byte) \cup {NoFile}]
  <2>1. flushed \in [Names -> Seq(Byte) \cup {NoFile}]
    BY HistoryTyped
  <2>2. CASE erases
    <3>1. flushed' = [flushed EXCEPT ![n] = NoFile]
      BY <1>1, <2>2
    <3> QED
      BY <2>2, <3>1, LessTyped DEF KeptOnOpen
  <2>3. CASE ~erases
    <3>1. flushed' = flushed
      BY <1>1, <2>1, <2>3
    <3> QED
      BY <2>1, <2>3, <3>1 DEF KeptOnOpen
  <2> QED
    BY <2>2, <2>3
<1>b. /\ v = Open(Start(n), n, mode) /\ erases = Erases(n, mode) /\ kept = KeptOnOpen(flushed, n, erases)
      /\ e = Good(v) /\ o = IF e THEN WithOpen(v.f, t) ELSE Closed
  OBVIOUS
<1>c. erases \in BOOLEAN /\ e \in BOOLEAN /\ t \in BOOLEAN /\ t
  BY DEF Erases, Good
<1>d. how \in {"cut", "torn"} /\ how = HowOnOpen(erases)
  BY DEF HowOnOpen
<1> HIDE DEF v, e, t, erases, kept, how, o
<1>5. PICK g : \E h : /\ BegunClosed(Start(n), g, n, kept, HowOnOpen(erases))
                  /\ System(v, h, kept, SafeCards(HowOnOpen(erases), kept), LostIn(card))
                  /\ Opened(Start(n), v, g, h, n) /\ HandlesBut(v, h, file, n)
  BY <1>1, <1>b, <1>c, OpeningDone
<1>6. PICK h : /\ System(v, h, kept, SafeCards(how, kept), LostIn(card))
               /\ Opened(Start(n), v, g, h, n) /\ HandlesBut(v, h, file, n)
  BY <1>5, <1>d
<1>7. v.f \in Object /\ Owns(h) /\ v.cuts \subseteq SafeCards(how, kept) /\ Settled(v, h, kept, LostIn(card))
  BY <1>6, SystemSettled DEF Settled, Vol, Volume
<1>8. Handle(v, h, o, n)
  BY <1>6, <1>7, <1>b, <1>c, OpenedHandle
<1>9. CASE Return(n, v, o, e)
  BY <1>1, <1>3, <1>4, <1>6, <1>7, <1>8, <1>9, ReturnDone DEF Return
<1>10. CASE PulledOut(v, how)
  BY <1>3, <1>4, <1>7, <1>10, <1>d, PulledDone
<1> QED
  BY <1>2, <1>9, <1>10

(* A file is removed.                                                      *)
LEMMA RemovingDone ==
    ASSUME FatInv, plugged, NEW n \in Names, ~file[n].open, NEW v, v = RemoveFile(Start(n), n),
           NEW kept, kept = Without(flushed, n)
    PROVE  \E g : \E h : /\ BegunClosed(Start(n), g, n, kept, "torn")
                  /\ System(v, h, kept, Survivors(kept), LostIn(card))
                  /\ Removed(Start(n), v, g, h, n) /\ HandlesBut(v, h, file, n) /\ Handle(v, h, Closed, n)
<1> DEFINE u == Start(n)
<1>2. PICK g : BegunClosed(u, g, n, kept, "torn")
  BY CallBeginsClosed
<1>3. v = RemoveFile(u, n)
  OBVIOUS
<1>4. kept[n] = NoFile
  BY LessTyped
<1> HIDE DEF u
<1>5. /\ Handles(vol, g, file) /\ Owns(g) /\ Keeps(g, kept)
      /\ System(u, g, kept, Survivors(kept), LostIn(card))
      /\ Good(u) /\ Cached(u) = Cached(vol)
  BY <1>2 DEF BegunClosed, SafeCards
<1>6. MayRemove(g, n, kept, Survivors(kept))
  BY <1>4, <1>5, ButSurvives DEF MayRemove
<1>7. PICK h : System(v, h, kept, Survivors(kept), LostIn(card)) /\ Removed(u, v, g, h, n)
  BY <1>3, <1>5, <1>6, RemoveDone
<1>8. HandlesBut(v, h, file, n)
  BY <1>5, <1>7, OthersHandled DEF Removed
<1>9. Handle(v, h, Closed, n)
  BY <1>7, ClosedObject DEF Handle, Removed, Sizes
<1> QED
  BY <1>2, <1>7, <1>8, <1>9 DEF u

LEMMA RemoveKeeps ==
    ASSUME FatInv, NEW n \in Names, FILEIO_Remove(n)
    PROVE  FatInv'
<1> DEFINE v == RemoveFile(Start(n), n)
           e == Good(v)
           kept == Without(flushed, n)
<1>1. /\ plugged /\ ~file[n].open /\ version' = version /\ flushed' = [flushed EXCEPT ![n] = NoFile]
      /\ Return(n, v, Closed, e) \/ PulledOut(v, "torn")
  BY DEF FILEIO_Remove
<1>2. v = RemoveFile(Start(n), n) /\ kept = Without(flushed, n)
  OBVIOUS
<1>3. flushed' = kept /\ kept \in [Names -> Seq(Byte) \cup {NoFile}]
  BY <1>1, LessTyped
<1>4. version' \in [Names -> {0, 1}]
  BY <1>1, HistoryTyped
<1> HIDE DEF v, e, kept
<1>5. PICK g : \E h : /\ BegunClosed(Start(n), g, n, kept, "torn")
                  /\ System(v, h, kept, Survivors(kept), LostIn(card))
                  /\ Removed(Start(n), v, g, h, n) /\ HandlesBut(v, h, file, n) /\ Handle(v, h, Closed, n)
  BY <1>1, <1>2, RemovingDone
<1>6. PICK h : /\ System(v, h, kept, Survivors(kept), LostIn(card))
               /\ HandlesBut(v, h, file, n) /\ Handle(v, h, Closed, n)
  BY <1>5
<1>7. v.cuts \subseteq SafeCards("torn", kept) /\ Settled(v, h, kept, LostIn(card))
  BY <1>6, SystemSettled DEF SafeCards
<1>8. CASE Return(n, v, Closed, e)
  BY <1>1, <1>3, <1>4, <1>6, <1>7, <1>8, ReturnDone DEF Return
<1>9. CASE PulledOut(v, "torn")
  BY <1>3, <1>4, <1>7, <1>9, PulledDone
<1> QED
  BY <1>1, <1>8, <1>9

(* A file is renamed.                                                      *)
LEMMA RefoundedHandles ==
    ASSUME NEW u, NEW v, NEW g, Owns(g), NEW h, NEW s \in SlotNumbers, NEW kept, NEW n \in Names, NEW m \in Names,
           g[s].name = n, \A t \in SlotNumbers : g[t].name # m, h = Renamed(g, s, m),
           NEW Safe, NEW Lost, Refounded(u, v, g, h, s, kept, m, Safe, Lost), Cached(u) \in Card,
           Handles(vol, g, file), Cached(u) = Cached(vol), ~file[n].open, ~file[m].open
    PROVE  HandlesBut(v, h, file, n) /\ Handle(v, h, Closed, n)
<1>1. /\ h[s].name = m
      /\ \A t \in SlotNumbers : t # s => h[t] = g[t]
      /\ \A t \in SlotNumbers : h[t].chain = g[t].chain /\ h[t].bytes = g[t].bytes /\ h[t].kept = g[t].kept
  BY RenamedOwns
<1>2. /\ Slot(Cached(v), s) = WithName(Slot(Cached(u), s), m)
      /\ \A t \in SlotNumbers : t # s => Slot(Cached(v), t) = Slot(Cached(u), t)
  BY DEF Refounded
<1>3. n # m
  OBVIOUS
<1>4. \A t \in SlotNumbers : h[t].name # n
  BY <1>1, <1>3 DEF Owns
<1>5. Handle(v, h, Closed, n)
  BY <1>4, ClosedObject DEF Handle, Sizes
<1>6. ASSUME NEW k \in Names, k # n, k # m PROVE Handle(v, h, file[k], k)
  <2>1. Handle(u, g, file[k], k)
    BY SameCachedHandle DEF Handles
  <2>2. Untouched(u, v, g, h, k)
    BY <1>1, <1>2, <1>6 DEF Untouched
  <2> QED
    BY <2>1, <2>2, UntouchedHandle
<1>7. Handle(v, h, file[m], m)
  <2>1. Sizes(u, g, n) /\ file[m] = Closed
    BY DEF Handles, Handle, Sizes
  <2>2. Slot(Cached(u), s).size = Len(g[s].bytes)
    BY <2>1 DEF Sizes
  <2>3. Slot(Cached(u), s) \in SlotEntry
    BY SlotTyped
  <2>4. Slot(Cached(v), s).size = Len(h[s].bytes)
    BY <1>1, <1>2, <2>2, <2>3 DEF WithName, SlotEntry
  <2>5. Sizes(v, h, m)
    <3> SUFFICES ASSUME NEW t \in SlotNumbers, h[t].name = m PROVE Slot(Cached(v), t).size = Len(h[t].bytes)
      BY DEF Sizes
    <3>1. t = s
      BY <1>1
    <3> QED
      BY <2>4, <3>1
  <2> QED
    BY <2>1, <2>5, ClosedObject DEF Handle
<1> QED
  BY <1>5, <1>6, <1>7 DEF HandlesBut

LEMMA RenamingDone ==
    ASSUME FatInv, plugged, NEW n \in Names, NEW m \in Names, ~file[n].open, ~file[m].open,
           NEW v, v = Rename(Start(n), n, m), NEW e, e = Good(v),
           NEW kept, kept = IF e THEN Renaming(flushed, n, m) ELSE flushed
    PROVE  \E h : /\ Settled(v, h, kept, LostIn(card)) /\ v.cuts \subseteq WholeCards(flushed)
                  /\ HandlesBut(v, h, file, n) /\ Handle(v, h, Closed, n)
                  /\ e => n # m
<1> DEFINE u == Start(n)
<1>1. PICK g : Begun(u, g, n)
  BY CallBegins
<1>2. v = Rename(u, n, m)
  OBVIOUS
<1> HIDE DEF u
<1>3. /\ Handles(vol, g, file) /\ Owns(g) /\ System(u, g, flushed, WholeCards(flushed), LostIn(card))
      /\ Good(u) /\ Cached(u) = Cached(vol) /\ Cached(u) \in Card
  BY <1>1, ImagesTyped, ImageMembers DEF Begun
<1>4. Renames(u, v, g, flushed, n, m, WholeCards(flushed), LostIn(card))
  BY <1>2, <1>3, RenameDone
<1>5. CASE /\ System(v, g, flushed, WholeCards(flushed), LostIn(card)) /\ ~Good(v) /\ Cached(v) = Cached(u)
  <2>1. Settled(v, g, kept, LostIn(card)) /\ v.cuts \subseteq WholeCards(flushed)
    BY <1>5, SystemSettled
  <2>2. \A k \in Names : Handle(v, g, file[k], k)
    <3> SUFFICES ASSUME NEW k \in Names PROVE Handle(v, g, file[k], k)
      OBVIOUS
    <3>1. Handle(vol, g, file[k], k) /\ Cached(v) = Cached(vol)
      BY <1>3, <1>5 DEF Handles
    <3> QED
      BY <3>1, SameCachedHandle
  <2>3. file[n] = Closed
    BY <2>2 DEF Handle
  <2> QED
    BY <1>5, <2>1, <2>2, <2>3 DEF HandlesBut
<1>6. CASE \E s \in SlotNumbers :
              /\ g[s].name = n /\ \A t \in SlotNumbers : g[t].name # m
              /\ Refounded(u, v, g, Renamed(g, s, m), s, flushed, m, WholeCards(flushed), LostIn(card))
  <2>1. PICK s \in SlotNumbers :
              /\ g[s].name = n /\ \A t \in SlotNumbers : g[t].name # m
              /\ Refounded(u, v, g, Renamed(g, s, m), s, flushed, m, WholeCards(flushed), LostIn(card))
    BY <1>6
  <2> DEFINE h == Renamed(g, s, m)
  <2>2. h = Renamed(g, s, m)
    OBVIOUS
  <2> HIDE DEF h
  <2>3. Refounded(u, v, g, h, s, flushed, m, WholeCards(flushed), LostIn(card))
    BY <2>1, <2>2
  <2>4. HandlesBut(v, h, file, n) /\ Handle(v, h, Closed, n)
    BY <1>3, <2>1, <2>2, <2>3, RefoundedHandles
  <2>5. Settled(v, h, Renaming(flushed, g[s].name, m), LostIn(card)) /\ Good(v) /\ v.cuts \subseteq WholeCards(flushed)
    BY <2>3 DEF Refounded
  <2>6. Settled(v, h, kept, LostIn(card))
    BY <2>1, <2>5
  <2> QED
    BY <2>1, <2>4, <2>5, <2>6
<1> QED
  BY <1>4, <1>5, <1>6 DEF Renames

LEMMA RenamingTyped ==
    ASSUME FatInv, NEW n \in Names, NEW m \in Names
    PROVE  /\ n # m => [flushed EXCEPT ![m] = flushed[n], ![n] = NoFile] = Renaming(flushed, n, m)
           /\ Renaming(flushed, n, m) \in [Names -> Seq(Byte) \cup {NoFile}]
           /\ flushed \in [Names -> Seq(Byte) \cup {NoFile}]
<1>1. flushed \in [Names -> Seq(Byte) \cup {NoFile}]
  BY HistoryTyped
<1> DEFINE z == NoFile
           F == Seq(Byte) \cup {NoFile}
<1>2. z \in F /\ flushed \in [Names -> F]
  BY <1>1
<1>3. Renaming(flushed, n, m) = [k \in Names |-> IF k = n THEN z ELSE IF k = m THEN flushed[n] ELSE flushed[k]]
  BY DEF Renaming
<1> HIDE DEF z, F
<1>4. n # m => [flushed EXCEPT ![m] = flushed[n], ![n] = z] = Renaming(flushed, n, m)
  BY <1>2, <1>3
<1>5. Renaming(flushed, n, m) \in [Names -> F]
  BY <1>2, <1>3
<1> QED
  BY <1>1, <1>4, <1>5 DEF z, F

LEMMA RenameKeeps ==
    ASSUME FatInv, NEW n \in Names, NEW m \in Names, FILEIO_Rename(n, m)
    PROVE  FatInv'
<1> DEFINE v == Rename(Start(n), n, m)
           e == Good(v)
           kept == IF e THEN Renaming(flushed, n, m) ELSE flushed
<1>1. /\ plugged /\ ~file[n].open /\ ~file[m].open /\ version' = version
      /\ flushed' = IF result'.ended = "done"
                    THEN [flushed EXCEPT ![m] = flushed[n], ![n] = NoFile] ELSE flushed
      /\ Return(n, v, Closed, e) \/ PulledOut(v, "cut")
  BY DEF FILEIO_Rename
<1>2. v = Rename(Start(n), n, m) /\ e = Good(v) /\ kept = IF e THEN Renaming(flushed, n, m) ELSE flushed
  OBVIOUS
<1>4. version' \in [Names -> {0, 1}]
  BY <1>1, HistoryTyped
<1> HIDE DEF v, e, kept
<1>5. PICK h : /\ Settled(v, h, kept, LostIn(card)) /\ v.cuts \subseteq WholeCards(flushed)
               /\ HandlesBut(v, h, file, n) /\ Handle(v, h, Closed, n)
               /\ e => n # m
  BY <1>1, <1>2, RenamingDone
<1>6. kept \in [Names -> Seq(Byte) \cup {NoFile}] /\ flushed \in [Names -> Seq(Byte) \cup {NoFile}]
  BY <1>2, RenamingTyped
<1>8. CASE Return(n, v, Closed, e)
  <2>1. result'.ended = IF e THEN "done" ELSE "failed"
    BY <1>8 DEF Return, ReturnOf
  <2>2. flushed' = kept
    <3>1. CASE e
      BY <1>1, <1>2, <1>5, <2>1, <3>1, RenamingTyped
    <3>2. CASE ~e
      BY <1>1, <1>2, <2>1, <3>2
    <3> QED
      BY <3>1, <3>2
  <2> QED
    BY <1>1, <1>4, <1>5, <1>6, <1>8, <2>2, ReturnDone DEF Return
<1>9. CASE PulledOut(v, "cut")
  <2>1. flushed' = flushed
    BY <1>1, <1>9 DEF PulledOut
  <2>2. v.cuts \subseteq SafeCards("cut", flushed')
    BY <1>5, <2>1 DEF SafeCards
  <2> QED
    BY <1>4, <1>6, <1>9, <2>1, <2>2, PulledDone
<1> QED
  BY <1>1, <1>8, <1>9

(* A card is put in and mounted.                                           *)
LEMMA AllTyped ==
    ASSUME NEW c \in Card, Sound(c), Proper(c)
    PROVE  AllOf(c) \in [Names -> Seq(Byte) \cup {NoFile}]
<1>1. ASSUME NEW n \in Names PROVE OnCard(c, n) \in Seq(Byte) \cup {NoFile}
  <2>1. CASE n \in Present(c)
    <3>1. PICK s \in SlotNumbers : Slot(c, s).name = n
      BY <2>1, PresentSlot
    <3>2. Named(c, s)
      BY <3>1 DEF Named
    <3>3. Checked(c, s, n)
      BY <3>1, <3>2, CheckedEntry
    <3> QED
      BY <3>3 DEF Checked
  <2>2. CASE n \notin Present(c)
    BY <2>2 DEF OnCard
  <2> QED
    BY <2>1, <2>2
<1> DEFINE F == Seq(Byte) \cup {NoFile}
           a(n) == OnCard(c, n)
<1>2. \A n \in Names : a(n) \in F
  BY <1>1
<1>3. AllOf(c) = [n \in Names |-> a(n)]
  BY Zenon DEF AllOf
<1> HIDE DEF F, a
<1>4. [n \in Names |-> a(n)] \in [Names -> F]
  BY <1>2, Zenon
<1> QED
  BY <1>3, <1>4 DEF F

LEMMA MountInside ==
    ASSUME NEW c \in Card, Sound(c), Proper(c), DirEnds(c), NEW v, v = Mounted(c),
           NEW files, \A n \in Names : files[n] = Closed, NEW how, how # "torn",
           how = "whole" => LinkedClusters(c) = FileClusters(c)
    PROVE  Inside(v, files, AllOf(c), how)
<1> DEFINE g == FromCard(c)
<1>1. g = FromCard(c)
  OBVIOUS
<1> HIDE DEF g
<1>2. /\ Settled(v, g, AllOf(c), Clusters) /\ \A n \in Names : Sizes(v, g, n)
      /\ LinkedClusters(c) = FileClusters(c) => Settled(v, g, AllOf(c), {})
  BY <1>1, MountSettled
<1>3. Settled(v, g, AllOf(c), LostIn(how))
  <2>1. CASE how = "whole"
    <3>1. LostIn(how) = {}
      BY <2>1 DEF LostIn
    <3> QED
      BY <1>2, <2>1, <3>1
  <2>2. CASE how # "whole"
    <3>1. LostIn(how) = Clusters
      BY <2>2 DEF LostIn
    <3> QED
      BY <1>2, <3>1
  <2> QED
    BY <2>1, <2>2
<1>4. Handles(v, g, files)
  BY <1>2, ClosedObject DEF Handles, Handle
<1>5. Resting(v)
  BY MountedDone DEF Resting
<1> QED
  BY <1>3, <1>4, <1>5 DEF Inside, Described

LEMMA WholeCardMounts ==
    ASSUME NEW kept, NEW c \in WholeCards(kept)
    PROVE  c \in Card /\ Sound(c) /\ Proper(c) /\ DirEnds(c)
<1>1. PICK g : Owns(g) /\ c \in Whole(g)
  BY DEF WholeCards
<1> QED
  BY <1>1, WholeSound DEF Whole

LEMMA AllClosed ==
    ASSUME FatInv, ~plugged
    PROVE  \A n \in Names : file[n] = Closed
BY DEF FatInv, Outside

LEMMA MountKeeps ==
    ASSUME FatInv, FILEIO_DriveMount
    PROVE  FatInv'
<1>1. /\ ~plugged /\ plugged' = TRUE /\ file' = file /\ content' = Seen(vol', file, TRUE)
      /\ flushed' = AllOf(vol'.card)
  BY DEF FILEIO_DriveMount, AllOf
<1>2. /\ Outside(vol, file, flushed, card) /\ file \in [Names -> Object] /\ version \in [Names -> {0, 1}]
      /\ card \in {"whole", "cut", "torn"}
  BY <1>1 DEF FatInv, Typed
<1>3. \A n \in Names : file'[n] = Closed
  BY <1>1, AllClosed
<1>4. ASSUME NEW c \in Card, Sound(c), Proper(c), DirEnds(c), vol' = Mounted(c), card' \in {"whole", "cut"},
             card' = "whole" => LinkedClusters(c) = FileClusters(c), version' \in [Names -> {0, 1}]
      PROVE  FatInv'
  <2>1. vol'.card = c
    BY <1>4 DEF Mounted
  <2>2. flushed' = AllOf(c)
    BY <1>1, <2>1
  <2>3. Inside(vol', file', flushed', card')
    BY <1>3, <1>4, <2>2, MountInside
  <2>4. flushed' \in [Names -> Seq(Byte) \cup {NoFile}]
    BY <1>4, <2>2, AllTyped
  <2>5. Typed'
    BY <1>1, <1>2, <1>4, <2>4 DEF Typed
  <2> QED
    BY <1>1, <2>3, <2>5 DEF FatInv
<1>5. CASE card # "torn" /\ UNCHANGED <<vol, version, names, card>>
  <2>1. card = "cut" /\ vol' = vol /\ version' = version /\ card' = card
    BY <1>2, <1>5 DEF Outside
  <2> DEFINE c == vol.card
  <2>2. c \in WholeCards(flushed) /\ vol = Mounted(c)
    BY <1>2, <2>1 DEF Outside, SafeCards
  <2> HIDE DEF c
  <2>3. c \in Card /\ Sound(c) /\ Proper(c) /\ DirEnds(c)
    BY <2>2, WholeCardMounts
  <2> QED
    BY <1>2, <1>4, <2>1, <2>2, <2>3
<1>6. CASE /\ \E c \in Cards : vol' = Mounted(c)
           /\ version' = [n \in Names |-> 1] /\ names' = 0 /\ card' = "whole"
  <2>1. PICK c \in Cards : vol' = Mounted(c)
    BY <1>6
  <2>2. c \in Card /\ Sound(c) /\ Proper(c) /\ DirEnds(c) /\ LinkedClusters(c) = FileClusters(c)
    BY CardsAreCards
  <2>3. version' \in [Names -> {0, 1}]
    BY <1>6
  <2> QED
    BY <1>4, <1>6, <2>1, <2>2, <2>3
<1> QED
  BY <1>5, <1>6 DEF FILEIO_DriveMount

LEMMA InitInv ==
    ASSUME Init
    PROVE  FatInv
<1>1. PICK c \in Cards : vol = Mounted(c)
  BY DEF Init
<1>2. c \in Card /\ Sound(c) /\ Proper(c) /\ DirEnds(c) /\ LinkedClusters(c) = FileClusters(c)
  BY CardsAreCards
<1>3. /\ file = [n \in Names |-> Closed] /\ plugged = TRUE /\ version = [n \in Names |-> 1]
      /\ flushed = AllOf(vol.card) /\ card = "whole" /\ content = Seen(vol, file, plugged)
  BY DEF Init, AllOf
<1>4. vol.card = c
  BY <1>1 DEF Mounted
<1>5. flushed = AllOf(c) /\ \A n \in Names : file[n] = Closed
  BY <1>3, <1>4
<1>6. Inside(vol, file, flushed, card)
  BY <1>1, <1>2, <1>3, <1>5, MountInside
<1>7. file \in [Names -> Object] /\ version \in [Names -> {0, 1}]
  BY <1>3, ClosedObject
<1>8. flushed \in [Names -> Seq(Byte) \cup {NoFile}]
  BY <1>2, <1>5, AllTyped
<1>9. Typed
  BY <1>3, <1>7, <1>8 DEF Typed
<1> QED
  BY <1>3, <1>6, <1>9 DEF FatInv

LEMMA StutterKeeps ==
    ASSUME FatInv, UNCHANGED vars
    PROVE  FatInv'
<1>1. /\ vol' = vol /\ file' = file /\ plugged' = plugged /\ content' = content /\ version' = version
      /\ flushed' = flushed /\ card' = card
  BY DEF vars
<1> QED
  BY <1>1 DEF FatInv, Typed

LEMMA NextKeeps ==
    ASSUME FatInv, Habits = {}, Next
    PROVE  FatInv'
<1>1. ASSUME NEW n \in Names, NEW mode \in Modes, FILEIO_Open(n, mode) PROVE FatInv'
  BY <1>1, OpenKeeps
<1>2. ASSUME NEW n \in Names, FILEIO_Flush(n) PROVE FatInv'
  BY <1>2, FlushKeeps
<1>3. ASSUME NEW n \in Names, FILEIO_Close(n) PROVE FatInv'
  BY <1>3, CloseKeeps
<1>4. ASSUME NEW n \in Names, FILEIO_Read(n) PROVE FatInv'
  BY <1>4, ReadKeeps
<1>5. ASSUME NEW n \in Names, FILEIO_Write(n) PROVE FatInv'
  BY <1>5, WriteKeeps
<1>6. ASSUME NEW n \in Names, FILEIO_Seek(n) PROVE FatInv'
  BY <1>6, SeekKeeps
<1>7. ASSUME NEW n \in Names, FILEIO_Remove(n) PROVE FatInv'
  BY <1>7, RemoveKeeps
<1>8. ASSUME NEW n \in Names, NEW m \in Names, FILEIO_Rename(n, m) PROVE FatInv'
  BY <1>8, RenameKeeps
<1>9. ASSUME FILEIO_DriveMount PROVE FatInv'
  BY <1>9, MountKeeps
<1> QED
  BY <1>1, <1>2, <1>3, <1>4, <1>5, <1>6, <1>7, <1>8, <1>9 DEF Next

-----------------------------------------------------------------------------
(***************************************************************************)
(* The state of the library is consistent after every call, complete or    *)
(* cut short: every cluster has at most one owner, whichever of the two    *)
(* buffers is written first the card describes whole files, and a file     *)
(* object points at the entry and into the chain of its file. It is the    *)
(* type invariant too. For programs that do not write over what is in a    *)
(* file: FILEIO_Write makes the size too large for those (fileio.c:2889).  *)
(***************************************************************************)
THEOREM FatInvHolds == Habits = {} => (Spec => []FatInv)
<1> SUFFICES ASSUME Habits = {} PROVE Spec => []FatInv
  OBVIOUS
<1>1. Init => FatInv
  BY InitInv
<1>2. FatInv /\ [Next]_vars => FatInv'
  BY NextKeeps, StutterKeeps
<1> QED
  BY <1>1, <1>2, PTL DEF Spec

(***************************************************************************)
(* Wherever the card is pulled out, but in a removal or a truncation, a    *)
(* disk check of it finds no fault but lost clusters: the order in which   *)
(* FILEIO_Flush writes data, table and entry (fileio.c:2569-2621), and     *)
(* FILEIO_CreateFirstCluster the table before the entry (1471-1526).       *)
(***************************************************************************)
THEOREM CardAlwaysSound == Habits = {} => (Spec => []CardSound)
<1> SUFFICES ASSUME Habits = {} PROVE Spec => []CardSound
  OBVIOUS
<1>1. FatInv => CardSound
  BY FatInvImplies
<1> QED
  BY FatInvHolds, <1>1, PTL

(***************************************************************************)
(* Calls that ran to their end lost no cluster, also when the disk or the  *)
(* directory was full: what is not free belongs to a file.                 *)
(***************************************************************************)
THEOREM NoClusterLost == Habits = {} => (Spec => []NoLostCluster)
<1> SUFFICES ASSUME Habits = {} PROVE Spec => []NoLostCluster
  OBVIOUS
<1>1. FatInv => NoLostCluster
  BY FatInvImplies
<1> QED
  BY FatInvHolds, <1>1, PTL

(***************************************************************************)
(* What FILEIO_Flush or FILEIO_Close wrote can be read from the card after *)
(* any later calls, wherever the card is pulled out, until the file is     *)
(* removed or emptied.                                                     *)
(***************************************************************************)
THEOREM FlushedAlwaysSurvives == Habits = {} => (Spec => []FlushedSurvives)
<1> SUFFICES ASSUME Habits = {} PROVE Spec => []FlushedSurvives
  OBVIOUS
<1>1. FatInv => FlushedSurvives
  BY FatInvImplies
<1> QED
  BY FatInvHolds, <1>1, PTL

-----------------------------------------------------------------------------
(* The calls do what Files promises. What is seen of the files, and where  *)
(* the positions are.                                                      *)
PositionOf(files) == [n \in Names |-> IF files[n].open THEN files[n].pos ELSE -1]
OnNames(bytes) == bytes = [n \in Names |-> bytes[n]]

LEMMA ContentNow ==
    ASSUME FatInv, plugged, NEW g, Handles(vol, g, file), NEW Lost, Settled(vol, g, flushed, Lost)
    PROVE  IsContent(g, content) /\ OnNames(content)
<1>1. content = Seen(vol, file, TRUE)
  BY DEF FatInv, Typed
<1>2. IsContent(g, Seen(vol, file, TRUE))
  BY SeenDone
<1>3. OnNames(Seen(vol, file, TRUE))
  BY DEF OnNames, Seen
<1> QED
  BY <1>1, <1>2, <1>3

LEMMA ContentThen ==
    ASSUME FatInv, plugged, NEW n \in Names, NEW v, NEW h, NEW object, NEW ended, NEW bytes,
           ReturnOf(n, v, object, ended, bytes), HandlesBut(v, h, file, n), NEW kept, NEW Lost, Settled(v, h, kept, Lost), Handle(v, h, object, n)
    PROVE  /\ IsContent(h, content') /\ OnNames(content')
           /\ PositionOf(file') = [PositionOf(file) EXCEPT ![n] = IF object.open THEN object.pos ELSE -1]
           /\ result' = [ended |-> IF ended THEN "done" ELSE "failed", bytes |-> bytes]
<1> DEFINE r == Rest(v)
<1>1. /\ vol' = r /\ file' = [file EXCEPT ![n] = object] /\ content' = Seen(vol', file', TRUE)
      /\ result' = [ended |-> IF ended THEN "done" ELSE "failed", bytes |-> bytes]
  BY DEF ReturnOf
<1>2. Settled(r, h, kept, Lost) /\ Cached(r) = Cached(v)
  BY RestDone
<1> HIDE DEF r
<1>3. file \in [Names -> Object]
  BY HistoryTyped
<1>4. file'[n] = object /\ \A m \in Names : m # n => file'[m] = file[m]
  BY <1>1, <1>3
<1>5. Handle(r, h, object, n)
  BY <1>2, SameCachedHandle
<1>6. ASSUME NEW m \in Names, m # n PROVE Handle(r, h, file'[m], m)
  <2>1. Handle(v, h, file[m], m) /\ file'[m] = file[m]
    BY <1>4, <1>6 DEF HandlesBut
  <2> QED
    BY <1>2, <2>1, SameCachedHandle
<1>7. Handles(r, h, file')
  BY <1>4, <1>5, <1>6 DEF Handles
<1>8. IsContent(h, Seen(r, file', TRUE))
  BY <1>2, <1>7, SeenDone
<1>9. OnNames(Seen(r, file', TRUE))
  BY DEF OnNames, Seen
<1>10. PositionOf(file') = [PositionOf(file) EXCEPT ![n] = IF object.open THEN object.pos ELSE -1]
  BY <1>4 DEF PositionOf
<1> QED
  BY <1>1, <1>8, <1>9, <1>10

(* A file that is not there has no slot.                                   *)
LEMMA AbsentSlot ==
    ASSUME NEW g, Owns(g), NEW bytes, IsContent(g, bytes), NEW n \in Names
    PROVE  bytes[n] = NoFile <=> \A s \in SlotNumbers : g[s].name # n
<1>1. ASSUME NEW s \in SlotNumbers, g[s].name = n PROVE bytes[n] # NoFile
  <2>1. bytes[n] = g[s].bytes /\ g[s].bytes \in Seq(Byte)
    BY <1>1 DEF IsContent, Owns
  <2> QED
    BY <2>1, NotNoFile
<1>2. ASSUME \A s \in SlotNumbers : g[s].name # n PROVE bytes[n] = NoFile
  BY <1>2 DEF IsContent
<1> QED
  BY <1>1, <1>2

(* The file of a name is as it was.                                        *)
FileSame(g, h, n) ==
    \A t \in SlotNumbers : /\ h[t].name = n <=> g[t].name = n
                           /\ g[t].name = n => h[t].bytes = g[t].bytes
LEMMA SameFileBytes ==
    ASSUME NEW g, NEW h, NEW n \in Names, FileSame(g, h, n), NEW a, NEW b, IsContent(g, a), IsContent(h, b)
    PROVE  a[n] = b[n]
<1>1. CASE \E s \in SlotNumbers : g[s].name = n
  <2>1. PICK s \in SlotNumbers : g[s].name = n
    BY <1>1
  <2>2. h[s].name = n /\ h[s].bytes = g[s].bytes
    BY <2>1 DEF FileSame
  <2>3. a[n] = g[s].bytes
    BY <2>1 DEF IsContent
  <2>4. b[n] = h[s].bytes
    BY <2>2 DEF IsContent
  <2> QED
    BY <2>2, <2>3, <2>4
<1>2. CASE \A s \in SlotNumbers : g[s].name # n
  <2>1. \A s \in SlotNumbers : h[s].name # n
    BY <1>2 DEF FileSame
  <2>2. a[n] = NoFile
    BY <1>2 DEF IsContent
  <2>3. b[n] = NoFile
    BY <2>1 DEF IsContent
  <2> QED
    BY <2>2, <2>3
<1> QED
  BY <1>1, <1>2
LEMMA OthersSame ==
    ASSUME NEW v, NEW w, NEW g, NEW h, NEW n, Others(v, w, g, h, n)
    PROVE  \A m \in Names : m # n => FileSame(g, h, m)
BY DEF Others, FileSame
LEMMA OnlyOnSame ==
    ASSUME NEW v, NEW w, NEW g, NEW h, NEW s \in SlotNumbers, OnlyOn(v, w, g, h, s)
    PROVE  /\ \A m \in Names : m # g[s].name => FileSame(g, h, m)
           /\ h[s].bytes = g[s].bytes => \A m \in Names : FileSame(g, h, m)
BY DEF OnlyOn, FileSame
LEMMA SameAll ==
    ASSUME NEW g, NEW h, \A m \in Names : FileSame(g, h, m), NEW a, NEW b, IsContent(g, a), IsContent(h, b),
           OnNames(a), OnNames(b)
    PROVE  b = a
<1>1. \A m \in Names : a[m] = b[m]
  BY SameFileBytes
<1> QED
  BY <1>1 DEF OnNames
LEMMA SameBut ==
    ASSUME NEW g, NEW h, NEW n \in Names, \A m \in Names : m # n => FileSame(g, h, m), NEW a, NEW b,
           IsContent(g, a), IsContent(h, b), OnNames(a), OnNames(b)
    PROVE  b = [a EXCEPT ![n] = b[n]]
<1>1. \A m \in Names : m # n => a[m] = b[m]
  BY SameFileBytes
<1>2. [a EXCEPT ![n] = b[n]] = [m \in Names |-> IF m = n THEN b[n] ELSE a[m]]
  BY DEF OnNames
<1>3. b = [m \in Names |-> b[m]]
  BY DEF OnNames
<1> QED
  BY <1>1, <1>2, <1>3

(* The object of a file that is open, and its position.                    *)
LEMMA OpenPosition ==
    ASSUME FatInv, NEW n \in Names
    PROVE  /\ file[n].open => PositionOf(file)[n] = file[n].pos /\ file[n].pos \in Nat /\ PositionOf(file)[n] # -1
           /\ ~file[n].open => PositionOf(file)[n] = -1
<1>1. file[n] \in Object
  BY HistoryTyped
<1>2. file[n].pos \in Nat
  BY <1>1 DEF Object
<1>3. PositionOf(file)[n] = IF file[n].open THEN file[n].pos ELSE -1
  BY DEF PositionOf
<1> QED
  BY <1>2, <1>3
LEMMA SamePosition ==
    ASSUME NEW n \in Names, NEW p, p = PositionOf(file)[n]
    PROVE  [PositionOf(file) EXCEPT ![n] = p] = PositionOf(file)
BY DEF PositionOf

(* What a program sees of a file that is open.                             *)
LEMMA OpenContent ==
    ASSUME FatInv, plugged, NEW n \in Names, NEW u, NEW g, Begun(u, g, n), NEW s \in SlotNumbers, Held(u, g, u.f, s, n)
    PROVE  /\ content[n] = g[s].bytes /\ g[s].bytes \in Seq(Byte) /\ g[s].name = n
           /\ file[n].size = Len(content[n]) /\ u.f = file[n]
           /\ IsContent(g, content) /\ OnNames(content)
<1>1. Owns(g) /\ u.f = file[n] /\ Settled(vol, g, flushed, LostIn(card)) /\ Handles(vol, g, file)
  BY DEF Begun
<1>2. IsContent(g, content) /\ OnNames(content)
  BY <1>1, ContentNow
<1>3. g[s].name = n /\ HandleOn(u.f, g, s)
  BY DEF Held
<1>4. u.f.size = Len(g[s].bytes)
  BY <1>1, <1>3, HandleSize
<1>5. content[n] = g[s].bytes /\ g[s].bytes \in Seq(Byte)
  BY <1>1, <1>2, <1>3 DEF IsContent, Owns
<1> QED
  BY <1>1, <1>2, <1>3, <1>4, <1>5

LEMMA PulledPromised ==
    ASSUME FatInv, NEW v, NEW how, PulledOut(v, how)
    PROVE  Promised!CardOut
<1>1. /\ file' = [n \in Names |-> Closed] /\ content' = Seen(vol', file', FALSE)
      /\ result' = [ended |-> "failed", bytes |-> <<>>]
  BY DEF PulledOut
<1>2. \A n \in Names : content'[n] = NoFile
  BY <1>1 DEF Seen
<1>3. \A n \in Names : ~file'[n].open
  BY <1>1, ClosedObject
<1> QED
  BY <1>1, <1>2, <1>3 DEF Promised!CardOut, Promised!Ended

LEMMA PartIsSubSeq ==
    ASSUME NEW b \in Seq(Byte), NEW i \in Nat, NEW j \in Nat, i <= j, j <= Len(b)
    PROVE  Part(b, i, j) = SubSeq(b, i + 1, j) /\ Len(Part(b, i, j)) = j - i
<1>1. /\ Part(b, i, j) \in Seq(Byte) /\ Len(Part(b, i, j)) = j - i
      /\ \A k \in 1 .. j - i : Part(b, i, j)[k] = b[i + k]
  BY PartTyped
<1> DEFINE p == Part(b, i, j)
           q == SubSeq(b, i + 1, j)
<1>2. q \in Seq(Byte) /\ Len(q) = j - i /\ \A k \in 1 .. j - i : q[k] = b[i + k]
  <2>1. i + 1 \in 1 .. Len(b) + 1 /\ j \in i .. Len(b)
    OBVIOUS
  <2>2. Len(q) = j - (i + 1) + 1 /\ q \in Seq(Byte) /\ \A k \in 1 .. j - (i + 1) + 1 : q[k] = b[(i + 1) + k - 1]
    BY <2>1, SubSeqProperties
  <2>3. j - (i + 1) + 1 = j - i
    OBVIOUS
  <2>4. \A k \in 1 .. j - i : (i + 1) + k - 1 = i + k
    OBVIOUS
  <2> QED
    BY <2>2, <2>3, <2>4
<1> HIDE DEF p, q
<1>3. p = q
  BY <1>1, <1>2, SeqEqual DEF p
<1> QED
  BY <1>1, <1>3 DEF p, q

LEMMA ReadPromised ==
    ASSUME FatInv, NEW n \in Names, FILEIO_Read(n)
    PROVE  Promised!Read(n) \/ Promised!CardOut
<1>1. plugged /\ file[n].open /\ ~file[n].failed
  BY DEF FILEIO_Read, Usable
<1>2. PICK length \in Chunks : \E v \in {Read(Start(n), length)} :
        Return(n, v, v.f, TRUE) \/ PulledOut(v, "cut")
  BY DEF FILEIO_Read
<1>3. length \in Nat
  BY ProgramAssumption
<1> DEFINE u == Start(n)
           v == Read(u, length)
           t == TRUE
<1>4. Return(n, v, v.f, t) \/ PulledOut(v, "cut")
  BY <1>2
<1>5. PICK g : Begun(u, g, n)
  BY <1>1, CallBegins
<1>b. v = Read(u, length) /\ t
  OBVIOUS
<1> HIDE DEF u, v, t
<1>6. PICK s \in SlotNumbers :
              /\ ReadingOn(u, v, g, s) /\ Held(u, g, u.f, s, n)
              /\ System(v, g, flushed, WholeCards(flushed), LostIn(card))
              /\ HandlesBut(v, g, file, n) /\ Handle(v, g, v.f, n)
  BY <1>1, <1>3, <1>5, <1>b, ReadingDone
<1>7. /\ content[n] = g[s].bytes /\ g[s].bytes \in Seq(Byte) /\ file[n].size = Len(content[n]) /\ u.f = file[n]
      /\ IsContent(g, content) /\ OnNames(content)
  BY <1>1, <1>5, <1>6, OpenContent
<1>8. CASE Return(n, v, v.f, t)
  <2>1. Settled(v, g, flushed, LostIn(card))
    BY <1>6, SystemSettled
  <2>2. /\ IsContent(g, content') /\ OnNames(content')
        /\ PositionOf(file') = [PositionOf(file) EXCEPT ![n] = IF v.f.open THEN v.f.pos ELSE -1]
        /\ result' = [ended |-> IF t THEN "done" ELSE "failed", bytes |-> v.got]
    BY <1>1, <1>6, <1>8, <2>1, ContentThen DEF Return
  <2>3. content' = content
    <3>1. \A m \in Names : FileSame(g, g, m)
      BY DEF FileSame
    <3> QED
      BY <1>7, <2>2, <3>1, SameAll
  <2> DEFINE i == file[n].pos
             j == v.f.pos
             b == content[n]
  <2>4. i \in Nat /\ PositionOf(file)[n] = i /\ i # -1
    BY <1>1, OpenPosition
  <2>5. /\ v.f.open = u.f.open /\ i <= j /\ j <= Len(b) /\ v.got = Part(b, i, j) /\ b \in Seq(Byte)
    BY <1>6, <1>7 DEF ReadingOn, SameHandle
  <2>6. j \in Nat
    <3>1. v.f \in Object
      BY <1>6 DEF Handle
    <3> QED
      BY <3>1 DEF Object
  <2>7. v.got = SubSeq(b, i + 1, j) /\ Len(v.got) = j - i
    <3> HIDE DEF i, j, b
    <3>1. i \in Nat /\ j \in Nat /\ i <= j /\ j <= Len(b) /\ b \in Seq(Byte)
      BY <2>4, <2>5, <2>6
    <3>2. Part(b, i, j) = SubSeq(b, i + 1, j) /\ Len(Part(b, i, j)) = j - i
      BY <3>1, PartIsSubSeq
    <3>3. v.got = Part(b, i, j)
      BY <2>5
    <3> QED
      BY <3>2, <3>3, Zenon
  <2>8. PositionOf(file') = [PositionOf(file) EXCEPT ![n] = j]
    BY <1>1, <1>7, <2>2, <2>5
  <2>9. j = i + Len(v.got)
    BY <2>4, <2>6, <2>7
  <2>10. PositionOf(file')[n] = j
    BY <2>8 DEF PositionOf
  <2>11. result'.ended = "done" /\ result'.bytes = v.got
    BY <1>b, <2>2
  <2> HIDE DEF i, j, b
  <2>12. /\ PositionOf(file)[n] # -1 /\ result'.ended = "done"
         /\ PositionOf(file') = [PositionOf(file) EXCEPT ![n] = PositionOf(file)[n] + Len(result'.bytes)]
         /\ PositionOf(file')[n] <= Len(content[n])
         /\ result'.bytes = SubSeq(content[n], PositionOf(file)[n] + 1, PositionOf(file')[n])
         /\ content' = content
    BY <2>3, <2>4, <2>5, <2>7, <2>8, <2>9, <2>10, <2>11 DEF b
  <2>13. Promised!Read(n)
    BY <2>12 DEF PositionOf, Promised!Read, Promised!IsOpen
  <2> QED
    BY <2>13
<1>9. CASE PulledOut(v, "cut")
  BY <1>9, PulledPromised
<1> QED
  BY <1>4, <1>8, <1>9

(* A file that is flushed or closed is the same through the buffers.       *)
LEMMA SameContent ==
    ASSUME FatInv, plugged, NEW n \in Names, NEW u, NEW g, Begun(u, g, n), NEW h,
           \A t \in SlotNumbers : h[t].name = g[t].name /\ h[t].bytes = g[t].bytes,
           IsContent(h, content'), OnNames(content')
    PROVE  content' = content
<1>1. IsContent(g, content) /\ OnNames(content)
  <2>1. Settled(vol, g, flushed, LostIn(card)) /\ Handles(vol, g, file)
    BY DEF Begun
  <2> QED
    BY <2>1, ContentNow
<1>2. \A m \in Names : FileSame(g, h, m)
  BY DEF FileSame
<1> QED
  BY <1>1, <1>2, SameAll

LEMMA FlushPromised ==
    ASSUME FatInv, NEW n \in Names, FILEIO_Flush(n)
    PROVE  Promised!Flush(n) \/ Promised!CardOut
<1>1. plugged /\ file[n].open /\ file[n].write
  BY DEF FILEIO_Flush, Usable
<1> DEFINE u == Start(n)
           v == Flush(u)
           e == Good(v)
           kept == Keeping(flushed, n, content[n])
<1>2. Return(n, v, v.f, e) \/ PulledOut(v, "cut")
  BY DEF FILEIO_Flush
<1>3. PICK g : Begun(u, g, n)
  BY <1>1, CallBegins
<1>b. v = Flush(u) /\ kept = Keeping(flushed, n, content[n]) /\ e = Good(v)
  OBVIOUS
<1> HIDE DEF u, v, kept, e
<1>4. PICK h : /\ Settled(v, h, kept, LostIn(card)) /\ Good(v) /\ v.got = <<>>
               /\ \A t \in SlotNumbers : h[t].name = g[t].name /\ h[t].bytes = g[t].bytes
               /\ HandlesBut(v, h, file, n) /\ Handle(v, h, v.f, n) /\ v.f = u.f
  BY <1>1, <1>3, <1>b, FlushingDone
<1>5. CASE Return(n, v, v.f, e)
  <2>1. /\ IsContent(h, content') /\ OnNames(content')
        /\ PositionOf(file') = [PositionOf(file) EXCEPT ![n] = IF v.f.open THEN v.f.pos ELSE -1]
        /\ result' = [ended |-> IF e THEN "done" ELSE "failed", bytes |-> v.got]
    BY <1>1, <1>4, <1>5, ContentThen DEF Return
  <2>2. content' = content
    BY <1>1, <1>3, <1>4, <2>1, SameContent
  <2>3. v.f = file[n]
    BY <1>3, <1>4 DEF Begun
  <2>4. PositionOf(file)[n] = v.f.pos /\ PositionOf(file)[n] # -1
    BY <1>1, <2>3, OpenPosition
  <2>5. PositionOf(file') = PositionOf(file)
    <3>1. PositionOf(file') = [PositionOf(file) EXCEPT ![n] = v.f.pos]
      BY <1>1, <2>1, <2>3
    <3> QED
      BY <2>4, <3>1, SamePosition
  <2>6. result' = [ended |-> "done", bytes |-> <<>>]
    BY <1>4, <1>b, <2>1
  <2>7. Promised!Flush(n)
    BY <2>2, <2>4, <2>5, <2>6 DEF PositionOf, Promised!Flush, Promised!IsOpen, Promised!Ended
  <2> QED
    BY <2>7
<1>6. CASE PulledOut(v, "cut")
  BY <1>6, PulledPromised
<1> QED
  BY <1>2, <1>5, <1>6

LEMMA ClosePromised ==
    ASSUME FatInv, NEW n \in Names, FILEIO_Close(n)
    PROVE  Promised!Close(n) \/ Promised!CardOut
<1>1. plugged /\ file[n].open
  BY DEF FILEIO_Close
<1> DEFINE u == Start(n)
           v == Flush(u)
           e == Good(v)
           kept == Keeping(flushed, n, content[n])
<1>2. Return(n, v, Closed, e) \/ PulledOut(v, "cut")
  BY DEF FILEIO_Close
<1>3. PICK g : Begun(u, g, n)
  BY <1>1, CallBegins
<1>b. v = Flush(u) /\ kept = Keeping(flushed, n, content[n]) /\ e = Good(v)
  OBVIOUS
<1> HIDE DEF u, v, kept, e
<1>4. \E h, k : /\ Settled(v, h, k, LostIn(card)) /\ Good(v) /\ v.got = <<>>
                /\ \A t \in SlotNumbers : h[t].name = g[t].name /\ h[t].bytes = g[t].bytes
                /\ HandlesBut(v, h, file, n) /\ Handle(v, h, Closed, n)
  <2>1. CASE file[n].write
    BY <1>1, <1>3, <1>b, <2>1, FlushingDone
  <2>2. CASE ~file[n].write
    <3>1. v = u
      BY <1>3, <1>b, <2>2 DEF Flush, Begun
    <3>2. Settled(v, g, flushed, LostIn(card)) /\ Good(v) /\ v.got = <<>>
      BY <1>3, <3>1, SystemSettled DEF Begun
    <3>3. HandlesBut(v, g, file, n) /\ Handle(v, g, Closed, n)
      BY <1>1, <1>3, <2>2, <3>1, ClosingDone
    <3> QED
      BY <3>2, <3>3
  <2> QED
    BY <2>1, <2>2
<1>5. PICK h, k : /\ Settled(v, h, k, LostIn(card)) /\ Good(v) /\ v.got = <<>>
                  /\ \A t \in SlotNumbers : h[t].name = g[t].name /\ h[t].bytes = g[t].bytes
                  /\ HandlesBut(v, h, file, n) /\ Handle(v, h, Closed, n)
  BY <1>4
<1>6. CASE Return(n, v, Closed, e)
  <2>1. /\ IsContent(h, content') /\ OnNames(content')
        /\ PositionOf(file') = [PositionOf(file) EXCEPT ![n] = IF Closed.open THEN Closed.pos ELSE -1]
        /\ result' = [ended |-> IF e THEN "done" ELSE "failed", bytes |-> v.got]
    BY <1>1, <1>5, <1>6, ContentThen DEF Return
  <2>2. content' = content
    BY <1>1, <1>3, <1>5, <2>1, SameContent
  <2>3. PositionOf(file') = [PositionOf(file) EXCEPT ![n] = -1]
    BY <2>1, ClosedObject
  <2>4. PositionOf(file)[n] # -1
    BY <1>1, OpenPosition
  <2>5. result' = [ended |-> "done", bytes |-> <<>>]
    BY <1>5, <1>b, <2>1
  <2>6. Promised!Close(n)
    BY <2>2, <2>3, <2>4, <2>5 DEF PositionOf, Promised!Close, Promised!IsOpen, Promised!Ended
  <2> QED
    BY <2>6
<1>7. CASE PulledOut(v, "cut")
  BY <1>7, PulledPromised
<1> QED
  BY <1>2, <1>6, <1>7

LEMMA WritePromised ==
    ASSUME FatInv, Habits = {}, NEW n \in Names, FILEIO_Write(n)
    PROVE  Promised!Write(n) \/ Promised!CardOut
<1>1. /\ plugged /\ file[n].open /\ ~file[n].failed /\ file[n].write /\ file[n].pos = file[n].size
  BY DEF FILEIO_Write, Usable
<1> DEFINE bytes(length) == NewBytes(n, version[n], file[n].pos, length)
<1>2. PICK length \in Chunks : \E v \in {Write(Start(n), bytes(length))} :
        \/ ReturnOf(n, v, [v.f EXCEPT !.failed = ~Good(v)], Good(v), bytes(length))
        \/ PulledOut(v, "cut")
  BY DEF FILEIO_Write, NewBytes
<1> DEFINE u == Start(n)
           new == bytes(length)
           v == Write(u, new)
           b == ~Good(v)
           e == Good(v)
           o == WithFailed(v.f, b)
<1>3. ReturnOf(n, v, o, e, new) \/ PulledOut(v, "cut")
  BY <1>2 DEF WithFailed
<1>4. new \in Seq(Byte)
  <2>1. version[n] \in {0, 1} /\ file[n] \in Object
    BY HistoryTyped
  <2>2. file[n].pos \in Nat
    BY <2>1 DEF Object
  <2>3. length \in Nat
    BY ProgramAssumption
  <2> QED
    BY <2>1, <2>2, <2>3, NewBytesTyped
<1>5. PICK g : Begun(u, g, n)
  BY <1>1, CallBegins
<1>b. v = Write(u, new) /\ b \in BOOLEAN /\ b = ~Good(v) /\ e = Good(v) /\ o = WithFailed(v.f, b) /\ (e <=> ~b)
  BY DEF Good
<1> HIDE DEF u, new, v, b, e, o
<1>6. PICK h : \E s \in SlotNumbers :
              /\ Wrote(u, v, g, h, s, new) /\ Held(u, g, u.f, s, n)
              /\ System(v, h, flushed, WholeCards(flushed), LostIn(card))
              /\ HandlesBut(v, h, file, n) /\ Handle(v, h, WithFailed(v.f, b), n)
  BY <1>1, <1>4, <1>5, <1>b, WritingDone
<1>7. PICK s \in SlotNumbers :
              /\ Wrote(u, v, g, h, s, new) /\ Held(u, g, u.f, s, n)
              /\ System(v, h, flushed, WholeCards(flushed), LostIn(card))
              /\ HandlesBut(v, h, file, n) /\ Handle(v, h, o, n)
  BY <1>6, <1>b
<1>8. /\ content[n] = g[s].bytes /\ g[s].bytes \in Seq(Byte) /\ g[s].name = n
      /\ file[n].size = Len(content[n]) /\ u.f = file[n]
      /\ IsContent(g, content) /\ OnNames(content)
  BY <1>1, <1>5, <1>7, OpenContent
<1>9. CASE ReturnOf(n, v, o, e, new)
  <2>1. Settled(v, h, flushed, LostIn(card))
    BY <1>7, SystemSettled
  <2>2. /\ IsContent(h, content') /\ OnNames(content')
        /\ PositionOf(file') = [PositionOf(file) EXCEPT ![n] = IF o.open THEN o.pos ELSE -1]
        /\ result' = [ended |-> IF e THEN "done" ELSE "failed", bytes |-> new]
    BY <1>1, <1>7, <1>9, <2>1, ContentThen
  <2>3. /\ OnlyOn(u, v, g, h, s) /\ h[s].name = n /\ v.got = <<>> /\ v.f.open
        /\ h[s].bytes = (IF Good(v) THEN g[s].bytes \o new ELSE g[s].bytes)
        /\ v.f.size = Len(h[s].bytes)
        /\ (Good(v) => v.f.pos = v.f.size) /\ (~Good(v) => v.f.pos = u.f.pos)
    BY <1>1, <1>5, <1>7, <1>8 DEF Wrote, OnlyOn, Later, SameEntries, SameHandle, Begun
  <2>4. o.open /\ o.pos = v.f.pos
    <3>1. v.f \in Object
      BY <2>1 DEF Settled, Vol, Volume
    <3>2. WithFailed(v.f, b).open = v.f.open /\ WithFailed(v.f, b).pos = v.f.pos
      BY <1>b, <3>1, ObjectLeft
    <3> QED
      BY <1>b, <2>3, <3>2
  <2>5. /\ PositionOf(file)[n] = file[n].pos /\ PositionOf(file)[n] # -1
        /\ PositionOf(file)[n] = Len(content[n])
    BY <1>1, <1>8, OpenPosition
  <2>6. PositionOf(file') = [PositionOf(file) EXCEPT ![n] = v.f.pos]
    BY <2>2, <2>4
  <2>7. content'[n] = h[s].bytes
    BY <2>2, <2>3 DEF IsContent
  <2>8. CASE e
    <3>1. content'[n] = content[n] \o new /\ v.f.pos = Len(content'[n])
      BY <1>8, <1>b, <2>3, <2>7, <2>8
    <3>2. \A m \in Names \ {n} : content'[m] = content[m]
      BY <1>8, <2>2, <2>3, OnlyOnSame, SameFileBytes
    <3>3. content' = [content EXCEPT ![n] = content[n] \o new]
      BY <1>8, <2>2, <3>1, <3>2 DEF OnNames
    <3>4. result'.ended = "done" /\ result'.bytes = new
      BY <2>2, <2>8
    <3>5. PositionOf(file') = [PositionOf(file) EXCEPT ![n] = Len(content'[n])]
      BY <2>6, <3>1
    <3>6. Promised!Write(n)
      BY <2>5, <3>3, <3>4, <3>5 DEF PositionOf, Promised!Write, Promised!IsOpen
    <3> QED
      BY <3>6
  <2>9. CASE ~e
    <3>1. \A m \in Names : FileSame(g, h, m)
      BY <1>b, <2>3, <2>9, OnlyOnSame
    <3>2. content' = content
      BY <1>8, <2>2, <3>1, SameAll
    <3>3. v.f.pos = PositionOf(file)[n]
      BY <1>8, <1>b, <2>3, <2>5, <2>9
    <3>4. PositionOf(file') = PositionOf(file)
      BY <2>6, <3>3, SamePosition
    <3>5. result'.ended = "failed"
      BY <2>2, <2>9
    <3>6. Promised!Write(n)
      BY <2>5, <3>2, <3>4, <3>5 DEF PositionOf, Promised!Write, Promised!IsOpen
    <3> QED
      BY <3>6
  <2> QED
    BY <2>8, <2>9
<1>10. CASE PulledOut(v, "cut")
  BY <1>10, PulledPromised
<1> QED
  BY <1>3, <1>9, <1>10

LEMMA SeekPromised ==
    ASSUME FatInv, NEW n \in Names, FILEIO_Seek(n)
    PROVE  Promised!Seek(n) \/ Promised!CardOut
<1>1. plugged /\ file[n].open /\ ~file[n].failed
  BY DEF FILEIO_Seek, Usable
<1>2. PICK pos \in 0 .. file[n].size : \E v \in {SeekTo(Start(n), pos)} :
        \/ Return(n, v, [v.f EXCEPT !.failed = ~Good(v)], Good(v)) \/ PulledOut(v, "cut")
  BY DEF FILEIO_Seek
<1> DEFINE u == Start(n)
           v == SeekTo(u, pos)
           b == ~Good(v)
           e == Good(v)
           o == WithFailed(v.f, b)
<1>3. Return(n, v, o, e) \/ PulledOut(v, "cut")
  BY <1>2 DEF WithFailed
<1>5. PICK g : Begun(u, g, n)
  BY <1>1, CallBegins
<1>b. v = SeekTo(u, pos) /\ b \in BOOLEAN /\ b = ~Good(v) /\ o = WithFailed(v.f, b)
  BY DEF Good
<1> HIDE DEF u, v, b, e, o
<1>6. PICK h : \E s \in SlotNumbers :
              /\ Seeked(u, v, g, h, s, pos) /\ Held(u, g, u.f, s, n)
              /\ System(v, h, flushed, WholeCards(flushed), LostIn(card))
              /\ HandlesBut(v, h, file, n) /\ Handle(v, h, WithFailed(v.f, b), n)
  BY <1>1, <1>2, <1>5, <1>b, SeekingDone
<1>7. PICK s \in SlotNumbers :
              /\ Seeked(u, v, g, h, s, pos) /\ Held(u, g, u.f, s, n)
              /\ System(v, h, flushed, WholeCards(flushed), LostIn(card))
              /\ HandlesBut(v, h, file, n) /\ Handle(v, h, o, n)
  BY <1>6, <1>b
<1>8. /\ content[n] = g[s].bytes /\ g[s].bytes \in Seq(Byte) /\ g[s].name = n
      /\ file[n].size = Len(content[n]) /\ u.f = file[n]
      /\ IsContent(g, content) /\ OnNames(content)
  BY <1>1, <1>5, <1>7, OpenContent
<1>9. CASE Return(n, v, o, e)
  <2>1. Settled(v, h, flushed, LostIn(card))
    BY <1>7, SystemSettled
  <2>2. /\ IsContent(h, content') /\ OnNames(content')
        /\ PositionOf(file') = [PositionOf(file) EXCEPT ![n] = IF o.open THEN o.pos ELSE -1]
        /\ result' = [ended |-> IF e THEN "done" ELSE "failed", bytes |-> v.got]
    BY <1>1, <1>7, <1>9, <2>1, ContentThen DEF Return
  <2>3. /\ OnlyOn(u, v, g, h, s) /\ v.got = <<>> /\ v.f.open /\ h[s].bytes = g[s].bytes /\ v.f.pos = pos
    BY <1>1, <1>5, <1>7, <1>8 DEF Seeked, OnlyOn, Longer, Later, SameEntries, SameHandle, Begun
  <2>4. o.open /\ o.pos = pos
    <3>1. v.f \in Object
      BY <2>1 DEF Settled, Vol, Volume
    <3>2. WithFailed(v.f, b).open = v.f.open /\ WithFailed(v.f, b).pos = v.f.pos
      BY <1>b, <3>1, ObjectLeft
    <3> QED
      BY <1>b, <2>3, <3>2
  <2>5. PositionOf(file') = [PositionOf(file) EXCEPT ![n] = pos]
    BY <2>2, <2>4
  <2>6. \A m \in Names : FileSame(g, h, m)
    BY <2>3, OnlyOnSame
  <2>7. content' = content
    BY <1>8, <2>2, <2>6, SameAll
  <2>8. result' = [ended |-> "done", bytes |-> <<>>] \/ result' = [ended |-> "failed", bytes |-> <<>>]
    BY <2>2, <2>3
  <2>9. pos \in 0 .. Len(content[n])
    BY <1>2, <1>8
  <2>10. PositionOf(file)[n] # -1
    BY <1>1, OpenPosition
  <2>11. Promised!Seek(n)
    BY <2>5, <2>7, <2>8, <2>9, <2>10 DEF PositionOf, Promised!Seek, Promised!IsOpen, Promised!Ended
  <2> QED
    BY <2>11
<1>10. CASE PulledOut(v, "cut")
  BY <1>10, PulledPromised
<1> QED
  BY <1>3, <1>9, <1>10

LEMMA ContentBegun ==
    ASSUME FatInv, plugged, NEW u, NEW g, NEW n, NEW kept, NEW how, BegunClosed(u, g, n, kept, how)
    PROVE  IsContent(g, content) /\ OnNames(content) /\ Owns(g) /\ u.got = <<>>
<1>1. /\ Handles(vol, g, file) /\ Cached(u) = Cached(vol) /\ Owns(g) /\ u.got = <<>>
      /\ System(u, g, kept, SafeCards(how, kept), LostIn(card))
  BY DEF BegunClosed
<1>2. content = Seen(vol, file, TRUE)
  BY DEF FatInv, Typed
<1>3. Handles(u, g, file)
  BY <1>1, SameCachedHandle DEF Handles
<1>4. Settled(u, g, kept, LostIn(card))
  BY <1>1, SystemSettled
<1>5. IsContent(g, Seen(u, file, TRUE))
  BY <1>3, <1>4, SeenDone
<1>6. Seen(u, file, TRUE) = Seen(vol, file, TRUE)
  BY <1>1 DEF Seen, Content
<1>7. OnNames(Seen(vol, file, TRUE))
  BY DEF OnNames, Seen
<1> QED
  BY <1>1, <1>2, <1>5, <1>6, <1>7

LEMMA OpenPromised ==
    ASSUME FatInv, NEW n \in Names, NEW mode, FILEIO_Open(n, mode)
    PROVE  Promised!Open(n) \/ Promised!CardOut
<1> DEFINE u == Start(n)
           v == Open(u, n, mode)
           e == Good(v)
           t == TRUE
           erases == Erases(n, mode)
           kept == KeptOnOpen(flushed, n, erases)
           how == HowOnOpen(erases)
           o == IF e THEN WithOpen(v.f, t) ELSE Closed
<1>1. plugged /\ ~file[n].open
  BY DEF FILEIO_Open
<1>2. Return(n, v, o, e) \/ PulledOut(v, how)
  BY DEF FILEIO_Open, WithOpen, HowOnOpen
<1>b. /\ v = Open(u, n, mode) /\ erases = Erases(n, mode) /\ kept = KeptOnOpen(flushed, n, erases)
      /\ e = Good(v) /\ o = (IF e THEN WithOpen(v.f, t) ELSE Closed) /\ u = Start(n)
  OBVIOUS
<1>c. erases \in BOOLEAN /\ e \in BOOLEAN /\ t \in BOOLEAN /\ t
  BY DEF Erases, Good
<1> HIDE DEF u, v, e, t, erases, kept, how, o
<1>5. PICK g : \E h : /\ BegunClosed(u, g, n, kept, HowOnOpen(erases))
                  /\ System(v, h, kept, SafeCards(HowOnOpen(erases), kept), LostIn(card))
                  /\ Opened(u, v, g, h, n) /\ HandlesBut(v, h, file, n)
  BY <1>1, <1>b, <1>c, OpeningDone
<1>6. PICK h : /\ BegunClosed(u, g, n, kept, HowOnOpen(erases))
               /\ System(v, h, kept, SafeCards(HowOnOpen(erases), kept), LostIn(card))
               /\ Opened(u, v, g, h, n) /\ HandlesBut(v, h, file, n)
  BY <1>5
<1>7. v.f \in Object /\ Owns(h) /\ Settled(v, h, kept, LostIn(card))
  BY <1>6, SystemSettled DEF Settled, Vol, Volume
<1>8. Handle(v, h, o, n)
  BY <1>6, <1>7, <1>b, <1>c, OpenedHandle
<1>9. IsContent(g, content) /\ OnNames(content) /\ Owns(g) /\ u.got = <<>>
  BY <1>1, <1>6, ContentBegun
<1>10. CASE Return(n, v, o, e)
  <2>1. /\ IsContent(h, content') /\ OnNames(content')
        /\ PositionOf(file') = [PositionOf(file) EXCEPT ![n] = IF o.open THEN o.pos ELSE -1]
        /\ result' = [ended |-> IF e THEN "done" ELSE "failed", bytes |-> v.got]
    BY <1>1, <1>6, <1>7, <1>8, <1>10, ContentThen DEF Return
  <2>2. /\ Others(u, v, g, h, n) /\ v.got = <<>>
        /\ Good(v) => \E s : Opens(v, h, s, n)
        /\ \/ SameBytes(g, h, n)
           \/ IF Good(v) THEN \A s \in SlotNumbers : h[s].name = n => h[s].bytes = <<>>
              ELSE \A s \in SlotNumbers : h[s].name # n
    BY <1>6, <1>9 DEF Opened
  <2>3. \A m \in Names : m # n => FileSame(g, h, m)
    BY <2>2, OthersSame
  <2>4. content' = [content EXCEPT ![n] = content'[n]]
    BY <1>9, <2>1, <2>3, SameBut
  <2>5. ASSUME SameBytes(g, h, n) PROVE content' = content
    <3>1. FileSame(g, h, n)
      BY <2>5 DEF SameBytes, FileSame
    <3>2. \A m \in Names : FileSame(g, h, m)
      BY <2>3, <3>1
    <3> QED
      BY <1>9, <2>1, <3>2, SameAll
  <2>6. PositionOf(file)[n] = -1
    BY <1>1, OpenPosition
  <2>7. CASE e
    <3>1. PICK s : Opens(v, h, s, n)
      BY <1>b, <2>2, <2>7
    <3>2. s \in SlotNumbers /\ h[s].name = n /\ HandleOn(v.f, h, s) /\ v.f.pos \in {0, v.f.size}
      BY <3>1 DEF Opens, HandleOn
    <3>3. content'[n] = h[s].bytes /\ v.f.size = Len(h[s].bytes)
      BY <1>7, <2>1, <3>2, HandleSize DEF IsContent
    <3>4. o.open /\ o.pos = v.f.pos
      <4>1. WithOpen(v.f, t).open = t /\ WithOpen(v.f, t).pos = v.f.pos
        BY <1>7, <1>c, ObjectLeft
      <4> QED
        BY <1>b, <1>c, <2>7, <4>1
    <3>5. PositionOf(file') = [PositionOf(file) EXCEPT ![n] = v.f.pos]
      BY <2>1, <3>4
    <3>6. v.f.pos \in {0, Len(content'[n])}
      BY <3>2, <3>3
    <3>7. result' = [ended |-> "done", bytes |-> <<>>]
      BY <2>1, <2>2, <2>7
    <3>8. (content[n] # NoFile /\ content' = content) \/ content' = [content EXCEPT ![n] = <<>>]
      <4>1. CASE SameBytes(g, h, n)
        <5>1. g[s].name = n
          BY <3>2, <4>1 DEF SameBytes
        <5>2. content[n] # NoFile
          BY <1>9, <3>2, <5>1, AbsentSlot
        <5> QED
          BY <2>5, <4>1, <5>2
      <4>2. CASE \A r \in SlotNumbers : h[r].name = n => h[r].bytes = <<>>
        <5>1. content'[n] = <<>>
          BY <3>2, <3>3, <4>2
        <5> QED
          BY <2>4, <5>1
      <4> QED
        BY <1>b, <2>2, <2>7, <4>1, <4>2
    <3>9. Promised!Open(n)
      BY <2>6, <3>5, <3>6, <3>7, <3>8
         DEF PositionOf, Promised!Open, Promised!IsOpen, Promised!Ended, Promised!Absent
    <3> QED
      BY <3>9
  <2>8. CASE ~e
    <3>1. PositionOf(file') = PositionOf(file)
      <4>1. ~o.open
        BY <1>b, <2>8, ClosedObject
      <4>2. PositionOf(file') = [PositionOf(file) EXCEPT ![n] = -1]
        BY <2>1, <4>1
      <4> QED
        BY <2>6, <4>2, SamePosition
    <3>2. result' = [ended |-> "failed", bytes |-> <<>>]
      BY <2>1, <2>2, <2>8
    <3>3. content' = content \/ content' = [content EXCEPT ![n] = NoFile]
      <4>1. CASE SameBytes(g, h, n)
        BY <2>5, <4>1
      <4>2. CASE \A r \in SlotNumbers : h[r].name # n
        <5>1. content'[n] = NoFile
          BY <2>1, <4>2 DEF IsContent
        <5> QED
          BY <2>4, <5>1
      <4> QED
        BY <1>b, <2>2, <2>8, <4>1, <4>2
    <3>4. Promised!Open(n)
      BY <2>6, <3>1, <3>2, <3>3 DEF PositionOf, Promised!Open, Promised!IsOpen, Promised!Ended
    <3> QED
      BY <3>4
  <2> QED
    BY <2>7, <2>8
<1>11. CASE PulledOut(v, how)
  BY <1>11, PulledPromised
<1> QED
  BY <1>2, <1>10, <1>11

LEMMA RemovePromised ==
    ASSUME FatInv, NEW n \in Names, FILEIO_Remove(n)
    PROVE  Promised!Remove(n) \/ Promised!CardOut
<1> DEFINE u == Start(n)
           v == RemoveFile(u, n)
           e == Good(v)
           kept == Without(flushed, n)
<1>1. /\ plugged /\ ~file[n].open
      /\ Return(n, v, Closed, e) \/ PulledOut(v, "torn")
  BY DEF FILEIO_Remove
<1>2. v = RemoveFile(u, n) /\ kept = Without(flushed, n) /\ e = Good(v) /\ u = Start(n)
  OBVIOUS
<1> HIDE DEF u, v, e, kept
<1>5. PICK g : \E h : /\ BegunClosed(u, g, n, kept, "torn")
                  /\ System(v, h, kept, Survivors(kept), LostIn(card))
                  /\ Removed(u, v, g, h, n) /\ HandlesBut(v, h, file, n) /\ Handle(v, h, Closed, n)
  BY <1>1, <1>2, RemovingDone
<1>6. PICK h : /\ BegunClosed(u, g, n, kept, "torn")
               /\ System(v, h, kept, Survivors(kept), LostIn(card))
               /\ Removed(u, v, g, h, n) /\ HandlesBut(v, h, file, n) /\ Handle(v, h, Closed, n)
  BY <1>5
<1>7. Settled(v, h, kept, LostIn(card))
  BY <1>6, SystemSettled
<1>8. IsContent(g, content) /\ OnNames(content) /\ Owns(g) /\ u.got = <<>>
  BY <1>1, <1>6, ContentBegun
<1>9. CASE Return(n, v, Closed, e)
  <2>1. /\ IsContent(h, content') /\ OnNames(content')
        /\ PositionOf(file') = [PositionOf(file) EXCEPT ![n] = IF Closed.open THEN Closed.pos ELSE -1]
        /\ result' = [ended |-> IF e THEN "done" ELSE "failed", bytes |-> v.got]
    BY <1>1, <1>6, <1>7, <1>9, ContentThen DEF Return
  <2>2. PositionOf(file)[n] = -1
    BY <1>1, OpenPosition
  <2>3. PositionOf(file') = PositionOf(file)
    BY <2>1, <2>2, ClosedObject, SamePosition
  <2>4. /\ Others(u, v, g, h, n) /\ v.got = <<>> /\ \A t \in SlotNumbers : h[t].name # n
        /\ Good(v) <=> \E t \in SlotNumbers : g[t].name = n
        /\ ~Good(v) => h = g
    BY <1>6, <1>8 DEF Removed
  <2>5. content'[n] = NoFile
    BY <2>1, <2>4 DEF IsContent
  <2>6. content' = [content EXCEPT ![n] = NoFile]
    <3>1. \A m \in Names : m # n => FileSame(g, h, m)
      BY <2>4, OthersSame
    <3> QED
      BY <1>8, <2>1, <2>5, <3>1, SameBut
  <2>7. CASE e
    <3>1. content[n] # NoFile
      BY <1>2, <1>8, <2>4, <2>7, AbsentSlot
    <3>2. Promised!Remove(n)
      BY <2>1, <2>2, <2>3, <2>4, <2>6, <2>7, <3>1
         DEF PositionOf, Promised!Remove, Promised!IsOpen, Promised!Ended, Promised!Absent
    <3> QED
      BY <3>2
  <2>8. CASE ~e
    <3>1. content[n] = NoFile
      BY <1>2, <1>8, <2>4, <2>8, AbsentSlot
    <3>2. content' = content
      BY <1>8, <2>6, <3>1 DEF OnNames
    <3>3. Promised!Remove(n)
      BY <2>1, <2>2, <2>3, <2>4, <2>8, <3>1, <3>2
         DEF PositionOf, Promised!Remove, Promised!IsOpen, Promised!Ended, Promised!Absent
    <3> QED
      BY <3>3
  <2> QED
    BY <2>7, <2>8
<1>10. CASE PulledOut(v, "torn")
  BY <1>10, PulledPromised
<1> QED
  BY <1>1, <1>9, <1>10

LEMMA RenameContent ==
    ASSUME NEW g, Owns(g), NEW s \in SlotNumbers, NEW n \in Names, g[s].name = n, NEW m \in Names,
           \A t \in SlotNumbers : g[t].name # m, NEW h, h = Renamed(g, s, m),
           NEW a, NEW b, IsContent(g, a), IsContent(h, b), OnNames(a), OnNames(b)
    PROVE  n # m /\ a[n] # NoFile /\ a[m] = NoFile /\ b = [a EXCEPT ![m] = a[n], ![n] = NoFile]
<1>1. n # m
  OBVIOUS
<1>2. a[n] # NoFile /\ a[m] = NoFile
  BY AbsentSlot
<1>3. /\ h[s].name = m /\ h[s].bytes = g[s].bytes
      /\ \A t \in SlotNumbers : t # s => h[t] = g[t]
  BY RenamedOwns
<1>4. b[m] = a[n]
  BY <1>3 DEF IsContent
<1>5. b[n] = NoFile
  <2>1. \A t \in SlotNumbers : h[t].name # n
    BY <1>1, <1>3 DEF Owns
  <2> QED
    BY <2>1 DEF IsContent
<1>6. ASSUME NEW k \in Names, k # n, k # m PROVE b[k] = a[k]
  <2>1. FileSame(g, h, k)
    BY <1>3, <1>6 DEF FileSame
  <2> QED
    BY <2>1, SameFileBytes
<1> DEFINE z == NoFile
           c == [a EXCEPT ![m] = a[n], ![n] = z]
<1>7. b[n] = z
  BY <1>5
<1> HIDE DEF z
<1>8. \A k \in Names : c[k] = b[k]
  BY <1>1, <1>4, <1>6, <1>7 DEF OnNames
<1>9. c = [k \in Names |-> c[k]]
  BY DEF OnNames
<1>10. b = [k \in Names |-> b[k]]
  BY DEF OnNames
<1> HIDE DEF c
<1>11. b = c
  BY <1>8, <1>9, <1>10
<1> QED
  BY <1>1, <1>2, <1>11 DEF c, z

LEMMA RenamePromised ==
    ASSUME FatInv, NEW n \in Names, NEW m \in Names, FILEIO_Rename(n, m)
    PROVE  Promised!Rename(n, m) \/ Promised!CardOut
<1> DEFINE u == Start(n)
           v == Rename(u, n, m)
           e == Good(v)
<1>1. /\ plugged /\ ~file[n].open /\ ~file[m].open
      /\ Return(n, v, Closed, e) \/ PulledOut(v, "cut")
  BY DEF FILEIO_Rename
<1>2. v = Rename(u, n, m) /\ e = Good(v) /\ u = Start(n)
  OBVIOUS
<1> HIDE DEF u, v, e
<1>3. PICK g : Begun(u, g, n)
  BY <1>1, <1>2, CallBegins
<1>4. /\ Handles(vol, g, file) /\ Owns(g) /\ System(u, g, flushed, WholeCards(flushed), LostIn(card))
      /\ Good(u) /\ Cached(u) = Cached(vol) /\ Cached(u) \in Card /\ u.got = <<>>
      /\ Settled(vol, g, flushed, LostIn(card))
  BY <1>3, ImagesTyped, ImageMembers DEF Begun
<1>5. IsContent(g, content) /\ OnNames(content)
  BY <1>1, <1>4, ContentNow
<1>6. Renames(u, v, g, flushed, n, m, WholeCards(flushed), LostIn(card))
  BY <1>2, <1>4, RenameDone
<1>7. PositionOf(file)[n] = -1
  BY <1>1, OpenPosition
<1>8. CASE Return(n, v, Closed, e)
  <2>1. CASE /\ System(v, g, flushed, WholeCards(flushed), LostIn(card)) /\ ~Good(v) /\ v.got = u.got
             /\ Cached(v) = Cached(u)
             /\ (\A t \in SlotNumbers : g[t].name # n) \/ (\E t \in SlotNumbers : g[t].name = m)
    <3>1. Settled(v, g, flushed, LostIn(card))
      BY <2>1, SystemSettled
    <3>2. \A k \in Names : Handle(v, g, file[k], k)
      <4> SUFFICES ASSUME NEW k \in Names PROVE Handle(v, g, file[k], k)
        OBVIOUS
      <4>1. Handle(vol, g, file[k], k) /\ Cached(v) = Cached(vol)
        BY <1>4, <2>1 DEF Handles
      <4> QED
        BY <4>1, SameCachedHandle
    <3>3. file[n] = Closed
      BY <1>1, <3>2 DEF Handle
    <3>4. HandlesBut(v, g, file, n) /\ Handle(v, g, Closed, n)
      BY <3>2, <3>3 DEF HandlesBut
    <3>5. /\ IsContent(g, content') /\ OnNames(content')
          /\ PositionOf(file') = [PositionOf(file) EXCEPT ![n] = IF Closed.open THEN Closed.pos ELSE -1]
          /\ result' = [ended |-> IF e THEN "done" ELSE "failed", bytes |-> v.got]
      BY <1>1, <1>8, <3>1, <3>4, ContentThen DEF Return
    <3>6. content' = content
      <4>1. \A k \in Names : FileSame(g, g, k)
        BY DEF FileSame
      <4> QED
        BY <1>5, <3>5, <4>1, SameAll
    <3>7. PositionOf(file') = PositionOf(file)
      BY <1>7, <3>5, ClosedObject, SamePosition
    <3>8. result' = [ended |-> "failed", bytes |-> <<>>]
      BY <1>2, <1>4, <2>1, <3>5
    <3>9. content[n] = NoFile \/ content[m] # NoFile
      BY <1>4, <1>5, <2>1, AbsentSlot
    <3>10. Promised!Rename(n, m)
      BY <1>7, <3>6, <3>7, <3>8, <3>9
         DEF PositionOf, Promised!Rename, Promised!IsOpen, Promised!Ended, Promised!Absent
    <3> QED
      BY <3>10
  <2>2. CASE \E s \in SlotNumbers :
              /\ g[s].name = n /\ \A t \in SlotNumbers : g[t].name # m
              /\ Refounded(u, v, g, Renamed(g, s, m), s, flushed, m, WholeCards(flushed), LostIn(card))
    <3>1. PICK s \in SlotNumbers :
              /\ g[s].name = n /\ \A t \in SlotNumbers : g[t].name # m
              /\ Refounded(u, v, g, Renamed(g, s, m), s, flushed, m, WholeCards(flushed), LostIn(card))
      BY <2>2
    <3> DEFINE h == Renamed(g, s, m)
    <3>2. h = Renamed(g, s, m)
      OBVIOUS
    <3> HIDE DEF h
    <3>3. Refounded(u, v, g, h, s, flushed, m, WholeCards(flushed), LostIn(card))
      BY <3>1, <3>2
    <3>4. HandlesBut(v, h, file, n) /\ Handle(v, h, Closed, n)
      BY <1>1, <1>4, <3>1, <3>2, <3>3, RefoundedHandles
    <3> DEFINE k == Renaming(flushed, g[s].name, m)
    <3>5. Settled(v, h, k, LostIn(card)) /\ Good(v) /\ v.got = u.got
      BY <3>3 DEF Refounded
    <3> HIDE DEF k
    <3>6. /\ IsContent(h, content') /\ OnNames(content')
          /\ PositionOf(file') = [PositionOf(file) EXCEPT ![n] = IF Closed.open THEN Closed.pos ELSE -1]
          /\ result' = [ended |-> IF e THEN "done" ELSE "failed", bytes |-> v.got]
      BY <1>1, <1>8, <3>4, <3>5, ContentThen DEF Return
    <3>7. /\ content[n] # NoFile /\ content[m] = NoFile
          /\ content' = [content EXCEPT ![m] = content[n], ![n] = NoFile]
      BY <1>4, <1>5, <3>1, <3>2, <3>6, RenameContent
    <3>8. PositionOf(file') = PositionOf(file)
      BY <1>7, <3>6, ClosedObject, SamePosition
    <3>9. result' = [ended |-> "done", bytes |-> <<>>]
      BY <1>2, <1>4, <3>5, <3>6
    <3>10. Promised!Rename(n, m)
      BY <1>7, <3>7, <3>8, <3>9
         DEF PositionOf, Promised!Rename, Promised!IsOpen, Promised!Ended, Promised!Absent
    <3> QED
      BY <3>10
  <2> QED
    BY <1>6, <2>1, <2>2 DEF Renames
<1>9. CASE PulledOut(v, "cut")
  BY <1>9, PulledPromised
<1> QED
  BY <1>1, <1>8, <1>9

LEMMA MountPromised ==
    ASSUME FatInv, FILEIO_DriveMount
    PROVE  Promised!CardIn
<1>1. ~plugged /\ file' = file /\ result' = [ended |-> "done", bytes |-> <<>>]
  BY DEF FILEIO_DriveMount
<1>2. content = Seen(vol, file, FALSE)
  <2>1. content = Seen(vol, file, plugged)
    BY DEF FatInv, Typed
  <2> QED
    BY <1>1, <2>1 DEF Seen
<1>3. \A n \in Names : content[n] = NoFile
  BY <1>2 DEF Seen
<1> QED
  BY <1>1, <1>3 DEF Promised!CardIn, Promised!Ended, Promised!Absent

(* Every call is one that is promised, or the card is pulled out or put in.*)
LEMMA NextPromised ==
    ASSUME FatInv, Habits = {}, Next
    PROVE  Promised!FilesNext
<1>0. ASSUME Promised!CardOut PROVE Promised!FilesNext
  BY <1>0 DEF Promised!FilesNext
<1>1. ASSUME NEW n \in Names, NEW mode \in Modes, FILEIO_Open(n, mode) PROVE Promised!FilesNext
  BY <1>0, <1>1, OpenPromised DEF Promised!FilesNext
<1>2. ASSUME NEW n \in Names, FILEIO_Flush(n) PROVE Promised!FilesNext
  BY <1>0, <1>2, FlushPromised DEF Promised!FilesNext
<1>3. ASSUME NEW n \in Names, FILEIO_Close(n) PROVE Promised!FilesNext
  BY <1>0, <1>3, ClosePromised DEF Promised!FilesNext
<1>4. ASSUME NEW n \in Names, FILEIO_Read(n) PROVE Promised!FilesNext
  BY <1>0, <1>4, ReadPromised DEF Promised!FilesNext
<1>5. ASSUME NEW n \in Names, FILEIO_Write(n) PROVE Promised!FilesNext
  BY <1>0, <1>5, WritePromised DEF Promised!FilesNext
<1>6. ASSUME NEW n \in Names, FILEIO_Seek(n) PROVE Promised!FilesNext
  BY <1>0, <1>6, SeekPromised DEF Promised!FilesNext
<1>7. ASSUME NEW n \in Names, FILEIO_Remove(n) PROVE Promised!FilesNext
  BY <1>0, <1>7, RemovePromised DEF Promised!FilesNext
<1>8. ASSUME NEW n \in Names, NEW m \in Names, FILEIO_Rename(n, m) PROVE Promised!FilesNext
  BY <1>0, <1>8, RenamePromised DEF Promised!FilesNext
<1>9. ASSUME FILEIO_DriveMount PROVE Promised!FilesNext
  BY <1>9, MountPromised DEF Promised!FilesNext
<1> QED
  BY <1>1, <1>2, <1>3, <1>4, <1>5, <1>6, <1>7, <1>8, <1>9 DEF Next

LEMMA InitPromised ==
    ASSUME Init
    PROVE  \A n \in Names : ~Promised!IsOpen(n)
<1>1. \A n \in Names : ~file[n].open
  BY ClosedObject DEF Init
<1> QED
  BY <1>1 DEF Promised!IsOpen

(***************************************************************************)
(* The library implements Files: through both buffers, the table and the   *)
(* directory each call does to the bytes and the position of its file what *)
(* Files says, and to no other file anything. What FILEIO_Read returns is  *)
(* what was written; a call that fails changes no more than Files allows.  *)
(***************************************************************************)
THEOREM FilesRefined == Habits = {} => (Spec => ImplementsFiles)
<1> SUFFICES ASSUME Habits = {} PROVE Spec => ImplementsFiles
  OBVIOUS
<1>1. Init => \A n \in Names : ~Promised!IsOpen(n)
  BY InitPromised
<1>2. FatInv /\ [Next]_vars => [Promised!FilesNext]_(Promised!filesVars)
  <2> SUFFICES ASSUME FatInv, [Next]_vars PROVE [Promised!FilesNext]_(Promised!filesVars)
    OBVIOUS
  <2>1. CASE Next
    BY <2>1, NextPromised
  <2>2. CASE UNCHANGED vars
    BY <2>2 DEF vars, Promised!filesVars
  <2> QED
    BY <2>1, <2>2
<1>3. Spec => []FatInv
  BY FatInvHolds
<1> QED
  BY <1>1, <1>2, <1>3, PTL DEF Spec, ImplementsFiles, Promised!FilesSpec
=============================================================================
