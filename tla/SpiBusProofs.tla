----------------------------- MODULE SpiBusProofs -----------------------------
(***************************************************************************)
(* What the users of SPI channel 2 promise. The background player, for     *)
(* files, buffers, feeds and codecs of every size, and wherever the card   *)
(* is pulled out; the drivers of the serial flash and of the SD card, for  *)
(* every size of a memory, page, write and card.                           *)
(***************************************************************************)
EXTENDS MCSpiBus, SequenceTheorems, TLAPS

(***************************************************************************)
(* The serial flash. Where the bytes of a write come to lie: arithmetic    *)
(* modulo a page and modulo the memory.                                    *)
(***************************************************************************)
(* Division with a remainder.                                              *)
LEMMA DivMod ==
    ASSUME NEW n \in Int, NEW d \in Nat \ {0}
    PROVE  /\ n \div d \in Int /\ (n % d) \in 0..d-1
           /\ n = d * (n \div d) + (n % d)
OBVIOUS

(* What is sent to one page comes to lie in one piece.                     *)
LEMMA OnePage ==
    ASSUME NEW d \in Nat \ {0}, NEW a \in Nat, NEW o \in Nat, NEW n \in Nat,
           n <= d - (o % d)
    PROVE  /\ (a \div d = o \div d /\ (a - o) % d < n) <=> (a >= o /\ a < o + n)
           /\ (a >= o /\ a < o + n) => (a - o) % d = a - o
<1> DEFINE q == o \div d   r == o % d   u == a \div d  v == a % d
<1>1. q \in Int /\ r \in 0..d-1 /\ o = d*q + r
  BY DivMod
<1>2. u \in Int /\ v \in 0..d-1 /\ a = d*u + v
  BY DivMod
<1>0. (a >= o /\ a < o + n) => (a - o) % d = a - o
  <2> SUFFICES ASSUME a >= o, a < o + n PROVE (a - o) % d = a - o
    OBVIOUS
  <2>1. a - o \in 0..d-1
    BY <1>1
  <2>2. QED
    BY <2>1
<1>3. CASE u = q
  <2>1. a - o = v - r
    BY <1>1, <1>2, <1>3
  <2>2. CASE v >= r
    <3>1. (a - o) % d = v - r
      BY <2>1, <2>2, <1>1, <1>2
    <3>2. QED
      BY <3>1, <1>0, <1>1, <1>2, <2>2, <2>1, <1>3
  <2>3. CASE v < r
    <3>1. (a - o) % d = v - r + d
      BY <2>1, <2>3, <1>1, <1>2
    <3>2. QED
      BY <3>1, <1>0, <1>1, <1>2, <2>3, <2>1, <1>3
  <2>4. QED
    BY <2>2, <2>3, <1>1, <1>2
<1>4. CASE u < q
  <2>1. d * (u + 1) <= d * q
    BY <1>4, <1>1, <1>2
  <2>2. a < o
    BY <2>1, <1>1, <1>2
  <2>3. QED
    BY <2>2, <1>0, <1>4
<1>5. CASE u > q
  <2>1. d * (q + 1) <= d * u
    BY <1>5, <1>1, <1>2
  <2>2. a >= o + n
    BY <2>1, <1>1, <1>2
  <2>3. QED
    BY <2>2, <1>0, <1>5
<1>6. QED
  BY <1>1, <1>2, <1>3, <1>4, <1>5

(* The end of a page is no further than the end of the memory.             *)
LEMMA PageFits ==
    ASSUME NEW page \in Nat \ {0}, NEW sector \in Nat \ {0}, NEW total \in Nat \ {0},
           total % sector = 0, sector % page = 0, NEW o \in 0..total-1
    PROVE  o + (page - (o % page)) <= total
<1> DEFINE j == total \div sector  k == sector \div page  q == o \div page  r == o % page
<1>1. /\ j \in Int /\ total = sector * j
      /\ k \in Int /\ sector = page * k
      /\ q \in Int /\ r \in 0..page-1 /\ o = page * q + r
  <2>1. j \in Int /\ total = sector * j
    BY DivMod
  <2>2. k \in Int /\ sector = page * k
    BY DivMod
  <2>3. q \in Int /\ r \in 0..page-1 /\ o = page * q + r
    BY DivMod
  <2>4. QED
    BY <2>1, <2>2, <2>3
<1> HIDE DEF j, k, q, r
<1>2. total = page * (k * j) /\ k * j \in Int
  BY <1>1
<1> DEFINE m == k * j
<1>3. m \in Int /\ total = page * m
  BY <1>2
<1> HIDE DEF m
<1>4. q < m
  <2>1. CASE q >= m
    <3>1. page * q >= page * m
      BY <2>1, <1>1, <1>3
    <3>2. QED
      BY <3>1, <1>1, <1>3
  <2>2. QED
    BY <2>1, <1>1, <1>3
<1>5. page * (q + 1) <= page * m
  BY <1>1, <1>3, <1>4
<1>6. page * (q + 1) = page * q + page
  BY <1>1
<1>7. QED
  BY <1>1, <1>3, <1>5, <1>6 DEF r

(* What is more than a multiple by less than the divisor.                  *)
LEMMA Remainder ==
    ASSUME NEW d \in Nat \ {0}, NEW k \in Int, NEW m \in 0..d-1, NEW n \in Int, n = d * k + m
    PROVE  n % d = m
<1> DEFINE q == n \div d   r == n % d
<1>1. q \in Int /\ r \in 0..d-1 /\ n = d * q + r
  BY DivMod
<1> HIDE DEF q, r
<1>2. ASSUME q < k PROVE r = m
  <2>1. d * (q + 1) <= d * k /\ d * (q + 1) = d * q + d
    BY <1>1, <1>2
  <2>2. QED
    BY <1>1, <2>1
<1>3. ASSUME q > k PROVE r = m
  <2>1. d * (k + 1) <= d * q /\ d * (k + 1) = d * k + d
    BY <1>1, <1>3
  <2>2. QED
    BY <1>1, <2>1
<1>4. ASSUME q = k PROVE r = m
  <2>1. d * q = d * k /\ d * k \in Int
    BY <1>1, <1>4
  <2>2. QED
    BY <1>1, <2>1
<1>5. r = m
  BY <1>1, <1>2, <1>3, <1>4
<1>6. QED
  BY <1>5 DEF r

LEMMA RoomLeft ==
    ASSUME NEW d \in Nat \ {0}, NEW o \in Int
    PROVE  d - (o % d) \in Nat \ {0}
<1>1. (o % d) \in 0..d-1
  BY DivMod
<1>2. QED
  BY <1>1

(* From an offset on, the next page begins at the end of this one.         *)
LEMMA NextPage ==
    ASSUME NEW o \in 0..SIZE-1, NEW x \in Nat \ {0}, x <= PAGE - (o % PAGE)
    PROVE  /\ o + x <= SIZE
           /\ ((o + x) % SIZE) % PAGE = 0 <=> x = PAGE - (o % PAGE)
<1>0. SIZE \in Nat \ {0} /\ PAGE \in Nat \ {0} /\ o \in Nat
  BY BusAssumption DEF F!ChipAssumption
<1> DEFINE q == o \div PAGE   r == o % PAGE   room == PAGE - r
<1>1. q \in Int /\ r \in 0..PAGE-1 /\ o = PAGE * q + r
  BY <1>0, DivMod
<1>2. o + room <= SIZE
  BY BusAssumption, PageFits DEF F!ChipAssumption
<1>3. x <= room /\ room = PAGE - r
  OBVIOUS
<1>4. room \in Nat
  BY <1>0, RoomLeft
<1> HIDE DEF q, r, room
<1>5. o + x <= SIZE
  BY <1>0, <1>2, <1>3, <1>4
<1>6. CASE x < room
  <2>1. o + x < SIZE
    BY <1>0, <1>2, <1>4, <1>6
  <2>2. (o + x) % SIZE = o + x
    BY <1>0, <2>1
  <2>3. r + x \in 0..PAGE-1
    BY <1>0, <1>1, <1>3, <1>6
  <2>4. o + x = PAGE * q + (r + x)
    BY <1>0, <1>1
  <2>5. (o + x) % PAGE = r + x
    BY <1>0, <1>1, <2>3, <2>4, Remainder
  <2>6. r + x # 0
    BY <1>0, <1>1
  <2>7. QED
    BY <1>0, <1>5, <1>6, <2>2, <2>5, <2>6 DEF r, room
<1>7. CASE x = room
  <2>1. CASE o + x = SIZE
    <3>1. (o + x) % SIZE = 0 /\ 0 % PAGE = 0
      BY <1>0, <2>1
    <3>2. QED
      BY <1>0, <1>5, <1>7, <3>1 DEF r, room
  <2>2. CASE o + x < SIZE
    <3>1. (o + x) % SIZE = o + x
      BY <1>0, <2>2
    <3>2. PAGE * (q + 1) = PAGE * q + PAGE /\ o + x = PAGE * q + PAGE
      BY <1>0, <1>1, <1>3, <1>7
    <3>3. o + x = PAGE * (q + 1) + 0 /\ q + 1 \in Int /\ 0 \in 0..PAGE-1
      BY <1>0, <1>1, <3>2
    <3>4. (o + x) % PAGE = 0
      BY <1>0, <3>3, Remainder
    <3>5. QED
      BY <1>0, <1>5, <1>7, <3>1, <3>4 DEF r, room
  <2>3. QED
    BY <1>0, <1>5, <2>1, <2>2
<1>8. QED
  BY <1>0, <1>3, <1>6, <1>7, <1>1

(* Adding modulo a number, and taking the difference again.                *)
LEMMA Wraps ==
    ASSUME NEW s \in Nat \ {0}, NEW b \in 0..s-1, NEW a \in 0..s-1, NEW k \in 0..s-1
    PROVE  /\ (a = ((b + k) % s)) <=> (((a - b) % s) = k)
           /\ (a - b) % s \in 0..s-1 /\ (b + k) % s \in 0..s-1
<1>1. (b + k) % s = IF b + k < s THEN b + k ELSE b + k - s
  OBVIOUS
<1>2. (a - b) % s = IF a >= b THEN a - b ELSE a - b + s
  OBVIOUS
<1>3. QED
  BY <1>1, <1>2

-----------------------------------------------------------------------------
(***************************************************************************)
(* The inductive invariant of the flash driver: between two pages the      *)
(* memory is what it was when the call was made, with the bytes sent so    *)
(* far written to it, all of which read back, and no command is sent to a  *)
(* chip that is busy, protected or not enabled.                            *)
(***************************************************************************)
(* The bytes from addr on: how far a byte is from the first, and what the  *)
(* memory holds when n of them have been sent.                             *)
Offset(a) == (a - op.addr) % SIZE

Written(n) ==
    [a \in F!Address |->
        IF Offset(a) < n THEN before[a] \cap op.data[Offset(a) + 1] ELSE before[a]]

(* The first n bytes read back.                                            *)
ReadsBack(n) == \A i \in 1..n : F!Memory!Left(op.addr, op.data, i) = op.data[i]

Erased ==
    [a \in F!Address |->
        IF op.kind = "chip" \/ a \div SECTOR = op.addr \div SECTOR
          THEN BITS ELSE before[a]]

FlashTypes ==
    /\ array \in [F!Address -> F!Byte] /\ before \in [F!Address -> F!Byte]
    /\ wip \in BOOLEAN /\ wel \in BOOLEAN /\ bp \in BOOLEAN /\ locked \in BOOLEAN
    /\ op \in F!Calls \cup {F!NoCall} /\ counter \in Nat

Idling ==
    at = "idle" =>
        /\ op = F!NoCall /\ counter = 0
        /\ ~wip /\ array = before /\ bp = locked

Writing ==
    op.kind = "write" =>
        /\ at \in {"check", "enable", "program", "written"}
        /\ bp = locked
        /\ at # "written" => ~wip
        /\ at = "program" => wel
        /\ IF at = "check" THEN counter = 0 ELSE counter < Len(op.data)
        /\ array = IF locked THEN before
                   ELSE Written(IF at = "written" THEN counter + F!SendCount ELSE counter)
        /\ ReadsBack(counter)

Erasing ==
    op.kind \in {"sector", "chip"} =>
        /\ at \in {"status", "unprotected", "enable", "erase", "bulk", "erased"}
        /\ at = "bulk" => op.kind = "chip"
        /\ IF at = "status" THEN bp = locked ELSE ~bp
        /\ at \in {"status", "enable", "erase"} => ~wip
        /\ at = "erase" => wel
        /\ array = IF at \in {"bulk", "erased"} THEN Erased ELSE before

FlashInv == FlashTypes /\ Idling /\ Writing /\ Erasing /\ (op = F!NoCall => at = "idle")

(* What is known of a write that is under way.                             *)
LEMMA WriteFacts ==
    ASSUME FlashTypes, op.kind = "write"
    PROVE  /\ op \in [kind : {"write"}, addr : F!Address,
                       data : UNION {[1..n -> F!Byte] : n \in 0..WRITES}]
           /\ op.addr \in 0..SIZE-1 /\ SIZE \in Nat \ {0}
           /\ Len(op.data) \in Nat /\ Len(op.data) < SIZE
           /\ DOMAIN op.data = 1..Len(op.data)
           /\ \A i \in 1..Len(op.data) : op.data[i] \in F!Byte
<1>1. op \in [kind : {"write"}, addr : F!Address,
              data : UNION {[1..n -> F!Byte] : n \in 0..WRITES}]
  BY DEF FlashTypes, F!Calls, F!NoCall
<1>2. PICK n \in 0..WRITES : op.data \in [1..n -> F!Byte]
  BY <1>1
<1>3. SIZE \in Nat \ {0} /\ WRITES \in 0..SIZE-1
  BY BusAssumption DEF F!ChipAssumption
<1>4. Len(op.data) = n
  BY <1>2, <1>3
<1>5. QED
  BY <1>1, <1>2, <1>3, <1>4 DEF F!Address

LEMMA FlashInitInv == F!Init => FlashInv
<1> SUFFICES ASSUME F!Init PROVE FlashInv
  OBVIOUS
<1>1. op.kind = "none"
  BY DEF F!Init, F!NoCall
<1>2. Writing /\ Erasing
  BY <1>1 DEF Writing, Erasing
<1>3. FlashTypes
  BY DEF F!Init, FlashTypes
<1>4. Idling /\ (op = F!NoCall => at = "idle")
  BY DEF F!Init, Idling
<1>5. QED
  BY <1>2, <1>3, <1>4 DEF FlashInv

LEMMA CallInv ==
    ASSUME FlashInv, NEW c \in F!Calls, F!Call(c)
    PROVE  FlashInv'
<1> USE DEF FlashInv, F!Call, F!chip, F!history
<1>1. FlashTypes'
  BY DEF FlashTypes
<1>2. op = F!NoCall /\ ~wip /\ array = before /\ bp = locked /\ c = op' /\ counter' = 0
  BY DEF Idling
<1>3. c.kind \in {"write", "sector", "chip"} /\ c # F!NoCall
  BY DEF F!Calls, F!NoCall
<1>4. Idling' /\ (op' = F!NoCall => at' = "idle")
  BY <1>2, <1>3 DEF Idling
<1>5. Erasing'
  BY <1>2, <1>3 DEF Erasing
<1>6. Writing'
  <2> SUFFICES ASSUME c.kind = "write" PROVE Writing'
    BY <1>2 DEF Writing
  <2>1. array' = Written(0)'
    <3>1. Written(0)' = [a \in F!Address |-> before'[a]]
      <4>1. ASSUME NEW a \in F!Address PROVE ~(Offset(a)' < 0)
        <5>1. Offset(a)' \in 0..SIZE-1
          <6>1. SIZE \in Nat \ {0} /\ a \in 0..SIZE-1 /\ op'.addr \in 0..SIZE-1
            BY <1>1, <1>2, WriteFacts, BusAssumption DEF F!Address, FlashTypes, F!ChipAssumption, F!Calls
          <6>2. QED
            BY <6>1, Wraps DEF Offset
        <5>2. QED
          BY <5>1, BusAssumption DEF F!ChipAssumption
      <4>2. QED
        BY <4>1 DEF Written
    <3>2. QED
      BY <3>1, <1>2, <1>1 DEF FlashTypes
  <2>2. at' = "check"
    BY <1>2
  <2>3. ReadsBack(counter)'
    BY <1>2 DEF ReadsBack
  <2>4. QED
    BY <1>2, <2>1, <2>2, <2>3 DEF Writing
<1>7. QED
  BY <1>1, <1>4, <1>5, <1>6

(* Nothing is under way any more: the memory and the chip agree.           *)
LEMMA ReturnInv ==
    ASSUME FlashInv, F!Return, wip' = FALSE, array' = array, bp' = bp, wel' \in BOOLEAN
    PROVE  FlashInv'
<1> USE DEF FlashInv, F!Return
<1>1. op'.kind = "none"
  BY DEF F!NoCall
<1>2. Writing' /\ Erasing'
  BY <1>1 DEF Writing, Erasing
<1>3. FlashTypes'
  BY DEF FlashTypes
<1>4. Idling'
  BY DEF Idling
<1>5. QED
  BY <1>2, <1>3, <1>4

(* What is sent next: where it goes, and that it goes nowhere else.        *)
LEMMA SendsOn ==
    ASSUME FlashTypes, op.kind = "write", counter < Len(op.data)
    PROVE  /\ F!SendCount \in Nat \ {0} /\ counter + F!SendCount <= Len(op.data)
           /\ \A a \in F!Address :
                /\ F!InPage(a, (op.addr + counter) % SIZE, F!SendCount)
                      <=> counter <= Offset(a) /\ Offset(a) < counter + F!SendCount
                /\ F!InPage(a, (op.addr + counter) % SIZE, F!SendCount)
                      => (a - ((op.addr + counter) % SIZE)) % PAGE = Offset(a) - counter
                /\ Offset(a) \in 0..SIZE-1
<1> DEFINE o == (op.addr + counter) % SIZE
           s == F!SendCount
<1>0. /\ op.addr \in 0..SIZE-1 /\ SIZE \in Nat \ {0} /\ PAGE \in Nat \ {0}
      /\ Len(op.data) \in Nat /\ Len(op.data) < SIZE /\ counter \in 0..SIZE-1
      /\ SECTOR \in Nat \ {0} /\ SIZE % SECTOR = 0 /\ SECTOR % PAGE = 0
  BY WriteFacts, BusAssumption DEF F!ChipAssumption, FlashTypes
<1>1. o \in 0..SIZE-1 /\ o = (op.addr + counter) % SIZE
  BY <1>0, Wraps
<1>2. s = LET room == PAGE - (o % PAGE)
              rest == Len(op.data) - counter
          IN  IF room > rest THEN rest ELSE room
  BY DEF F!SendCount, F!Room
<1>3. \A a : F!InPage(a, o, s) <=> a \div PAGE = o \div PAGE /\ (a - o) % PAGE < s
  BY DEF F!InPage
<1> DEFINE room == PAGE - (o % PAGE)
<1> HIDE DEF o, s
<1>4. room \in Nat \ {0}
  <2>1. PAGE \in Nat \ {0} /\ o \in Int
    BY <1>0, <1>1
  <2>2. QED
    BY <2>1, RoomLeft
<1>8. o + room <= SIZE
  BY <1>0, <1>1, PageFits
<1>9. s <= room => s <= PAGE - (o % PAGE)
  OBVIOUS
<1>10. s = IF room > Len(op.data) - counter THEN Len(op.data) - counter ELSE room
  BY <1>2
<1> HIDE DEF room
<1>11. s \in Nat \ {0} /\ counter + s <= Len(op.data) /\ s <= room
  BY <1>0, <1>4, <1>10
<1>5. s \in Nat \ {0} /\ counter + s <= Len(op.data) /\ s <= PAGE - (o % PAGE)
  BY <1>9, <1>11
<1>6. o + s <= SIZE
  BY <1>0, <1>1, <1>4, <1>8, <1>11
<1>7. ASSUME NEW a \in F!Address
      PROVE  /\ F!InPage(a, o, s) <=> counter <= Offset(a) /\ Offset(a) < counter + s
             /\ F!InPage(a, o, s) => (a - o) % PAGE = Offset(a) - counter
             /\ Offset(a) \in 0..SIZE-1
  <2>1. a \in 0..SIZE-1 /\ a \in Nat /\ o \in Nat /\ s \in Nat
    BY <1>0, <1>1, <1>5 DEF F!Address
  <2>2. /\ F!InPage(a, o, s) <=> (a >= o /\ a < o + s)
        /\ F!InPage(a, o, s) => (a - o) % PAGE = a - o
    BY <1>0, <1>3, <1>5, <2>1, OnePage
  <2>3. /\ (a >= o /\ a < o + s) <=> (counter <= Offset(a) /\ Offset(a) < counter + s)
        /\ (a >= o /\ a < o + s) => a - o = Offset(a) - counter
        /\ Offset(a) \in 0..SIZE-1
    <3>0. /\ SIZE \in Nat \ {0} /\ op.addr \in 0..SIZE-1 /\ counter \in 0..SIZE-1
          /\ a \in 0..SIZE-1 /\ o \in 0..SIZE-1 /\ s \in Nat
          /\ o = (op.addr + counter) % SIZE /\ o + s <= SIZE /\ counter + s < SIZE
      BY <1>0, <1>1, <1>5, <1>6, <2>1
    <3>1. PICK S \in Nat \ {0} : S = SIZE
      BY <3>0
    <3>2. PICK b \in 0..S-1 : b = op.addr
      BY <3>0, <3>1
    <3>3. PICK k \in 0..S-1 : k = counter
      BY <3>0, <3>1
    <3>4. PICK x \in 0..S-1 : x = a
      BY <3>0, <3>1
    <3>5. PICK y \in 0..S-1 : y = o
      BY <3>0, <3>1
    <3>6. PICK n \in Nat : n = s
      BY <3>0
    <3>7. y = (b + k) % S /\ y + n <= S /\ k + n < S
      BY <3>0, <3>1, <3>2, <3>3, <3>5, <3>6
    <3>8. y = IF b + k < S THEN b + k ELSE b + k - S
      BY <3>7
    <3>9. (x - b) % S = IF x >= b THEN x - b ELSE x - b + S
      OBVIOUS
    <3> DEFINE d == (x - b) % S
    <3>10. d = Offset(a)
      BY <3>1, <3>2, <3>4 DEF Offset
    <3> HIDE DEF d
    <3>11. /\ (x >= y /\ x < y + n) <=> (k <= d /\ d < k + n)
           /\ (x >= y /\ x < y + n) => x - y = d - k
           /\ d \in 0..S-1
      BY <3>7, <3>8, <3>9 DEF d
    <3>12. QED
      BY <3>1, <3>3, <3>4, <3>5, <3>6, <3>10, <3>11
  <2>4. QED
    BY <2>2, <2>3
<1>12. QED
  BY <1>5, <1>7 DEF o, s

(* Byte and place: the byte that goes to a place, the place of a byte.     *)
LEMMA PlaceOffset ==
    ASSUME FlashTypes, op.kind = "write", NEW a \in F!Address
    PROVE  /\ Offset(a) \in 0..SIZE-1 /\ F!Memory!Index(op.addr, a) = Offset(a) + 1
           /\ \A i \in 1..SIZE : F!Memory!Place(op.addr, i) = a <=> Offset(a) = i - 1
<1>1. /\ SIZE \in Nat \ {0} /\ op.addr \in 0..SIZE-1 /\ a \in 0..SIZE-1
  BY WriteFacts DEF F!Address
<1>2. ASSUME NEW i \in 1..SIZE
      PROVE  F!Memory!Place(op.addr, i) = a <=> Offset(a) = i - 1
  <2>1. PICK S \in Nat \ {0} : S = SIZE
    BY <1>1
  <2>2. PICK b \in 0..S-1 : b = op.addr
    BY <1>1, <2>1
  <2>3. PICK x \in 0..S-1, j \in 0..S-1 : x = a /\ j = i - 1
    BY <1>1, <2>1
  <2>4. (x = ((b + j) % S)) <=> (((x - b) % S) = j)
    BY Wraps
  <2>5. op.addr + i - 1 = b + j
    BY <1>1, <2>1, <2>2, <2>3
  <2>6. QED
    BY <2>1, <2>2, <2>3, <2>4, <2>5 DEF Offset, F!Memory!Place
<1>3. Offset(a) \in 0..SIZE-1
  BY <1>1, Wraps DEF Offset
<1>4. QED
  BY <1>2, <1>3 DEF Offset, F!Memory!Index

LEMMA PlaceOfByte ==
    ASSUME FlashTypes, op.kind = "write", NEW i \in 1..Len(op.data)
    PROVE  F!Memory!Place(op.addr, i) \in F!Address /\ Offset(F!Memory!Place(op.addr, i)) = i - 1
<1>1. /\ SIZE \in Nat \ {0} /\ op.addr \in 0..SIZE-1 /\ Len(op.data) \in Nat /\ Len(op.data) < SIZE
  BY WriteFacts
<1>2. op.addr + i - 1 \in Nat
  BY <1>1
<1>3. F!Memory!Place(op.addr, i) \in F!Address
  BY <1>1, <1>2 DEF F!Memory!Place, F!Address
<1>4. i \in 1..SIZE
  BY <1>1
<1>5. QED
  BY <1>3, <1>4, PlaceOffset

(* Among the bytes that follow, a page begins only behind those that are   *)
(* sent next.                                                              *)
LEMMA PageBegins ==
    ASSUME FlashTypes, op.kind = "write", counter < Len(op.data),
           NEW k \in 1..Len(op.data), counter + 1 < k, k <= counter + F!SendCount + 1
    PROVE  F!Memory!Place(op.addr, k) % PAGE = 0 <=> k = counter + F!SendCount + 1
<1> DEFINE o == (op.addr + counter) % SIZE
           s == F!SendCount
           x == k - counter - 1
           room == PAGE - (o % PAGE)
<1>0. /\ op.addr \in 0..SIZE-1 /\ SIZE \in Nat \ {0} /\ PAGE \in Nat \ {0}
      /\ Len(op.data) \in Nat /\ Len(op.data) < SIZE /\ counter \in 0..SIZE-1
      /\ SECTOR \in Nat \ {0} /\ SIZE % SECTOR = 0 /\ SECTOR % PAGE = 0
  BY WriteFacts, BusAssumption DEF F!ChipAssumption, FlashTypes
<1>1. o \in 0..SIZE-1 /\ o = (op.addr + counter) % SIZE
  BY <1>0, Wraps
<1>2. s = IF room > Len(op.data) - counter THEN Len(op.data) - counter ELSE room
  BY DEF F!SendCount, F!Room
<1>3. s \in Nat \ {0} /\ counter + s <= Len(op.data)
  BY SendsOn
<1>4. x \in Nat \ {0} /\ x <= s /\ (x = s <=> k = counter + s + 1)
  BY <1>0, <1>3
<1>5. F!Memory!Place(op.addr, k) = (op.addr + k - 1) % SIZE
  BY DEF F!Memory!Place
<1> HIDE DEF o
<1>6. room \in Nat \ {0}
  <2>1. PAGE \in Nat \ {0} /\ o \in Int
    BY <1>0, <1>1
  <2>2. QED
    BY <2>1, RoomLeft
<1>r. x + counter + 1 = k /\ x <= Len(op.data) - counter - 1
  BY <1>0
<1>o. x <= room => x <= PAGE - (o % PAGE)
  OBVIOUS
<1> HIDE DEF s, x, room
<1>7. x <= room /\ (x = room <=> x = s)
  BY <1>0, <1>2, <1>3, <1>4, <1>6, <1>r
<1>8. /\ o + x <= SIZE
      /\ ((o + x) % SIZE) % PAGE = 0 <=> x = room
  <2>1. /\ o + x <= SIZE
        /\ ((o + x) % SIZE) % PAGE = 0 <=> x = PAGE - (o % PAGE)
    <3>1. x <= PAGE - (o % PAGE)
      BY <1>7, <1>o
    <3>2. o \in 0..SIZE-1 /\ x \in Nat \ {0}
      BY <1>1, <1>4
    <3>3. QED
      BY <3>1, <3>2, NextPage
  <2>2. QED
    BY <2>1 DEF room
<1>9. (op.addr + k - 1) % SIZE = (o + x) % SIZE
  <2>1. PICK S \in Nat \ {0} : S = SIZE
    BY <1>0
  <2>2. PICK b \in 0..S-1, c \in 0..S-1 : b = op.addr /\ c = counter
    BY <1>0, <2>1
  <2>3. o = IF b + c < S THEN b + c ELSE b + c - S
    <3>1. (b + c) % S = IF b + c < S THEN b + c ELSE b + c - S
      OBVIOUS
    <3>2. QED
      BY <1>1, <2>1, <2>2, <3>1
  <2>4. op.addr + k - 1 = b + c + x
    <3>1. k = x + c + 1 /\ x \in Nat
      BY <1>0, <1>4, <1>r, <2>2
    <3>2. QED
      BY <2>2, <3>1
  <2>5. o + x <= S /\ o \in 0..S-1 /\ x \in Nat
    BY <1>1, <1>4, <1>8, <2>1
  <2>6. (b + c + x) % S = (o + x) % S
    <3>1. CASE b + c < S
      BY <2>3, <3>1
    <3>2. CASE ~(b + c < S)
      <4>1. b + c + x = o + x + S
        BY <2>3, <3>2, <2>5
      <4>2. CASE o + x = S
        <5>1. b + c + x = S * 2 + 0 /\ o + x = S * 1 + 0 /\ 0 \in 0..S-1
          BY <4>1, <4>2, <2>5
        <5>2. (b + c + x) % S = 0
          BY <5>1, <2>5, Remainder
        <5>3. (o + x) % S = 0
          BY <5>1, <2>5, Remainder
        <5>4. QED
          BY <5>2, <5>3
      <4>3. CASE o + x < S
        <5> DEFINE y == o + x
        <5>1. b + c + x = S * 1 + y /\ y \in 0..S-1
          BY <4>1, <4>3, <2>5
        <5> HIDE DEF y
        <5>2. (b + c + x) % S = y
          BY <5>1, <2>5, Remainder
        <5>3. y % S = y
          BY <5>1
        <5>4. QED
          BY <5>2, <5>3 DEF y
      <4>4. QED
        BY <2>5, <4>2, <4>3
    <3>3. QED
      BY <3>1, <3>2
  <2>7. QED
    BY <2>1, <2>4, <2>6
<1>10. QED
  BY <1>4, <1>5, <1>7, <1>8, <1>9 DEF s

(* What is read back is what programming left.                             *)
LEMMA PageRead ==
    ASSUME FlashTypes, op.kind = "write", counter < Len(op.data),
           array = IF locked THEN before ELSE Written(counter + F!SendCount)
    PROVE  F!Verified <=> \A i \in counter + 1 .. counter + F!SendCount :
                              F!Memory!Left(op.addr, op.data, i) = op.data[i]
<1> DEFINE n == counter + F!SendCount
<1>1. counter \in Nat /\ n \in Nat /\ n <= Len(op.data) /\ Len(op.data) \in Nat
      /\ F!SendCount \in Nat /\ op.addr \in Nat
  BY SendsOn, WriteFacts, BusAssumption DEF FlashTypes, F!ChipAssumption
<1>2. ASSUME NEW i \in counter + 1 .. n
      PROVE  array[F!Memory!Place(op.addr, i)] = F!Memory!Left(op.addr, op.data, i)
  <2>1. i \in 1..Len(op.data)
    BY <1>1
  <2>2. F!Memory!Place(op.addr, i) \in F!Address /\ Offset(F!Memory!Place(op.addr, i)) = i - 1
    BY <2>1, PlaceOfByte
  <2>3. i - 1 < n /\ (i - 1) + 1 = i
    BY <1>1
  <2>4. QED
    BY <2>2, <2>3 DEF Written, F!Memory!Left
<1>3. F!Verified <=> \A i \in 1..F!SendCount :
                         op.data[counter + i] = array[F!Memory!Place(op.addr, counter + i)]
  <2>1. ASSUME NEW i \in 1..F!SendCount
        PROVE  op.addr + counter + i - 1 = op.addr + (counter + i) - 1
    BY <1>1
  <2>2. QED
    BY <2>1 DEF F!Verified, F!ReadByte, F!Memory!Place
<1> HIDE DEF n
<1>4. ASSUME NEW i \in counter + 1 .. n PROVE i - counter \in 1..F!SendCount /\ counter + (i - counter) = i
  BY <1>1 DEF n
<1>5. ASSUME NEW i \in 1..F!SendCount PROVE counter + i \in counter + 1 .. n
  BY <1>1 DEF n
<1>6. QED
  BY <1>2, <1>3, <1>4, <1>5 DEF n

(* A write ends after the page with the first byte that does not read      *)
(* back, or with the last page.                                            *)
LEMMA ReachedIs ==
    ASSUME FlashTypes, op.kind = "write", counter < Len(op.data), ReadsBack(counter),
           NEW n, n = counter + F!SendCount, ReadsBack(n) => n = Len(op.data)
    PROVE  /\ n \in 0..Len(op.data) /\ F!Memory!Reached(op.addr, op.data) = 1..n
           /\ F!Memory!Bad(op.addr, op.data) = {} <=> ReadsBack(n)
<1>1. counter \in Nat /\ n \in Nat /\ n <= Len(op.data) /\ Len(op.data) \in Nat
      /\ counter < n /\ DOMAIN op.data = 1..Len(op.data)
  BY SendsOn, WriteFacts DEF FlashTypes
<1>2. ASSUME NEW j \in F!Memory!Bad(op.addr, op.data)
      PROVE  j \in counter + 1 .. Len(op.data)
  <2>1. j \in 1..Len(op.data) /\ F!Memory!Left(op.addr, op.data, j) # op.data[j]
    BY <1>1 DEF F!Memory!Bad
  <2>2. ~(j \in 1..counter)
    BY <2>1 DEF ReadsBack
  <2>3. QED
    BY <1>1, <2>1, <2>2
<1>3. ASSUME NEW i \in 1..n, NEW j \in F!Memory!Bad(op.addr, op.data), NEW k \in 1..i, k > j
      PROVE  F!Memory!Place(op.addr, k) % PAGE # 0
  <2>1. k \in 1..Len(op.data) /\ counter + 1 < k /\ k <= n
    BY <1>1, <1>2, <1>3
  <2>2. QED
    BY <1>1, <2>1, PageBegins
<1>4. ASSUME NEW i \in 1..Len(op.data), ~(i \in 1..n)
      PROVE  i \notin F!Memory!Reached(op.addr, op.data)
  <2>1. n < Len(op.data) /\ n + 1 \in 1..i /\ n + 1 \in 1..Len(op.data)
    BY <1>1, <1>4
  <2>2. PICK j \in 1..n : F!Memory!Left(op.addr, op.data, j) # op.data[j]
    BY <1>1, <2>1 DEF ReadsBack
  <2>3. j \in F!Memory!Bad(op.addr, op.data) /\ n + 1 > j
    BY <1>1, <2>2 DEF F!Memory!Bad
  <2>4. F!Memory!Place(op.addr, n + 1) % PAGE = 0
    BY <1>1, <2>1, PageBegins
  <2>5. QED
    BY <2>1, <2>3, <2>4 DEF F!Memory!Reached
<1>5. ASSUME NEW i \in 1..n PROVE i \in F!Memory!Reached(op.addr, op.data)
  BY <1>1, <1>3 DEF F!Memory!Reached
<1>6. F!Memory!Reached(op.addr, op.data) \subseteq 1..Len(op.data)
  BY <1>1 DEF F!Memory!Reached
<1>7. F!Memory!Reached(op.addr, op.data) = 1..n
  BY <1>4, <1>5, <1>6
<1>8. F!Memory!Bad(op.addr, op.data) = {} <=> ReadsBack(n)
  <2>1. CASE ReadsBack(n)
    BY <1>1, <2>1 DEF F!Memory!Bad, ReadsBack
  <2>2. CASE ~ReadsBack(n)
    BY <1>1, <2>2 DEF F!Memory!Bad, ReadsBack
  <2>3. QED
    BY <2>1, <2>2
<1>9. QED
  BY <1>1, <1>7, <1>8

(* What has been read back stays as it was while no call is made.          *)
LEMMA StillReadsBack ==
    ASSUME UNCHANGED <<op, counter, before, locked>>
    PROVE  ReadsBack(counter)' <=> ReadsBack(counter)
BY DEF ReadsBack, F!Memory!Left, F!Memory!Place

(* What the memory holds in the middle of a write are bytes.               *)
LEMMA WrittenType ==
    ASSUME FlashTypes, NEW n \in Nat
    PROVE  Written(n) \in [F!Address -> F!Byte]
<1> SUFFICES ASSUME NEW a \in F!Address, Offset(a) < n
             PROVE  before[a] \cap op.data[Offset(a) + 1] \in F!Byte
  BY DEF Written, FlashTypes
<1>1. before[a] \in F!Byte
  BY DEF FlashTypes
<1>2. QED
  BY <1>1 DEF F!Byte

LEMMA CheckInv == FlashInv /\ F!Check => FlashInv'
<1> SUFFICES ASSUME FlashInv, F!Check PROVE FlashInv'
  OBVIOUS
<1>1. wip' = FALSE /\ wel' \in BOOLEAN /\ array' = array /\ bp' = bp /\ ~wip
  BY DEF F!Check, FlashInv, FlashTypes, F!WriteEnable, Idling, Writing, Erasing, F!Calls, F!NoCall
<1>2. CASE F!More
  <2>1. op.kind = "write" /\ at' = "enable" /\ UNCHANGED <<op, counter, before, locked>>
    BY <1>2 DEF F!Check, FlashInv, FlashTypes, Erasing, F!Calls, F!NoCall, F!history
  <2>2. FlashTypes'
    BY <1>1, <2>1 DEF FlashInv, FlashTypes
  <2>3. Writing'
    BY <1>1, <1>2, <2>1, StillReadsBack DEF FlashInv, Writing, F!Check, F!More, Written, Offset,
       F!Address
  <2>4. QED
    BY <2>1, <2>2, <2>3 DEF FlashInv, Idling, Erasing, F!NoCall
<1>3. CASE ~F!More
  BY <1>1, <1>3, ReturnInv DEF F!Check
<1>4. QED
  BY <1>2, <1>3

LEMMA EnableInv == FlashInv /\ F!Enable => FlashInv'
<1> SUFFICES ASSUME FlashInv, F!Enable PROVE FlashInv'
  OBVIOUS
<1>1. /\ UNCHANGED <<array, wip, bp, op, counter, before, locked>> /\ at = "enable"
      /\ at' = IF op.kind = "write" THEN "program" ELSE "erase"
  BY DEF F!Enable, F!history
<1>2. op.kind \in {"write", "sector", "chip"} /\ op # F!NoCall /\ ~wip /\ wel'
  BY <1>1 DEF F!Enable, FlashInv, FlashTypes, F!Calls, F!NoCall, F!WriteEnable, Writing, Erasing
<1>3. FlashTypes'
  BY <1>1, <1>2 DEF FlashInv, FlashTypes, F!Enable, F!WriteEnable
<1>4. Writing'
  BY <1>1, <1>2, StillReadsBack DEF FlashInv, Writing, Written, Offset, F!Address
<1>5. Erasing'
  BY <1>1, <1>2 DEF FlashInv, Erasing, Erased, F!Address
<1>6. QED
  BY <1>1, <1>2, <1>3, <1>4, <1>5 DEF FlashInv, Idling

(* A page is programmed: the bytes that were sent are those that follow.   *)
LEMMA ProgramInv == FlashInv /\ F!Program => FlashInv'
<1> SUFFICES ASSUME FlashInv, F!Program PROVE FlashInv'
  OBVIOUS
<1> DEFINE o == (op.addr + counter) % SIZE
           s == F!SendCount
           data == SubSeq(op.data, counter + 1, counter + s)
<1>1. /\ UNCHANGED <<wel, bp, op, counter, before, locked>> /\ at = "program"
      /\ at' = "written"
  BY DEF F!Program, F!history
<1>2. /\ op.kind = "write" /\ op # F!NoCall /\ ~wip /\ wel /\ bp = locked
      /\ counter \in Nat /\ counter < Len(op.data) /\ ReadsBack(counter)
      /\ array = IF locked THEN before ELSE Written(counter)
  BY <1>1 DEF FlashInv, FlashTypes, Writing, Erasing, F!Calls, F!NoCall
<1>3. s \in Nat \ {0} /\ counter + s <= Len(op.data) /\ F!SendCount' = s
  BY <1>1, <1>2, SendsOn DEF FlashInv, F!SendCount, F!Room
<1>4. CASE locked
  <2>1. array' = array /\ wip' = wip
    BY <1>2, <1>4 DEF F!Program
  <2>2. FlashTypes'
    BY <1>1, <2>1 DEF FlashInv, FlashTypes
  <2>3. QED
    BY <1>1, <1>2, <1>4, <2>1, <2>2, StillReadsBack DEF FlashInv, Idling, Writing, Erasing
<1>5. CASE ~locked
  <2>1. array' = F!Programmed(o, data) /\ wip' = TRUE
    BY <1>2, <1>5 DEF F!Program, F!Accepts
  <2>2. Len(data) = s /\ \A i \in 1..s : data[i] = op.data[counter + i]
    <3>1. Len(op.data) \in Nat
      BY <1>2, WriteFacts DEF FlashInv
    <3>2. s \in Nat /\ counter + 1 \in Nat /\ (counter + s) - (counter + 1) + 1 = s
      BY <1>2, <1>3
    <3> HIDE DEF s
    <3>3. QED
      BY <1>2, <1>3, <3>1, <3>2
  <2>3. F!Programmed(o, data) = Written(counter + s)
    <3> SUFFICES ASSUME NEW a \in F!Address
                 PROVE  (IF F!InPage(a, o, s) THEN array[a] \cap data[((a - o) % PAGE) + 1]
                                              ELSE array[a])
                        = IF Offset(a) < counter + s
                            THEN before[a] \cap op.data[Offset(a) + 1] ELSE before[a]
      BY <2>2 DEF F!Programmed, Written
    <3>1. /\ F!InPage(a, o, s) <=> counter <= Offset(a) /\ Offset(a) < counter + s
          /\ F!InPage(a, o, s) => (a - o) % PAGE = Offset(a) - counter
          /\ Offset(a) \in 0..SIZE-1 /\ SIZE \in Nat \ {0}
      BY <1>2, SendsOn, WriteFacts DEF FlashInv
    <3>2. array[a] = IF Offset(a) < counter THEN before[a] \cap op.data[Offset(a) + 1]
                                            ELSE before[a]
      BY <1>2, <1>5 DEF Written
    <3> HIDE DEF o, s, data
    <3>3. CASE F!InPage(a, o, s)
      <4>1. (a - o) % PAGE = Offset(a) - counter /\ Offset(a) - counter + 1 \in 1..s
            /\ counter + (Offset(a) - counter + 1) = Offset(a) + 1
        BY <1>2, <1>3, <3>1, <3>3
      <4>2. data[((a - o) % PAGE) + 1] = op.data[Offset(a) + 1]
        BY <2>2, <4>1
      <4>3. ~(Offset(a) < counter) /\ Offset(a) < counter + s
        BY <1>2, <1>3, <3>1, <3>3
      <4>4. QED
        BY <3>2, <3>3, <4>2, <4>3
    <3>4. CASE ~F!InPage(a, o, s)
      <4>1. Offset(a) < counter <=> Offset(a) < counter + s
        BY <1>2, <1>3, <3>1, <3>4
      <4>2. QED
        BY <3>2, <3>4, <4>1
    <3>5. QED
      BY <3>3, <3>4
  <2>4. array' = Written(counter + s) /\ Written(counter + s)' = Written(counter + s)
    BY <1>1, <2>1, <2>3 DEF Written, Offset, F!Address, s, F!SendCount, F!Room
  <2>5. FlashTypes'
    BY <1>1, <1>2, <1>3, <2>1, <2>4, WrittenType DEF FlashInv, FlashTypes
  <2>6. Writing'
    BY <1>1, <1>2, <1>3, <1>5, <2>4, StillReadsBack DEF Writing
  <2>7. QED
    BY <1>1, <1>2, <2>5, <2>6 DEF FlashInv, Idling, Erasing
<1>6. QED
  BY <1>4, <1>5

(* With the page that was sent last, all that was sent is checked.         *)
LEMMA PageChecked ==
    ASSUME FlashInv, op.kind = "write", at = "written"
    PROVE  /\ counter \in Nat /\ counter < Len(op.data) /\ ReadsBack(counter)
           /\ F!Verified <=> ReadsBack(counter + F!SendCount)
<1>1. /\ FlashTypes /\ counter \in Nat /\ counter < Len(op.data) /\ ReadsBack(counter)
      /\ array = IF locked THEN before ELSE Written(counter + F!SendCount)
  BY DEF FlashInv, FlashTypes, Writing
<1>2. F!SendCount \in Nat
  BY <1>1, SendsOn
<1>3. F!Verified <=> \A i \in counter + 1 .. counter + F!SendCount :
                         F!Memory!Left(op.addr, op.data, i) = op.data[i]
  BY <1>1, PageRead
<1>4. \A i \in 1 .. counter + F!SendCount : i \in 1..counter \/ i \in counter + 1 .. counter + F!SendCount
  BY <1>1, <1>2
<1>5. \A i \in counter + 1 .. counter + F!SendCount : i \in 1 .. counter + F!SendCount
  BY <1>1, <1>2
<1>6. QED
  BY <1>1, <1>3, <1>4, <1>5 DEF ReadsBack

LEMMA WrittenInv == FlashInv /\ F!Written => FlashInv'
<1> SUFFICES ASSUME FlashInv, F!Written PROVE FlashInv'
  OBVIOUS
<1>1. /\ at = "written" /\ op.kind = "write" /\ op # F!NoCall /\ ~wip
      /\ UNCHANGED <<array, wip, wel, bp>>
      /\ counter \in Nat /\ counter < Len(op.data)
  BY DEF F!Written, F!IsWriteBusy, F!chip, FlashInv, FlashTypes, Idling, Writing, Erasing,
         F!Calls, F!NoCall
<1>2. CASE F!Verified /\ counter + F!SendCount < Len(op.data)
  <2>1. /\ counter' = counter + F!SendCount /\ at' = "enable"
        /\ UNCHANGED <<op, before, locked>>
    BY <1>2 DEF F!Written, F!history
  <2>2. FlashTypes'
    BY <1>1, <2>1, SendsOn DEF FlashInv, FlashTypes
  <2>3. ReadsBack(counter + F!SendCount)
    BY <1>1, <1>2, PageChecked
  <2>4. ReadsBack(counter)'
    BY <2>1, <2>3 DEF ReadsBack, F!Memory!Left, F!Memory!Place
  <2>5. Writing'
    BY <1>1, <1>2, <2>1, <2>4 DEF FlashInv, Writing, Written, Offset, F!Address
  <2>6. QED
    BY <1>1, <2>1, <2>2, <2>5 DEF FlashInv, Idling, Erasing
<1>3. CASE ~(F!Verified /\ counter + F!SendCount < Len(op.data))
  <2>1. F!Return
    BY <1>3 DEF F!Written
  <2>2. QED
    BY <1>1, <2>1, ReturnInv DEF FlashInv, FlashTypes
<1>4. QED
  BY <1>2, <1>3

(* The steps of an erase that leave the memory alone.                      *)
LEMMA StatusInv ==
    FlashInv /\ (F!WriteStatusRegister \/ F!StatusWritten \/ F!BulkChecked) => FlashInv'
<1> SUFFICES ASSUME FlashInv, F!WriteStatusRegister \/ F!StatusWritten \/ F!BulkChecked
             PROVE  FlashInv'
  OBVIOUS
<1>1. /\ UNCHANGED <<array, op, counter, before, locked>>
      /\ at \in {"status", "unprotected", "bulk"}
  BY DEF F!WriteStatusRegister, F!StatusWritten, F!BulkChecked, F!chip, F!history
<1>2. op.kind \in {"sector", "chip"} /\ op # F!NoCall
  BY <1>1 DEF FlashInv, FlashTypes, Writing, F!Calls, F!NoCall
<1>3. at' # "idle" /\ wip' \in BOOLEAN /\ wel' \in BOOLEAN /\ bp' \in BOOLEAN
  BY <1>1 DEF FlashInv, FlashTypes, F!WriteStatusRegister, F!StatusWritten, F!BulkChecked,
              F!chip
<1>4. FlashTypes'
  BY <1>1, <1>3 DEF FlashInv, FlashTypes
<1>5. Erasing'
  BY <1>1, <1>2 DEF FlashInv, Erasing, Erased, F!Address, F!WriteStatusRegister,
     F!StatusWritten, F!IsWriteBusy, F!BulkChecked, F!chip
<1>6. QED
  BY <1>1, <1>2, <1>3, <1>4, <1>5 DEF FlashInv, Idling, Writing

LEMMA EraseInv == FlashInv /\ F!Erase => FlashInv'
<1> SUFFICES ASSUME FlashInv, F!Erase PROVE FlashInv'
  OBVIOUS
<1>1. /\ UNCHANGED <<wel, bp, op, counter, before, locked>> /\ at = "erase"
      /\ at' = IF op.kind = "chip" THEN "bulk" ELSE "erased"
  BY DEF F!Erase, F!history
<1>2. op.kind \in {"sector", "chip"} /\ op # F!NoCall /\ ~wip /\ wel /\ ~bp /\ array = before
  BY <1>1 DEF FlashInv, FlashTypes, Writing, Erasing, F!Calls, F!NoCall
<1>3. array' = Erased /\ wip' = TRUE
  BY <1>2 DEF F!Erase, F!Accepts, Erased
<1>4. FlashTypes'
  BY <1>1, <1>3 DEF FlashInv, FlashTypes, Erased, F!Byte
<1>5. Erased' = Erased
  BY <1>1 DEF Erased, F!Address
<1>6. Erasing'
  BY <1>1, <1>2, <1>3, <1>5 DEF Erasing
<1>7. QED
  BY <1>1, <1>2, <1>4, <1>6 DEF FlashInv, Idling, Writing

LEMMA EraseDoneInv == FlashInv /\ F!EraseDone => FlashInv'
BY ReturnInv DEF F!EraseDone, F!IsWriteBusy, F!chip, FlashInv, FlashTypes

LEMMA CompleteInv == FlashInv /\ F!Complete => FlashInv'
<1> SUFFICES ASSUME FlashInv, F!Complete PROVE FlashInv'
  OBVIOUS
<1>1. /\ UNCHANGED <<array, bp, at, op, counter, before, locked>>
      /\ wip /\ wip' = FALSE /\ wel' = FALSE
  BY DEF F!Complete, F!history
<1>2. FlashTypes' /\ Idling'
  BY <1>1 DEF FlashInv, FlashTypes, Idling
<1>3. Writing'
  BY <1>1, StillReadsBack DEF FlashInv, Writing, Written, Offset, F!Address, F!SendCount, F!Room
<1>4. Erasing'
  BY <1>1 DEF FlashInv, Erasing, Erased, F!Address
<1>5. QED
  BY <1>1, <1>2, <1>3, <1>4 DEF FlashInv

LEMMA FlashStutterInv == FlashInv /\ UNCHANGED F!vars => FlashInv'
BY StillReadsBack DEF F!vars, F!chip, F!history, FlashInv, FlashTypes, Idling, Writing, Erasing, Written,
       Erased, Offset, F!Address, F!SendCount, F!Room

LEMMA FlashStepInv == FlashInv /\ [F!Next]_(F!vars) => FlashInv'
BY CallInv, CheckInv, EnableInv, ProgramInv, WrittenInv, StatusInv, EraseInv, EraseDoneInv,
   CompleteInv, FlashStutterInv DEF F!Next, F!Driver

LEMMA FlashInductive == F!Spec => []FlashInv
BY FlashInitInv, FlashStepInv, PTL DEF F!Spec

-----------------------------------------------------------------------------
(* The bytes that FlashMemory's write changes are those that were reached. *)
LEMMA WrittenAll ==
    ASSUME FlashTypes, op.kind = "write", NEW n \in 0..Len(op.data),
           F!Memory!Reached(op.addr, op.data) = 1..n
    PROVE  (IF locked THEN before ELSE Written(n)) =
             [a \in F!Memory!Address |->
                IF F!Memory!Index(op.addr, a) \in F!Memory!Reached(op.addr, op.data)
                  THEN F!Memory!Left(op.addr, op.data, F!Memory!Index(op.addr, a))
                  ELSE before[a]]
<1>1. before = [a \in F!Address |-> before[a]] /\ F!Memory!Address = F!Address
  BY DEF FlashTypes, F!Memory!Address, F!Address
<1>2. ASSUME NEW a \in F!Address
      PROVE  (IF locked THEN before[a]
              ELSE IF Offset(a) < n THEN before[a] \cap op.data[Offset(a) + 1] ELSE before[a])
             = IF F!Memory!Index(op.addr, a) \in F!Memory!Reached(op.addr, op.data)
                 THEN F!Memory!Left(op.addr, op.data, F!Memory!Index(op.addr, a))
                 ELSE before[a]
  <2>1. Offset(a) \in 0..SIZE-1 /\ F!Memory!Index(op.addr, a) = Offset(a) + 1
    BY PlaceOffset
  <2>2. SIZE \in Nat \ {0} /\ n \in Nat
    BY WriteFacts
  <2>3. Offset(a) + 1 \in 1..SIZE /\ (Offset(a) + 1) - 1 = Offset(a)
        /\ (Offset(a) + 1 \in 1..n <=> Offset(a) < n)
    BY <2>1, <2>2
  <2>4. F!Memory!Place(op.addr, Offset(a) + 1) = a
    BY <2>3, PlaceOffset
  <2>5. QED
    BY <2>1, <2>3, <2>4 DEF F!Memory!Left
<1>3. QED
  BY <1>1, <1>2 DEF Written

(* A call that returns has done what FlashCalls promises.                  *)
LEMMA ReturnImplements ==
    ASSUME FlashInv, F!Return, bp' = bp, op # F!NoCall,
           \/ /\ op.kind = "write" /\ bp = locked
              /\ ret' = (F!Memory!Bad(op.addr, op.data) = {})
              /\ \E n \in 0..Len(op.data) :
                    /\ F!Memory!Reached(op.addr, op.data) = 1..n
                    /\ array = IF locked THEN before ELSE Written(n)
           \/ op.kind \in {"sector", "chip"} /\ ~bp /\ array = Erased /\ ret' = ret
    PROVE  F!Memory!Return
<1>1. before' = array /\ locked' = bp /\ op' = F!NoCall /\ F!NoCall = F!Memory!NoCall
  BY DEF F!Return, F!NoCall, F!Memory!NoCall
<1>2. CASE op.kind = "write"
  <2>1. PICK n \in 0..Len(op.data) :
            /\ F!Memory!Reached(op.addr, op.data) = 1..n
            /\ array = IF locked THEN before ELSE Written(n)
    BY <1>2
  <2>2. before' = [a \in F!Memory!Address |->
                     IF F!Memory!Index(op.addr, a) \in F!Memory!Reached(op.addr, op.data)
                       THEN F!Memory!Left(op.addr, op.data, F!Memory!Index(op.addr, a))
                       ELSE before[a]]
    BY <1>1, <1>2, <2>1, WrittenAll DEF FlashInv
  <2>3. F!Memory!Write(op.addr, op.data)
    BY <1>1, <1>2, <2>2 DEF F!Memory!Write
  <2>4. QED
    BY <1>1, <1>2, <2>3 DEF F!Memory!Return
<1>3. CASE op.kind = "sector"
  <2>1. F!Memory!SectorErase(op.addr)
    BY <1>1, <1>3 DEF F!Memory!SectorErase, F!Memory!SectorErased, F!Memory!Erased,
       F!Memory!Address, F!Address, Erased, FlashInv, FlashTypes
  <2>2. QED
    BY <1>1, <1>3, <2>1 DEF F!Memory!Return
<1>4. CASE op.kind = "chip"
  <2>1. F!Memory!ChipErase
    BY <1>1, <1>4 DEF F!Memory!ChipErase, F!Memory!AllErased, F!Memory!Erased,
       F!Memory!Address, F!Address, Erased, FlashInv, FlashTypes
  <2>2. QED
    BY <1>1, <1>4, <2>1 DEF F!Memory!Return
<1>5. QED
  BY <1>2, <1>3, <1>4

LEMMA FlashStepImplements ==
    FlashInv /\ [F!Next]_(F!vars) => [F!Memory!Call \/ F!Memory!Return]_(F!Memory!callVars)
<1> SUFFICES ASSUME FlashInv, [F!Next]_(F!vars)
             PROVE  [F!Memory!Call \/ F!Memory!Return]_(F!Memory!callVars)
  OBVIOUS
<1> USE DEF F!Memory!callVars, F!Memory!memoryVars, F!history
<1>1. CASE UNCHANGED F!vars
  BY <1>1 DEF F!vars
<1>2. ASSUME NEW c \in F!Calls, F!Call(c) PROVE F!Memory!Call
  BY <1>2 DEF F!Call, F!Memory!Call, FlashInv, Idling, F!NoCall, F!Memory!NoCall,
     F!Calls, F!Memory!Calls, F!Address, F!Memory!Address, F!Byte, F!Memory!Byte
<1>3. CASE F!Check
  <2>1. CASE F!More
    BY <1>3, <2>1 DEF F!Check
  <2>2. CASE ~F!More
    <3>1. /\ F!Return /\ bp' = bp /\ op.kind = "write" /\ op # F!NoCall /\ counter = 0
          /\ ret' = TRUE
      BY <1>3, <2>2 DEF F!Check, FlashInv, FlashTypes, Idling, Writing, Erasing, F!Calls,
         F!NoCall
    <3>2. Len(op.data) = 0
      BY <2>2, <3>1, WriteFacts DEF F!More, FlashInv
    <3>3. bp = locked /\ array = IF locked THEN before ELSE Written(0)
      BY <1>3, <3>1 DEF F!Check, FlashInv, Writing
    <3>4. F!Memory!Reached(op.addr, op.data) = 1..0 /\ F!Memory!Bad(op.addr, op.data) = {}
      BY <3>1, <3>2, WriteFacts DEF F!Memory!Reached, F!Memory!Bad, FlashInv
    <3>5. 0 \in 0..Len(op.data)
      BY <3>2
    <3>6. QED
      BY <3>1, <3>3, <3>4, <3>5, ReturnImplements
  <2>3. QED
    BY <2>1, <2>2
<1>4. CASE F!Written
  <2>1. CASE F!Verified /\ counter + F!SendCount < Len(op.data)
    BY <1>4, <2>1 DEF F!Written
  <2>2. CASE ~(F!Verified /\ counter + F!SendCount < Len(op.data))
    <3>1. /\ F!Return /\ bp' = bp /\ op.kind = "write" /\ op # F!NoCall
          /\ counter < Len(op.data) /\ counter \in Nat /\ at = "written"
          /\ ret' = F!Verified
      BY <1>4, <2>2 DEF F!Written, F!chip, FlashInv, FlashTypes, Idling, Writing, Erasing,
         F!Calls, F!NoCall
    <3> DEFINE n == counter + F!SendCount
    <3>2. ReadsBack(counter) /\ (F!Verified <=> ReadsBack(n))
      BY <3>1, PageChecked
    <3>3. ReadsBack(n) => n = Len(op.data)
      BY <2>2, <3>1, <3>2, SendsOn, WriteFacts DEF FlashInv
    <3>4. bp = locked /\ array = IF locked THEN before ELSE Written(n)
      BY <3>1 DEF FlashInv, Writing
    <3>5. /\ n \in 0..Len(op.data) /\ F!Memory!Reached(op.addr, op.data) = 1..n
          /\ F!Memory!Bad(op.addr, op.data) = {} <=> ReadsBack(n)
      <4> HIDE DEF n
      <4>1. n = counter + F!SendCount
        BY DEF n
      <4>2. QED
        BY <3>1, <3>2, <3>3, <4>1, ReachedIs DEF FlashInv
    <3> HIDE DEF n
    <3>6. ret' = (F!Memory!Bad(op.addr, op.data) = {})
      BY <3>1, <3>2, <3>5 DEF F!Verified
    <3>7. QED
      BY <3>1, <3>4, <3>5, <3>6, ReturnImplements
  <2>3. QED
    BY <2>1, <2>2
<1>5. CASE F!EraseDone
  <2>1. /\ F!Return /\ bp' = bp /\ op.kind \in {"sector", "chip"} /\ op # F!NoCall
        /\ ~bp /\ array = Erased /\ ret' = ret
    BY <1>5 DEF F!EraseDone, F!chip, FlashInv, FlashTypes, Writing, Erasing, F!Calls, F!NoCall
  <2>2. QED
    BY <2>1, ReturnImplements
<1>6. CASE F!Enable \/ F!Program \/ F!WriteStatusRegister \/ F!StatusWritten
           \/ F!Erase \/ F!BulkChecked \/ F!Complete
  BY <1>6 DEF F!Enable, F!Program, F!WriteStatusRegister, F!StatusWritten, F!Erase,
     F!BulkChecked, F!Complete
<1>7. QED
  BY <1>1, <1>2, <1>3, <1>4, <1>5, <1>6 DEF F!Next, F!Driver

LEMMA FlashInitImplements == F!Init => F!Memory!CallsInit
BY DEF F!Init, F!Memory!CallsInit, F!Memory!MemoryInit, F!NoCall, F!Memory!NoCall,
   F!Address, F!Memory!Address, F!Byte, F!Memory!Byte

(***************************************************************************)
(* Every call of the flash driver does what FlashCalls says, as if at once,*)
(* for memories, pages and writes of every size: no command is lost on a   *)
(* chip that is busy or protected, no byte of a write that crosses pages,  *)
(* or the end of the memory, ends up elsewhere, and a write stops after    *)
(* the first page that does not read back, and only then, and says so.     *)
(***************************************************************************)
THEOREM FlashImplementsMemory == F!Spec => ImplementsMemory
<1>1. F!Spec => F!Memory!CallsSpec
  BY FlashInitImplements, FlashInductive, FlashStepImplements, PTL
     DEF F!Spec, F!Memory!CallsSpec
<1>2. QED
  BY <1>1 DEF ImplementsMemory, F!ImplementsMemory

-----------------------------------------------------------------------------
(***************************************************************************)
(* The inductive invariant of the card driver.                             *)
(***************************************************************************)
Phases == {"native", "idle", "ready", "reading", "receiving", "programming"}
Kinds == {"v1", "sc", "hc", "none"}
Contents == Data \cup {C!Torn}

Reads == {"read", "wait_start_token", "new_packet_ready", "read_abort"}
Writes == {"write", "transmit_packet", "media_busy", "write_abort"}
Resets == {"go_idle_state", "stop", "go_idle_again"}
Starts == {"send_if_cond", "sd_send_op_cond", "send_op_cond"}
Ends == {"send_csd", "initialized"}

CardTypes ==
    /\ slot \in [kind : Kinds, phase : Phases, sector : C!Sector \cup {C!NoSector},
                 data : Contents]
    /\ slot.kind = "none" => slot.phase = "native" /\ cells = <<>>
    /\ slot.kind # "none" => cells \in [C!Sector -> Contents]
    /\ slot.phase \in {"reading", "receiving", "programming"} => slot.sector \in C!Sector
    /\ gSDMode \in {"NORMAL", "HC"}

(* The call that is being served.                                          *)
Serving ==
    /\ call \in C!Sectors!Calls \cup {C!Sectors!NoCall}
    /\ step = "idle" <=> call = C!Sectors!NoCall
    /\ step \in {"idle"} \cup Reads \cup Writes \cup {"initialize", "read_ocr"}
                \cup Resets \cup Starts \cup Ends
    /\ step \in Reads <=> call.kind = "read"
    /\ step \in Writes <=> call.kind = "write"
    /\ step \in Reads \cup Writes => mounted
    /\ step \in {"transmit_packet", "media_busy"} =>
          (call.sector = 0 => call.allowWriteToZero)

(* A card that listens counts as the driver thinks it does.                *)
Fits == gSDMode = IF slot.kind = "hc" THEN "HC" ELSE "NORMAL"

Addressing ==
    /\ step \in {"idle"} \cup Reads \cup Writes /\ mounted
          => slot.phase \in {"native", "idle"} \/ Fits
    /\ step \in Resets \cup Starts \cup {"read_ocr"} => gSDMode = "NORMAL"
    /\ step \in Starts => slot.phase \in {"native", "idle"}
    /\ step \in {"read_ocr"} \cup Ends => slot.phase \in {"native", "idle", "ready"}
    /\ step \in Ends => slot.phase # "ready" \/ Fits
    /\ step = "initialized" => left \/ slot.phase = "ready"

(* What the card is doing for the call.                                    *)
Doing ==
    /\ step \in {"idle", "read"} \cup Writes /\ mounted => slot.phase # "reading"
    /\ step = "wait_start_token" /\ slot.phase = "reading" => slot.sector = call.sector
    /\ step = "new_packet_ready" =>
          left \/ (slot.phase = "reading" /\ slot.sector = call.sector)
    /\ step = "transmit_packet" /\ slot.phase = "receiving" => slot.sector = call.sector
    /\ step = "media_busy" =>
          \/ left
          \/ /\ slot.phase = "programming" /\ slot.sector = call.sector
             /\ slot.data = call.data
          \/ slot.phase = "ready" /\ cells[call.sector] = call.data

CardInv == CardTypes /\ Serving /\ Addressing /\ Doing

LEMMA SdInit == C!Init => CardInv
<1> SUFFICES ASSUME C!Init PROVE CardInv
  OBVIOUS
<1>1. call.kind = "none" /\ step = "idle" /\ call = C!Sectors!NoCall
  BY DEF C!Init, C!Sectors!NoCall
<1>2. CardTypes
  BY DEF C!Init, CardTypes, C!Cards, C!NewCard, C!NoCard, Kinds, Phases, Contents, C!Torn,
     C!Sectors!Torn, C!Sector
<1>3. Serving /\ Addressing /\ Doing
  BY <1>1 DEF C!Init, Serving, Addressing, Doing, Reads, Writes, Resets, Starts, Ends
<1>4. QED
  BY <1>2, <1>3 DEF CardInv

(* What a command other than CMD0 makes of the card.                       *)
Moves(cmd, addr, r1) ==
    /\ \/ slot' = slot
       \/ /\ slot.phase = "idle" /\ r1 = "ok" /\ slot' = C!In("ready")
          /\ cmd \in {"SD_SEND_OP_COND", "SEND_OP_COND"}
          /\ cmd = "SEND_OP_COND" => slot.kind # "hc"
       \/ /\ slot.phase = "ready" /\ r1 = "ok"
          /\ cmd \in {"READ_SINGLE_BLOCK", "WRITE_SINGLE_BLOCK"}
          /\ \E s \in C!Addressed(addr) :
               slot' = [C!In(IF cmd = "READ_SINGLE_BLOCK" THEN "reading" ELSE "receiving")
                           EXCEPT !.sector = s, !.data = C!Torn]
       \/ slot.phase = "reading" /\ slot' = C!In("ready")
       \/ slot.phase = "receiving" /\ slot' = C!In("programming") /\ r1 # "ok"
    /\ slot.phase = "native" => slot' = slot /\ r1 = "none"
    /\ slot.phase \in {"native", "idle"} /\ slot' = slot => r1 # "ok"
    /\ slot.phase = "receiving" => r1 # "ok"
    /\ slot.phase = "ready" /\ slot' = slot /\ r1 = "ok" =>
          cmd \notin {"READ_SINGLE_BLOCK", "WRITE_SINGLE_BLOCK"}
    /\ cmd = "STOP_TRANSMISSION" /\ slot.phase = "reading" => slot' = C!In("ready")

LEMMA Answered ==
    ASSUME CardTypes, NEW cmd, NEW addr, NEW r1, C!Answers(cmd, addr, r1),
           cmd # "GO_IDLE_STATE"
    PROVE  Moves(cmd, addr, r1) /\ cells' = cells
BY DEF C!Answers, C!Silent, C!GoesIdle, C!Initializes, C!Serves, C!Sends, C!Swallows, C!Busy,
       C!cardVars, CardTypes, C!In, C!Torn, Moves

LEMMA InPhase ==
    ASSUME CardTypes, NEW ph \in Phases
    PROVE  /\ C!In(ph) \in [kind : Kinds, phase : Phases,
                            sector : C!Sector \cup {C!NoSector}, data : Contents]
           /\ C!In(ph).kind = slot.kind /\ C!In(ph).phase = ph
           /\ C!In(ph).sector = slot.sector /\ C!In(ph).data = slot.data
BY DEF CardTypes, C!In

(* A command keeps the card a card.                                        *)
LEMMA AnsweredTypes ==
    ASSUME CardTypes, NEW cmd, NEW addr, NEW r1, C!Answers(cmd, addr, r1),
           cmd # "GO_IDLE_STATE", gSDMode' \in {"NORMAL", "HC"}
    PROVE  CardTypes' /\ slot'.kind = slot.kind
<1>1. CASE slot' = slot
  BY <1>1, Answered DEF Moves, CardTypes, C!Sector
<1>2. ASSUME NEW ph \in {"ready", "programming"}, slot' = C!In(ph), slot.kind # "none",
             slot.phase # "ready", ph = "programming" => slot.phase = "receiving"
      PROVE  CardTypes' /\ slot'.kind = slot.kind
  BY <1>2, Answered, InPhase DEF CardTypes, C!Sector, Phases
<1>3. ASSUME NEW ph \in {"reading", "receiving"}, slot.kind # "none",
             NEW s \in C!Sector,
             slot' = [C!In(ph) EXCEPT !.sector = s, !.data = C!Torn]
      PROVE  CardTypes' /\ slot'.kind = slot.kind
  <2> DEFINE In == C!In(ph)
  <2>1. /\ In \in [kind : Kinds, phase : Phases, sector : C!Sector \cup {C!NoSector},
                    data : Contents]
        /\ In.kind = slot.kind /\ In.phase = ph
    BY <1>3, InPhase DEF Phases
  <2>2. C!Torn \in Contents
    BY DEF Contents
  <2>3. slot' = [In EXCEPT !.sector = s, !.data = C!Torn]
    BY <1>3
  <2> HIDE DEF In
  <2>4. /\ slot' \in [kind : Kinds, phase : Phases, sector : C!Sector \cup {C!NoSector},
                       data : Contents]
        /\ slot'.kind = slot.kind /\ slot'.phase = ph /\ slot'.sector = s
    BY <1>3, <2>1, <2>2, <2>3
  <2>5. cells' = cells
    BY Answered
  <2>6. QED
    BY <1>3, <2>4, <2>5 DEF CardTypes, C!Sector
<1>4. slot.phase # "native" => slot.kind # "none"
  BY DEF CardTypes
<1>5. \A s \in C!Addressed(addr) : s \in C!Sector
  BY DEF C!Addressed
<1>6. CASE slot.phase = "ready" /\ slot' # slot
  BY <1>3, <1>4, <1>5, <1>6, Answered DEF Moves
<1>7. CASE slot.phase # "ready" /\ slot' # slot
  BY <1>2, <1>4, <1>7, Answered DEF Moves
<1>8. QED
  BY <1>1, <1>6, <1>7

(***************************************************************************)
(* Reading and writing a sector.                                           *)
(***************************************************************************)
LEMMA SectorIs ==
    ASSUME CardInv, step \in {"read", "write"}, slot.phase = "ready"
    PROVE  \A s \in C!Addressed(C!Address(call.sector)) : s = call.sector
<1>1. Fits /\ call.sector \in C!Sector
  BY DEF CardInv, Serving, Addressing, Reads, Writes, C!Sectors!Calls, C!Sectors!NoCall,
     C!Sector
<1>2. BLOCK \in Nat \ {0} /\ SECTORS \in Nat
  BY BusAssumption DEF C!SdSpiAssumption
<1>3. SUFFICES ASSUME NEW s \in C!Sector, C!Address(call.sector) =
                        IF slot.kind = "hc" THEN s ELSE s * BLOCK
               PROVE  s = call.sector
  BY DEF C!Addressed
<1>4. PICK x \in Int : x = call.sector
  BY <1>1, <1>2 DEF C!Sector, C!Sectors!Sector
<1>5. PICK b \in Nat \ {0} : b = BLOCK
  BY <1>2
<1>6. s \in Int
  BY <1>2 DEF C!Sector, C!Sectors!Sector
<1>7. CASE slot.kind = "hc"
  BY <1>1, <1>3, <1>7 DEF Fits, C!Address
<1>8. CASE slot.kind # "hc"
  <2>1. x * b = s * b
    BY <1>1, <1>3, <1>4, <1>5, <1>8 DEF Fits, C!Address
  <2>2. x = s
    BY <1>6, <2>1
  <2>3. QED
    BY <1>4, <2>2
<1>9. QED
  BY <1>7, <1>8

LEMMA ReadQueuedInv == CardInv /\ C!ReadQueued => CardInv'
<1> SUFFICES ASSUME CardInv, C!ReadQueued PROVE CardInv'
  OBVIOUS
<1> USE DEF Reads, Writes, Resets, Starts, Ends
<1> DEFINE addr == C!Address(call.sector)
<1>1. PICK r1 \in C!R1 :
        /\ C!Answers("READ_SINGLE_BLOCK", addr, r1)
        /\ step' = IF r1 = "ok" THEN "wait_start_token" ELSE "read_abort"
  BY DEF C!ReadQueued, C!SendCmd, C!Goto
<1>2. /\ UNCHANGED <<call, answer, left, gSDMode, errorCode, mounted>>
      /\ step = "read" /\ mounted /\ call.kind = "read"
  BY DEF C!ReadQueued, C!Goto, C!Becomes, CardInv, Serving
<1>3. CardTypes' /\ slot'.kind = slot.kind
  BY <1>1, <1>2, AnsweredTypes DEF CardInv, CardTypes
<1>4. Serving'
  BY <1>1, <1>2 DEF CardInv, Serving
<1>5. Moves("READ_SINGLE_BLOCK", addr, r1)
  BY <1>1, Answered DEF CardInv
<1>6. slot.phase = "ready" => \A s \in C!Addressed(addr) : s = call.sector
  BY <1>2, SectorIs
<1> HIDE DEF addr
<1>7. Addressing'
  <2>1. slot.phase \in {"native", "idle"} \/ Fits
    BY <1>2 DEF CardInv, Addressing
  <2>2. slot.phase \in {"native", "idle"} => slot' = slot
    BY <1>5 DEF Moves
  <2>3. QED
    BY <1>1, <1>2, <1>3, <2>1, <2>2 DEF Addressing, Fits
<1>8. Doing'
  <2>1. slot.phase # "reading"
    BY <1>2 DEF CardInv, Doing
  <2>2. ASSUME slot'.phase = "reading" PROVE slot'.sector = call.sector
    <3>1. PICK s \in C!Addressed(addr) :
              slot' = [C!In("reading") EXCEPT !.sector = s, !.data = C!Torn]
      BY <1>5, <2>1, <2>2, InPhase DEF Moves, CardInv, Phases
    <3>2. slot'.sector = s
      BY <3>1, InPhase DEF CardInv, Phases
    <3>3. QED
      BY <1>5, <1>6, <2>1, <2>2, <3>1, <3>2, InPhase DEF Moves, CardInv, Phases
  <2>3. QED
    BY <1>1, <1>2, <2>2 DEF Doing
<1>9. QED
  BY <1>3, <1>4, <1>7, <1>8 DEF CardInv

(* The card goes on to another phase, or stays in its own.                 *)
LEMMA PhaseTypes ==
    ASSUME CardTypes, NEW ph \in {"ready", "programming"}, slot' = C!In(ph), cells' = cells,
           gSDMode' = gSDMode, slot.phase # "native",
           ph = "programming" => slot.phase = "receiving"
    PROVE  /\ CardTypes' /\ slot'.kind = slot.kind /\ slot'.phase = ph
           /\ slot'.sector = slot.sector /\ slot'.data = slot.data
BY InPhase DEF CardTypes, C!Sector, Phases

LEMMA SameTypes ==
    ASSUME CardTypes, slot' = slot, cells' = cells, gSDMode' = gSDMode
    PROVE  CardTypes'
BY DEF CardTypes, C!Sector

(* A byte that is polled.                                                  *)
LEMMA PolledIs ==
    ASSUME NEW byte, C!Polled(byte)
    PROVE  /\ cells' = cells
           /\ slot' = slot \/ (slot.phase = "reading" /\ byte = "error" /\ slot' = C!In("ready"))
           /\ byte = "start" => slot.phase = "reading" /\ slot' = slot
           /\ byte = "busy" <=> slot.phase = "programming"
BY DEF C!Polled

LEMMA WaitStartTokenInv == CardInv /\ C!WaitStartToken => CardInv'
<1> SUFFICES ASSUME CardInv, C!WaitStartToken PROVE CardInv'
  OBVIOUS
<1> USE DEF Reads, Writes, Resets, Starts, Ends
<1>1. /\ step = "wait_start_token" /\ mounted /\ call.kind = "read"
      /\ UNCHANGED <<call, answer, left, gSDMode, errorCode, mounted>>
      /\ step' \in {"wait_start_token", "new_packet_ready", "read_abort"}
  BY DEF C!WaitStartToken, C!Goto, C!globals, CardInv, Serving, C!Bytes
<1>2. /\ cells' = cells
      /\ slot' = slot \/ (slot.phase = "reading" /\ slot' = C!In("ready"))
      /\ step' = "new_packet_ready" => slot.phase = "reading" /\ slot' = slot
  BY PolledIs DEF C!WaitStartToken, C!cardVars, C!Goto
<1>3. CardTypes' /\ slot'.kind = slot.kind
  BY <1>1, <1>2, PhaseTypes, SameTypes DEF CardInv
<1>4. Serving'
  BY <1>1 DEF CardInv, Serving
<1>5. Addressing'
  BY <1>1, <1>2, <1>3, InPhase DEF CardInv, Addressing, Fits
<1>6. Doing'
  BY <1>1, <1>2, InPhase DEF CardInv, Doing, Phases
<1>7. QED
  BY <1>3, <1>4, <1>5, <1>6 DEF CardInv

(* A call returns, and nothing is left to the card but what it does by     *)
(* itself.                                                                 *)
LEMMA ReturnedInv ==
    ASSUME CardInv, step \in Reads \cup Writes, step' = "idle", call' = C!Sectors!NoCall,
           gSDMode' = gSDMode, mounted' = mounted, CardTypes', slot'.kind = slot.kind,
           slot'.phase # "reading",
           slot'.phase \in {"native", "idle"} \/ slot.phase \notin {"native", "idle"}
    PROVE  CardInv'
<1> USE DEF Reads, Writes, Resets, Starts, Ends
<1>1. call'.kind = "none"
  BY DEF C!Sectors!NoCall
<1>2. Serving'
  BY <1>1 DEF Serving
<1>3. Addressing'
  BY DEF CardInv, Addressing, Fits
<1>4. Doing'
  BY DEF Doing
<1>5. QED
  BY <1>2, <1>3, <1>4 DEF CardInv

LEMMA NewPacketReadyInv == CardInv /\ C!NewPacketReady => CardInv'
<1> SUFFICES ASSUME CardInv, C!NewPacketReady PROVE CardInv'
  OBVIOUS
<1>1. /\ step = "new_packet_ready" /\ step' = "idle" /\ call' = C!Sectors!NoCall
      /\ gSDMode' = gSDMode /\ mounted' = mounted /\ cells' = cells
      /\ slot' = IF slot.phase = "reading" THEN C!In("ready") ELSE slot
  BY DEF C!NewPacketReady, C!Return, C!Deselect, C!Becomes
<1>2. CardTypes' /\ slot'.kind = slot.kind
  BY <1>1, PhaseTypes, SameTypes DEF CardInv
<1>3. QED
  BY <1>1, <1>2, ReturnedInv, InPhase DEF CardInv, Reads, Phases

(* Giving up: the card is told to stop.                                    *)
LEMMA AbortInv == CardInv /\ (C!ReadAbort \/ C!WriteAbort) => CardInv'
<1> SUFFICES ASSUME CardInv, C!ReadAbort \/ C!WriteAbort PROVE CardInv'
  OBVIOUS
<1>1. PICK r1 : C!Answers("STOP_TRANSMISSION", 0, r1)
  BY DEF C!ReadAbort, C!WriteAbort, C!SendCmd
<1>2. /\ step \in {"read_abort", "write_abort"} /\ step' = "idle"
      /\ call' = C!Sectors!NoCall /\ gSDMode' = gSDMode /\ mounted' = mounted
  BY DEF C!ReadAbort, C!WriteAbort, C!Return, C!Deselect, C!Becomes
<1>3. CardTypes' /\ slot'.kind = slot.kind
  BY <1>1, <1>2, AnsweredTypes DEF CardInv, CardTypes
<1>4. Moves("STOP_TRANSMISSION", 0, r1)
  BY <1>1, Answered DEF CardInv
<1>5. /\ slot'.phase # "reading"
      /\ slot'.phase \in {"native", "idle"} \/ slot.phase \notin {"native", "idle"}
  BY <1>4, InPhase DEF Moves, CardInv, Phases
<1>6. QED
  BY <1>2, <1>3, <1>5, ReturnedInv DEF Reads, Writes

LEMMA WriteQueuedInv == CardInv /\ C!WriteQueued => CardInv'
<1> SUFFICES ASSUME CardInv, C!WriteQueued PROVE CardInv'
  OBVIOUS
<1> USE DEF Reads, Writes, Resets, Starts, Ends
<1>1. /\ step = "write" /\ mounted /\ call.kind = "write" /\ slot.phase # "reading"
      /\ UNCHANGED <<gSDMode, errorCode, mounted>>
      /\ slot.phase \in {"native", "idle"} \/ Fits
  BY DEF C!WriteQueued, C!Becomes, C!globals, CardInv, Serving, Addressing, Doing
<1>2. CASE call.sector = 0 /\ ~call.allowWriteToZero
  <2>1. step' = "idle" /\ call' = C!Sectors!NoCall /\ slot' = slot /\ cells' = cells
    BY <1>2 DEF C!WriteQueued, C!Return, C!cardVars
  <2>2. CardTypes'
    BY <1>1, <2>1, SameTypes DEF CardInv
  <2>3. QED
    BY <1>1, <2>1, <2>2, ReturnedInv
<1>3. CASE call.sector # 0 \/ call.allowWriteToZero
  <2> DEFINE addr == C!Address(call.sector)
  <2>1. PICK r1 \in C!R1 :
          /\ C!Answers("WRITE_SINGLE_BLOCK", addr, r1)
          /\ IF r1 = "ok" THEN step' = "transmit_packet" /\ UNCHANGED <<call, left>>
                          ELSE step' = "idle" /\ call' = C!Sectors!NoCall
    BY <1>3 DEF C!WriteQueued, C!SendCmd, C!Goto, C!Return
  <2>2. CardTypes' /\ slot'.kind = slot.kind
    BY <1>1, <2>1, AnsweredTypes DEF CardInv, CardTypes
  <2>3. Moves("WRITE_SINGLE_BLOCK", addr, r1)
    BY <2>1, Answered DEF CardInv
  <2>4. slot.phase = "ready" => \A s \in C!Addressed(addr) : s = call.sector
    BY <1>1, SectorIs
  <2> HIDE DEF addr
  <2>5. ASSUME slot.phase = "ready", r1 = "ok"
        PROVE  slot'.phase = "receiving" /\ slot'.sector = call.sector
    <3>1. PICK s \in C!Addressed(addr) :
              slot' = [C!In("receiving") EXCEPT !.sector = s, !.data = C!Torn]
      BY <2>3, <2>5 DEF Moves
    <3>2. slot'.sector = s /\ slot'.phase = "receiving"
      BY <3>1, InPhase DEF CardInv, Phases
    <3>3. QED
      BY <2>4, <2>5, <3>2
  <2>6. slot.phase \in {"native", "idle"} => slot' = slot
    BY <2>3 DEF Moves
  <2>7. CASE r1 # "ok"
    <3>1. slot'.phase # "reading"
      BY <1>1, <2>3, <2>7, InPhase DEF Moves, CardInv, Phases
    <3>2. QED
      BY <1>1, <2>1, <2>2, <2>6, <2>7, <3>1, ReturnedInv
  <2>8. CASE r1 = "ok"
    <3>1. Serving'
      BY <1>1, <1>3, <2>1, <2>8 DEF CardInv, Serving
    <3>2. Addressing'
      BY <1>1, <2>1, <2>2, <2>6, <2>8 DEF Addressing, Fits
    <3>3. slot.phase # "ready" => slot' = slot /\ slot.phase # "receiving"
      BY <1>1, <2>3, <2>8 DEF Moves
    <3>4. Doing'
      BY <1>1, <2>1, <2>5, <2>8, <3>3 DEF Doing
    <3>5. QED
      BY <2>2, <3>1, <3>2, <3>4 DEF CardInv
  <2>9. QED
    BY <2>7, <2>8
<1>4. QED
  BY <1>2, <1>3 DEF C!WriteQueued

LEMMA TransmitPacketInv == CardInv /\ C!TransmitPacket => CardInv'
<1> SUFFICES ASSUME CardInv, C!TransmitPacket PROVE CardInv'
  OBVIOUS
<1> USE DEF Reads, Writes, Resets, Starts, Ends
<1>1. /\ step = "transmit_packet" /\ mounted /\ call.kind = "write" /\ slot.phase # "reading"
      /\ UNCHANGED <<call, left, gSDMode, mounted, cells>>
      /\ slot.phase \in {"native", "idle"} \/ Fits
  BY DEF C!TransmitPacket, C!Goto, C!globals, CardInv, Serving, Addressing, Doing
<1>2. CASE /\ slot.phase = "receiving"
           /\ slot' = [C!In("programming") EXCEPT !.data = call.data]
           /\ step' = "media_busy"
  <2>1. call.data \in Data
    BY <1>1 DEF CardInv, Serving, C!Sectors!Calls, C!Sectors!NoCall
  <2> DEFINE In == C!In("programming")
  <2>2. /\ In \in [kind : Kinds, phase : Phases, sector : C!Sector \cup {C!NoSector},
                    data : Contents]
        /\ In.kind = slot.kind /\ In.phase = "programming" /\ In.sector = slot.sector
    BY InPhase DEF CardInv, Phases
  <2>3. slot' = [In EXCEPT !.data = call.data]
    BY <1>2
  <2> HIDE DEF In
  <2>4. /\ slot' \in [kind : Kinds, phase : Phases, sector : C!Sector \cup {C!NoSector},
                       data : Contents]
        /\ slot'.kind = slot.kind /\ slot'.phase = "programming"
        /\ slot'.sector = slot.sector /\ slot'.data = call.data
    BY <2>1, <2>2, <2>3 DEF Contents
  <2>5. CardTypes'
    BY <1>1, <1>2, <2>4 DEF CardInv, CardTypes, C!Sector
  <2>6. Serving'
    BY <1>1, <1>2 DEF CardInv, Serving
  <2>7. Addressing'
    BY <1>1, <1>2, <2>4 DEF Addressing, Fits
  <2>8. Doing'
    BY <1>1, <1>2, <2>4 DEF CardInv, Doing
  <2>9. QED
    BY <2>5, <2>6, <2>7, <2>8 DEF CardInv
<1>3. CASE /\ slot' = IF slot.phase = "receiving" THEN C!In("ready") ELSE slot
           /\ step' = "write_abort"
  <2>1. CardTypes' /\ slot'.kind = slot.kind
    BY <1>1, <1>3, PhaseTypes, SameTypes DEF CardInv
  <2>2. Serving'
    BY <1>1, <1>3 DEF CardInv, Serving
  <2>3. Addressing' /\ Doing'
    BY <1>1, <1>3, <2>1, InPhase DEF CardInv, Addressing, Fits, Doing, Phases
  <2>4. QED
    BY <2>1, <2>2, <2>3 DEF CardInv
<1>4. QED
  BY <1>2, <1>3 DEF C!TransmitPacket, C!Goto

LEMMA WriteMediaBusyInv == CardInv /\ C!WriteMediaBusy => CardInv'
<1> SUFFICES ASSUME CardInv, C!WriteMediaBusy PROVE CardInv'
  OBVIOUS
<1> USE DEF Reads, Writes, Resets, Starts, Ends
<1>1. /\ step = "media_busy" /\ mounted /\ call.kind = "write" /\ slot.phase # "reading"
      /\ UNCHANGED <<gSDMode, mounted>>
  <2>1. step = "media_busy" /\ UNCHANGED <<gSDMode, mounted>>
    BY DEF C!WriteMediaBusy, C!Becomes, C!globals, C!Deselect
  <2>2. QED
    BY <2>1 DEF CardInv, Serving, Doing
<1>2. slot' = slot /\ cells' = cells
  BY <1>1, PolledIs DEF C!WriteMediaBusy, C!cardVars
<1>3. CardTypes'
  BY <1>1, <1>2, SameTypes DEF CardInv
<1>4. CASE step' = "idle" /\ call' = C!Sectors!NoCall
  BY <1>1, <1>2, <1>3, <1>4, ReturnedInv
<1>5. CASE step' \in {"media_busy", "write_abort"} /\ UNCHANGED <<call, left>>
  <2>1. Serving'
    BY <1>1, <1>5 DEF CardInv, Serving
  <2>2. Addressing' /\ Doing'
    BY <1>1, <1>2, <1>5 DEF CardInv, Addressing, Fits, Doing
  <2>3. QED
    BY <1>3, <2>1, <2>2 DEF CardInv
<1>6. QED
  BY <1>4, <1>5 DEF C!WriteMediaBusy, C!Goto, C!Return

(***************************************************************************)
(* FILEIO_SD_MediaInitialize.                                              *)
(***************************************************************************)
(* CMD0 makes a card idle, or is lost like another command.                *)
LEMMA Reset0 ==
    ASSUME CardTypes, NEW r1, C!Answers("GO_IDLE_STATE", 0, r1), gSDMode' = gSDMode
    PROVE  /\ CardTypes' /\ slot'.kind = slot.kind
           /\ r1 = "idle" => slot'.phase = "idle"
<1> DEFINE In == C!In("idle")
<1>1. /\ In \in [kind : Kinds, phase : Phases, sector : C!Sector \cup {C!NoSector},
                 data : Contents]
      /\ In.kind = slot.kind /\ In.phase = "idle"
  BY InPhase DEF Phases
<1>2. CASE C!GoesIdle("GO_IDLE_STATE", r1)
  <2>1. slot' = [In EXCEPT !.sector = C!NoSector] /\ slot.kind # "none"
    BY <1>2 DEF C!GoesIdle
  <2> HIDE DEF In
  <2>2. /\ slot' \in [kind : Kinds, phase : Phases, sector : C!Sector \cup {C!NoSector},
                       data : Contents]
        /\ slot'.kind = slot.kind /\ slot'.phase = "idle"
    BY <1>1, <2>1
  <2>3. cells' \in [C!Sector -> Contents]
    BY <1>2, <2>1 DEF C!GoesIdle, CardTypes, Contents
  <2>4. QED
    BY <2>1, <2>2, <2>3 DEF CardTypes, C!Sector
<1>3. CASE r1 # "idle" /\ slot' = slot /\ cells' = cells
  BY <1>3, SameTypes
<1>4. CASE /\ r1 # "idle" /\ cells' = cells
           /\ \/ slot.phase = "reading" /\ slot' = C!In("ready")
              \/ slot.phase = "receiving" /\ slot' = C!In("programming")
  BY <1>4, PhaseTypes
<1>5. QED
  BY <1>2, <1>3, <1>4 DEF C!Answers, C!Silent, C!GoesIdle, C!Initializes, C!Serves, C!Sends,
     C!Swallows, C!Busy, C!cardVars

(* An initialisation that fails.                                           *)
LEMMA GivesUpInv ==
    ASSUME CardInv, C!GivesUp, CardTypes'
    PROVE  CardInv'
<1>1. step' = "idle" /\ call' = C!Sectors!NoCall /\ call'.kind = "none" /\ ~mounted'
  BY DEF C!GivesUp, C!Return, C!Sectors!NoCall
<1>2. Serving' /\ Addressing' /\ Doing'
  BY <1>1 DEF Serving, Addressing, Doing, Reads, Writes, Resets, Starts, Ends
<1>3. QED
  BY <1>2 DEF CardInv

LEMMA InitializeInv == CardInv /\ C!Initialize => CardInv'
<1> SUFFICES ASSUME CardInv, C!Initialize PROVE CardInv'
  OBVIOUS
<1> USE DEF Reads, Writes, Resets, Starts, Ends
<1>1. /\ step = "initialize" /\ step' = "go_idle_state" /\ gSDMode' = "NORMAL"
      /\ UNCHANGED <<slot, cells, call, left, mounted>>
  BY DEF C!Initialize, C!Goto, C!cardVars
<1>2. CardTypes'
  BY <1>1 DEF CardInv, CardTypes, C!Sector
<1>3. Serving'
  BY <1>1 DEF CardInv, Serving
<1>4. Addressing' /\ Doing'
  BY <1>1 DEF Addressing, Doing
<1>5. QED
  BY <1>2, <1>3, <1>4 DEF CardInv

LEMMA ResetsInv == CardInv /\ (C!GoIdleState \/ C!GoIdleAgain) => CardInv'
<1> SUFFICES ASSUME CardInv, C!GoIdleState \/ C!GoIdleAgain PROVE CardInv'
  OBVIOUS
<1> USE DEF Reads, Writes, Resets, Starts, Ends
<1>1. PICK r1 : /\ C!Answers("GO_IDLE_STATE", 0, r1)
                /\ \/ /\ UNCHANGED <<call, left>>
                      /\ step' \in {"go_idle_state", "stop", "send_if_cond"}
                      /\ step' = "send_if_cond" => r1 = "idle"
                   \/ C!GivesUp
  BY DEF C!GoIdleState, C!GoIdleAgain, C!SendCmd, C!Goto
<1>2. step \in Resets /\ gSDMode' = gSDMode
  BY DEF C!GoIdleState, C!GoIdleAgain, C!globals
<1>3. CardTypes' /\ (r1 = "idle" => slot'.phase = "idle")
  BY <1>1, <1>2, Reset0 DEF CardInv
<1>4. CASE C!GivesUp
  BY <1>3, <1>4, GivesUpInv
<1>5. CASE ~C!GivesUp
  <2>1. Serving'
    BY <1>1, <1>2, <1>5 DEF CardInv, Serving
  <2>2. Addressing' /\ Doing'
    BY <1>1, <1>2, <1>3, <1>5 DEF CardInv, Addressing, Doing
  <2>3. QED
    BY <1>3, <2>1, <2>2 DEF CardInv
<1>6. QED
  BY <1>4, <1>5

LEMMA RecoverInv == CardInv /\ C!Recover => CardInv'
<1> SUFFICES ASSUME CardInv, C!Recover PROVE CardInv'
  OBVIOUS
<1> USE DEF Reads, Writes, Resets, Starts, Ends
<1>1. PICK r1 : C!Answers("STOP_TRANSMISSION", 0, r1)
  BY DEF C!Recover, C!SendCmd
<1>2. /\ step = "stop" /\ step' = "go_idle_again"
      /\ UNCHANGED <<call, left, gSDMode, mounted>>
  BY DEF C!Recover, C!Goto, C!globals
<1>3. CardTypes'
  BY <1>1, <1>2, AnsweredTypes DEF CardInv, CardTypes
<1>4. Serving'
  BY <1>2 DEF CardInv, Serving
<1>5. Addressing' /\ Doing'
  BY <1>2 DEF CardInv, Addressing, Doing
<1>6. QED
  BY <1>3, <1>4, <1>5 DEF CardInv

LEMMA StartsInv == CardInv /\ (C!SendIfCond \/ C!SdSendOpCond \/ C!SendOpCond) => CardInv'
<1> SUFFICES ASSUME CardInv, C!SendIfCond \/ C!SdSendOpCond \/ C!SendOpCond PROVE CardInv'
  OBVIOUS
<1> USE DEF Reads, Writes, Resets, Starts, Ends
<1>1. PICK cmd \in {"SEND_IF_COND", "SD_SEND_OP_COND", "SEND_OP_COND"}, r1 \in C!R1 :
        /\ C!Answers(cmd, 0, r1)
        /\ CASE cmd = "SEND_IF_COND" -> step' \in {"sd_send_op_cond", "send_op_cond"}
             [] cmd = "SD_SEND_OP_COND" -> step' \in {"read_ocr", "sd_send_op_cond"}
                                           /\ (r1 = "ok" => step' = "read_ocr")
             [] cmd = "SEND_OP_COND" -> step' \in {"send_op_cond", "send_csd"}
                                        /\ (r1 = "ok" => step' = "send_csd")
  BY DEF C!SendIfCond, C!SdSendOpCond, C!SendOpCond, C!SendCmd, C!Goto
<1>2. step \in Starts /\ UNCHANGED <<call, left, gSDMode, mounted>>
  BY DEF C!SendIfCond, C!SdSendOpCond, C!SendOpCond, C!globals, C!Goto
<1>3. /\ gSDMode = "NORMAL" /\ slot.phase \in {"native", "idle"}
  BY <1>2 DEF CardInv, Addressing
<1>4. CardTypes' /\ slot'.kind = slot.kind
  BY <1>1, <1>2, AnsweredTypes DEF CardInv, CardTypes
<1>5. Moves(cmd, 0, r1)
  BY <1>1, Answered DEF CardInv
<1>6. \/ slot' = slot
      \/ /\ r1 = "ok" /\ slot'.phase = "ready"
         /\ cmd \in {"SD_SEND_OP_COND", "SEND_OP_COND"}
         /\ cmd = "SEND_OP_COND" => slot.kind # "hc"
  BY <1>3, <1>5, InPhase DEF Moves, CardInv, Phases
<1>7. Serving'
  BY <1>1, <1>2 DEF CardInv, Serving
<1>8. Addressing'
  BY <1>1, <1>2, <1>3, <1>4, <1>6 DEF Addressing, Fits
<1>9. Doing'
  BY <1>1 DEF Doing
<1>10. QED
  BY <1>4, <1>7, <1>8, <1>9 DEF CardInv

LEMMA ReadOcrInv == CardInv /\ C!ReadOcr => CardInv'
<1> SUFFICES ASSUME CardInv, C!ReadOcr PROVE CardInv'
  OBVIOUS
<1> USE DEF Reads, Writes, Resets, Starts, Ends
<1>1. PICK r1 \in C!R1 :
        /\ C!Answers("READ_OCR", 0, r1)
        /\ gSDMode' = IF r1 = "none" \/ (slot.kind = "hc" /\ slot.phase = "ready")
                      THEN "HC" ELSE "NORMAL"
  BY DEF C!ReadOcr, C!SendCmd
<1>2. /\ step = "read_ocr" /\ step' = "send_csd" /\ UNCHANGED <<call, left, mounted>>
  BY DEF C!ReadOcr, C!Goto
<1>3. slot.phase \in {"native", "idle", "ready"}
  BY <1>2 DEF CardInv, Addressing
<1>4. CardTypes' /\ slot'.kind = slot.kind
  BY <1>1, AnsweredTypes DEF CardInv
<1>5. slot' = slot
  <2>1. Moves("READ_OCR", 0, r1)
    BY <1>1, Answered DEF CardInv
  <2>2. QED
    BY <1>3, <2>1 DEF Moves
<1>6. slot.phase = "ready" => r1 = "ok"
  <2>1. slot.phase = "ready" => slot.kind # "none"
    BY DEF CardInv, CardTypes
  <2>2. QED
    BY <1>1, <2>1 DEF C!Answers, C!Silent, C!GoesIdle, C!Initializes, C!Serves, C!Sends,
       C!Swallows, C!Busy
<1>7. Serving'
  BY <1>2 DEF CardInv, Serving
<1>8. Addressing'
  BY <1>1, <1>2, <1>3, <1>5, <1>6 DEF Addressing, Fits, CardInv, CardTypes, Kinds
<1>9. Doing'
  BY <1>2 DEF Doing
<1>10. QED
  BY <1>4, <1>7, <1>8, <1>9 DEF CardInv

LEMMA SendCsdInv == CardInv /\ C!SendCsd => CardInv'
<1> SUFFICES ASSUME CardInv, C!SendCsd PROVE CardInv'
  OBVIOUS
<1> USE DEF Reads, Writes, Resets, Starts, Ends
<1>1. PICK r1 \in C!R1 :
        /\ C!Answers("SEND_CSD", 0, r1)
        /\ \/ C!GivesUp
           \/ /\ step' = IF r1 = "ok" THEN "initialized" ELSE "send_csd"
              /\ UNCHANGED <<call, left, mounted>>
  BY DEF C!SendCsd, C!SendCmd, C!Goto
<1>2. step = "send_csd" /\ gSDMode' = gSDMode
  BY DEF C!SendCsd
<1>3. slot.phase \in {"native", "idle", "ready"}
  BY <1>2 DEF CardInv, Addressing
<1>4. CardTypes' /\ slot'.kind = slot.kind
  BY <1>1, <1>2, AnsweredTypes DEF CardInv, CardTypes
<1>5. slot' = slot /\ (r1 = "ok" => slot.phase = "ready")
  <2>1. Moves("SEND_CSD", 0, r1)
    BY <1>1, Answered DEF CardInv
  <2>2. QED
    BY <1>3, <2>1 DEF Moves
<1>6. CASE C!GivesUp
  BY <1>4, <1>6, GivesUpInv
<1>7. CASE ~C!GivesUp
  <2>1. Serving'
    BY <1>1, <1>2, <1>7 DEF CardInv, Serving
  <2>2. Addressing' /\ Doing'
    BY <1>1, <1>2, <1>3, <1>5, <1>7 DEF CardInv, Addressing, Fits, Doing
  <2>3. QED
    BY <1>4, <2>1, <2>2 DEF CardInv
<1>8. QED
  BY <1>6, <1>7

LEMMA InitializedInv == CardInv /\ C!Initialized => CardInv'
<1> SUFFICES ASSUME CardInv, C!Initialized PROVE CardInv'
  OBVIOUS
<1> USE DEF Reads, Writes, Resets, Starts, Ends
<1>1. /\ step = "initialized" /\ step' = "idle" /\ call' = C!Sectors!NoCall
      /\ UNCHANGED <<slot, cells, gSDMode>> /\ call'.kind = "none"
  BY DEF C!Initialized, C!Return, C!cardVars, C!Sectors!NoCall
<1>2. CardTypes'
  BY <1>1, SameTypes DEF CardInv
<1>3. Serving'
  BY <1>1 DEF Serving
<1>4. Addressing' /\ Doing'
  BY <1>1 DEF CardInv, Addressing, Fits, Doing
<1>5. QED
  BY <1>2, <1>3, <1>4 DEF CardInv

-----------------------------------------------------------------------------
LEMMA CardCallInv ==
    ASSUME CardInv, NEW c \in C!Sectors!Calls, C!Call(c)
    PROVE  CardInv'
<1> USE DEF Reads, Writes, Resets, Starts, Ends
<1>1. /\ step = "idle" /\ step' = c.kind /\ call' = c
      /\ c.kind = "initialize" \/ mounted
      /\ UNCHANGED <<slot, cells, gSDMode, mounted>>
  BY DEF C!Call, C!cardVars, C!globals
<1>2. c.kind \in {"read", "write", "initialize"} /\ c # C!Sectors!NoCall
  BY DEF C!Sectors!Calls, C!Sectors!NoCall
<1>3. CardTypes'
  BY <1>1, SameTypes DEF CardInv
<1>4. Serving'
  BY <1>1, <1>2 DEF Serving
<1>5. Addressing' /\ Doing'
  BY <1>1, <1>2 DEF CardInv, Addressing, Fits, Doing
<1>6. QED
  BY <1>3, <1>4, <1>5 DEF CardInv

LEMMA DeinitializeInv == CardInv /\ C!MediaDeinitialize => CardInv'
<1> SUFFICES ASSUME CardInv, C!MediaDeinitialize PROVE CardInv'
  OBVIOUS
<1>1. /\ step = "idle" /\ step' = "idle" /\ call' = call /\ ~mounted'
      /\ UNCHANGED <<slot, cells, gSDMode>>
  BY DEF C!MediaDeinitialize, C!cardVars
<1>2. CardTypes'
  BY <1>1, SameTypes DEF CardInv
<1>3. Serving' /\ Addressing' /\ Doing'
  BY <1>1 DEF CardInv, Serving, Addressing, Doing, Reads, Writes, Resets, Starts, Ends
<1>4. QED
  BY <1>2, <1>3 DEF CardInv

LEMMA BoardResetInv == CardInv /\ C!Reset => CardInv'
<1> SUFFICES ASSUME CardInv, C!Reset PROVE CardInv'
  OBVIOUS
<1>1. /\ step' = "idle" /\ call' = C!Sectors!NoCall /\ call'.kind = "none" /\ ~mounted'
      /\ UNCHANGED <<slot, cells>> /\ gSDMode' = "NORMAL"
  BY DEF C!Reset, C!cardVars, C!Sectors!NoCall
<1>2. CardTypes'
  BY <1>1 DEF CardInv, CardTypes, C!Sector
<1>3. Serving' /\ Addressing' /\ Doing'
  BY <1>1 DEF Serving, Addressing, Doing, Reads, Writes, Resets, Starts, Ends
<1>4. QED
  BY <1>2, <1>3 DEF CardInv

(* The card programs its block by itself.                                  *)
LEMMA ProgrammedInv == CardInv /\ C!Programmed => CardInv'
<1> SUFFICES ASSUME CardInv, C!Programmed PROVE CardInv'
  OBVIOUS
<1>1. /\ slot.phase = "programming" /\ slot' = C!In("ready")
      /\ cells' = [cells EXCEPT ![slot.sector] = slot.data]
      /\ UNCHANGED <<step, call, gSDMode, mounted, left>>
  BY DEF C!Programmed, C!globals
<1>2. /\ slot.kind # "none" /\ slot.sector \in C!Sector /\ slot.data \in Contents
      /\ cells \in [C!Sector -> Contents]
  BY <1>1 DEF CardInv, CardTypes
<1>3. cells' \in [C!Sector -> Contents] /\ cells'[slot.sector] = slot.data
  BY <1>1, <1>2
<1>4. /\ slot' \in [kind : Kinds, phase : Phases, sector : C!Sector \cup {C!NoSector},
                     data : Contents]
      /\ slot'.kind = slot.kind /\ slot'.phase = "ready"
  BY <1>1, InPhase DEF CardInv, Phases
<1>5. CardTypes'
  BY <1>1, <1>2, <1>3, <1>4 DEF CardInv, CardTypes, C!Sector
<1>6. Serving'
  BY <1>1 DEF CardInv, Serving
<1>7. Addressing'
  BY <1>1, <1>4 DEF CardInv, Addressing, Fits, Resets, Starts, Ends
<1>8. Doing'
  BY <1>1, <1>3, <1>4 DEF CardInv, Doing, Reads, Writes
<1>9. QED
  BY <1>5, <1>6, <1>7, <1>8 DEF CardInv

LEMMA SwappedInv == CardInv /\ C!Swapped => CardInv'
<1> SUFFICES ASSUME CardInv, C!Swapped PROVE CardInv'
  OBVIOUS
<1>1. /\ UNCHANGED <<step, call, gSDMode, mounted>> /\ left' = TRUE
  BY DEF C!Swapped, C!globals
<1>2. /\ \/ slot' \in C!Cards /\ cells' \in [C!Sector -> Data]
         \/ slot' = C!NoCard /\ cells' = <<>>
      /\ slot'.phase = "native"
  BY DEF C!Swapped, C!Cards, C!NewCard, C!NoCard
<1>3. CardTypes'
  BY <1>1, <1>2 DEF CardInv, CardTypes, C!Cards, C!NewCard, C!NoCard, Kinds, Phases, Contents,
     C!Torn, C!Sectors!Torn, C!Sector
<1>4. Serving'
  BY <1>1 DEF CardInv, Serving
<1>5. Addressing' /\ Doing'
  BY <1>1, <1>2 DEF CardInv, Addressing, Doing, Resets, Starts, Ends
<1>6. QED
  BY <1>3, <1>4, <1>5 DEF CardInv

LEMMA CardStepInv == CardInv /\ [C!Next]_(C!vars) => CardInv'
<1>1. CardInv /\ UNCHANGED C!vars => CardInv'
  BY DEF C!vars, C!cardVars, C!globals, CardInv, CardTypes, Serving, Addressing, Doing, Fits,
         C!Sector
<1>2. QED
  BY <1>1, ReadQueuedInv, WaitStartTokenInv, NewPacketReadyInv, AbortInv, WriteQueuedInv,
     TransmitPacketInv, WriteMediaBusyInv, InitializeInv, ResetsInv, RecoverInv, StartsInv,
     ReadOcrInv, SendCsdInv, InitializedInv, CardCallInv, DeinitializeInv, BoardResetInv,
     ProgrammedInv, SwappedInv DEF C!Next, C!Driver

LEMMA CardInductive == C!Spec => []CardInv
BY SdInit, CardStepInv, PTL DEF C!Spec

-----------------------------------------------------------------------------
(***************************************************************************)
(* Every step of the driver and the card is one of Sectors, or none.       *)
(***************************************************************************)
Step == [C!Sectors!SectorsNext]_(C!Sectors!sectorVars)

(* A command that neither resets the card nor starts a write leaves the    *)
(* sector that is being written as it is.                                  *)
LEMMA StillWriting ==
    ASSUME CardTypes, NEW cmd, NEW addr, NEW r1, C!Answers(cmd, addr, r1),
           cmd \notin {"GO_IDLE_STATE", "WRITE_SINGLE_BLOCK"}
    PROVE  C!Writing' = C!Writing /\ cells' = cells
<1>1. Moves(cmd, addr, r1) /\ cells' = cells
  BY Answered
<1>2. CASE slot' = slot
  BY <1>1, <1>2 DEF C!Writing
<1>3. CASE slot.phase \in {"idle", "reading"} /\ slot'.phase = "ready"
  BY <1>1, <1>3 DEF C!Writing
<1>4. ASSUME slot.phase = "ready", NEW s, cmd = "READ_SINGLE_BLOCK",
             slot' = [C!In("reading") EXCEPT !.sector = s, !.data = C!Torn]
      PROVE  C!Writing' = C!Writing
  <2>1. slot'.phase = "reading"
    BY <1>4, InPhase DEF Phases
  <2>2. QED
    BY <1>4, <2>1 DEF C!Writing
<1>5. CASE slot.phase = "receiving" /\ slot' = C!In("programming")
  <2>1. slot'.phase = "programming" /\ slot'.sector = slot.sector
    BY <1>5, InPhase DEF Phases
  <2>2. QED
    BY <1>1, <1>5, <2>1 DEF C!Writing
<1>6. C!In("ready").phase = "ready"
  BY InPhase DEF Phases
<1>7. CASE slot.phase = "ready"
  <2>1. CASE cmd = "READ_SINGLE_BLOCK"
    BY <1>1, <1>2, <1>4, <1>7, <2>1 DEF Moves
  <2>2. CASE cmd # "READ_SINGLE_BLOCK"
    BY <1>1, <1>2, <1>7, <2>2 DEF Moves
  <2>3. QED
    BY <2>1, <2>2
<1>8. QED
  BY <1>1, <1>2, <1>3, <1>5, <1>6, <1>7 DEF Moves

LEMMA PolledWriting ==
    ASSUME CardTypes, NEW byte, C!Polled(byte)
    PROVE  C!Writing' = C!Writing /\ cells' = cells
BY PolledIs, InPhase DEF C!Writing, Phases

(* A call that fails returns at any time.                                  *)
LEMMA FailedReturns ==
    ASSUME CardInv, step # "idle", C!Return(C!Sectors!Failed), cells' = cells,
           C!Writing' = C!Writing
    PROVE  Step
<1>1. call # C!Sectors!NoCall /\ ~answer'.ok
  BY DEF CardInv, Serving, C!Return, C!Sectors!Failed
<1>2. C!Sectors!Return
  BY <1>1 DEF C!Sectors!Return, C!Return
<1>3. QED
  BY <1>2 DEF Step, C!Sectors!SectorsNext

LEMMA Stutters ==
    ASSUME UNCHANGED <<cells, call, answer, left>>, C!Writing' = C!Writing
    PROVE  Step
BY DEF Step, C!Sectors!sectorVars

LEMMA CardCallImplements ==
    ASSUME CardInv, NEW c \in C!Sectors!Calls, C!Call(c)
    PROVE  Step
<1>1. C!Sectors!Begin
  BY DEF C!Call, C!Sectors!Begin, CardInv, Serving, C!cardVars, C!Writing
<1>2. QED
  BY <1>1 DEF Step, C!Sectors!SectorsNext

LEMMA ReadImplements ==
    ASSUME CardInv,
           C!ReadQueued \/ C!WaitStartToken \/ C!NewPacketReady \/ C!ReadAbort
    PROVE  Step
<1>1. CASE C!ReadQueued
  <2>1. C!Writing' = C!Writing /\ cells' = cells
    <3>1. PICK r1 : C!Answers("READ_SINGLE_BLOCK", C!Address(call.sector), r1)
      BY <1>1 DEF C!ReadQueued, C!SendCmd
    <3>2. QED
      BY <3>1, StillWriting DEF CardInv
  <2>2. UNCHANGED <<call, answer, left>>
    BY <1>1 DEF C!ReadQueued, C!Goto
  <2>3. QED
    BY <2>1, <2>2, Stutters
<1>2. CASE C!WaitStartToken
  <2>1. C!Writing' = C!Writing /\ cells' = cells
    <3>1. CASE UNCHANGED C!cardVars
      BY <3>1 DEF C!cardVars, C!Writing
    <3>2. ASSUME NEW byte, C!Polled(byte) PROVE C!Writing' = C!Writing /\ cells' = cells
      BY <3>2, PolledWriting DEF CardInv
    <3>3. QED
      BY <1>2, <3>1, <3>2 DEF C!WaitStartToken
  <2>2. UNCHANGED <<call, answer, left>>
    BY <1>2 DEF C!WaitStartToken, C!Goto
  <2>3. QED
    BY <2>1, <2>2, Stutters
<1>3. CASE C!NewPacketReady
  <2>1. /\ step = "new_packet_ready" /\ call' = C!Sectors!NoCall
        /\ answer' = [ok |-> TRUE, buffer |-> C!Block] /\ cells' = cells /\ left' = left
        /\ slot' = IF slot.phase = "reading" THEN C!In("ready") ELSE slot
    BY <1>3 DEF C!NewPacketReady, C!Return
  <2>2. call # C!Sectors!NoCall /\ call.kind = "read"
    BY <2>1 DEF CardInv, Serving, Reads
  <2>3. C!Writing' = C!Writing
    BY <2>1, InPhase DEF C!Writing, Phases, CardInv
  <2>4. CASE ~left
    <3>1. slot.phase = "reading" /\ slot.sector = call.sector
      BY <2>1, <2>4 DEF CardInv, Doing
    <3>2. cells # C!Sectors!NoCard
      <4>1. cells \in [C!Sector -> Contents]
        BY <3>1 DEF CardInv, CardTypes
      <4>2. 0 \in C!Sector
        BY BusAssumption DEF C!SdSpiAssumption, C!Sector, C!Sectors!Sector
      <4>3. QED
        BY <4>1, <4>2 DEF C!Sectors!NoCard
    <3>3. C!Writing = {} /\ answer'.buffer = cells[call.sector]
      BY <2>1, <3>1 DEF C!Writing, C!Block
    <3>4. C!Sectors!Return
      BY <2>1, <2>2, <2>3, <3>2, <3>3 DEF C!Sectors!Return, C!Sectors!Done
    <3>5. QED
      BY <3>4 DEF Step, C!Sectors!SectorsNext
  <2>5. CASE left
    <3>1. C!Sectors!Return
      BY <2>1, <2>2, <2>3, <2>5 DEF C!Sectors!Return
    <3>2. QED
      BY <3>1 DEF Step, C!Sectors!SectorsNext
  <2>6. QED
    BY <2>4, <2>5
<1>4. CASE C!ReadAbort
  <2>1. C!Writing' = C!Writing /\ cells' = cells
    <3>1. PICK r1 : C!Answers("STOP_TRANSMISSION", 0, r1)
      BY <1>4 DEF C!ReadAbort, C!SendCmd
    <3>2. QED
      BY <3>1, StillWriting DEF CardInv
  <2>2. QED
    BY <1>4, <2>1, FailedReturns DEF C!ReadAbort
<1>5. QED
  BY <1>1, <1>2, <1>3, <1>4

(* The card takes a block for the sector that is written, and no other.    *)
LEMMA AcceptImplements ==
    ASSUME CardInv, step = "write", call.sector = 0 => call.allowWriteToZero,
           UNCHANGED <<call, answer, left>>,
           C!Answers("WRITE_SINGLE_BLOCK", C!Address(call.sector), "ok")
    PROVE  Step
<1> DEFINE addr == C!Address(call.sector)
<1>1. Moves("WRITE_SINGLE_BLOCK", addr, "ok") /\ cells' = cells
  BY Answered DEF CardInv
<1>2. /\ call.kind = "write" /\ slot.phase # "reading"
      /\ slot.phase = "ready" => \A s \in C!Addressed(addr) : s = call.sector
  BY SectorIs DEF CardInv, Serving, Doing, Writes
<1> HIDE DEF addr
<1>3. CASE slot.phase = "ready"
  <2>1. PICK s \in C!Addressed(addr) :
            slot' = [C!In("receiving") EXCEPT !.sector = s, !.data = C!Torn]
    BY <1>1, <1>3 DEF Moves
  <2>2. slot'.phase = "receiving" /\ slot'.sector = s /\ s = call.sector
    BY <1>2, <1>3, <2>1, InPhase DEF CardInv, Phases
  <2>3. C!Writing = {} /\ C!Writing' = {call.sector}
    BY <1>3, <2>2 DEF C!Writing
  <2>4. C!Sectors!Accept
    BY <1>1, <1>2, <2>3 DEF C!Sectors!Accept
  <2>5. QED
    BY <2>4 DEF Step, C!Sectors!SectorsNext
<1>4. CASE slot.phase # "ready"
  <2>1. slot' = slot
    BY <1>1, <1>2, <1>4 DEF Moves
  <2>2. QED
    BY <1>1, <2>1, Stutters DEF C!Writing
<1>5. QED
  BY <1>3, <1>4

(* The sector that is written changes, or stays as it is.                  *)
LEMMA Settles ==
    ASSUME NEW s, C!Writing = {s}, C!Writing' = {}, NEW content \in Contents,
           cells' = [cells EXCEPT ![s] = content], UNCHANGED <<call, answer, left>>
    PROVE  Step
<1>1. C!Sectors!Settle
  BY DEF C!Sectors!Settle, Contents, C!Torn
<1>2. QED
  BY <1>1 DEF Step, C!Sectors!SectorsNext

LEMMA Drops ==
    ASSUME CardTypes, C!Writing' = {}, cells' = cells, UNCHANGED <<call, answer, left>>
    PROVE  Step
<1>1. CASE C!Writing = {}
  BY <1>1, Stutters
<1>2. CASE slot.phase \in {"receiving", "programming"}
  <2>1. slot.sector \in C!Sector /\ cells \in [C!Sector -> Contents]
    BY <1>2 DEF CardTypes
  <2>2. cells' = [cells EXCEPT ![slot.sector] = cells[slot.sector]]
    BY <2>1
  <2>3. C!Writing = {slot.sector} /\ cells[slot.sector] \in Contents
    BY <1>2, <2>1 DEF C!Writing
  <2>4. QED
    BY <2>2, <2>3, Settles
<1>3. QED
  BY <1>1, <1>2 DEF C!Writing

LEMMA WriteImplements ==
    ASSUME CardInv,
           C!WriteQueued \/ C!TransmitPacket \/ C!WriteMediaBusy \/ C!WriteAbort
    PROVE  Step
<1>1. CASE C!WriteQueued
  <2>1. step = "write" /\ step # "idle"
    BY <1>1 DEF C!WriteQueued
  <2>2. CASE call.sector = 0 /\ ~call.allowWriteToZero
    <3>1. C!Return(C!Sectors!Failed) /\ slot' = slot /\ cells' = cells
      BY <1>1, <2>2 DEF C!WriteQueued, C!cardVars
    <3>2. QED
      BY <2>1, <3>1, FailedReturns DEF C!Writing
  <2>3. CASE call.sector # 0 \/ call.allowWriteToZero
    <3> DEFINE addr == C!Address(call.sector)
    <3>1. PICK r1 \in C!R1 :
            /\ C!Answers("WRITE_SINGLE_BLOCK", addr, r1)
            /\ IF r1 = "ok" THEN UNCHANGED <<call, answer, left>> ELSE C!Return(C!Sectors!Failed)
      BY <1>1, <2>3 DEF C!WriteQueued, C!SendCmd, C!Goto
    <3>2. CASE r1 = "ok"
      BY <2>1, <2>3, <3>1, <3>2, AcceptImplements
    <3>3. CASE r1 # "ok"
      <4>1. Moves("WRITE_SINGLE_BLOCK", addr, r1) /\ cells' = cells
        BY <3>1, Answered DEF CardInv
      <4>2. slot.phase # "reading"
        BY <2>1 DEF CardInv, Doing, Serving, Writes
      <4>3. slot' = slot \/ (slot.phase = "receiving" /\ slot' = C!In("programming"))
        BY <3>3, <4>1, <4>2 DEF Moves
      <4>4. C!Writing' = C!Writing
        BY <4>3, InPhase DEF C!Writing, CardInv, Phases
      <4>5. QED
        BY <2>1, <3>1, <3>3, <4>1, <4>4, FailedReturns
    <3>4. QED
      BY <3>2, <3>3
  <2>4. QED
    BY <2>2, <2>3
<1>2. CASE C!TransmitPacket
  <2>1. UNCHANGED <<cells, call, answer, left>>
    BY <1>2 DEF C!TransmitPacket, C!Goto
  <2>2. CASE slot.phase = "receiving" /\ slot' = [C!In("programming") EXCEPT !.data = call.data]
    <3>1. slot'.phase = "programming" /\ slot'.sector = slot.sector
      BY <2>2, InPhase DEF CardInv, Phases
    <3>2. QED
      BY <2>1, <2>2, <3>1, Stutters DEF C!Writing
  <2>3. CASE slot.phase = "receiving" /\ slot' = C!In("ready")
    <3>1. slot'.phase = "ready"
      BY <2>3, InPhase DEF CardInv, Phases
    <3>2. C!Writing' = {}
      BY <3>1 DEF C!Writing
    <3>3. QED
      BY <2>1, <3>2, Drops DEF CardInv
  <2>4. CASE slot' = slot
    BY <2>1, <2>4, Stutters DEF C!Writing
  <2>5. QED
    BY <1>2, <2>2, <2>3, <2>4 DEF C!TransmitPacket
<1>3. CASE C!WriteMediaBusy
  <2>1. /\ step = "media_busy" /\ call.kind = "write" /\ slot.phase # "reading"
        /\ call # C!Sectors!NoCall
    <3>1. step = "media_busy"
      BY <1>3 DEF C!WriteMediaBusy
    <3>2. QED
      BY <3>1 DEF CardInv, Serving, Doing, Writes
  <2>2. slot' = slot /\ cells' = cells
    BY <1>3, <2>1, PolledIs DEF C!WriteMediaBusy, C!cardVars
  <2>3. CASE UNCHANGED <<call, answer, left>>
    BY <2>2, <2>3, Stutters DEF C!Writing
  <2>4. ASSUME NEW byte \in C!Bytes \ {"busy"}, C!Polled(byte), C!Return([ok |-> TRUE])
        PROVE  Step
    <3>1. slot.phase # "programming"
      BY <2>4, PolledIs
    <3>2. answer'.ok /\ call' = C!Sectors!NoCall /\ left' = left
      BY <2>4 DEF C!Return
    <3>3. CASE left
      BY <2>1, <2>2, <3>2, <3>3 DEF C!Sectors!Return, Step, C!Sectors!SectorsNext, C!Writing
    <3>4. CASE ~left
      <4>1. slot.phase = "ready" /\ cells[call.sector] = call.data
        BY <2>1, <3>1, <3>4 DEF CardInv, Doing
      <4>2. cells # C!Sectors!NoCard
        <5>1. cells \in [C!Sector -> Contents]
          BY <4>1 DEF CardInv, CardTypes
        <5>2. 0 \in C!Sector
          BY BusAssumption DEF C!SdSpiAssumption, C!Sector, C!Sectors!Sector
        <5>3. QED
          BY <5>1, <5>2 DEF C!Sectors!NoCard
      <4>3. C!Writing = {} /\ C!Writing' = {}
        BY <2>2, <4>1 DEF C!Writing
      <4>4. C!Sectors!Done
        BY <2>1, <4>1 DEF C!Sectors!Done
      <4>5. C!Sectors!Return
        BY <2>1, <2>2, <3>2, <4>2, <4>3, <4>4 DEF C!Sectors!Return
      <4>6. QED
        BY <4>5 DEF Step, C!Sectors!SectorsNext
    <3>5. QED
      BY <3>3, <3>4
  <2>5. QED
    BY <1>3, <2>3, <2>4 DEF C!WriteMediaBusy, C!Goto
<1>4. CASE C!WriteAbort
  <2>1. C!Writing' = C!Writing /\ cells' = cells
    <3>1. PICK r1 : C!Answers("STOP_TRANSMISSION", 0, r1)
      BY <1>4 DEF C!WriteAbort, C!SendCmd
    <3>2. QED
      BY <3>1, StillWriting DEF CardInv
  <2>2. QED
    BY <1>4, <2>1, FailedReturns DEF C!WriteAbort
<1>5. QED
  BY <1>1, <1>2, <1>3, <1>4

(* FILEIO_SD_MediaInitialize: CMD0 may cut off the writing of a sector.    *)
LEMMA Reset0Writing ==
    ASSUME CardTypes, NEW r1, C!Answers("GO_IDLE_STATE", 0, r1)
    PROVE  \/ C!Writing' = C!Writing /\ cells' = cells
           \/ /\ r1 = "idle" /\ C!Writing' = {}
              /\ cells' \in {cells} \cup {[cells EXCEPT ![s] = C!Torn] : s \in C!Writing}
<1>1. CASE C!GoesIdle("GO_IDLE_STATE", r1)
  <2>1. slot'.phase = "idle"
    BY <1>1, InPhase DEF C!GoesIdle, Phases
  <2>2. QED
    BY <1>1, <2>1 DEF C!GoesIdle, C!Writing
<1>2. CASE slot' = slot /\ cells' = cells
  BY <1>2 DEF C!Writing
<1>3. CASE slot.phase = "reading" /\ slot' = C!In("ready") /\ cells' = cells
  BY <1>3, InPhase DEF C!Writing, Phases
<1>4. CASE slot.phase = "receiving" /\ slot' = C!In("programming") /\ cells' = cells
  BY <1>4, InPhase DEF C!Writing, Phases
<1>5. QED
  BY <1>1, <1>2, <1>3, <1>4 DEF C!Answers, C!Silent, C!GoesIdle, C!Initializes, C!Serves,
     C!Sends, C!Swallows, C!Busy, C!cardVars

LEMMA ResetsImplement ==
    ASSUME CardInv, C!GoIdleState \/ C!GoIdleAgain
    PROVE  Step
<1>1. PICK r1 : /\ C!Answers("GO_IDLE_STATE", 0, r1)
                /\ \/ UNCHANGED <<call, answer, left>>
                   \/ r1 # "idle" /\ C!Return(C!Sectors!Failed)
  BY DEF C!GoIdleState, C!GoIdleAgain, C!SendCmd, C!Goto, C!GivesUp
<1>2. step # "idle"
  BY DEF C!GoIdleState, C!GoIdleAgain
<1>3. CASE C!Writing' = C!Writing /\ cells' = cells
  BY <1>1, <1>2, <1>3, Stutters, FailedReturns
<1>4. CASE /\ r1 = "idle" /\ C!Writing' = {}
           /\ cells' \in {cells} \cup {[cells EXCEPT ![s] = C!Torn] : s \in C!Writing}
  <2>1. UNCHANGED <<call, answer, left>>
    BY <1>1, <1>4
  <2>2. CASE cells' = cells
    BY <1>4, <2>1, <2>2, Drops DEF CardInv
  <2>3. ASSUME NEW s \in C!Writing, cells' = [cells EXCEPT ![s] = C!Torn]
        PROVE  Step
    <3>1. C!Writing = {s} /\ C!Torn \in Contents
      BY <2>3 DEF C!Writing, Contents
    <3>2. QED
      BY <1>4, <2>1, <2>3, <3>1, Settles
  <2>4. QED
    BY <1>4, <2>2, <2>3
<1>5. QED
  BY <1>1, <1>3, <1>4, Reset0Writing DEF CardInv

(* The other commands of the initialisation.                               *)
LEMMA InitializeImplements ==
    ASSUME CardInv,
           \/ C!Initialize \/ C!Recover \/ C!SendIfCond \/ C!SdSendOpCond
           \/ C!ReadOcr \/ C!SendOpCond \/ C!SendCsd
    PROVE  Step
<1>1. C!Writing' = C!Writing /\ cells' = cells
  <2>1. CASE C!Initialize
    BY <2>1 DEF C!Initialize, C!cardVars, C!Writing
  <2>2. CASE ~C!Initialize
    <3>1. PICK cmd \in {"STOP_TRANSMISSION", "SEND_IF_COND", "SD_SEND_OP_COND", "READ_OCR",
                        "SEND_OP_COND", "SEND_CSD"}, r1 \in C!R1 : C!Answers(cmd, 0, r1)
      BY <2>2 DEF C!Recover, C!SendIfCond, C!SdSendOpCond, C!ReadOcr, C!SendOpCond,
         C!SendCsd, C!SendCmd
    <3>2. QED
      BY <3>1, StillWriting DEF CardInv
  <2>3. QED
    BY <2>1, <2>2
<1>2. \/ UNCHANGED <<call, answer, left>>
      \/ step # "idle" /\ C!Return(C!Sectors!Failed)
  BY DEF C!Initialize, C!Recover, C!SendIfCond, C!SdSendOpCond, C!ReadOcr, C!SendOpCond,
     C!SendCsd, C!Goto, C!GivesUp
<1>3. QED
  BY <1>1, <1>2, Stutters, FailedReturns

LEMMA InitializedImplements ==
    ASSUME CardInv, C!Initialized
    PROVE  Step
<1>1. /\ step = "initialized" /\ call' = C!Sectors!NoCall /\ left' = left
      /\ slot' = slot /\ cells' = cells
  BY DEF C!Initialized, C!Return, C!cardVars
<1>2. /\ call # C!Sectors!NoCall /\ call.kind \notin {"read", "write"}
      /\ left \/ slot.phase = "ready"
  BY <1>1 DEF CardInv, Serving, Addressing, Reads, Writes
<1>3. C!Writing' = C!Writing
  BY <1>1 DEF C!Writing
<1>4. C!Sectors!Done
  BY <1>2 DEF C!Sectors!Done
<1>5. slot.phase = "ready" => cells # C!Sectors!NoCard /\ C!Writing = {}
  <2> SUFFICES ASSUME slot.phase = "ready" PROVE cells # C!Sectors!NoCard
    BY DEF C!Writing
  <2>1. cells \in [C!Sector -> Contents]
    BY DEF CardInv, CardTypes
  <2>2. 0 \in C!Sector
    BY BusAssumption DEF C!SdSpiAssumption, C!Sector, C!Sectors!Sector
  <2>3. QED
    BY <2>1, <2>2 DEF C!Sectors!NoCard
<1>6. C!Sectors!Return
  BY <1>1, <1>2, <1>3, <1>4, <1>5 DEF C!Sectors!Return
<1>7. QED
  BY <1>6 DEF Step, C!Sectors!SectorsNext

(* What happens without the driver.                                        *)
LEMMA OutsideImplements ==
    ASSUME CardInv, C!MediaDeinitialize \/ C!Programmed \/ C!Swapped \/ C!Reset
    PROVE  Step
<1>1. CASE C!MediaDeinitialize
  BY <1>1, Stutters DEF C!MediaDeinitialize, C!cardVars, C!Writing
<1>2. CASE C!Programmed
  <2>1. /\ slot.phase = "programming" /\ slot'.phase = "ready" /\ slot.data \in Contents
        /\ cells' = [cells EXCEPT ![slot.sector] = slot.data]
        /\ UNCHANGED <<call, answer, left>>
    BY <1>2, InPhase DEF C!Programmed, CardInv, CardTypes, Phases
  <2>2. C!Writing = {slot.sector} /\ C!Writing' = {}
    BY <2>1 DEF C!Writing
  <2>3. QED
    BY <2>1, <2>2, Settles
<1>3. CASE C!Swapped
  <2>1. /\ cells' \in C!Sectors!Media /\ left' = TRUE /\ UNCHANGED <<call, answer>>
        /\ slot'.phase = "native"
    BY <1>3 DEF C!Swapped, C!Cards, C!NewCard, C!NoCard, C!Sectors!Media, C!Sectors!NoCard,
       C!Sector
  <2>2. C!Sectors!Swap
    BY <2>1 DEF C!Sectors!Swap, C!Writing
  <2>3. QED
    BY <2>2 DEF Step, C!Sectors!SectorsNext
<1>4. CASE C!Reset
  <2>1. C!Sectors!Reset
    BY <1>4 DEF C!Reset, C!Sectors!Reset, C!cardVars, C!Writing
  <2>2. QED
    BY <2>1 DEF Step, C!Sectors!SectorsNext
<1>5. QED
  BY <1>1, <1>2, <1>3, <1>4

LEMMA CardInitImplements == C!Init => C!Sectors!SectorsInit
<1> SUFFICES ASSUME C!Init PROVE C!Sectors!SectorsInit
  OBVIOUS
<1>1. slot.phase = "native"
  BY DEF C!Init, C!Cards, C!NewCard, C!NoCard
<1>2. C!Writing = {}
  BY <1>1 DEF C!Writing
<1>3. QED
  BY <1>2 DEF C!Init, C!Sectors!SectorsInit, C!Sectors!Media, C!Sectors!NoCard, C!Sector

LEMMA CardStepImplements == CardInv /\ [C!Next]_(C!vars) => Step
<1>1. UNCHANGED C!vars => Step
  BY Stutters DEF C!vars, C!cardVars, C!Writing
<1>2. QED
  BY <1>1, CardCallImplements, ReadImplements, WriteImplements, ResetsImplement,
     InitializeImplements, InitializedImplements, OutsideImplements DEF C!Next, C!Driver

(***************************************************************************)
(* What sd_spi.c promises of the card, for cards of every number of        *)
(* sectors and however often it polls: a sector that was read is the one   *)
(* that was asked for, one that was written is on the card when the call   *)
(* succeeds, and a write that timed out or that a reset cut off never      *)
(* reaches a sector after a later call has succeeded.                      *)
(***************************************************************************)
THEOREM CardImplementsSectors == C!Spec => ImplementsSectors
<1>1. C!Spec => C!Sectors!SectorsSpec
  BY CardInitImplements, CardInductive, CardStepImplements, PTL
     DEF C!Spec, C!Sectors!SectorsSpec, Step
<1>2. QED
  BY <1>1 DEF ImplementsSectors, C!ImplementsSectors

-----------------------------------------------------------------------------
(***************************************************************************)
(* On the bus: a step is one of the flash's, of the card's, or of neither. *)
(***************************************************************************)
LEMMA BusFlash == BusSpec => F!Spec
<1>1. BusInit => F!Init
  BY DEF BusInit
<1>2. [BusNext]_<<does, vars, flash, storage>> => [F!Next]_(F!vars)
  BY DEF BusNext, flash, F!vars, F!chip, F!history
<1>3. QED
  BY <1>1, <1>2, PTL DEF BusSpec, F!Spec

LEMMA BusCard == BusSpec => C!Spec
<1>1. BusInit => C!Init
  BY DEF BusInit
<1>2. [BusNext]_<<does, vars, flash, storage>> => [C!Next]_(C!vars)
  BY DEF BusNext, storage, C!vars, C!cardVars, C!globals
<1>3. QED
  BY <1>1, <1>2, PTL DEF BusSpec, C!Spec

(***************************************************************************)
(* The calls of the flash driver and of the card driver do what FlashCalls *)
(* and Sectors say in every behaviour of the bus.                          *)
(***************************************************************************)
THEOREM CallsOnTheBus == BusSpec => ImplementsMemory /\ ImplementsSectors
BY BusFlash, BusCard, FlashImplementsMemory, CardImplementsSectors

-----------------------------------------------------------------------------
USE PlayerAssumption DEF Silence

Sending == pos - length                 \* bytes of the file sent so far
Over == pc = "loop" /\ ~fPLAY           \* playback has ended
Heard(i) == IF i <= Sending THEN i ELSE Silence

(***************************************************************************)
(* The inductive invariant. The codec got what was sent and, once the end  *)
(* of the file was seen, as many zeros as were counted; the buffer holds   *)
(* the next bytes of the file; and the interrupt is armed by the last step *)
(* of main's.                                                              *)
(***************************************************************************)
Shape ==
    /\ card \in BOOLEAN /\ fPLAY \in BOOLEAN
    /\ pc \in {"codec", "mount", "open", "play", "loop", "stop"}
    /\ isr \in {"no", "run", "flush"}
    /\ size \in Nat /\ pos \in Nat /\ length \in Nat /\ count \in Nat
    /\ p \in Nat \ {0} /\ length <= pos /\ pos <= size
    /\ buffer \in Seq(Int) /\ fifo \in Seq(Int) /\ played \in Seq(Int)

Armed ==
    /\ isr # "no" => fPLAY
    /\ fPLAY => pc = "loop"

Buffered ==
    \A i \in 0..length-1 :
        p + i \in 1..Len(buffer) /\ buffer[p + i] = Sending + 1 + i

Totals ==
    /\ pc # "loop" => pos = 0 /\ length = 0
    /\ isr # "flush" /\ ~Over => Len(played) + Len(fifo) = Sending
    /\ isr = "flush" => Len(played) + Len(fifo) = pos + count
    /\ Over => Len(played) + Len(fifo) >= pos + FLUSH
    /\ isr = "flush" \/ Over => length = 0 /\ (card => pos = size)
    /\ Len(fifo) <= FIFO

Ordered ==
    /\ \A i \in 1..Len(played) : played[i] = Heard(i)
    /\ \A i \in 1..Len(fifo) : fifo[i] = Heard(Len(played) + i)

IInv == Shape /\ Armed /\ Buffered /\ Totals /\ Ordered

-----------------------------------------------------------------------------
(* Main goes on to the next of its steps. *)
LEMMA AfterSteps ==
    /\ After("codec") = "mount" /\ After("mount") = "open"
    /\ After("open") = "play" /\ After("play") = "loop"
BY DEF After

(* The lengths are numbers. *)
LEMMA Numbers ==
    ASSUME IInv
    PROVE  /\ Len(fifo) \in Nat /\ Len(played) \in Nat /\ Len(buffer) \in Nat
           /\ size \in Nat /\ pos \in Nat /\ length \in Nat /\ count \in Nat
           /\ p \in Nat \ {0} /\ length <= pos /\ pos <= size
           /\ Sending \in Nat /\ Sending = pos - length
BY DEF IInv, Shape, Sending

LEMMA InitInv == Init => IInv
<1> SUFFICES ASSUME Init PROVE IInv
  OBVIOUS
<1>1. <<>> \in Seq(Int) /\ Len(<<>>) = 0
  OBVIOUS
<1>2. Shape
  <2>1. /\ size \in Nat /\ pos \in Nat /\ length \in Nat /\ count \in Nat
        /\ p \in Nat \ {0} /\ length <= pos /\ pos <= size
    BY DEF Init
  <2>2. buffer \in Seq(Int) /\ fifo \in Seq(Int) /\ played \in Seq(Int)
    BY <1>1 DEF Init
  <2>3. card \in BOOLEAN /\ fPLAY \in BOOLEAN
    BY DEF Init
  <2>4. QED
    BY <2>1, <2>2, <2>3 DEF Init, Shape
<1>6. Armed
  BY DEF Init, Armed
<1>3. Buffered /\ Ordered
  BY <1>1 DEF Init, Buffered, Ordered
<1>4. Totals
  BY <1>1 DEF Init, Totals, Over, Sending
<1>5. QED
  BY <1>2, <1>3, <1>4, <1>6 DEF IInv

(* A step of main's: nothing has been sent yet.                            *)
LEMMA MainInv == IInv /\ Main => IInv'
<1> SUFFICES ASSUME IInv, Main PROVE IInv'
  OBVIOUS
<1> USE AfterSteps DEF IInv, Shape, Armed, Buffered, Totals, Ordered, Over, Sending,
        Heard, sd, statics, codec
<1>1. CASE CodecInit
  BY <1>1 DEF CodecInit
<1>2. CASE Mount
  BY <1>2 DEF Mount
<1>3. CASE Open
  BY <1>3 DEF Open
<1>4. CASE OpenFails
  BY <1>4 DEF OpenFails
<1>5. CASE Play
  BY <1>5 DEF Play
<1>6. QED
  BY <1>1, <1>2, <1>3, <1>4, <1>5 DEF Main

(* The codec plays a byte: what it was given stays in order.               *)
LEMMA DrainInv == IInv /\ Drain => IInv'
<1> SUFFICES ASSUME IInv, Drain PROVE IInv'
  OBVIOUS
<1> USE DEF IInv, Shape, Drain, sd, statics
<1>1. /\ fifo' \in Seq(Int) /\ played' \in Seq(Int)
      /\ Len(fifo) > 0 /\ Len(fifo') = Len(fifo) - 1
      /\ Len(played') = Len(played) + 1
      /\ \A i \in 1..Len(fifo') : fifo'[i] = fifo[i + 1]
      /\ \A i \in 1..Len(played) : played'[i] = played[i]
      /\ played'[Len(played) + 1] = fifo[1]
  OBVIOUS
<1>2. Ordered'
  BY <1>1 DEF Ordered, Heard, Sending
<1>3. Shape'
  BY <1>1
<1>4. Armed' /\ Buffered'
  BY DEF Armed, Buffered, Sending
<1> HIDE DEF Shape
<1>5. /\ Len(played') + Len(fifo') = Len(played) + Len(fifo)
      /\ Len(fifo') <= Len(fifo) /\ Len(fifo') \in Nat /\ Sending' = Sending
  BY <1>1, Numbers DEF Sending
<1>6. Totals'
  BY <1>5, Numbers DEF Totals, Over
<1>7. QED
  BY <1>2, <1>3, <1>4, <1>6

(* CODEC_Feed: the bytes that are sent are those of the file that follow.  *)
LEMMA FeedInv == IInv /\ CODEC_Feed => IInv'
<1> SUFFICES ASSUME IInv, CODEC_Feed PROVE IInv'
  OBVIOUS
<1> USE DEF IInv, Shape, CODEC_Feed, sd
<1> DEFINE bytes == [i \in 1..Sent |-> IF p + i - 1 \in DOMAIN buffer
                                         THEN buffer[p + i - 1] ELSE Garbage]
<1>1. Sent \in 1..length /\ Sent <= FEED
  BY DEF Sent
<1>2. bytes \in Seq(Int) /\ Len(bytes) = Sent
  <2>1. \A i \in 1..Sent : bytes[i] \in Int
    BY <1>1 DEF Garbage
  <2>2. QED
    BY <1>1, <2>1
<1>3. \A i \in 1..Sent : bytes[i] = Sending + i
  <2> TAKE i \in 1..Sent
  <2>1. i - 1 \in 0..length-1 /\ p + (i - 1) = p + i - 1
    BY <1>1
  <2>2. p + i - 1 \in DOMAIN buffer /\ buffer[p + i - 1] = Sending + 1 + (i - 1)
    BY <2>1 DEF Buffered
  <2>3. QED
    BY <2>1, <2>2 DEF Sending
<1>4. /\ fifo' = fifo \o bytes /\ fifo' \in Seq(Int)
      /\ Len(fifo') = Len(fifo) + Sent
      /\ \A i \in 1..Len(fifo) : fifo'[i] = fifo[i]
      /\ \A i \in 1..Sent : fifo'[Len(fifo) + i] = bytes[i]
  <2>0. fifo' = fifo \o bytes
    OBVIOUS
  <2> HIDE DEF bytes
  <2>1. /\ fifo \o bytes \in Seq(Int)
        /\ Len(fifo \o bytes) = Len(fifo) + Len(bytes)
        /\ \A i \in 1..Len(fifo) + Len(bytes) : (fifo \o bytes)[i] =
              IF i <= Len(fifo) THEN fifo[i] ELSE bytes[i - Len(fifo)]
    BY <1>2, ConcatProperties
  <2>2. Len(fifo) \in Nat /\ Sent \in Nat
    BY <1>1, Numbers
  <2>3. ASSUME NEW i \in 1..Sent PROVE fifo'[Len(fifo) + i] = bytes[i]
    <3>1. /\ Len(fifo) + i \in 1..Len(fifo) + Sent /\ ~(Len(fifo) + i <= Len(fifo))
          /\ Len(fifo) + i - Len(fifo) = i
      BY <2>2
    <3>2. (fifo \o bytes)[Len(fifo) + i] = bytes[Len(fifo) + i - Len(fifo)]
      BY <1>2, <2>1, <3>1
    <3>3. QED
      BY <2>0, <3>1, <3>2
  <2>4. ASSUME NEW i \in 1..Len(fifo) PROVE fifo'[i] = fifo[i]
    <3>1. i \in 1..Len(fifo) + Sent /\ i <= Len(fifo)
      BY <2>2
    <3>2. QED
      BY <1>2, <2>0, <2>1, <3>1
  <2>5. QED
    BY <1>2, <2>0, <2>1, <2>3, <2>4
<1> HIDE DEF bytes
<1>5. /\ length' = length - Sent /\ p' = p + Sent /\ Sending' = Sending + Sent
      /\ pos' = pos /\ buffer' = buffer /\ played' = played
  BY <1>1 DEF Sending
<1>6. Len(played) + Len(fifo) = Sending /\ Len(fifo') <= FIFO
  BY <1>1, <1>4 DEF Totals, Armed, Over, CODEC_DREQ
<1> DEFINE unchanged == UNCHANGED <<pc, card, size, fPLAY, isr, count>>
<1>13. unchanged /\ isr = "run" /\ fPLAY /\ pc = "loop"
  BY DEF Armed
<1>0. /\ Len(fifo) \in Nat /\ Len(played) \in Nat
      /\ pos \in Nat /\ length \in Nat /\ length <= pos /\ pos <= size /\ size \in Nat
      /\ p \in Nat \ {0} /\ Sending \in Nat /\ Sending = pos - length
  BY Numbers
<1> HIDE DEF IInv, Shape, CODEC_Feed
<1>7. Ordered'
  <2>0. /\ \A i \in 1..Len(played) : played[i] = Heard(i)
        /\ \A i \in 1..Len(fifo) : fifo[i] = Heard(Len(played) + i)
    BY DEF IInv, Ordered
  <2>1. ASSUME NEW i \in 1..Len(played) PROVE played'[i] = Heard(i)'
    <3>1. i <= Sending /\ i <= Sending'
      BY <1>1, <1>5, <1>6, <1>0
    <3>2. QED
      BY <1>5, <2>0, <3>1 DEF Heard
  <2>2. ASSUME NEW i \in 1..Len(fifo') PROVE fifo'[i] = Heard(Len(played) + i)'
    <3>0. Len(played) + i <= Sending' /\ i \in 1..Len(fifo) + Sent /\ Sent \in Nat
      BY <1>1, <1>4, <1>5, <1>6, <1>0
    <3>1. CASE i \in 1..Len(fifo)
      <4>1. Len(played) + i <= Sending
        BY <1>6, <3>1, <1>0
      <4>2. QED
        BY <1>4, <1>5, <2>0, <3>0, <3>1, <4>1 DEF Heard
    <3>2. CASE i \notin 1..Len(fifo)
      <4>1. /\ i - Len(fifo) \in 1..Sent /\ Len(fifo) + (i - Len(fifo)) = i
            /\ Sending + (i - Len(fifo)) = Len(played) + i
        BY <1>6, <3>0, <3>2, <1>0
      <4>2. fifo'[i] = Sending + (i - Len(fifo))
        BY <1>3, <1>4, <4>1
      <4>3. QED
        BY <1>5, <3>0, <4>1, <4>2 DEF Heard
    <3>3. QED
      BY <3>1, <3>2
  <2>3. QED
    BY <1>5, <2>1, <2>2 DEF Ordered
<1>8. Buffered'
  <2> SUFFICES ASSUME NEW i \in 0..length'-1
               PROVE  p' + i \in 1..Len(buffer) /\ buffer[p' + i] = Sending' + 1 + i
    BY <1>5 DEF Buffered
  <2>1. /\ i + Sent \in 0..length-1 /\ p + (i + Sent) = p' + i
        /\ Sending + 1 + (i + Sent) = Sending' + 1 + i
    BY <1>1, <1>5, <1>0
  <2>2. QED
    BY <2>1 DEF IInv, Buffered
<1>9. Shape'
  <2>1. /\ length' \in Nat /\ length' <= pos' /\ p' \in Nat \ {0} /\ pos' \in Nat
        /\ pos' <= size
    BY <1>1, <1>5, <1>0
  <2>2. QED
    BY <1>4, <1>5, <1>13, <2>1 DEF IInv, Shape
<1>10. Armed'
  BY <1>13 DEF IInv, Armed
<1>11. Totals'
  <2>1. Len(played') + Len(fifo') = Sending'
    <3>1. Len(played') = Len(played)
      BY <1>5
    <3>2. Len(fifo') = Len(fifo) + Sent /\ Sent \in Nat
      BY <1>0, <1>1, <1>4
    <3>3. QED
      BY <1>0, <1>5, <1>6, <3>1, <3>2
  <2>2. isr' = "run" /\ fPLAY' /\ pc' = "loop"
    BY <1>13
  <2>3. QED
    BY <1>6, <2>1, <2>2 DEF Totals, Over
<1>12. QED
  BY <1>7, <1>8, <1>9, <1>10, <1>11 DEF IInv

(* CODEC_Flush: a zero more.                                               *)
LEMMA FlushInv == IInv /\ CODEC_Flush => IInv'
<1> SUFFICES ASSUME IInv, CODEC_Flush PROVE IInv'
  OBVIOUS
<1> USE DEF IInv, Shape, CODEC_Flush, sd, statics
<1>1. /\ fifo' \in Seq(Int) /\ Len(fifo') = Len(fifo) + 1
      /\ \A i \in 1..Len(fifo) : fifo'[i] = fifo[i]
      /\ fifo'[Len(fifo) + 1] = Silence
  OBVIOUS
<1>2. Len(played) + Len(fifo) = Sending + count /\ length = 0
  BY DEF Totals, Sending
<1>3. Ordered'
  BY <1>1, <1>2 DEF Ordered, Heard, Sending
<1>4. Armed' /\ Buffered' /\ Shape'
  BY <1>1 DEF Armed, Buffered, Sending
<1>5. Totals'
  <2>1. isr' = "flush" /\ pc' = "loop" /\ fPLAY' /\ length' = 0
    BY <1>2 DEF Armed
  <2>2. card' => pos' = size'
    BY DEF Totals
  <2>3. Len(played') + Len(fifo') = pos' + count' /\ Len(fifo') <= FIFO
    BY <1>1, <1>2, Numbers DEF Sending, CODEC_DREQ
  <2>4. QED
    BY <2>1, <2>2, <2>3 DEF Totals, Over
<1>6. QED
  BY <1>3, <1>4, <1>5

(* A refill: the next bytes of the file are in the buffer.                 *)
LEMMA RefillInv == IInv /\ Refill => IInv'
<1> SUFFICES ASSUME IInv, Refill PROVE IInv'
  OBVIOUS
<1> USE DEF IInv, Shape, Refill, codec
<1> DEFINE n == Available
<1>1. n \in Nat \ {0} /\ pos + n <= size
  BY DEF Available
<1> HIDE DEF n
<1>2. /\ length = 0 /\ length' = n /\ pos' = pos + n /\ p' = 1
      /\ buffer' = Bytes(pos + 1, pos + n)
      /\ UNCHANGED <<pc, card, size, fPLAY, isr, count, fifo, played>>
  BY DEF n
<1>3. /\ buffer' \in Seq(Int) /\ Len(buffer') = n
      /\ \A i \in 1..n : buffer'[i] = pos + i
  BY <1>1, <1>2 DEF Bytes
<1>4. Sending' = Sending
  BY <1>1, <1>2 DEF Sending
<1>5. Buffered'
  BY <1>1, <1>2, <1>3 DEF Buffered, Sending
<1>6. QED
  BY <1>1, <1>2, <1>3, <1>4, <1>5 DEF Armed, Totals, Over, Ordered, Heard

LEMMA StepInv == IInv /\ [Next]_vars => IInv'
<1> SUFFICES ASSUME IInv, [Next]_vars PROVE IInv'
  OBVIOUS
<1> USE DEF IInv, Shape, Armed, Buffered, Totals, Ordered, Over, Sending, Heard, sd,
        statics, codec
<1>0. CASE UNCHANGED vars
  BY <1>0 DEF vars
<1>1. CASE CardRemoved
  BY <1>1 DEF CardRemoved
<1>2. CASE Interrupt
  BY <1>2 DEF Interrupt
<1>3. CASE EndOfFile
  BY <1>3 DEF EndOfFile, Available
<1>4. CASE Full
  BY <1>4 DEF Full
<1>5. CASE Flushed
  <2>1. Shape' /\ Armed' /\ Buffered' /\ Ordered'
    BY <1>5 DEF Flushed
  <2>2. /\ Len(played') + Len(fifo') >= pos' + FLUSH
        /\ Len(fifo') <= FIFO /\ length' = 0 /\ (card' => pos' = size')
    <3> HIDE DEF Sending
    <3>1. Len(played) + Len(fifo) = pos + count /\ count >= FLUSH
      BY <1>5, Numbers DEF Flushed, MoreSilence
    <3>2. QED
      BY <1>5, <3>1, Numbers DEF Flushed
  <2>3. isr' = "no" /\ pc' = "loop" /\ fPLAY' = FALSE
    BY <1>5 DEF Flushed
  <2>4. Totals'
    BY <2>2, <2>3
  <2>5. QED
    BY <2>1, <2>4
<1> HIDE DEF IInv
<1>6. QED
  BY <1>0, <1>1, <1>2, <1>3, <1>4, <1>5, MainInv, DrainInv, FeedInv, FlushInv,
     RefillInv DEF Next, CodecCallBack

(* The invariant holds in every state of main, interrupt, codec and card.  *)
LEMMA Inductive == Spec => []IInv
BY InitInv, StepInv, PTL DEF Spec

-----------------------------------------------------------------------------
(***************************************************************************)
(* Main and the interrupt never use the card and the codec at once         *)
(* (6.4-Sound_Interrupt/main.c:86): the order of its steps is the lock.    *)
(***************************************************************************)
THEOREM BusGuarded == Spec => []BusNotShared
<1>1. IInv => BusNotShared
  BY DEF IInv, Shape, Armed, BusNotShared
<1>2. QED
  BY Inductive, <1>1, PTL

(***************************************************************************)
(* The codec gets the bytes of the file in order, each once, then silence  *)
(* (vs1053.c:187, main.c:25-40), for a buffer that is no multiple of a     *)
(* feed and an interrupt that may end after any feed.                      *)
(***************************************************************************)
THEOREM BytesInOrder == Spec => []InOrder
<1>1. IInv => InOrder
  <2> SUFFICES ASSUME IInv PROVE InOrder
    OBVIOUS
  <2> DEFINE heard == played \o fifo
  <2>1. /\ Len(heard) = Len(played) + Len(fifo)
        /\ DOMAIN heard = 1..Len(heard)
        /\ \A i \in 1..Len(heard) :
              heard[i] = IF i <= Len(played) THEN played[i] ELSE fifo[i - Len(played)]
    BY DEF IInv, Shape
  <2> HIDE DEF heard
  <2>2. Sending <= Len(heard)
    BY <2>1 DEF IInv, Shape, Totals, Sending
  <2>3. ASSUME NEW i \in 1..Len(heard) PROVE heard[i] = Heard(i)
    <3>0. /\ \A j \in 1..Len(played) : played[j] = Heard(j)
          /\ \A j \in 1..Len(fifo) : fifo[j] = Heard(Len(played) + j)
      BY DEF IInv, Ordered
    <3>1. CASE i <= Len(played)
      <4>1. i \in 1..Len(played)
        BY <2>1, <3>1, Numbers
      <4>2. QED
        BY <2>1, <3>0, <3>1, <4>1
    <3>2. CASE ~(i <= Len(played))
      <4>1. i - Len(played) \in 1..Len(fifo) /\ Len(played) + (i - Len(played)) = i
        BY <2>1, <3>2, Numbers
      <4>2. QED
        BY <2>1, <3>0, <3>2, <4>1
    <3>3. QED
      BY <3>1, <3>2
  <2>4. QED
    BY <2>1, <2>2, <2>3 DEF InOrder, Heard, Sending, heard
<1>2. QED
  BY Inductive, <1>1, PTL

(***************************************************************************)
(* When playback is over the whole file has been played, and not just sent *)
(* (vs1053.c:165): the zeros of the flush outnumber what the codec holds.  *)
(***************************************************************************)
THEOREM PlayedToTheEnd == Spec => []AllPlayed
<1>1. IInv => AllPlayed
  <2> SUFFICES ASSUME IInv, Over
               PROVE  /\ \A i \in 1..Len(fifo) : fifo[i] = Silence
                      /\ card => Len(played) >= size
    BY DEF AllPlayed, Over
  <2>1. Len(played) >= pos /\ length = 0
    BY DEF IInv, Shape, Totals
  <2>2. QED
    BY <2>1 DEF IInv, Shape, Totals, Ordered, Heard, Sending
<1>2. QED
  BY Inductive, <1>1, PTL
=============================================================================
