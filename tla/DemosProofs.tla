----------------------------- MODULE DemosProofs -----------------------------
(***************************************************************************)
(* Proofs about the four demos: the terminal and the layout for a page and *)
(* a screen of any size, the pond for any radius, speed and length of list *)
(* that leave room for every drop, the files of a card for any number of   *)
(* objects up to 2^14.                                                     *)
(***************************************************************************)
EXTENDS MCDemos, SequenceTheorems, WellFoundedInduction, TLAPS

-----------------------------------------------------------------------------
(* The terminal.                                                           *)

Page == [Rows -> [Columns -> Chars \cup {Space}]]
Somewhere == [x : Nat, y : Nat, page : Page]
Within == [x : Columns, y : Rows, page : Page]

LEMMA PageConstants ==
    /\ MAX_X \in Nat \ {0} /\ MAX_Y \in Nat /\ MAX_Y >= 2
    /\ TAB \in Nat \ {0} /\ (MAX_X % TAB) = 0 /\ Strings \subseteq Nat
    /\ 0 \in Columns /\ 0 \in Rows
    /\ \A n : n \in Columns <=> n \in Nat /\ n < MAX_X
    /\ \A n : n \in Rows <=> n \in Nat /\ n < MAX_Y
BY PageAssumption DEF Columns, Rows

(* Every set of numbers has a least one.                                    *)
LEMMA Least ==
    ASSUME NEW S, S \subseteq Nat, S # {}
    PROVE  \E n \in S : \A k \in S : n <= k
<1> DEFINE R == OpToRel(<, Nat)
<1>1. \A x, y \in Nat : <<y, x>> \in R <=> y < x
  BY DEF OpToRel
<1>2. IsWellFoundedOn(R, Nat)
  BY NatLessThanWellFounded
<1> HIDE DEF R
<1>3. PICK x \in S : \A y \in S : ~(<<y, x>> \in R)
  BY <1>2, WFMin
<1>4. ASSUME NEW k \in S PROVE  x <= k
  <2>1. ~(<<k, x>> \in R)
    BY <1>3
  <2>2. <<k, x>> \in R <=> k < x
    BY <1>1, Zenon
  <2>3. ~(k < x)
    BY <2>1, <2>2
  <2> QED
    BY <2>3
<1> QED
  BY <1>4

(* The terminals after no character, after one, and so on to n.            *)
IsDone(done, t, c, n) ==
    done = [k \in 0..n |-> IF k = 0 THEN t ELSE Put(done[k - 1], c)]

(* The recursive function in Puts exists.                                  *)
LEMMA PutsExists ==
    ASSUME NEW t, NEW c
    PROVE  \A n \in Nat : \E done : IsDone(done, t, c, n)
<1> DEFINE Has(n) == \E done : IsDone(done, t, c, n)
           None == {n \in Nat : ~Has(n)}
<1> SUFFICES ASSUME None # {} PROVE FALSE
  OBVIOUS
<1>1. PICK m \in None : \A k \in None : m <= k
  <2> HIDE DEF Has
  <2> QED
    BY Least
<1>2. Has(0)
  <2> DEFINE done == [k \in 0..0 |-> t]
  <2>1. IsDone(done, t, c, 0)
    BY DEF IsDone
  <2> HIDE DEF done
  <2> QED
    BY <2>1
<1>3. m # 0 /\ m \in Nat
  <2> HIDE DEF Has
  <2> QED
    BY <1>2
<1>4. Has(m - 1)
  <2> HIDE DEF Has
  <2>1. m - 1 \in Nat /\ ~(m <= m - 1)
    BY <1>3
  <2> QED
    BY <1>1, <2>1
<1>5. PICK shorter : IsDone(shorter, t, c, m - 1)
  BY <1>4
<1> DEFINE done == [k \in 0..m |-> IF k = 0 THEN t ELSE Put(shorter[k - 1], c)]
<1> HIDE DEF None
<1>6. ASSUME NEW k \in 0..m - 1 PROVE done[k] = shorter[k]
  <2>1. k \in 0..m
    BY <1>3
  <2>2. done[k] = IF k = 0 THEN t ELSE Put(shorter[k - 1], c)
    BY <2>1
  <2>3. shorter = [j \in 0..m - 1 |-> IF j = 0 THEN t ELSE Put(shorter[j - 1], c)]
    BY <1>5 DEF IsDone
  <2>4. shorter[k] = IF k = 0 THEN t ELSE Put(shorter[k - 1], c)
    BY <2>3
  <2> QED
    BY <2>2, <2>4
<1>7. ASSUME NEW k \in 0..m, k # 0 PROVE done[k - 1] = shorter[k - 1]
  <2>1. k - 1 \in 0..m - 1
    BY <1>3, <1>7
  <2> QED
    BY <1>6, <2>1
<1>8. done = [k \in 0..m |-> IF k = 0 THEN t ELSE Put(done[k - 1], c)]
  BY <1>7
<1> HIDE DEF done
<1>9. Has(m)
  BY <1>8 DEF IsDone
<1> QED
  BY <1>9 DEF None

LEMMA PutsSteps ==
    ASSUME NEW t, NEW c, NEW n \in Nat
    PROVE  \E done : /\ Puts(t, c, n) = done[n] /\ done[0] = t
                     /\ \A k \in 1..n : done[k] = Put(done[k - 1], c)
<1> DEFINE steps == CHOOSE done : IsDone(done, t, c, n)
<1>1. IsDone(steps, t, c, n)
  BY PutsExists
<1>2. Puts(t, c, n) = steps[n]
  BY DEF Puts, IsDone
<1> HIDE DEF steps
<1>3. steps = [k \in 0..n |-> IF k = 0 THEN t ELSE Put(steps[k - 1], c)]
  BY <1>1 DEF IsDone
<1>4. steps[0] = t /\ \A k \in 1..n : steps[k] = Put(steps[k - 1], c)
  BY <1>3
<1> QED
  BY <1>2, <1>4

(* Induction on a string: the terminal is among the Good[k] after k of its *)
(* characters.                                                             *)
LEMMA PutsGood ==
    ASSUME NEW t, NEW c, NEW n \in Nat, NEW Good, t \in Good[0],
           \A k \in 1..n : \A u \in Good[k - 1] : Put(u, c) \in Good[k]
    PROVE  Puts(t, c, n) \in Good[n]
<1>1. PICK done : /\ Puts(t, c, n) = done[n] /\ done[0] = t
                  /\ \A k \in 1..n : done[k] = Put(done[k - 1], c)
  BY PutsSteps
<1> DEFINE Bad == {k \in Nat : k \in 0..n /\ done[k] \notin Good[k]}
<1>2. Bad = {}
  <2> SUFFICES ASSUME Bad # {} PROVE FALSE
    OBVIOUS
  <2>1. PICK m \in Bad : \A k \in Bad : m <= k
    BY Least
  <2>2. m \in 0..n /\ done[m] \notin Good[m]
    OBVIOUS
  <2>3. m # 0
    BY <1>1, <2>2
  <2>4. m \in 1..n /\ m - 1 \in Nat /\ m - 1 \in 0..n /\ ~(m <= m - 1)
    BY <2>2, <2>3
  <2>5. done[m - 1] \in Good[m - 1]
    BY <2>1, <2>4
  <2> QED
    BY <1>1, <2>2, <2>4, <2>5
<1> QED
  BY <1>1, <1>2

(* Down and right, the cursor stays on the page.                           *)
LEMMA DownWithin ==
    ASSUME NEW t \in Within
    PROVE  Down(t) \in Within /\ Down(t).page = t.page /\ Down(t).x = t.x
BY PageConstants DEF Within, Down

LEMMA RightWithin ==
    ASSUME NEW t \in Within
    PROVE  Right(t) \in Within /\ Right(t).page = t.page
<1>1. CASE t.x + 1 >= MAX_X
  <2>1. PICK home : home = [t EXCEPT !.x = 0]
    OBVIOUS
  <2>2. home \in Within /\ home.page = t.page
    BY <2>1, PageConstants DEF Within
  <2>3. Right(t) = Down(home)
    BY <1>1, <2>1 DEF Right
  <2> QED
    BY <2>2, <2>3, DownWithin
<1>2. CASE ~(t.x + 1 >= MAX_X)
  <2>1. t.x + 1 \in Columns
    BY <1>2, PageConstants DEF Within
  <2> QED
    BY <1>2, <2>1 DEF Right, Within
<1> QED
  BY <1>1, <1>2

(* A character goes on the page, and leaves the cursor on it.              *)
LEMMA PutWithin ==
    ASSUME NEW t \in Somewhere, NEW c \in Chars \cup {Space}
    PROVE  Put(t, c) \in Within
<1>1. CASE Off(t)
  BY <1>1, PageConstants DEF Put, Somewhere, Within
<1>2. CASE ~Off(t)
  <2>1. t.x \in Columns /\ t.y \in Rows
    BY <1>2, PageConstants DEF Off, Somewhere
  <2> DEFINE drawn == [t EXCEPT !.page[t.y][t.x] = c]
  <2>2. drawn \in Within /\ drawn.x = t.x /\ drawn.y = t.y
    <3>1. [t.page EXCEPT ![t.y][t.x] = c] \in Page
      BY <2>1 DEF Somewhere, Page
    <3> QED
      BY <2>1, <3>1 DEF Somewhere, Within
  <2>3. Put(t, c) = Right(drawn)
    BY <1>2 DEF Put
  <2> HIDE DEF drawn
  <2>4. Right(drawn) \in Within
    BY <2>2, RightWithin
  <2> QED
    BY <2>3, <2>4
<1> QED
  BY <1>1, <1>2

LEMMA PutsWithin ==
    ASSUME NEW t \in Somewhere, NEW c \in Chars \cup {Space}, NEW n \in Nat,
           n > 0 \/ t \in Within
    PROVE  Puts(t, c, n) \in Within
<1>1. CASE n > 0
  <2> DEFINE Good == [k \in 0..n |-> IF k = 0 THEN Somewhere ELSE Within]
  <2>1. t \in Good[0]
    OBVIOUS
  <2>2. Within \subseteq Somewhere
    BY PageConstants DEF Within, Somewhere
  <2>3. ASSUME NEW k \in 1..n, NEW u \in Good[k - 1] PROVE Put(u, c) \in Good[k]
    <3>1. u \in Somewhere
      BY <2>2
    <3>2. Good[k] = Within
      OBVIOUS
    <3> QED
      BY <3>1, <3>2, PutWithin
  <2>4. Good[n] = Within
    BY <1>1
  <2> HIDE DEF Good
  <2>5. Puts(t, c, n) \in Good[n]
    BY <2>1, <2>3, PutsGood
  <2> QED
    BY <2>4, <2>5
<1>2. CASE n = 0 /\ t \in Within
  <2>1. PICK done : Puts(t, c, n) = done[n] /\ done[0] = t
    BY PutsSteps
  <2> QED
    BY <1>2, <2>1
<1> QED
  BY <1>1, <1>2

LEMMA NowWithin == OnPage => Now \in Within
BY DEF OnPage, Now, Terminal, Within, Page

LEMMA BecomesWithin ==
    ASSUME NEW t \in Within, Becomes(t)
    PROVE  OnPage'
BY DEF Becomes, OnPage, Within, Page, Columns, Rows

(* What lies right of the cursor goes, and nothing of another row.         *)
LEMMA ErasedWithin ==
    ASSUME NEW t \in Within
    PROVE  /\ Erased(t) \in Within /\ Erased(t).y = t.y
           /\ \A row \in Rows : row # t.y => Erased(t).page[row] = t.page[row]
<1>1. t.page \in Page /\ t.y \in Rows /\ t.x \in Columns
  BY DEF Within
<1> DEFINE line == [col \in Columns |-> IF col >= t.x THEN Space ELSE t.page[t.y][col]]
<1>2. line \in [Columns -> Chars \cup {Space}]
  BY <1>1 DEF Page
<1>3. Erased(t) = [t EXCEPT !.page = [t.page EXCEPT ![t.y] = line]]
  BY DEF Erased
<1> HIDE DEF line
<1>4. [t.page EXCEPT ![t.y] = line] \in Page
  BY <1>1, <1>2 DEF Page
<1> QED
  BY <1>1, <1>3, <1>4 DEF Within, Page

(* A character that does not end a row is drawn in it, and nowhere else.   *)
LEMMA PutInRow ==
    ASSUME NEW t \in Within, NEW c \in Chars \cup {Space}
    PROVE  /\ \A row \in Rows : row # t.y => Put(t, c).page[row] = t.page[row]
           /\ t.x + 1 < MAX_X => Put(t, c).x = t.x + 1 /\ Put(t, c).y = t.y
<1>1. t.page \in Page /\ t.y \in Rows /\ t.x \in Columns /\ ~Off(t)
  BY PageConstants DEF Within, Off
<1> DEFINE drawn == [t EXCEPT !.page[t.y][t.x] = c]
<1>2. /\ drawn.x = t.x /\ drawn.y = t.y
      /\ \A row \in Rows : row # t.y => drawn.page[row] = t.page[row]
  BY <1>1 DEF Within, Page
<1>3. Put(t, c) = Right(drawn)
  BY <1>1 DEF Put
<1>4. drawn \in [x : Columns, y : Rows, page : Page]
  <2>1. [t.page EXCEPT ![t.y][t.x] = c] \in Page
    BY <1>1 DEF Page
  <2> QED
    BY <1>1, <2>1 DEF Within
<1> HIDE DEF drawn
<1>5. Right(drawn).page = drawn.page
  BY <1>4, RightWithin DEF Within
<1>6. drawn.x + 1 < MAX_X => Right(drawn) = [drawn EXCEPT !.x = drawn.x + 1]
  BY <1>1, <1>2, PageConstants DEF Right
<1> QED
  BY <1>2, <1>3, <1>4, <1>5, <1>6

(* Spaces up to the last column at most.                                   *)
LEMMA PutsInRow ==
    ASSUME NEW t \in Within, NEW n \in Nat, t.x + n < MAX_X
    PROVE  \A row \in Rows : row # t.y => Puts(t, Space, n).page[row] = t.page[row]
<1> DEFINE Good == [k \in 0..n |->
        {u \in Within : /\ u.x = t.x + k /\ u.y = t.y
                        /\ \A row \in Rows : row # t.y => u.page[row] = t.page[row]}]
<1>1. t.x \in Nat
  BY PageConstants DEF Within
<1>2. t \in Good[0]
  BY <1>1
<1>3. ASSUME NEW k \in 1..n, NEW u \in Good[k - 1] PROVE Put(u, Space) \in Good[k]
  <2>1. k - 1 \in 0..n /\ k \in 0..n
    OBVIOUS
  <2>2. /\ u \in Within /\ u.x = t.x + (k - 1) /\ u.y = t.y
        /\ \A row \in Rows : row # t.y => u.page[row] = t.page[row]
    BY <2>1
  <2>3. u.x + 1 = t.x + k /\ u.x + 1 < MAX_X
    BY <1>1, <2>2, PageConstants
  <2>4. Put(u, Space) \in Within
    BY <2>2, PutWithin, PageConstants DEF Within, Somewhere
  <2>5. /\ Put(u, Space).x = t.x + k /\ Put(u, Space).y = t.y
        /\ \A row \in Rows : row # t.y => Put(u, Space).page[row] = t.page[row]
    BY <2>2, <2>3, PutInRow
  <2> QED
    BY <2>1, <2>4, <2>5
<1>4. Good[n] = {u \in Within : /\ u.x = t.x + n /\ u.y = t.y
                        /\ \A row \in Rows : row # t.y => u.page[row] = t.page[row]}
  OBVIOUS
<1> HIDE DEF Good
<1>5. Puts(t, Space, n) \in Good[n]
  BY <1>2, <1>3, PutsGood
<1> QED
  BY <1>4, <1>5

(* The next tab stop is no further than the margin.                        *)
LEMMA TabBeforeMargin ==
    ASSUME NEW col \in Columns
    PROVE  TabStop(col) \in Nat /\ TabStop(col) <= MAX_X
<1>1. PICK tab \in Nat \ {0}, width \in Nat, x \in Nat :
         tab = TAB /\ width = MAX_X /\ x = col /\ x < width /\ (width % tab) = 0
  BY PageConstants
<1>2. PICK stops \in Nat : stops = width \div tab
  BY <1>1
<1>3. width = tab * stops
  BY <1>1, <1>2
<1>4. PICK s \in Nat : s = x \div tab
  OBVIOUS
<1>5. tab * s <= x
  BY <1>4
<1>6. s < stops
  <2> SUFFICES ASSUME s >= stops PROVE FALSE
    OBVIOUS
  <2>1. PICK more \in Nat : s = stops + more
    OBVIOUS
  <2>2. tab * s = tab * stops + tab * more /\ tab * more \in Nat
    BY <2>1
  <2> QED
    BY <1>1, <1>3, <1>5, <2>2
<1>7. PICK more \in Nat : stops = (s + 1) + more
  BY <1>6
<1>8. tab * stops = (s + 1) * tab + tab * more /\ tab * more \in Nat /\ (s + 1) * tab \in Nat
  BY <1>7
<1> QED
  BY <1>1, <1>3, <1>4, <1>8 DEF TabStop

(* Whatever is written leaves the page a page, the cursor on it, and what  *)
(* OtherRowsKept says it does to the other rows.                           *)
LEMMA CharPutWithin ==
    ASSUME NEW t \in Within, NEW c \in Chars \cup Control
    PROVE  /\ CharPut(t, c) \in Within
           /\ \A row \in Rows :
                \/ CharPut(t, c).page[row] = t.page[row]
                \/ row = IF c = "\\n" THEN CharPut(t, c).y ELSE t.y
<1>0. /\ t \in Somewhere /\ Within \subseteq Somewhere
      /\ t.x \in Nat /\ t.x < MAX_X /\ t.y \in Rows
  BY PageConstants DEF Within, Somewhere
<1>1. CASE c = "\\b"
  <2>1. CharPut(t, c) = Backspace(t)
    BY <1>1 DEF CharPut
  <2>2. CASE ~(t.x > 0)
    BY <1>1, <2>1, <2>2 DEF Backspace
  <2>3. CASE t.x > 0
    <3>1. PICK back : back = [t EXCEPT !.x = t.x - 1]
      OBVIOUS
    <3>2. t.x - 1 \in Columns /\ (t.x - 1) + 1 < MAX_X
      BY <1>0, <2>3, PageConstants
    <3>3. back \in Within /\ back.x = t.x - 1 /\ back.y = t.y /\ back.page = t.page
      BY <3>1, <3>2 DEF Within
    <3>4. PICK put : put = Put(back, Space)
      OBVIOUS
    <3>5. /\ put \in Within
          /\ \A row \in Rows : row # t.y => put.page[row] = t.page[row]
          /\ put.x = (t.x - 1) + 1
      BY <1>0, <3>2, <3>3, <3>4, PutWithin, PutInRow
    <3>6. put.x - 1 = t.x - 1
      BY <1>0, <3>5
    <3>7. Backspace(t) = [put EXCEPT !.x = put.x - 1]
      BY <2>3, <3>1, <3>4 DEF Backspace
    <3>8. Backspace(t) \in Within /\ Backspace(t).page = put.page
      BY <3>2, <3>5, <3>6, <3>7 DEF Within
    <3> QED
      BY <1>1, <2>1, <3>5, <3>8
  <2> QED
    BY <2>2, <2>3
<1>2. CASE c = "\\t"
  <2>1. CharPut(t, c) = Tab(t)
    BY <1>2 DEF CharPut
  <2>2. PICK n : n = IF t.x < TabStop(t.x) - 1 THEN TabStop(t.x) - 1 - t.x ELSE 0
    OBVIOUS
  <2>3. TabStop(t.x) \in Nat /\ TabStop(t.x) <= MAX_X
    BY TabBeforeMargin DEF Within
  <2>4. n \in Nat /\ t.x + n < MAX_X
    BY <1>0, <2>2, <2>3, PageConstants
  <2>5. Tab(t) = Puts(t, Space, n)
    BY <2>2 DEF Tab
  <2>6. Puts(t, Space, n) \in Within
    BY <1>0, <2>4, PutsWithin
  <2>7. \A row \in Rows : row # t.y => Puts(t, Space, n).page[row] = t.page[row]
    BY <2>4, PutsInRow
  <2> QED
    BY <1>2, <2>1, <2>5, <2>6, <2>7
<1>3. CASE c = "\\n"
  <2>1. CharPut(t, c) = Return(Down(t))
    BY <1>3 DEF CharPut, NewLine
  <2>2. PICK down : down = Down(t)
    OBVIOUS
  <2>3. down \in Within /\ down.page = t.page
    BY <2>2, DownWithin
  <2>4. PICK erased : erased = Erased(down)
    OBVIOUS
  <2>5. /\ erased \in Within /\ erased.y = down.y
        /\ \A row \in Rows : row # down.y => erased.page[row] = t.page[row]
    BY <2>3, <2>4, ErasedWithin
  <2>6. CharPut(t, c) = [erased EXCEPT !.x = 0]
    BY <2>1, <2>2, <2>4 DEF Return
  <2>7. /\ [erased EXCEPT !.x = 0] \in Within /\ [erased EXCEPT !.x = 0].y = down.y
        /\ [erased EXCEPT !.x = 0].page = erased.page
    BY <2>5, PageConstants DEF Within
  <2> QED
    BY <1>3, <2>5, <2>6, <2>7
<1>4. CASE c = "\\r"
  <2>1. CharPut(t, c) = Return(t)
    BY <1>4 DEF CharPut
  <2>4. PICK erased : erased = Erased(t)
    OBVIOUS
  <2>5. /\ erased \in Within /\ erased.y = t.y
        /\ \A row \in Rows : row # t.y => erased.page[row] = t.page[row]
    BY <2>4, ErasedWithin
  <2>6. CharPut(t, c) = [erased EXCEPT !.x = 0]
    BY <2>1, <2>4 DEF Return
  <2>7. /\ [erased EXCEPT !.x = 0] \in Within /\ [erased EXCEPT !.x = 0].page = erased.page
    BY <2>5, PageConstants DEF Within
  <2> QED
    BY <1>4, <2>5, <2>6, <2>7
<1>5. CASE c \notin Control
  <2>1. CharPut(t, c) = Put(t, c)
    BY <1>5 DEF CharPut, Control
  <2>2. c \in Chars \cup {Space} /\ c # "\\n"
    BY <1>5 DEF Control
  <2> QED
    BY <1>0, <2>1, <2>2, PutWithin, PutInRow
<1> QED
  BY <1>1, <1>2, <1>3, <1>4, <1>5 DEF Control

LEMMA InitTerminal == TTY_Init => OnPage
BY PageConstants DEF TTY_Init, OnPage, Blank

LEMMA StepTerminal == OnPage /\ [TTYNext]_ttyVars => OnPage'
<1> SUFFICES ASSUME OnPage, [TTYNext]_ttyVars PROVE OnPage'
  OBVIOUS
<1>0. /\ Now \in Within /\ Now.x = cx /\ Now.y = cy /\ Now.page = screen
      /\ Within \subseteq Somewhere
  BY NowWithin, PageConstants DEF Now, Terminal, Within, Somewhere
<1>c. cx \in Nat /\ cy \in Nat /\ cx \in Columns /\ cy \in Rows /\ cx < MAX_X /\ screen \in Page
  BY PageConstants DEF OnPage, Page
<1>1. ASSUME NEW c \in Chars \cup Control, Write(c) PROVE OnPage'
  <2>1. CharPut(Now, c) \in Within
    BY <1>0, CharPutWithin
  <2> QED
    BY <1>1, <2>1, BecomesWithin DEF Write
<1>2. CASE ClearToEOL
  <2>1. PICK put : put = Puts(Now, Space, MAX_X - Now.x)
    OBVIOUS
  <2>2. MAX_X - Now.x \in Nat
    BY <1>0, <1>c, PageConstants
  <2>3. put \in Within
    BY <1>0, <2>1, <2>2, PutsWithin
  <2>4. ToEOL(Now) = [put EXCEPT !.x = cx]
    BY <1>0, <2>1 DEF ToEOL
  <2>5. ToEOL(Now) \in Within
    BY <1>c, <2>3, <2>4 DEF Within
  <2> QED
    BY <1>2, <2>5, BecomesWithin DEF ClearToEOL
<1>3. CASE Clear
  <2>1. Blank \in Page
    BY DEF Blank, Page
  <2>2. Terminal(0, 0, Blank) \in Within
    BY <2>1, PageConstants DEF Terminal, Within
  <2> QED
    BY <1>3, <2>2, BecomesWithin DEF Clear
<1>4. CASE Home
  <2>1. [Now EXCEPT !.x = 0, !.y = 0] \in Within
    BY <1>0, PageConstants DEF Within
  <2> QED
    BY <1>4, <2>1, BecomesWithin DEF Home
<1>5. CASE LineHome
  <2>1. [Now EXCEPT !.x = 0] \in Within
    BY <1>0, PageConstants DEF Within
  <2> QED
    BY <1>5, <2>1, BecomesWithin DEF LineHome
<1>6. ASSUME NEW x \in Columns, NEW y \in Rows, CursorSet(x, y) PROVE OnPage'
  <2>1. Terminal(x, y, screen) \in Within
    BY <1>c DEF Terminal, Within
  <2> QED
    BY <1>6, <2>1, BecomesWithin DEF CursorSet
<1>7. CASE CursorLeft
  <2>1. cx - 1 \in Columns /\ Becomes([Now EXCEPT !.x = cx - 1])
    BY <1>0, <1>7, <1>c, PageConstants DEF CursorLeft
  <2>2. [Now EXCEPT !.x = cx - 1] \in Within
    BY <1>0, <2>1 DEF Within
  <2> QED
    BY <2>1, <2>2, BecomesWithin
<1>8. CASE CursorUp
  <2>1. cy - 1 \in Rows /\ Becomes([Now EXCEPT !.y = cy - 1])
    BY <1>0, <1>8, <1>c, PageConstants DEF CursorUp
  <2>2. [Now EXCEPT !.y = cy - 1] \in Within
    BY <1>0, <2>1 DEF Within
  <2> QED
    BY <2>1, <2>2, BecomesWithin
<1>9. CASE CursorDown
  <2>1. Down(Now) \in Within
    BY <1>0, DownWithin
  <2> QED
    BY <1>9, <2>1, BecomesWithin DEF CursorDown
<1>10. CASE CursorRight
  <2>1. Right(Now) \in Within
    BY <1>0, RightWithin
  <2> QED
    BY <1>10, <2>1, BecomesWithin DEF CursorRight
<1>11. CASE StringCenter
  <2>1. PICK p \in -(MAX_Y \div 2 - 1)..MAX_Y - MAX_Y \div 2, n \in Strings, c \in Chars :
           n > 0 /\ Becomes(Centered(Now, p, n, c))
    BY <1>11 DEF StringCenter
  <2>2. PICK half \in Nat : half = MAX_Y \div 2
    BY PageConstants
  <2>3. PICK row \in Nat : row = MAX_Y \div 2 - 1 + p
    BY <2>1, <2>2
  <2>4. PICK wide \in Nat : wide = ((MAX_X - n) % 2^16)
    BY PageConstants
  <2>5. PICK col \in Nat : col = ((MAX_X - n) % 2^16) \div 2
    BY <2>4
  <2>6. PICK from : from = Terminal(col, row, screen)
    OBVIOUS
  <2>7. from \in Somewhere
    BY <1>c, <2>6 DEF Terminal, Somewhere
  <2>8. Centered(Now, p, n, c) = Puts(from, c, n)
    BY <1>0, <2>3, <2>5, <2>6 DEF Centered
  <2>9. n \in Nat
    BY PageConstants
  <2>10. Puts(from, c, n) \in Within
    BY <2>1, <2>7, <2>9, PutsWithin
  <2> QED
    BY <2>1, <2>8, <2>10, BecomesWithin
<1>12. CASE UNCHANGED ttyVars
  BY <1>12 DEF ttyVars, OnPage
<1> QED
  BY <1>1, <1>2, <1>3, <1>4, <1>5, <1>6, <1>7, <1>8, <1>9, <1>10, <1>11, <1>12 DEF TTYNext

LEMMA WriteKeepsRows ==
    ASSUME OnPage, NEW c \in Chars \cup Control, Write(c), NEW row \in Rows
    PROVE  screen'[row] = screen[row] \/ row = IF c = "\\n" THEN cy' ELSE cy
<1>1. Now \in Within /\ Now.y = cy /\ Now.page = screen
  BY NowWithin DEF Now, Terminal
<1>2. \/ CharPut(Now, c).page[row] = Now.page[row]
      \/ row = IF c = "\\n" THEN CharPut(Now, c).y ELSE Now.y
  BY <1>1, CharPutWithin
<1> QED
  BY <1>1, <1>2 DEF Write, Becomes

LEMMA TerminalOfDemos == DemosSpec => TTY_Init /\ [][TTYNext]_ttyVars
<1>1. DemosInit => TTY_Init
  BY DEF DemosInit
<1>2. [DemosNext]_<<does, ttyVars, sliceVars, pond, vars>> => [TTYNext]_ttyVars
  BY DEF DemosNext, ttyVars
<1> QED
  BY <1>1, <1>2, PTL DEF DemosSpec

(* The cursor is on the page and the page full of characters, in every     *)
(* behaviour: whatever is written at a corner, and however long a string.  *)
THEOREM CursorOnPage == DemosSpec => []OnPage
<1> QED
  BY TerminalOfDemos, InitTerminal, StepTerminal, PTL

(* A character, a tab, a new line or a backspace draws in one row only.    *)
THEOREM RowsKept == DemosSpec => OtherRowsKept
<1>1. OnPage /\ [TTYNext]_ttyVars
        => [\A c \in Chars \cup Control : Write(c) =>
              \A row \in Rows :
                screen'[row] = screen[row] \/ row = IF c = "\\n" THEN cy' ELSE cy]_ttyVars
  BY WriteKeepsRows
<1> QED
  BY TerminalOfDemos, InitTerminal, StepTerminal, <1>1, PTL DEF OtherRowsKept

-----------------------------------------------------------------------------
(* The layout.                                                             *)

Word == 0..2^16-1
Corners == [left : Word, top : Word, right : Word, bottom : Word]

LEMMA WordIs == \A n : n \in Word <=> n \in Nat /\ n <= 65535
BY DEF Word


Empty(s) == s.right < s.left
Above(s, t) == s.bottom < t.top

SliceTypes ==
    /\ rest \in Corners /\ slices \subseteq Corners
    /\ field \in [within : Corners, at : Corners]

(* What remains: a rectangle at the top right of the screen.               *)
Remaining ==
    /\ rest.top = 0 /\ rest.right = MaxX
    /\ rest.left <= rest.right /\ rest.bottom <= MaxY

(* The slices lie below it, one under the other.                           *)
Apart ==
    /\ \A s \in slices : Empty(s) \/ Above(rest, s)
    /\ \A s, t \in slices : s = t \/ Empty(s) \/ Empty(t) \/ Above(s, t) \/ Above(t, s)

Covered ==
    sides \subseteq {"bottom"} =>
        /\ rest.left = 0
        /\ \A s \in slices : s.left = 0 /\ s.right = MaxX /\ s.bottom <= MaxY
        /\ \A row \in rest.bottom+1..MaxY : \E s \in slices : row \in s.top..s.bottom

SliceInv == SliceTypes /\ Remaining /\ Apart /\ Covered /\ FieldInside

(* A part of less than the whole: a row or a column is left of two or more. *)
LEMMA ShareLess ==
    ASSUME NEW e \in Nat, e <= 65534, NEW fract \in Nat, fract <= 99
    PROVE  Share(e, fract) \in 0..e /\ (e > 0 => Share(e, fract) < e)
<1>1. e * fract \in 0..e * 99
  OBVIOUS
<1>2. PICK n \in Nat : n = e * fract
  BY <1>1
<1>3. n <= e * 99
  BY <1>1, <1>2
<1>4. (n % 65536) \in 0..n
  OBVIOUS
<1>5. PICK m \in Nat : m = (n % 65536) /\ m <= n
  BY <1>4
<1>6. m \div 100 \in Nat /\ 100 * (m \div 100) <= m
  OBVIOUS
<1>7. PICK q \in Nat : q = m \div 100
  BY <1>6
<1>8. 100 * q <= 99 * e
  BY <1>3, <1>5, <1>6, <1>7
<1>9. UInt(n) = m
  BY <1>5 DEF UInt
<1>10. Share(e, fract) = q
  BY <1>2, <1>7, <1>9 DEF Share
<1> QED
  BY <1>8, <1>10

LEMMA WrapsNot == ASSUME NEW n \in Nat, n <= 65535 PROVE UInt(n) = n
BY DEF UInt

(* Slice_Left of a rectangle of two columns or more: the slice is empty. *)
LEMMA LeftCut ==
    ASSUME NEW s \in Corners, NEW fract \in Nat, fract <= 99, s.left < s.right, s.right <= 65534
    PROVE  LET c == Left(s, fract)
           IN  /\ c.slice \in Corners /\ c.rest \in Corners /\ Empty(c.slice)
               /\ c.rest.top = s.top /\ c.rest.bottom = s.bottom
               /\ c.rest.right = s.right /\ c.rest.left <= s.right
<1>1. PICK l \in Nat, r \in Nat : r <= 65534 /\ l = s.left /\ r = s.right /\ l < r
  BY WordIs DEF Corners
<1>2. r - l \in Nat /\ r - l <= 65534 /\ r - l > 0
  BY <1>1
<1>3. UInt(r - l) = r - l
  BY <1>2, WrapsNot
<1>4. Share(r - l, fract) \in 0..r - l /\ Share(r - l, fract) < r - l
  BY <1>2, ShareLess
<1>5. PICK q \in Nat : q <= r - l /\ q = Share(r - l, fract) /\ q < r - l
  BY <1>4
<1>6. UInt(q + l) = q + l /\ UInt((q + l) + 1) = (q + l) + 1
  BY <1>1, <1>5, WrapsNot
<1> DEFINE
     nr == UInt(Share(UInt(s.right - s.left), fract) + s.left)
     remains == [s EXCEPT !.left = UInt(nr + 1)]
     slice == [remains EXCEPT !.right = nr]
<1>7. Left(s, fract) = [slice |-> slice, rest |-> remains]
  BY DEF Left
<1>8. nr = q + l
  BY <1>1, <1>3, <1>5, <1>6
<1> HIDE DEF nr
<1>9. UInt(nr + 1) = nr + 1 /\ nr \in Word /\ nr + 1 \in Word
  BY <1>1, <1>5, <1>6, <1>8, WordIs
<1>10. remains \in Corners
  BY <1>9 DEF Corners
<1>11. /\ remains.left = nr + 1 /\ remains.right = s.right
       /\ remains.top = s.top /\ remains.bottom = s.bottom
  BY <1>9 DEF Corners
<1> HIDE DEF remains
<1>12. slice \in Corners /\ slice.left = nr + 1 /\ slice.right = nr
  BY <1>9, <1>10, <1>11 DEF Corners
<1> HIDE DEF slice
<1>13. nr + 1 <= s.right /\ nr < nr + 1
  BY <1>1, <1>5, <1>8
<1> QED
  BY <1>7, <1>10, <1>11, <1>12, <1>13 DEF Empty

(* Slice_Bottom of a rectangle of two rows or more. *)
LEMMA BottomCut ==
    ASSUME NEW s \in Corners, NEW fract \in Nat, fract <= 99, s.top < s.bottom, s.bottom <= 65534
    PROVE  LET c == Bottom(s, fract)
           IN  /\ c.slice \in Corners /\ c.rest \in Corners
               /\ c.slice.left = s.left /\ c.slice.right = s.right
               /\ c.rest.left = s.left /\ c.rest.right = s.right
               /\ c.rest.top = s.top /\ c.slice.bottom = s.bottom
               /\ s.top < c.slice.top /\ c.slice.top <= s.bottom
               /\ c.rest.bottom = c.slice.top - 1
<1>1. PICK t \in Nat, b \in Nat : b <= 65534 /\ t = s.top /\ b = s.bottom /\ t < b
  BY WordIs DEF Corners
<1>2. b - t \in Nat /\ b - t <= 65534 /\ b - t > 0
  BY <1>1
<1>3. UInt(b - t) = b - t
  BY <1>2, WrapsNot
<1>4. Share(b - t, fract) \in 0..b - t /\ Share(b - t, fract) < b - t
  BY <1>2, ShareLess
<1>5. PICK q \in Nat : q <= b - t /\ q = Share(b - t, fract) /\ q < b - t
  BY <1>4
<1>6. UInt(b - q) = b - q /\ UInt((b - q) - 1) = (b - q) - 1
  BY <1>1, <1>5, WrapsNot
<1>7. Bottom(s, fract) = [slice |-> [s EXCEPT !.top = b - q],
                          rest |-> [s EXCEPT !.bottom = (b - q) - 1]]
  BY <1>1, <1>3, <1>5, <1>6 DEF Bottom
<1> QED
  BY <1>1, <1>5, <1>7, WordIs DEF Corners

(* The margins of a field that fits are no more than what it leaves. *)
LEMMA PairInside ==
    ASSUME NEW mode, NEW first \in Nat, NEW last \in Nat, last <= 65535,
           NEW size \in 0..last - first
    PROVE  LET p == AlignedPair(mode, first, last, size)
           IN  /\ p[1] \in first..last /\ p[2] \in first..last /\ p[1] <= p[2]
<1>1. /\ last - first \in Nat /\ last - first <= 65535
      /\ (last - first) - size \in Nat /\ (last - first) - size <= 65535
  OBVIOUS
<1>2. UInt(last - first) = last - first
      /\ UInt((last - first) - size) = (last - first) - size
  BY <1>1, WrapsNot
<1>3. PICK d \in Nat : d = (last - first) - size
  BY <1>1
<1>4. PICK m \in Nat : m = d \div 2
  OBVIOUS
<1>5. m * 2 <= d
  BY <1>4
<1>6. Margin(first, last, size) = m
  BY <1>2, <1>3, <1>4 DEF Margin
<1>7. first + m * 2 <= last
  BY <1>3, <1>5
<1>8. /\ UInt(last - m * 2) = last - m * 2 /\ UInt(first + m * 2) = first + m * 2
      /\ UInt(first + m) = first + m /\ UInt(last - m) = last - m
  BY <1>7, WrapsNot
<1>9. AlignedPair(mode, first, last, size)
        \in {<<first, last - m * 2>>, <<first + m * 2, last>>, <<first + m, last - m>>}
  BY <1>6, <1>8 DEF AlignedPair
<1> QED
  BY <1>7, <1>9

LEMMA InitSlice == SliceInit => SliceInv
<1> SUFFICES ASSUME SliceInit PROVE SliceInv
  OBVIOUS
<1>1. Screen \in Corners
  BY ScreenAssumption, WordIs DEF Screen, Rectangle, Corners
<1>2. SliceTypes
  BY <1>1 DEF SliceInit, SliceTypes, NoField
<1>3. Remaining /\ Apart /\ Covered /\ FieldInside
  BY ScreenAssumption DEF SliceInit, Remaining, Apart, Covered, FieldInside, Screen,
     Rectangle, NoField
<1> QED
  BY <1>2, <1>3 DEF SliceInv

LEMMA StepSlice == SliceInv /\ [SliceNext]_sliceVars => SliceInv'
<1> SUFFICES ASSUME SliceInv, [SliceNext]_sliceVars PROVE SliceInv'
  OBVIOUS
<1>1. SliceTypes /\ Remaining /\ Apart /\ Covered /\ FieldInside
  BY DEF SliceInv
<1>0. /\ MaxX \in Nat /\ MaxX <= 65534 /\ MaxY \in Nat /\ MaxY <= 65534
      /\ \A fract \in Fractions : fract \in Nat /\ fract <= 99
      /\ rest.left \in Nat /\ rest.bottom \in Nat
  BY <1>1, ScreenAssumption, WordIs DEF SliceTypes, Remaining, Corners
<1>2. CASE Slice_Initialize
  <2>1. Screen \in Corners
    BY ScreenAssumption, WordIs DEF Screen, Rectangle, Corners
  <2>2. SliceTypes'
    BY <1>2, <2>1 DEF Slice_Initialize, SliceTypes, NoField
  <2>3. (Remaining /\ Apart /\ Covered /\ FieldInside)'
    BY <1>2, ScreenAssumption DEF Slice_Initialize, Remaining, Apart, Covered, FieldInside, Screen,
       Rectangle, NoField
  <2> QED
    BY <2>2, <2>3 DEF SliceInv
<1>3. CASE Slice_Left
  <2>1. PICK fract \in Fractions : Cut("left", fract)
    BY <1>3 DEF Slice_Left
  <2>2. PICK c : c = Left(rest, fract)
    OBVIOUS
  <2>3. /\ rest' = c.rest /\ slices' = slices \cup {c.slice} /\ sides' = sides \cup {"left"}
        /\ field' = [within |-> c.slice, at |-> c.slice]
    BY <2>1, <2>2 DEF Cut
  <2>4. /\ c.slice \in Corners /\ c.rest \in Corners /\ Empty(c.slice)
        /\ c.rest.top = 0 /\ c.rest.bottom = rest.bottom
        /\ c.rest.right = MaxX /\ c.rest.left <= MaxX
    BY <1>0, <1>1, <1>3, <2>2, LeftCut DEF SliceTypes, Remaining, Slice_Left
  <2>5. SliceTypes' /\ Remaining'
    BY <1>1, <2>3, <2>4 DEF SliceTypes, Remaining
  <2>6. Apart'
    BY <1>1, <2>3, <2>4 DEF Apart, Above
  <2>7. Covered' /\ FieldInside'
    BY <2>3 DEF Covered, FieldInside
  <2> QED
    BY <2>5, <2>6, <2>7 DEF SliceInv
<1>4. CASE Slice_Bottom
  <2>1. PICK fract \in Fractions : Cut("bottom", fract)
    BY <1>4 DEF Slice_Bottom
  <2>2. PICK c : c = Bottom(rest, fract)
    OBVIOUS
  <2>3. /\ rest' = c.rest /\ slices' = slices \cup {c.slice} /\ sides' = sides \cup {"bottom"}
        /\ field' = [within |-> c.slice, at |-> c.slice]
    BY <2>1, <2>2 DEF Cut
  <2>4. /\ c.slice \in Corners /\ c.rest \in Corners
        /\ c.slice.left = rest.left /\ c.slice.right = MaxX
        /\ c.rest.left = rest.left /\ c.rest.right = MaxX
        /\ c.rest.top = 0 /\ c.slice.bottom = rest.bottom
        /\ 0 < c.slice.top /\ c.slice.top <= rest.bottom
        /\ c.rest.bottom = c.slice.top - 1
    BY <1>0, <1>1, <1>4, <2>2, BottomCut DEF SliceTypes, Remaining, Slice_Bottom
  <2>5. SliceTypes' /\ Remaining'
    <3>1. SliceTypes'
      BY <1>1, <2>3, <2>4 DEF SliceTypes
    <3>2. c.slice.top \in Nat
      BY <2>4, WordIs DEF Corners
    <3>3. Remaining'
      BY <1>0, <1>1, <2>3, <2>4, <3>2 DEF Remaining
    <3> QED
      BY <3>1, <3>3
  <2>t. PICK nt \in Nat : nt = c.slice.top /\ 0 < nt
    BY <2>4, WordIs DEF Corners
  <2>6. Apart'
    <3>1. ASSUME NEW s \in slices PROVE Empty(s) \/ (Above(rest', s) /\ Above(c.slice, s))
      <4>1. s.top \in Nat
        BY <1>1, WordIs DEF SliceTypes, Corners
      <4> QED
        BY <1>0, <1>1, <2>3, <2>4, <2>t, <4>1 DEF Apart, Above
    <3>2. Above(rest', c.slice)
      BY <2>3, <2>4, <2>t DEF Above
    <3>3. slices' = slices \cup {c.slice}
      BY <2>3
    <3> QED
      BY <1>1, <3>1, <3>2, <3>3 DEF Apart
  <2>7. Covered'
    <3> SUFFICES ASSUME sides' \subseteq {"bottom"}
                 PROVE  /\ rest'.left = 0
                        /\ \A s \in slices' : s.left = 0 /\ s.right = MaxX /\ s.bottom <= MaxY
                        /\ \A row \in rest'.bottom+1..MaxY : \E s \in slices' : row \in s.top..s.bottom
      BY DEF Covered
    <3>1. sides \subseteq {"bottom"}
      BY <2>3
    <3>2. rest'.left = 0
      BY <1>1, <2>3, <2>4, <3>1 DEF Covered
    <3>3. \A s \in slices' : s.left = 0 /\ s.right = MaxX /\ s.bottom <= MaxY
      BY <1>1, <2>3, <2>4, <3>1 DEF Covered, Remaining
    <3>4. ASSUME NEW row \in rest'.bottom+1..MaxY
          PROVE  \E s \in slices' : row \in s.top..s.bottom
      <4>1. CASE row <= rest.bottom
        <5>1. row \in c.slice.top..c.slice.bottom
          BY <1>0, <2>3, <2>4, <2>t, <4>1
        <5> QED
          BY <2>3, <5>1
      <4>2. CASE row > rest.bottom
        <5>1. row \in rest.bottom+1..MaxY
          BY <1>0, <2>3, <2>4, <2>t, <4>2
        <5> QED
          BY <1>1, <2>3, <3>1, <5>1 DEF Covered
      <4>3. row \in Int
        BY <2>3, <2>4, <2>t
      <4> QED
        BY <1>0, <4>1, <4>2, <4>3
    <3> QED
      BY <3>2, <3>3, <3>4
  <2>8. FieldInside'
    BY <2>3 DEF FieldInside
  <2> QED
    BY <2>5, <2>6, <2>7, <2>8 DEF SliceInv
<1>5. CASE Slice_Align
  <2>1. PICK s : s = field.within
    OBVIOUS
  <2>2. s \in Corners
    BY <1>1, <2>1 DEF SliceTypes
  <2>3. PICK hor \in {"first", "center", "last"}, ver \in {"first", "center", "last"},
             width \in 0..s.right - s.left, height \in 0..s.bottom - s.top :
           field' = [field EXCEPT !.at = Aligned(s, hor, ver, width, height)]
    BY <1>5, <2>1 DEF Slice_Align
  <2>4. /\ s.left \in Nat /\ s.right \in Nat /\ s.right <= 65535
        /\ s.top \in Nat /\ s.bottom \in Nat /\ s.bottom <= 65535
    BY <2>2, WordIs DEF Corners
  <2>5. PICK h : h = AlignedPair(hor, s.left, s.right, width)
    OBVIOUS
  <2>6. PICK v : v = AlignedPair(ver, s.top, s.bottom, height)
    OBVIOUS
  <2>7. h[1] \in s.left..s.right /\ h[2] \in s.left..s.right /\ h[1] <= h[2]
    BY <2>4, <2>5, PairInside
  <2>8. v[1] \in s.top..s.bottom /\ v[2] \in s.top..s.bottom /\ v[1] <= v[2]
    BY <2>4, <2>6, PairInside
  <2>9. PICK g : g = Aligned(s, hor, ver, width, height)
    OBVIOUS
  <2>10. g = [left |-> h[1], top |-> v[1], right |-> h[2], bottom |-> v[2]]
    BY <2>5, <2>6, <2>9 DEF Aligned, Rectangle
  <2>11. g \in Corners
    BY <2>4, <2>7, <2>8, <2>10, WordIs DEF Corners
  <2>12. field'.within = s /\ field'.at = g /\ field' \in [within : Corners, at : Corners]
    BY <1>1, <2>1, <2>3, <2>9, <2>11 DEF SliceTypes
  <2>13. FieldInside'
    BY <2>4, <2>7, <2>8, <2>10, <2>12 DEF FieldInside
  <2>14. UNCHANGED <<rest, slices, sides>>
    BY <1>5 DEF Slice_Align
  <2> QED
    BY <1>1, <2>12, <2>13, <2>14 DEF SliceInv, SliceTypes, Remaining, Apart, Covered
<1>6. CASE UNCHANGED sliceVars
  BY <1>1, <1>6 DEF sliceVars, SliceInv, SliceTypes, Remaining, Apart, Covered, FieldInside
<1> QED
  BY <1>2, <1>3, <1>4, <1>5, <1>6 DEF SliceNext

LEMMA NoOverlap == SliceInv => SlicesPartition
<1> SUFFICES ASSUME SliceInv PROVE SlicesPartition
  OBVIOUS
<1>1. SliceTypes /\ Remaining /\ Apart /\ Covered
  BY DEF SliceInv
<1>2. ASSUME NEW s \in Corners, Empty(s) PROVE Area(s) = {}
  <2>1. s.left..s.right = {}
    BY <1>2, WordIs DEF Empty, Corners
  <2> QED
    BY <2>1 DEF Area
<1>3. ASSUME NEW s \in Corners, NEW t \in Corners, Above(s, t) \/ Above(t, s)
      PROVE  Area(s) \cap Area(t) = {}
  <2>1. (s.top..s.bottom) \cap (t.top..t.bottom) = {}
    BY <1>3, WordIs DEF Above, Corners
  <2> QED
    BY <2>1 DEF Area
<1>4. slices \cup {rest} \subseteq Corners
  BY <1>1 DEF SliceTypes
<1>5. ASSUME NEW s \in slices \cup {rest}, NEW t \in slices \cup {rest}, s # t
      PROVE  Area(s) \cap Area(t) = {}
  <2>1. Empty(s) \/ Empty(t) \/ Above(s, t) \/ Above(t, s)
    BY <1>1, <1>5 DEF Apart
  <2> QED
    BY <1>2, <1>3, <1>4, <2>1
<1>6. ASSUME sides \subseteq {"bottom"}
      PROVE  UNION {Area(s) : s \in slices \cup {rest}} = Area(Screen)
  <2>1. /\ rest.left = 0 /\ rest.right = MaxX /\ rest.top = 0 /\ rest.bottom <= MaxY
        /\ \A s \in slices : s.left = 0 /\ s.right = MaxX /\ s.bottom <= MaxY
        /\ \A row \in rest.bottom+1..MaxY : \E s \in slices : row \in s.top..s.bottom
    BY <1>1, <1>6 DEF Covered, Remaining
  <2>2. Area(Screen) = (0..MaxX) \X (0..MaxY)
    BY DEF Area, Screen, Rectangle
  <2>3. ASSUME NEW s \in slices \cup {rest} PROVE Area(s) \subseteq Area(Screen)
    <3>1. s \in Corners /\ s.left = 0 /\ s.right = MaxX /\ s.bottom <= MaxY
      BY <1>4, <2>1
    <3>2. s.top..s.bottom \subseteq 0..MaxY
      BY <3>1, ScreenAssumption, WordIs DEF Corners
    <3> QED
      BY <2>2, <3>1, <3>2 DEF Area
  <2>4. ASSUME NEW point \in Area(Screen)
        PROVE  \E s \in slices \cup {rest} : point \in Area(s)
    <3>1. PICK col \in 0..MaxX, row \in 0..MaxY : point = <<col, row>>
      BY <2>2
    <3>2. rest.bottom \in Nat
      BY <1>1, WordIs DEF SliceTypes, Corners
    <3>3. CASE row <= rest.bottom
      BY <2>1, <3>1, <3>2, <3>3 DEF Area
    <3>4. CASE row > rest.bottom
      <4>1. row \in rest.bottom+1..MaxY
        BY <3>2, <3>4
      <4>2. PICK s \in slices : row \in s.top..s.bottom
        BY <2>1, <4>1
      <4> QED
        BY <2>1, <3>1, <4>2 DEF Area
    <3> QED
      BY <3>2, <3>3, <3>4
  <2> QED
    BY <2>3, <2>4
<1> QED
  BY <1>5, <1>6 DEF SlicesPartition

LEMMA LayoutOfDemos == DemosSpec => SliceInit /\ [][SliceNext]_sliceVars
<1>1. DemosInit => SliceInit
  BY DEF DemosInit
<1>2. [DemosNext]_<<does, ttyVars, sliceVars, pond, vars>> => [SliceNext]_sliceVars
  BY DEF DemosNext, sliceVars
<1> QED
  BY <1>1, <1>2, PTL DEF DemosSpec

(* No point of the screen is in two slices, or in a slice and what remains, *)
(* and none is left out if all are taken off the bottom.                   *)
THEOREM SlicesApart == DemosSpec => []SlicesPartition
<1> QED
  BY LayoutOfDemos, InitSlice, StepSlice, NoOverlap, PTL

(* A field that fits its slice is aligned within it.                       *)
THEOREM FieldWithin == DemosSpec => []FieldInside
<1>1. SliceInv => FieldInside
  BY DEF SliceInv
<1> QED
  BY LayoutOfDemos, InitSlice, StepSlice, <1>1, PTL

-----------------------------------------------------------------------------
(* The pond.                                                               *)

PondTypes ==
    /\ pc \in {"check", "x", "y", "update", "loop"}
    /\ touch \in [x : Int, y : Int]
    /\ drop \in [0..MAX_LIST-1 -> [x : Nat, y : Nat, r : Nat]]
    /\ list_len \in 0..MAX_LIST /\ i \in 0..list_len /\ temp_len \in 0..i

Age(rounds) == RADIUS + SPEED * rounds

(* The drops from first to last-1 have grown in as many rounds as came     *)
(* since, and at least as often as later says more.                        *)
Grown(first, last, newest) ==
    \A k \in first..last-1 : drop[k].r >= Age(newest - k)

OnScreen(last) == \A k \in 0..last-1 : drop[k].r < GONE

Ages ==
    CASE pc = "update" -> Grown(0, list_len, list_len - 1)
      [] pc = "loop" -> /\ Grown(0, temp_len, list_len - i + temp_len)
                        /\ Grown(i, list_len, list_len - 1)
                        /\ OnScreen(temp_len)
      [] OTHER -> Grown(0, list_len, list_len) /\ OnScreen(list_len)

Adding == pc \in {"x", "y"} => list_len < MAX_LIST

PondInv == PondTypes /\ Ages /\ Adding

LEMMA PondConstants ==
    /\ RADIUS \in Nat /\ SPEED \in Nat \ {0} /\ MAX_LIST \in Nat \ {0}
    /\ GONE \in Int /\ Age(MAX_LIST) >= GONE
    /\ Points \subseteq [x : Nat, y : Nat]
BY DemosAssumption DEF P!PondAssumption, P!RoomAssumption, Age

LEMMA AgeNext ==
    ASSUME NEW n \in Int
    PROVE  Age(n) \in Int /\ Age(n + 1) = Age(n) + SPEED
<1>1. PICK s \in Nat : s = SPEED
  BY PondConstants
<1>2. s * n \in Int /\ s * (n + 1) = s * n + s
  OBVIOUS
<1>3. PICK d \in Nat : d = RADIUS
  BY PondConstants
<1> QED
  BY <1>1, <1>2, <1>3 DEF Age

LEMMA InitPond == P!Init => PondInv
<1> SUFFICES ASSUME P!Init PROVE PondInv
  OBVIOUS
<1>1. PondTypes
  BY PondConstants DEF P!Init, PondTypes, P!Away
<1>2. Ages /\ Adding
  BY DEF P!Init, Ages, Adding, Grown, OnScreen
<1> QED
  BY <1>1, <1>2 DEF PondInv

LEMMA StepPond == PondInv /\ [P!Next]_(P!vars) => PondInv'
<1> SUFFICES ASSUME PondInv, [P!Next]_(P!vars) PROVE PondInv'
  OBVIOUS
<1>0. PondTypes /\ Ages /\ Adding
  BY DEF PondInv
<1>1. /\ list_len \in Nat /\ i \in Nat /\ temp_len \in Nat
      /\ temp_len <= i /\ i <= list_len /\ list_len <= MAX_LIST
      /\ MAX_LIST \in Nat \ {0} /\ RADIUS \in Nat /\ SPEED \in Nat \ {0} /\ GONE \in Int
  BY <1>0, PondConstants DEF PondTypes
<1>2. \A k \in 0..MAX_LIST-1 : drop[k] \in [x : Nat, y : Nat, r : Nat]
  BY <1>0 DEF PondTypes
<1>3. CASE P!Finger
  <2>1. touch' \in [x : Int, y : Int]
    BY <1>3, PondConstants DEF P!Finger, P!Away
  <2> QED
    BY <1>0, <1>3, <2>1 DEF P!Finger, P!list, PondInv, PondTypes, Ages, Adding, Grown, OnScreen
<1>4. CASE P!Check
  <2>1. UNCHANGED <<touch, drop, list_len, i, temp_len>> /\ pc = "check"
    BY <1>4 DEF P!Check, P!list
  <2>2. CASE pc' = "x" /\ list_len < MAX_LIST
    BY <1>0, <2>1, <2>2 DEF PondInv, PondTypes, Ages, Adding, Grown, OnScreen
  <2>3. CASE pc' = "update"
    <3>1. Grown(0, list_len, list_len)
      BY <1>0, <2>1 DEF Ages
    <3>2. ASSUME NEW k \in 0..list_len-1 PROVE drop[k].r >= Age((list_len - 1) - k)
      <4>1. drop[k].r \in Nat
        BY <1>1, <1>2
      <4>2. drop[k].r >= Age(list_len - k)
        BY <3>1 DEF Grown
      <4>3. PICK n \in Int : n = (list_len - 1) - k
        BY <1>1
      <4>4. n + 1 = list_len - k
        BY <1>1, <4>3
      <4>5. Age(n) \in Int /\ Age(n + 1) = Age(n) + SPEED
        BY AgeNext
      <4> QED
        BY <1>1, <4>1, <4>2, <4>3, <4>4, <4>5
    <3>3. Grown(0, list_len, list_len - 1)'
      BY <2>1, <3>2 DEF Grown
    <3> QED
      BY <1>0, <2>1, <2>3, <3>3 DEF PondInv, PondTypes, Ages, Adding
  <2> QED
    BY <1>4, <2>2, <2>3 DEF P!Check, P!Room
<1>5. CASE P!ReadX
  <2>1. /\ pc = "x" /\ pc' = "y" /\ UNCHANGED <<touch, list_len, i, temp_len>>
        /\ drop' = [drop EXCEPT ![list_len].x = P!UInt(touch.x)]
    BY <1>5 DEF P!ReadX
  <2>2. P!UInt(touch.x) \in Nat
    BY <1>0 DEF PondTypes, P!UInt
  <2>3. list_len \in 0..MAX_LIST-1
    BY <1>0, <1>1, <2>1 DEF Adding
  <2>4. drop' \in [0..MAX_LIST-1 -> [x : Nat, y : Nat, r : Nat]]
    BY <1>0, <2>1, <2>2, <2>3 DEF PondTypes
  <2>5. ASSUME NEW k \in 0..list_len-1 PROVE drop'[k] = drop[k]
    <3>1. k \in 0..MAX_LIST-1 /\ k # list_len
      BY <1>1
    <3> QED
      BY <1>0, <2>1, <3>1 DEF PondTypes
  <2> QED
    BY <1>0, <1>1, <2>1, <2>3, <2>4, <2>5 DEF PondInv, PondTypes, Ages, Adding, Grown, OnScreen
<1>6. CASE P!ReadY
  <2>1. /\ pc = "y" /\ pc' = "update" /\ UNCHANGED <<touch, i, temp_len>>
        /\ list_len' = list_len + 1
        /\ drop' = [drop EXCEPT ![list_len].y = P!UInt(touch.y), ![list_len].r = RADIUS]
    BY <1>6 DEF P!ReadY
  <2>2. P!UInt(touch.y) \in Nat
    BY <1>0 DEF PondTypes, P!UInt
  <2>3. list_len \in 0..MAX_LIST-1
    BY <1>0, <1>1, <2>1 DEF Adding
  <2>4. drop' \in [0..MAX_LIST-1 -> [x : Nat, y : Nat, r : Nat]] /\ drop'[list_len].r = RADIUS
    BY <1>0, <1>1, <2>1, <2>2, <2>3 DEF PondTypes
  <2>5. ASSUME NEW k \in 0..list_len-1 PROVE drop'[k] = drop[k]
    <3>1. k \in 0..MAX_LIST-1 /\ k # list_len
      BY <1>1
    <3> QED
      BY <1>0, <2>1, <3>1 DEF PondTypes
  <2>6. Grown(0, list_len, list_len)
    BY <1>0, <2>1 DEF Ages
  <2>7. Age(0) = RADIUS
    BY <1>1 DEF Age
  <2>8. Grown(0, list_len, list_len - 1)'
    <3> SUFFICES ASSUME NEW k \in 0..list_len PROVE drop'[k].r >= Age(list_len - k)
      <4>1. 0..list_len'-1 = 0..list_len /\ list_len' - 1 = list_len
        BY <1>1, <2>1
      <4> QED
        BY <4>1 DEF Grown
    <3>1. CASE k = list_len
      BY <1>1, <2>4, <2>7, <3>1
    <3>2. CASE k \in 0..list_len-1
      BY <2>5, <2>6, <3>2 DEF Grown
    <3> QED
      BY <1>1, <3>1, <3>2
  <2> QED
    BY <1>0, <1>1, <2>1, <2>3, <2>4, <2>8 DEF PondInv, PondTypes, Ages, Adding
<1>7. CASE P!StartUpdate
  <2>1. /\ pc = "update" /\ pc' = "loop" /\ UNCHANGED <<touch, drop, list_len>>
        /\ i' = 0 /\ temp_len' = 0
    BY <1>7 DEF P!StartUpdate, P!list
  <2>2. Grown(0, list_len, list_len - 1)
    BY <1>0, <2>1 DEF Ages
  <2>3. (Grown(0, temp_len, list_len - i + temp_len) /\ OnScreen(temp_len))'
    BY <2>1 DEF Grown, OnScreen
  <2>4. Grown(i, list_len, list_len - 1)'
    BY <2>1, <2>2 DEF Grown
  <2> QED
    BY <1>0, <1>1, <2>1, <2>3, <2>4 DEF PondInv, PondTypes, Ages, Adding
<1>8. CASE P!Update
  <2> DEFINE grown == [drop EXCEPT ![i].r = @ + SPEED]
  <2>1. /\ pc = "loop" /\ i < list_len /\ i' = i + 1 /\ UNCHANGED <<touch, pc, list_len>>
        /\ \/ /\ grown[i].r < GONE
              /\ drop' = [grown EXCEPT ![temp_len] = grown[i]] /\ temp_len' = temp_len + 1
           \/ drop' = grown /\ temp_len' = temp_len
    BY <1>8 DEF P!Update, P!Stays, P!Visible, P!Moved
  <2>2. /\ Grown(0, temp_len, (list_len - i) + temp_len) /\ Grown(i, list_len, list_len - 1)
        /\ OnScreen(temp_len)
    BY <1>0, <2>1 DEF Ages
  <2>3. /\ grown \in [0..MAX_LIST-1 -> [x : Nat, y : Nat, r : Nat]]
        /\ grown[i].r = drop[i].r + SPEED
        /\ \A k \in 0..MAX_LIST-1 : k # i => grown[k] = drop[k]
    <3>1. i \in 0..MAX_LIST-1
      BY <1>1, <2>1
    <3>2. drop[i].r + SPEED \in Nat
      BY <1>1, <1>2, <3>1
    <3> QED
      BY <1>0, <3>1, <3>2 DEF PondTypes
  <2>4. grown[i].r >= Age(list_len - i)
    <3>1. i \in 0..MAX_LIST-1
      BY <1>1, <2>1
    <3>2. drop[i].r \in Nat
      BY <1>2, <3>1
    <3>3. i \in i..list_len-1
      BY <1>1, <2>1
    <3>4. drop[i].r >= Age((list_len - 1) - i)
      BY <2>2, <3>3 DEF Grown
    <3>5. PICK n \in Int : n = (list_len - 1) - i
      BY <1>1
    <3>6. n + 1 = list_len - i
      BY <1>1, <3>5
    <3>7. Age(n) \in Int /\ Age(n + 1) = Age(n) + SPEED
      BY AgeNext
    <3>8. PICK r \in Nat : r = drop[i].r
      BY <3>2
    <3>9. r >= Age(n) /\ r + SPEED >= Age(n + 1)
      BY <1>1, <3>4, <3>5, <3>7, <3>8
    <3>10. grown[i].r = r + SPEED
      BY <2>3, <3>8
    <3> HIDE DEF grown
    <3> QED
      BY <3>6, <3>9, <3>10
  <2> HIDE DEF grown
  <2>5. CASE grown[i].r < GONE
              /\ drop' = [grown EXCEPT ![temp_len] = grown[i]] /\ temp_len' = temp_len + 1
    <3>1. temp_len \in 0..MAX_LIST-1 /\ i \in 0..MAX_LIST-1
      BY <1>1, <2>1
    <3>2. /\ drop' \in [0..MAX_LIST-1 -> [x : Nat, y : Nat, r : Nat]]
          /\ drop'[temp_len] = grown[i]
          /\ \A k \in 0..MAX_LIST-1 : k # temp_len => drop'[k] = grown[k]
      BY <2>3, <2>5, <3>1
    <3>3. ASSUME NEW k \in 0..temp_len-1 PROVE drop'[k] = drop[k]
      <4>1. k \in 0..MAX_LIST-1 /\ k # i /\ k # temp_len
        BY <1>1, <2>1
      <4> QED
        BY <2>3, <3>2, <4>1
    <3>4. ASSUME NEW k \in i+1..list_len-1 PROVE drop'[k] = drop[k]
      <4>1. k \in 0..MAX_LIST-1 /\ k # i /\ k # temp_len
        BY <1>1, <2>1
      <4> QED
        BY <2>3, <3>2, <4>1
    <3>5. Grown(0, temp_len, (list_len - i) + temp_len)'
      <4>1. list_len' = list_len /\ temp_len' = temp_len + 1
            /\ (list_len' - i') + temp_len' = (list_len - i) + temp_len
        BY <1>1, <2>1, <2>5
      <4>2. ASSUME NEW k \in 0..temp_len
            PROVE  drop'[k].r >= Age(((list_len - i) + temp_len) - k)
        <5>1. CASE k = temp_len
          <6>1. ((list_len - i) + temp_len) - k = list_len - i
            BY <1>1, <5>1
          <6> QED
            BY <2>4, <3>2, <5>1, <6>1
        <5>2. CASE k \in 0..temp_len-1
          BY <2>2, <3>3, <5>2 DEF Grown
        <5> QED
          BY <1>1, <5>1, <5>2
      <4>3. 0..temp_len'-1 = 0..temp_len
        BY <1>1, <4>1
      <4> QED
        BY <4>1, <4>2, <4>3 DEF Grown
    <3>6. Grown(i, list_len, list_len - 1)'
      <4>1. ASSUME NEW k \in i+1..list_len-1 PROVE drop'[k].r >= Age((list_len - 1) - k)
        <5>1. k \in i..list_len-1
          BY <1>1
        <5> QED
          BY <2>2, <3>4, <5>1 DEF Grown
      <4> QED
        BY <2>1, <4>1 DEF Grown
    <3>7. OnScreen(temp_len)'
      <4>1. ASSUME NEW k \in 0..temp_len PROVE drop'[k].r < GONE
        <5>1. CASE k = temp_len
          BY <2>5, <3>2, <5>1
        <5>2. CASE k \in 0..temp_len-1
          BY <2>2, <3>3, <5>2 DEF OnScreen
        <5> QED
          BY <1>1, <5>1, <5>2
      <4>3. 0..temp_len'-1 = 0..temp_len
        BY <1>1, <2>5
      <4> QED
        BY <4>1, <4>3 DEF OnScreen
    <3>8. PondTypes'
      <4>1. i' \in 0..list_len' /\ temp_len' \in 0..i' /\ list_len' \in 0..MAX_LIST
        BY <1>1, <2>1, <2>5
      <4> QED
        BY <1>0, <2>1, <3>2, <4>1 DEF PondTypes
    <3> QED
      BY <2>1, <3>5, <3>6, <3>7, <3>8 DEF PondInv, Ages, Adding
  <2>6. CASE drop' = grown /\ temp_len' = temp_len
    <3>1. ASSUME NEW k \in 0..temp_len-1 PROVE drop'[k] = drop[k]
      <4>1. k \in 0..MAX_LIST-1 /\ k # i
        BY <1>1, <2>1
      <4> QED
        BY <2>3, <2>6, <4>1
    <3>2. ASSUME NEW k \in i+1..list_len-1 PROVE drop'[k] = drop[k]
      <4>1. k \in 0..MAX_LIST-1 /\ k # i
        BY <1>1, <2>1
      <4> QED
        BY <2>3, <2>6, <4>1
    <3>3. Grown(0, temp_len, (list_len - i) + temp_len)'
      <4>1. ASSUME NEW k \in 0..temp_len-1
            PROVE  drop'[k].r >= Age(((list_len - (i + 1)) + temp_len) - k)
        <5>1. drop[k].r \in Nat /\ drop[k].r >= Age(((list_len - i) + temp_len) - k)
          BY <1>1, <1>2, <2>2 DEF Grown
        <5>2. PICK n \in Int : n = ((list_len - (i + 1)) + temp_len) - k
          BY <1>1
        <5>3. n + 1 = ((list_len - i) + temp_len) - k
          BY <1>1, <5>2
        <5>4. Age(n) \in Int /\ Age(n + 1) = Age(n) + SPEED
          BY AgeNext
        <5> QED
          BY <1>1, <3>1, <5>1, <5>2, <5>3, <5>4
      <4> QED
        BY <2>1, <2>6, <4>1 DEF Grown
    <3>4. Grown(i, list_len, list_len - 1)'
      <4>1. ASSUME NEW k \in i+1..list_len-1 PROVE drop'[k].r >= Age((list_len - 1) - k)
        <5>1. k \in i..list_len-1
          BY <1>1
        <5> QED
          BY <2>2, <3>2, <5>1 DEF Grown
      <4> QED
        BY <2>1, <4>1 DEF Grown
    <3>5. OnScreen(temp_len)'
      BY <2>2, <2>6, <3>1 DEF OnScreen
    <3>6. PondTypes'
      <4>1. i' \in 0..list_len' /\ temp_len' \in 0..i' /\ list_len' \in 0..MAX_LIST
        BY <1>1, <2>1, <2>6
      <4> QED
        BY <1>0, <2>1, <2>3, <2>6, <4>1 DEF PondTypes
    <3> QED
      BY <2>1, <3>3, <3>4, <3>5, <3>6 DEF PondInv, Ages, Adding
  <2> QED
    BY <2>1, <2>5, <2>6
<1>9. CASE P!EndUpdate
  <2>1. /\ pc = "loop" /\ pc' = "check" /\ UNCHANGED <<touch, drop>> /\ i = list_len
        /\ i' = 0 /\ temp_len' = 0 /\ list_len' = temp_len
    BY <1>9 DEF P!EndUpdate
  <2>2. Grown(0, temp_len, (list_len - i) + temp_len) /\ OnScreen(temp_len)
    BY <1>0, <2>1 DEF Ages
  <2>3. (list_len - i) + temp_len = temp_len
    BY <1>1, <2>1
  <2>4. (Grown(0, list_len, list_len) /\ OnScreen(list_len))'
    BY <2>1, <2>2, <2>3 DEF Grown, OnScreen
  <2> QED
    BY <1>0, <1>1, <2>1, <2>4 DEF PondInv, PondTypes, Ages, Adding
<1>10. CASE UNCHANGED P!vars
  BY <1>0, <1>10 DEF P!vars, P!list, PondInv, PondTypes, Ages, Adding, Grown, OnScreen
<1> QED
  BY <1>3, <1>4, <1>5, <1>6, <1>7, <1>8, <1>9, <1>10 DEF P!Next, P!Main

LEMMA RoomForOne == PondInv => NeverFull
<1> SUFFICES ASSUME PondInv, pc = "check", ~(list_len < MAX_LIST) PROVE FALSE
  BY DEF NeverFull, P!NeverFull, P!Room
<1>1. PondTypes /\ Grown(0, list_len, list_len) /\ OnScreen(list_len)
  BY DEF PondInv, Ages
<1>2. list_len = MAX_LIST /\ MAX_LIST \in Nat \ {0} /\ drop[0].r \in Nat
  BY <1>1, PondConstants DEF PondTypes
<1>3. drop[0].r >= Age(MAX_LIST) /\ drop[0].r < GONE
  BY <1>1, <1>2 DEF Grown, OnScreen
<1>4. Age(MAX_LIST) \in Int
  BY <1>2, AgeNext
<1> QED
  BY <1>2, <1>3, <1>4, PondConstants

LEMMA PondOfDemos == DemosSpec => P!Init /\ [][P!Next]_(P!vars)
<1>1. DemosInit => P!Init
  BY DEF DemosInit
<1>2. [DemosNext]_<<does, ttyVars, sliceVars, pond, vars>> => [P!Next]_(P!vars)
  BY DEF DemosNext, pond, P!vars, P!list
<1> QED
  BY <1>1, <1>2, PTL DEF DemosSpec

(* The list of drops has room for the next one whenever main asks.         *)
THEOREM AlwaysRoom == DemosSpec => []NeverFull
<1> QED
  BY PondOfDemos, InitPond, StepPond, RoomForOne, PTL

-----------------------------------------------------------------------------
(* The pond's list, compacted in place, as the list of Drops.              *)

Aged(d) == [d EXCEPT !.r = @ + SPEED]

(* The drops d as the list they are seen as: all of them, or, while they   *)
(* are updated, those before place "to", which stay, and those from place  *)
(* "first" on, which will.                                                 *)
Plain(d, len) == [n \in 1..len |-> d[n - 1]]

Half(d, to, first, len) ==
    [n \in 1..to + (len - first) |->
        IF n <= to THEN d[n - 1] ELSE Aged(d[((first + n) - to) - 1])]

(* The first from place "from" on that will stay, or the end. *)
IsFirst(d, from, len, n) ==
    /\ n \in from..len
    /\ n < len => d[n].r + SPEED < GONE
    /\ \A k \in from..n-1 : ~(d[k].r + SPEED < GONE)

FirstOf(d, from, len) ==
    CHOOSE n \in from..len :
        /\ n < len => d[n].r + SPEED < GONE
        /\ \A k \in from..n-1 : ~(d[k].r + SPEED < GONE)

Array == [0..MAX_LIST-1 -> [x : Nat, y : Nat, r : Nat]]

LEMMA FirstExists ==
    ASSUME NEW d, NEW from \in Nat, NEW len \in Nat, from <= len
    PROVE  IsFirst(d, from, len, FirstOf(d, from, len))
<1> DEFINE S == {n \in from..len : n < len => d[n].r + SPEED < GONE}
<1>1. len \in S /\ S \subseteq Nat
  OBVIOUS
<1>2. PICK n \in S : \A k \in S : n <= k
  BY <1>1, Least
<1>3. n \in from..len /\ (n < len => d[n].r + SPEED < GONE)
  OBVIOUS
<1>4. ASSUME NEW k \in from..n-1 PROVE ~(d[k].r + SPEED < GONE)
  <2>1. k \in from..len /\ ~(n <= k)
    BY <1>3
  <2>2. k \notin S
    BY <1>2, <2>1
  <2> QED
    BY <2>1, <2>2
<1>5. \E m \in from..len :
        /\ m < len => d[m].r + SPEED < GONE
        /\ \A k \in from..m-1 : ~(d[k].r + SPEED < GONE)
  BY <1>3, <1>4
<1> QED
  BY <1>5 DEF IsFirst, FirstOf

LEMMA FirstUnique ==
    ASSUME NEW d, NEW from \in Nat, NEW len \in Nat, from <= len,
           NEW n, IsFirst(d, from, len, n)
    PROVE  FirstOf(d, from, len) = n
<1>1. PICK m : m = FirstOf(d, from, len)
  OBVIOUS
<1>2. IsFirst(d, from, len, m)
  BY <1>1, FirstExists
<1>3. m \in Nat /\ n \in Nat /\ from <= m /\ from <= n /\ m <= len /\ n <= len
  BY <1>2 DEF IsFirst
<1>4. ~(m < n)
  <2> SUFFICES ASSUME m < n PROVE FALSE
    OBVIOUS
  <2>1. m \in from..n-1 /\ m < len
    BY <1>3
  <2> QED
    BY <1>2, <2>1 DEF IsFirst
<1>5. ~(n < m)
  <2> SUFFICES ASSUME n < m PROVE FALSE
    OBVIOUS
  <2>1. n \in from..m-1 /\ n < len
    BY <1>3
  <2> QED
    BY <1>2, <2>1 DEF IsFirst
<1> QED
  BY <1>1, <1>3, <1>4, <1>5

(* Sequences as functions, and what is joined as the function it is.       *)
LEMMA InSeq ==
    ASSUME NEW T, NEW m \in Nat, NEW a \in [1..m -> T]
    PROVE  a \in Seq(T) /\ Len(a) = m
OBVIOUS

LEMMA SeqIsFunction ==
    ASSUME NEW T, NEW s \in Seq(T), NEW m \in Nat, Len(s) = m
    PROVE  s \in [1..m -> T]
OBVIOUS

Halves(f, a, m, b, n) ==
    /\ \A k \in 1..m : f[k] = a[k]
    /\ \A k \in 1..n : f[m + k] = b[k]

LEMMA ConcatIs ==
    ASSUME NEW T, NEW m \in Nat, NEW n \in Nat, NEW a \in [1..m -> T], NEW b \in [1..n -> T]
    PROVE  a \o b \in [1..m + n -> T] /\ Halves(a \o b, a, m, b, n)
<1>1. a \in Seq(T) /\ b \in Seq(T) /\ Len(a) = m /\ Len(b) = n
  BY InSeq
<1>2. PICK s : s = a \o b
  OBVIOUS
<1>3. /\ s \in Seq(T) /\ Len(s) = m + n
      /\ \A k \in 1..m + n : s[k] = IF k <= m THEN a[k] ELSE b[k - m]
  BY <1>1, <1>2, ConcatProperties
<1>4. \A k \in 1..m : s[k] = a[k]
  BY <1>3
<1>5. ASSUME NEW k \in 1..n PROVE s[m + k] = b[k]
  <2>1. m + k \in 1..m + n /\ ~(m + k <= m) /\ (m + k) - m = k
    OBVIOUS
  <2> QED
    BY <1>3, <2>1
<1>6. m + n \in Nat
  OBVIOUS
<1>7. s \in [1..m + n -> T]
  BY <1>3, <1>6, SeqIsFunction
<1>8. Halves(s, a, m, b, n)
  BY <1>4, <1>5 DEF Halves
<1> QED
  BY <1>2, <1>7, <1>8

LEMMA SameHalves ==
    ASSUME NEW T, NEW m \in Nat, NEW n \in Nat, NEW a, NEW b,
           NEW f \in [1..m + n -> T], NEW g \in [1..m + n -> T],
           Halves(f, a, m, b, n), Halves(g, a, m, b, n)
    PROVE  f = g
<1>1. ASSUME NEW k \in 1..m + n PROVE f[k] = g[k]
  <2>1. k \in 1..m \/ (k - m \in 1..n /\ m + (k - m) = k)
    OBVIOUS
  <2> QED
    BY <2>1 DEF Halves
<1> QED
  BY <1>1

LEMMA Joined ==
    ASSUME NEW T, NEW m \in Nat, NEW n \in Nat, NEW a \in [1..m -> T], NEW b \in [1..n -> T],
           NEW f \in [1..m + n -> T], Halves(f, a, m, b, n)
    PROVE  a \o b = f
<1>1. PICK s : s = a \o b
  OBVIOUS
<1>2. s \in [1..m + n -> T] /\ Halves(s, a, m, b, n)
  BY <1>1, ConcatIs
<1>3. s = f
  BY <1>2, SameHalves
<1> QED
  BY <1>1, <1>3

(* The two parts as Pond writes them, P!Stretch and P!Updated of it.       *)
Part(d, from, to) == [n \in 1..to-from |-> d[from + n - 1]]

GrownUp(b) == [n \in DOMAIN b |-> [b[n] EXCEPT !.r = @ + SPEED]]

LEMMA HalfIs ==
    ASSUME NEW d \in Array, NEW to \in Nat, NEW first \in Nat, NEW len \in Nat,
           to <= len, first <= len, len <= MAX_LIST,
           NEW a, a = Part(d, 0, to), NEW b, b = Part(d, first, len),
           NEW c, c = GrownUp(b)
    PROVE  a \o c = Half(d, to, first, len)
<1> DEFINE T == [x : Nat, y : Nat, r : Nat]
<1>0. SPEED \in Nat /\ MAX_LIST \in Nat
  BY PondConstants
<1>1. ASSUME NEW n \in 1..to PROVE a[n] \in T /\ a[n] = d[n - 1]
  <2>1. n - 1 \in 0..MAX_LIST-1 /\ 0 + n - 1 = n - 1
    BY <1>0
  <2> QED
    BY <2>1 DEF Array, Part
<1>2. ASSUME NEW n \in 1..len-first PROVE c[n] \in T /\ c[n] = Aged(d[(first + n) - 1])
  <2>1. (first + n) - 1 \in 0..MAX_LIST-1
    BY <1>0
  <2>2. PICK e \in T : e = d[(first + n) - 1]
    BY <2>1 DEF Array
  <2>3. DOMAIN b = 1..len-first /\ b[n] = e
    BY <2>2 DEF Part
  <2>4. c[n] = [b[n] EXCEPT !.r = @ + SPEED]
    BY <2>3 DEF GrownUp
  <2>5. c[n] = Aged(e)
    BY <2>3, <2>4 DEF Aged
  <2>6. Aged(e) \in T
    <3>1. PICK r \in Nat : r = e.r + SPEED
      BY <1>0
    <3>2. Aged(e) = [e EXCEPT !.r = r]
      BY <3>1 DEF Aged
    <3> QED
      BY <3>2
  <2> QED
    BY <2>2, <2>5, <2>6
<1>3. a \in [1..to -> T] /\ c \in [1..len-first -> T]
  <2>1. a = [n \in 1..to |-> a[n]] /\ DOMAIN b = 1..len-first
    BY DEF Part
  <2>2. c = [n \in 1..len-first |-> c[n]]
    BY <2>1 DEF GrownUp
  <2> QED
    BY <1>1, <1>2, <2>1, <2>2
<1>4. len - first \in Nat
  OBVIOUS
<1>5. PICK m \in Nat : m = len - first
  BY <1>4
<1>7. PICK f : f = Half(d, to, first, len)
  OBVIOUS
<1>9. ASSUME NEW k \in 1..to PROVE f[k] = a[k]
  <2>1. k \in 1..to + m /\ k <= to
    OBVIOUS
  <2> QED
    BY <1>1, <1>5, <1>7, <2>1 DEF Half
<1>6. ASSUME NEW k \in 1..m PROVE f[to + k] = c[k]
  <2>1. to + k \in 1..to + m /\ ~(to + k <= to) /\ (first + (to + k)) - to = first + k
    OBVIOUS
  <2>2. f[to + k] = Aged(d[((first + (to + k)) - to) - 1])
    BY <1>5, <1>7, <2>1 DEF Half
  <2> QED
    BY <1>2, <1>5, <2>1, <2>2
<1>8. f \in [1..to + m -> T]
  <2>1. DOMAIN f = 1..to + m /\ f = [k \in DOMAIN f |-> f[k]]
    BY <1>5, <1>7 DEF Half
  <2>2. ASSUME NEW k \in 1..to + m PROVE f[k] \in T
    <3>1. k \in 1..to \/ (k - to \in 1..m /\ to + (k - to) = k)
      OBVIOUS
    <3>2. CASE k \in 1..to
      BY <1>1, <1>9, <3>2
    <3>3. CASE k - to \in 1..m /\ to + (k - to) = k
      <4>1. f[k] = c[k - to] /\ c[k - to] \in T
        BY <1>2, <1>5, <1>6, <3>3
      <4> QED
        BY <4>1
    <3> QED
      BY <3>1, <3>2, <3>3
  <2> QED
    BY <2>1, <2>2
<1>10. a \in [1..to -> T] /\ c \in [1..m -> T]
  BY <1>3, <1>5
<1>12. Halves(f, a, to, c, m)
  BY <1>6, <1>9 DEF Halves
<1> HIDE DEF T
<1>11. a \o c = f
  BY <1>8, <1>10, <1>12, Joined, ZenonT(40)
<1> QED
  BY <1>7, <1>11

(* The list Pond shows to Drops. *)
Listed ==
    IF pc = "loop"
      THEN P!Stretch(0, temp_len) \o P!Updated(P!Stretch(P!First, list_len))
      ELSE P!Stretch(0, list_len)

ListOf(where, d, len, from, to) ==
    IF where = "loop" THEN Half(d, to, FirstOf(d, from, len), len) ELSE Plain(d, len)

(***************************************************************************)
(* The oldest drops are the largest, and those that have grown in this     *)
(* round are so by a step at least, so that those that go are at the head  *)
(* of the list. A drop is where the finger was when it was read.           *)
(***************************************************************************)
(* The drops from first to last-1 get no larger along the list. *)
Falling(first, last) ==
    \A k, l \in first..last-1 : k < l => drop[k].r >= drop[l].r

Sorted ==
    IF pc = "loop"
      THEN /\ Falling(0, temp_len)
           /\ Falling(i, list_len)
           /\ \A k \in 0..temp_len-1, l \in i..list_len-1 : drop[k].r >= drop[l].r + SPEED
      ELSE Falling(0, list_len)

Placed ==
    /\ touch \in Points \cup {P!Away}
    /\ pc = "y" => drop[list_len].x \in P!Coordinates

DropInv == PondInv /\ Sorted /\ Placed

LEMMA SizesOf ==
    ASSUME PondTypes
    PROVE  /\ list_len \in Nat /\ i \in Nat /\ temp_len \in Nat
           /\ temp_len <= i /\ i <= list_len /\ list_len <= MAX_LIST
           /\ MAX_LIST \in Nat \ {0} /\ RADIUS \in Nat /\ SPEED \in Nat \ {0} /\ GONE \in Int
           /\ \A k \in 0..MAX_LIST-1 : drop[k] \in [x : Nat, y : Nat, r : Nat]
BY PondConstants DEF PondTypes

LEMMA OneWritten ==
    ASSUME NEW d \in Array, NEW n \in 0..MAX_LIST-1, NEW new,
           NEW e, e = [d EXCEPT ![n] = new]
    PROVE  e[n] = new /\ \A k \in 0..MAX_LIST-1 : k # n => e[k] = d[k]
BY DEF Array

LEMMA ReadsY ==
    ASSUME PondTypes, Adding, P!ReadY
    PROVE  /\ pc = "y" /\ pc' = "update" /\ list_len' = list_len + 1 /\ UNCHANGED touch
           /\ list_len < MAX_LIST
           /\ \A k \in 0..list_len-1 : drop'[k] = drop[k]
           /\ drop'[list_len] = [x |-> drop[list_len].x, y |-> P!UInt(touch.y), r |-> RADIUS]
<1>1. list_len \in 0..MAX_LIST-1 /\ drop \in Array
  BY SizesOf DEF P!ReadY, Adding, PondTypes, Array
<1>2. PICK v : v = P!UInt(touch.y)
  OBVIOUS
<1>3. PICK d1 : d1 = [drop EXCEPT ![list_len].y = v]
  OBVIOUS
<1>4. drop' = [d1 EXCEPT ![list_len].r = RADIUS]
  BY <1>2, <1>3 DEF P!ReadY
<1>5. PICK old \in [x : Nat, y : Nat, r : Nat] : old = drop[list_len]
  BY <1>1 DEF Array
<1>6. d1 = [drop EXCEPT ![list_len] = [old EXCEPT !.y = v]]
  BY <1>1, <1>3, <1>5 DEF Array
<1>7. /\ d1[list_len] = [old EXCEPT !.y = v]
      /\ \A k \in 0..MAX_LIST-1 : k # list_len => d1[k] = drop[k]
  BY <1>1, <1>6, OneWritten
<1>8. DOMAIN d1 = 0..MAX_LIST-1
  BY <1>1, <1>3 DEF Array
<1>9. drop'[list_len] = [d1[list_len] EXCEPT !.r = RADIUS]
      /\ \A k \in 0..MAX_LIST-1 : k # list_len => drop'[k] = d1[k]
  BY <1>1, <1>4, <1>8
<1>10. drop'[list_len] = [x |-> old.x, y |-> v, r |-> RADIUS]
  BY <1>7, <1>9
<1>11. \A k \in 0..list_len-1 : k \in 0..MAX_LIST-1 /\ k # list_len
  BY <1>1, SizesOf
<1>12. \A k \in 0..list_len-1 : drop'[k] = drop[k]
  BY <1>7, <1>9, <1>11
<1>13. drop'[list_len] = [x |-> drop[list_len].x, y |-> P!UInt(touch.y), r |-> RADIUS]
  BY <1>2, <1>5, <1>10
<1>14. list_len < MAX_LIST
  BY <1>1, SizesOf
<1>15. pc = "y" /\ pc' = "update" /\ list_len' = list_len + 1 /\ UNCHANGED touch
  BY DEF P!ReadY
<1> QED
  BY <1>12, <1>13, <1>14, <1>15

LEMMA UpdatesOne ==
    ASSUME PondTypes, P!Update
    PROVE  /\ pc = "loop" /\ pc' = "loop" /\ i < list_len /\ i' = i + 1
           /\ UNCHANGED <<touch, list_len>>
           /\ \A k \in 0..temp_len-1 : drop'[k] = drop[k]
           /\ \A k \in i+1..list_len-1 : drop'[k] = drop[k]
           /\ \/ /\ drop[i].r + SPEED < GONE
                 /\ drop'[temp_len] = Aged(drop[i]) /\ temp_len' = temp_len + 1
              \/ ~(drop[i].r + SPEED < GONE) /\ temp_len' = temp_len
<1> DEFINE grown == [drop EXCEPT ![i].r = @ + SPEED]
<1>1. /\ pc = "loop" /\ i < list_len /\ i' = i + 1 /\ UNCHANGED <<touch, pc, list_len>>
      /\ \/ /\ grown[i].r < GONE
            /\ drop' = [grown EXCEPT ![temp_len] = grown[i]] /\ temp_len' = temp_len + 1
         \/ ~(grown[i].r < GONE) /\ drop' = grown /\ temp_len' = temp_len
  BY DEF P!Update, P!Stays, P!Visible, P!Moved
<1>2. /\ i \in 0..MAX_LIST-1 /\ temp_len \in 0..MAX_LIST-1 /\ drop \in Array
      /\ drop[i].r + SPEED \in Nat
  <2>1. i \in 0..MAX_LIST-1 /\ temp_len \in 0..MAX_LIST-1
    BY <1>1, SizesOf
  <2>2. drop[i] \in [x : Nat, y : Nat, r : Nat] /\ SPEED \in Nat
    BY <2>1, SizesOf
  <2> QED
    BY <2>1, <2>2 DEF PondTypes, Array
<1>3. /\ grown[i] = Aged(drop[i]) /\ grown[i].r = drop[i].r + SPEED
      /\ grown \in Array
      /\ \A k \in 0..MAX_LIST-1 : k # i => grown[k] = drop[k]
  BY <1>2 DEF Array, Aged
<1> HIDE DEF grown
<1>4. /\ \A k \in 0..temp_len-1 : k \in 0..MAX_LIST-1 /\ k # i /\ k # temp_len
      /\ \A k \in i+1..list_len-1 : k \in 0..MAX_LIST-1 /\ k # i /\ k # temp_len
  BY <1>1, SizesOf
<1>5. CASE /\ grown[i].r < GONE
           /\ drop' = [grown EXCEPT ![temp_len] = grown[i]] /\ temp_len' = temp_len + 1
  <2>1. drop'[temp_len] = grown[i] /\ \A k \in 0..MAX_LIST-1 : k # temp_len => drop'[k] = grown[k]
    BY <1>2, <1>3, <1>5, OneWritten
  <2> QED
    BY <1>1, <1>3, <1>4, <1>5, <2>1
<1>6. CASE ~(grown[i].r < GONE) /\ drop' = grown /\ temp_len' = temp_len
  BY <1>1, <1>3, <1>4, <1>6
<1> QED
  BY <1>1, <1>5, <1>6

LEMMA PlaceOf ==
    ASSUME NEW p \in Points \cup {P!Away}
    PROVE  P!UInt(p.x) \in P!Coordinates /\ P!UInt(p.y) \in P!Coordinates
BY DEF P!Coordinates

LEMMA InitDrop == P!Init => DropInv
<1> SUFFICES ASSUME P!Init PROVE DropInv
  OBVIOUS
<1>1. Sorted /\ Placed
  BY DEF P!Init, Sorted, Falling, Placed
<1> QED
  BY <1>1, InitPond DEF DropInv

LEMMA StepDrop == DropInv /\ [P!Next]_(P!vars) => DropInv'
<1> SUFFICES ASSUME DropInv, [P!Next]_(P!vars) PROVE Sorted' /\ Placed'
  BY StepPond DEF DropInv
<1>0. PondTypes /\ Ages /\ Adding /\ Sorted /\ Placed
  BY DEF DropInv, PondInv
<1>1. /\ list_len \in Nat /\ i \in Nat /\ temp_len \in Nat
      /\ temp_len <= i /\ i <= list_len /\ list_len <= MAX_LIST
      /\ MAX_LIST \in Nat \ {0} /\ RADIUS \in Nat /\ SPEED \in Nat \ {0} /\ GONE \in Int
  BY <1>0, PondConstants DEF PondTypes
<1>2. \A k \in 0..MAX_LIST-1 : drop[k] \in [x : Nat, y : Nat, r : Nat]
  BY <1>0 DEF PondTypes
<1>3. CASE P!Finger
  BY <1>0, <1>3 DEF P!Finger, P!list, Sorted, Falling, Placed, P!Coordinates
<1>4. CASE P!Check
  BY <1>0, <1>4 DEF P!Check, P!list, Sorted, Falling, Placed, P!Coordinates
<1>5. CASE P!ReadX
  <2>1. pc = "x" /\ pc' = "y" /\ UNCHANGED <<touch, list_len>> /\ list_len < MAX_LIST
    BY <1>0, <1>5 DEF P!ReadX, Adding
  <2>2. PICK v \in P!Coordinates : v = P!UInt(touch.x)
    BY <1>0, PlaceOf DEF Placed
  <2>3. drop' = [drop EXCEPT ![list_len].x = v]
    BY <1>5, <2>2 DEF P!ReadX
  <2>4. \A k \in 0..list_len-1 : drop'[k] = drop[k]
    BY <1>0, <1>1, <2>1, <2>3 DEF PondTypes
  <2>5. Sorted'
    BY <1>0, <1>1, <2>1, <2>4 DEF Sorted, Falling
  <2>6. drop'[list_len].x = v
    BY <1>0, <1>1, <1>2, <2>1, <2>3 DEF PondTypes
  <2> QED
    BY <1>0, <2>1, <2>2, <2>5, <2>6 DEF Placed, P!Coordinates
<1>6. CASE P!ReadY
  <2>1. /\ pc = "y" /\ pc' = "update" /\ UNCHANGED touch
        /\ list_len < MAX_LIST /\ list_len' = list_len + 1
    BY <1>0, <1>6, ReadsY
  <2>2. /\ \A k \in 0..list_len-1 : drop'[k] = drop[k]
        /\ drop'[list_len].r = RADIUS
    BY <1>0, <1>6, ReadsY
  <2>3. Falling(0, list_len) /\ Grown(0, list_len, list_len)
    BY <1>0, <2>1 DEF Sorted, Ages
  <2>4. ASSUME NEW k \in 0..list_len-1 PROVE drop[k].r >= RADIUS
    <3>1. PICK n \in Nat : n = list_len - k
      BY <1>1
    <3>2. PICK s \in Nat : s = SPEED
      BY <1>1
    <3>3. s * n \in Nat
      OBVIOUS
    <3>4. PICK m \in Nat : m = s * n
      BY <3>3
    <3>5. drop[k].r >= RADIUS + m
      BY <2>3, <3>1, <3>2, <3>4 DEF Grown, Age
    <3>6. k \in 0..MAX_LIST-1
      BY <1>1
    <3>7. PICK r \in Nat : r = drop[k].r
      BY <1>2, <3>6
    <3> QED
      BY <1>1, <3>5, <3>7
  <2>5. Falling(0, list_len)'
    <3> SUFFICES ASSUME NEW k \in 0..list_len, NEW l \in 0..list_len, k < l
                 PROVE  drop'[k].r >= drop'[l].r
      BY <1>1, <2>1 DEF Falling
    <3>1. k \in 0..list_len-1 /\ drop'[k] = drop[k]
      BY <1>1, <2>2
    <3>2. CASE l = list_len
      BY <2>2, <2>4, <3>1, <3>2
    <3>3. CASE l \in 0..list_len-1
      BY <2>2, <2>3, <3>1, <3>3 DEF Falling
    <3> QED
      BY <1>1, <3>2, <3>3
  <2> QED
    BY <1>0, <2>1, <2>5 DEF Sorted, Placed
<1>7. CASE P!StartUpdate
  BY <1>0, <1>1, <1>7 DEF P!StartUpdate, P!list, Sorted, Falling, Placed
<1>8. CASE P!Update
  <2>1. /\ pc = "loop" /\ pc' = "loop" /\ i < list_len /\ i' = i + 1
        /\ UNCHANGED <<touch, list_len>>
        /\ \A k \in 0..temp_len-1 : drop'[k] = drop[k]
        /\ \A k \in i+1..list_len-1 : drop'[k] = drop[k]
        /\ \/ drop'[temp_len] = Aged(drop[i]) /\ temp_len' = temp_len + 1
           \/ temp_len' = temp_len
    BY <1>0, <1>8, UpdatesOne
  <2>2. /\ Falling(0, temp_len) /\ Falling(i, list_len)
        /\ \A k \in 0..temp_len-1, l \in i..list_len-1 : drop[k].r >= drop[l].r + SPEED
    BY <1>0, <2>1 DEF Sorted
  <2>3. Placed'
    BY <1>0, <2>1 DEF Placed
  <2>4. Falling(i, list_len)'
    BY <1>1, <2>1, <2>2 DEF Falling
  <2>5. CASE drop'[temp_len] = Aged(drop[i]) /\ temp_len' = temp_len + 1
    <3>1. PICK r \in Nat : r = drop[i].r + SPEED
      BY <1>1, <1>2, <2>1
    <3>2. drop'[temp_len].r = r
      <4>1. drop[i] \in [x : Nat, y : Nat, r : Nat]
        BY <1>1, <1>2, <2>1
      <4> QED
        BY <2>5, <3>1, <4>1 DEF Aged
    <3>3. \A k \in 0..temp_len-1 : drop[k].r >= r
      BY <1>1, <2>1, <2>2, <3>1
    <3>4. ASSUME NEW l \in i+1..list_len-1 PROVE r >= drop[l].r + SPEED
      <4>1. /\ i \in i..list_len-1 /\ l \in i..list_len-1 /\ i < l
            /\ l \in 0..MAX_LIST-1 /\ i \in 0..MAX_LIST-1
        BY <1>1, <2>1
      <4>2. drop[i].r >= drop[l].r /\ drop[l].r \in Nat /\ drop[i].r \in Nat
        BY <1>2, <2>2, <4>1 DEF Falling
      <4> QED
        BY <1>1, <3>1, <4>2
    <3>5. Falling(0, temp_len)'
      <4> SUFFICES ASSUME NEW k \in 0..temp_len, NEW l \in 0..temp_len, k < l
                   PROVE  drop'[k].r >= drop'[l].r
        BY <1>1, <2>5 DEF Falling
      <4>1. k \in 0..temp_len-1 /\ drop'[k] = drop[k]
        BY <1>1, <2>1
      <4>2. CASE l = temp_len
        BY <3>2, <3>3, <4>1, <4>2
      <4>3. CASE l \in 0..temp_len-1
        BY <2>1, <2>2, <4>1, <4>3 DEF Falling
      <4> QED
        BY <1>1, <4>2, <4>3
    <3>6. ASSUME NEW k \in 0..temp_len'-1, NEW l \in i'..list_len'-1
          PROVE  drop'[k].r >= drop'[l].r + SPEED
      <4>1. l \in i+1..list_len-1 /\ l \in i..list_len-1 /\ drop'[l] = drop[l]
        BY <1>1, <2>1
      <4>2. CASE k \in 0..temp_len-1
        BY <2>1, <2>2, <4>1, <4>2
      <4>3. CASE k = temp_len
        BY <3>2, <3>4, <4>1, <4>3
      <4> QED
        BY <1>1, <2>5, <4>2, <4>3
    <3> QED
      BY <2>1, <2>3, <2>4, <3>5, <3>6 DEF Sorted
  <2>6. CASE temp_len' = temp_len
    <3>1. Falling(0, temp_len)'
      BY <1>1, <2>1, <2>2, <2>6 DEF Falling
    <3>2. ASSUME NEW k \in 0..temp_len'-1, NEW l \in i'..list_len'-1
          PROVE  drop'[k].r >= drop'[l].r + SPEED
      <4>1. l \in i+1..list_len-1 /\ l \in i..list_len-1 /\ k \in 0..temp_len-1
        BY <1>1, <2>1, <2>6
      <4> QED
        BY <2>1, <2>2, <4>1
    <3> QED
      BY <2>1, <2>3, <2>4, <3>1, <3>2 DEF Sorted
  <2> QED
    BY <2>1, <2>5, <2>6
<1>9. CASE P!EndUpdate
  <2>1. pc = "loop" /\ pc' = "check" /\ UNCHANGED <<touch, drop>> /\ list_len' = temp_len
    BY <1>9 DEF P!EndUpdate
  <2>2. Falling(0, list_len)'
    BY <1>0, <2>1 DEF Sorted, Falling
  <2> QED
    BY <1>0, <2>1, <2>2 DEF Sorted, Placed
<1>10. CASE UNCHANGED P!vars
  BY <1>0, <1>10 DEF P!vars, P!list, Sorted, Falling, Placed, P!Coordinates
<1> QED
  BY <1>3, <1>4, <1>5, <1>6, <1>7, <1>8, <1>9, <1>10 DEF P!Next, P!Main

LEMMA DropsAre ==
    Listed = <<>> /\ [][P!Seen!Arrive \/ P!Seen!Frame]_Listed => P!ImplementsDrops
BY DEF P!ImplementsDrops, P!Seen!DropsSpec, Listed

LEMMA ListedIs == PondTypes => Listed = ListOf(pc, drop, list_len, i, temp_len)
<1> SUFFICES ASSUME PondTypes PROVE Listed = ListOf(pc, drop, list_len, i, temp_len)
  OBVIOUS
<1>1. CASE pc = "loop"
  <2>1. PICK n : n = FirstOf(drop, i, list_len)
    OBVIOUS
  <2>2. n = P!First
    BY <2>1 DEF P!First, FirstOf, P!Visible
  <2>3. n \in Nat /\ n <= list_len
    BY <2>1, SizesOf, FirstExists DEF IsFirst
  <2>4. /\ P!Stretch(0, temp_len) = Part(drop, 0, temp_len)
        /\ P!Updated(P!Stretch(n, list_len)) = GrownUp(Part(drop, n, list_len))
    BY DEF P!Stretch, P!Updated, Part, GrownUp
  <2>5. Part(drop, 0, temp_len) \o GrownUp(Part(drop, n, list_len))
        = Half(drop, temp_len, n, list_len)
    <3>1. /\ drop \in Array /\ temp_len \in Nat /\ list_len \in Nat
          /\ temp_len <= list_len /\ list_len <= MAX_LIST
      BY SizesOf DEF PondTypes, Array
    <3> QED
      BY <2>3, <3>1, HalfIs
  <2> QED
    BY <1>1, <2>1, <2>2, <2>4, <2>5 DEF Listed, ListOf
<1>2. CASE pc # "loop"
  BY <1>2, SizesOf DEF Listed, ListOf, P!Stretch, Plain
<1> QED
  BY <1>1, <1>2

ListKnown == Listed = ListOf(pc, drop, list_len, i, temp_len)

LEMMA KnownNext == PondTypes' => ListKnown'
<1>1. PondTypes => ListKnown
  BY ListedIs DEF ListKnown
<1> QED
  BY <1>1, PTL

LEMMA ListedNext == PondTypes' => Listed' = ListOf(pc', drop', list_len', i', temp_len')
BY KnownNext DEF ListKnown

LEMMA AppendPlain ==
    ASSUME NEW d \in Array, NEW e \in Array, NEW len \in Nat, len < MAX_LIST,
           \A k \in 0..len-1 : e[k] = d[k]
    PROVE  Len(Plain(d, len)) = len /\ Plain(e, len + 1) = Append(Plain(d, len), e[len])
<1> DEFINE T == [x : Nat, y : Nat, r : Nat]
<1>1. PICK s : s = Plain(d, len)
  OBVIOUS
<1>2. MAX_LIST \in Nat
  BY PondConstants
<1>3. \A n \in 1..len : n - 1 \in 0..len-1 /\ n - 1 \in 0..MAX_LIST-1
  BY <1>2
<1>4. s \in [1..len -> T] /\ \A n \in 1..len : s[n] = d[n - 1]
  BY <1>1, <1>3 DEF Plain, Array
<1>5. e[len] \in T
  BY <1>2 DEF Array
<1>6. PICK t : t = Append(s, e[len])
  OBVIOUS
<1> HIDE DEF T
<1>7. s \in Seq(T) /\ Len(s) = len
  BY <1>4, InSeq
<1>8. t \in Seq(T) /\ Len(t) = len + 1 /\ t[len + 1] = e[len] /\ \A n \in 1..len : t[n] = s[n]
  BY <1>5, <1>6, <1>7, AppendProperties
<1>9. len + 1 \in Nat
  OBVIOUS
<1>10. t \in [1..len + 1 -> T]
  BY <1>8, <1>9, SeqIsFunction
<1>11. ASSUME NEW n \in 1..len + 1 PROVE t[n] = e[n - 1]
  <2>1. CASE n \in 1..len
    BY <1>3, <1>4, <1>8, <2>1
  <2>2. CASE n = len + 1
    BY <1>8, <2>2
  <2> QED
    BY <2>1, <2>2
<1>12. t = Plain(e, len + 1)
  BY <1>10, <1>11 DEF Plain
<1> QED
  BY <1>1, <1>6, <1>7, <1>12

LEMMA PlainSame ==
    ASSUME NEW d, NEW e, NEW len \in Nat, \A k \in 0..len-1 : e[k] = d[k]
    PROVE  Plain(e, len) = Plain(d, len)
<1>1. \A n \in 1..len : n - 1 \in 0..len-1
  OBVIOUS
<1> QED
  BY <1>1 DEF Plain

(* Drop "from" moves to place "to", grown: "to" and "from" go up by one.    *)
MovedDown(d, e, to, from, len) ==
    /\ from < len /\ to <= from
    /\ \A k \in 0..to-1 : e[k] = d[k]
    /\ e[to] = Aged(d[from])
    /\ \A k \in from+1..len-1 : e[k] = d[k]

LEMMA HalfStays ==
    ASSUME NEW d, NEW e, NEW to \in Nat, NEW from \in Nat, NEW len \in Nat,
           MovedDown(d, e, to, from, len)
    PROVE  Half(e, to + 1, from + 1, len) = Half(d, to, from, len)
<1>0. /\ from < len /\ to <= from
      /\ \A k \in 0..to-1 : e[k] = d[k]
      /\ e[to] = Aged(d[from])
      /\ \A k \in from+1..len-1 : e[k] = d[k]
  BY DEF MovedDown
<1>1. (to + 1) + (len - (from + 1)) = to + (len - from)
  BY <1>0
<1>2. ASSUME NEW n \in 1..to + (len - from)
      PROVE  (IF n <= to + 1 THEN e[n - 1] ELSE Aged(e[(((from + 1) + n) - (to + 1)) - 1]))
             = IF n <= to THEN d[n - 1] ELSE Aged(d[((from + n) - to) - 1])
  <2>1. CASE n <= to
    <3>1. n - 1 \in 0..to-1 /\ n <= to + 1
      BY <2>1
    <3> QED
      BY <1>0, <2>1, <3>1
  <2>2. CASE n = to + 1
    <3>1. n - 1 = to /\ ~(n <= to) /\ ((from + n) - to) - 1 = from
      BY <2>2
    <3> QED
      BY <1>0, <2>2, <3>1
  <2>3. CASE n > to + 1
    <3>1. PICK k : k = ((from + n) - to) - 1
      OBVIOUS
    <3>2. k \in from+1..len-1 /\ (((from + 1) + n) - (to + 1)) - 1 = k
      BY <2>3, <3>1
    <3> QED
      BY <1>0, <2>3, <3>1, <3>2
  <2> QED
    BY <2>1, <2>2, <2>3
<1> QED
  BY <1>1, <1>2 DEF Half

LEMMA HalfSame ==
    ASSUME NEW d, NEW e, NEW to \in Nat, NEW first \in Nat, NEW len \in Nat, to <= first,
           \A k \in 0..to-1 : e[k] = d[k], \A k \in first..len-1 : e[k] = d[k]
    PROVE  Half(e, to, first, len) = Half(d, to, first, len)
<1>1. ASSUME NEW n \in 1..to + (len - first)
      PROVE  (IF n <= to THEN e[n - 1] ELSE Aged(e[((first + n) - to) - 1]))
             = IF n <= to THEN d[n - 1] ELSE Aged(d[((first + n) - to) - 1])
  <2>1. CASE n <= to
    <3>1. n - 1 \in 0..to-1
      BY <2>1
    <3> QED
      BY <2>1, <3>1
  <2>2. CASE ~(n <= to)
    <3>1. ((first + n) - to) - 1 \in first..len-1
      BY <2>2
    <3> QED
      BY <2>2, <3>1
  <2> QED
    BY <2>1, <2>2
<1> QED
  BY <1>1 DEF Half

LEMMA HalfDone ==
    ASSUME NEW d, NEW to \in Nat, NEW len \in Nat
    PROVE  Half(d, to, len, len) = Plain(d, to)
<1>1. to + (len - len) = to
  OBVIOUS
<1> QED
  BY <1>1 DEF Half, Plain

LEMMA ArriveIs ==
    ASSUME NEW x \in P!Coordinates, NEW y \in P!Coordinates, Len(Listed) < MAX_LIST,
           Listed' = Append(Listed, [x |-> x, y |-> y, r |-> RADIUS])
    PROVE  P!Seen!Arrive
BY DEF P!Seen!Arrive, Listed

LEMMA FrameIs ==
    ASSUME NEW old, old = Listed, NEW gone \in 0..Len(old),
           \A n \in 1..Len(old) : old[n].r + SPEED < GONE <=> n > gone,
           \A n \in 1..Len(old) : old[n] \in [x : Nat, y : Nat, r : Nat],
           Listed' = [n \in 1..Len(old) - gone |-> Aged(old[n + gone])]
    PROVE  P!Seen!Frame
<1>1. ASSUME NEW n \in 1..Len(old)
      PROVE  P!Seen!Visible(P!Seen!Older(old[n]).r) <=> n > gone
  <2>1. P!Seen!Older(old[n]).r = old[n].r + SPEED
    BY DEF P!Seen!Older
  <2> QED
    BY <2>1 DEF P!Seen!Visible
<1>2. Listed' = [n \in 1..Len(old) - gone |-> P!Seen!Older(old[n + gone])]
  BY DEF P!Seen!Older, Aged
<1>3. /\ gone \in 0..Len(Listed)
      /\ \A n \in 1..Len(Listed) : P!Seen!Visible(P!Seen!Older(Listed[n]).r) <=> n > gone
      /\ Listed' = [n \in 1..Len(Listed) - gone |-> P!Seen!Older(Listed[n + gone])]
  BY <1>1, <1>2
<1> HIDE DEF Listed
<1>4. \E k \in 0..Len(Listed) :
        /\ \A n \in 1..Len(Listed) : P!Seen!Visible(P!Seen!Older(Listed[n]).r) <=> n > k
        /\ Listed' = [n \in 1..Len(Listed) - k |-> P!Seen!Older(Listed[n + k])]
  BY <1>3
<1> QED
  BY <1>4 DEF P!Seen!Frame, Listed

LEMMA InitSeen == P!Init => Listed = <<>>
<1> SUFFICES ASSUME P!Init PROVE Listed = <<>>
  OBVIOUS
<1>1. PondTypes
  BY InitPond DEF PondInv
<1>2. Listed = Plain(drop, 0)
  BY <1>1, ListedIs DEF ListOf, P!Init
<1> QED
  BY <1>2 DEF Plain

LEMMA StepSeen ==
    DropInv /\ DropInv' /\ [P!Next]_(P!vars) => [P!Seen!Arrive \/ P!Seen!Frame]_Listed
<1> SUFFICES ASSUME DropInv, DropInv', [P!Next]_(P!vars)
             PROVE  P!Seen!Arrive \/ P!Seen!Frame \/ UNCHANGED Listed
  OBVIOUS
<1>0. PondTypes /\ Ages /\ Adding /\ Sorted /\ Placed
  BY DEF DropInv, PondInv
<1>1. /\ list_len \in Nat /\ i \in Nat /\ temp_len \in Nat
      /\ temp_len <= i /\ i <= list_len /\ list_len <= MAX_LIST
      /\ MAX_LIST \in Nat \ {0} /\ RADIUS \in Nat /\ SPEED \in Nat \ {0} /\ GONE \in Int
      /\ \A k \in 0..MAX_LIST-1 : drop[k] \in [x : Nat, y : Nat, r : Nat]
  BY <1>0, SizesOf
<1>2. /\ Listed = ListOf(pc, drop, list_len, i, temp_len)
      /\ Listed' = ListOf(pc', drop', list_len', i', temp_len')
      /\ drop \in Array /\ drop' \in Array
  BY <1>0, ListedIs, ListedNext DEF DropInv, PondInv, PondTypes, Array
<1>3. CASE P!Finger
  <2>1. UNCHANGED <<pc, drop, list_len, i, temp_len>>
    BY <1>3 DEF P!Finger, P!list
  <2> QED
    BY <1>2, <2>1
<1>4. CASE P!Check
  <2>1. pc # "loop" /\ pc' # "loop" /\ UNCHANGED <<drop, list_len>>
    BY <1>4 DEF P!Check, P!list
  <2> QED
    BY <1>2, <2>1 DEF ListOf
<1>5. CASE P!ReadX
  <2>1. /\ pc # "loop" /\ pc' # "loop" /\ UNCHANGED list_len
        /\ list_len < MAX_LIST /\ drop' = [drop EXCEPT ![list_len].x = P!UInt(touch.x)]
    BY <1>0, <1>5 DEF P!ReadX, Adding
  <2>2. \A k \in 0..list_len-1 : k \in 0..MAX_LIST-1 /\ k # list_len
    BY <1>1
  <2>3. \A k \in 0..list_len-1 : drop'[k] = drop[k]
    BY <1>2, <2>1, <2>2 DEF Array
  <2>4. Plain(drop', list_len) = Plain(drop, list_len)
    BY <1>1, <2>3, PlainSame
  <2> QED
    BY <1>2, <2>1, <2>4 DEF ListOf
<1>6. CASE P!ReadY
  <2>1. /\ pc = "y" /\ pc' = "update" /\ list_len' = list_len + 1 /\ list_len < MAX_LIST
        /\ \A k \in 0..list_len-1 : drop'[k] = drop[k]
        /\ drop'[list_len] = [x |-> drop[list_len].x, y |-> P!UInt(touch.y), r |-> RADIUS]
    BY <1>0, <1>6, ReadsY
  <2>2. /\ Len(Plain(drop, list_len)) = list_len
        /\ Plain(drop', list_len + 1) = Append(Plain(drop, list_len), drop'[list_len])
    BY <1>1, <1>2, <2>1, AppendPlain
  <2>3. Listed = Plain(drop, list_len) /\ Listed' = Plain(drop', list_len + 1)
    BY <1>2, <2>1 DEF ListOf
  <2>4. drop[list_len].x \in P!Coordinates /\ P!UInt(touch.y) \in P!Coordinates
    BY <1>0, <2>1, PlaceOf DEF Placed
  <2>5. P!Seen!Arrive
    BY <2>1, <2>2, <2>3, <2>4, ArriveIs
  <2> QED
    BY <2>5
<1>7. CASE P!StartUpdate
  <2>1. pc = "update" /\ pc' = "loop" /\ UNCHANGED <<drop, list_len>> /\ i' = 0 /\ temp_len' = 0
    BY <1>7 DEF P!StartUpdate, P!list
  <2>2. PICK gone : gone = FirstOf(drop, 0, list_len)
    OBVIOUS
  <2>3. IsFirst(drop, 0, list_len, gone)
    BY <1>1, <2>2, FirstExists
  <2>4. gone \in 0..list_len
    BY <2>3 DEF IsFirst
  <2>5. PICK old : old = Plain(drop, list_len)
    OBVIOUS
  <2>6. old = Listed /\ Listed' = Half(drop, 0, gone, list_len)
    BY <1>2, <2>1, <2>2, <2>5 DEF ListOf
  <2>7. Len(old) = list_len
    BY <1>1, <2>5 DEF Plain
  <2>8. ASSUME NEW n \in 1..list_len
        PROVE  /\ old[n] \in [x : Nat, y : Nat, r : Nat]
               /\ old[n].r + SPEED < GONE <=> n > gone
    <3>1. PICK k \in 0..list_len-1 : k = n - 1
      BY <1>1
    <3>2. old[n] = drop[k] /\ k \in 0..MAX_LIST-1
      BY <1>1, <2>5, <3>1 DEF Plain
    <3>3. CASE k < gone
      BY <1>1, <2>3, <2>4, <3>1, <3>2, <3>3 DEF IsFirst
    <3>4. CASE k = gone
      BY <1>1, <2>3, <2>4, <3>1, <3>2, <3>4 DEF IsFirst
    <3>5. CASE k > gone
      <4>1. drop[gone].r + SPEED < GONE /\ gone \in 0..MAX_LIST-1
        BY <1>1, <2>3, <2>4, <3>1, <3>5 DEF IsFirst
      <4>2. drop[gone].r >= drop[k].r
        BY <1>0, <1>1, <2>1, <2>4, <3>5 DEF Sorted, Falling
      <4>3. drop[gone].r \in Nat /\ drop[k].r \in Nat
        BY <1>1, <3>2, <4>1
      <4> QED
        BY <1>1, <2>4, <3>1, <3>2, <3>5, <4>1, <4>2, <4>3
    <3> QED
      BY <2>4, <3>1, <3>3, <3>4, <3>5
  <2>9. Half(drop, 0, gone, list_len) = [n \in 1..list_len - gone |-> Aged(old[n + gone])]
    <3>1. 0 + (list_len - gone) = list_len - gone
      BY <1>1, <2>4
    <3>2. ASSUME NEW n \in 1..list_len - gone
          PROVE  ~(n <= 0) /\ drop[((gone + n) - 0) - 1] = old[n + gone]
      BY <1>1, <2>4, <2>5 DEF Plain
    <3> QED
      BY <3>1, <3>2 DEF Half
  <2>10. P!Seen!Frame
    BY <2>4, <2>6, <2>7, <2>8, <2>9, FrameIs
  <2> QED
    BY <2>10
<1>8. CASE P!Update
  <2>1. /\ pc = "loop" /\ pc' = "loop" /\ i < list_len /\ i' = i + 1 /\ UNCHANGED list_len
        /\ \A k \in 0..temp_len-1 : drop'[k] = drop[k]
        /\ \A k \in i+1..list_len-1 : drop'[k] = drop[k]
        /\ \/ /\ drop[i].r + SPEED < GONE
              /\ drop'[temp_len] = Aged(drop[i]) /\ temp_len' = temp_len + 1
           \/ ~(drop[i].r + SPEED < GONE) /\ temp_len' = temp_len
    BY <1>0, <1>8, UpdatesOne
  <2>2. PICK first : first = FirstOf(drop, i, list_len)
    OBVIOUS
  <2>3. IsFirst(drop, i, list_len, first) /\ first \in i..list_len
    BY <1>1, <2>2, FirstExists DEF IsFirst
  <2>4. Listed = Half(drop, temp_len, first, list_len)
    BY <1>2, <2>1, <2>2 DEF ListOf
  <2>5. Listed' = Half(drop', temp_len', FirstOf(drop', i + 1, list_len), list_len)
    BY <1>2, <2>1 DEF ListOf
  <2>6. CASE /\ drop[i].r + SPEED < GONE
             /\ drop'[temp_len] = Aged(drop[i]) /\ temp_len' = temp_len + 1
    <3>1. first = i
      <4>1. IsFirst(drop, i, list_len, i)
        BY <1>1, <2>1, <2>6 DEF IsFirst
      <4> QED
        BY <1>1, <2>2, <4>1, FirstUnique
    <3>2. IsFirst(drop', i + 1, list_len, i + 1)
      <4>1. ASSUME i + 1 < list_len PROVE drop'[i + 1].r + SPEED < GONE
        <5>1. drop'[i + 1] = drop[i + 1] /\ i \in 0..MAX_LIST-1 /\ i + 1 \in 0..MAX_LIST-1
          BY <1>1, <2>1, <4>1
        <5>2. drop[i].r >= drop[i + 1].r
          BY <1>0, <1>1, <2>1, <4>1 DEF Sorted, Falling
        <5>3. drop[i].r \in Nat /\ drop[i + 1].r \in Nat
          BY <1>1, <5>1
        <5> QED
          BY <1>1, <2>6, <5>1, <5>2, <5>3
      <4> QED
        BY <1>1, <2>1, <4>1 DEF IsFirst
    <3>3. FirstOf(drop', i + 1, list_len) = i + 1
      <4>1. i + 1 \in Nat /\ i + 1 <= list_len
        BY <1>1, <2>1
      <4> QED
        BY <1>1, <3>2, <4>1, FirstUnique
    <3>4. Half(drop', temp_len + 1, i + 1, list_len) = Half(drop, temp_len, i, list_len)
      <4>1. MovedDown(drop, drop', temp_len, i, list_len)
        BY <1>1, <2>1, <2>6 DEF MovedDown
      <4> QED
        BY <1>1, <4>1, HalfStays
    <3> QED
      BY <2>4, <2>5, <2>6, <3>1, <3>3, <3>4
  <2>7. CASE ~(drop[i].r + SPEED < GONE) /\ temp_len' = temp_len
    <3>1. first \in i+1..list_len
      BY <1>1, <2>1, <2>3, <2>7 DEF IsFirst
    <3>2. IsFirst(drop', i + 1, list_len, first)
      BY <1>1, <2>1, <2>3, <3>1 DEF IsFirst
    <3>3. FirstOf(drop', i + 1, list_len) = first
      <4>1. i + 1 \in Nat /\ i + 1 <= list_len
        BY <1>1, <2>1
      <4> QED
        BY <1>1, <3>2, <4>1, FirstUnique
    <3>4. \A k \in first..list_len-1 : drop'[k] = drop[k]
      BY <1>1, <2>1, <3>1
    <3>5. first \in Nat /\ temp_len <= first
      BY <1>1, <3>1
    <3>6. Half(drop', temp_len, first, list_len) = Half(drop, temp_len, first, list_len)
      <4>1. PICK d, e : d = drop /\ e = drop'
        OBVIOUS
      <4>2. (\A k \in 0..temp_len-1 : e[k] = d[k]) /\ (\A k \in first..list_len-1 : e[k] = d[k])
        BY <2>1, <3>4, <4>1
      <4>3. PICK to \in Nat, from \in Nat, len \in Nat : to = temp_len /\ from = first /\ len = list_len
        BY <1>1, <3>5
      <4>4. Half(e, to, from, len) = Half(d, to, from, len)
        <5>1. to <= from /\ (\A k \in 0..to-1 : e[k] = d[k]) /\ (\A k \in from..len-1 : e[k] = d[k])
          BY <3>5, <4>2, <4>3
        <5> QED
          BY <5>1, HalfSame
      <4> QED
        BY <4>1, <4>3, <4>4
    <3> QED
      BY <2>4, <2>5, <2>7, <3>3, <3>6
  <2> QED
    BY <2>1, <2>6, <2>7
<1>9. CASE P!EndUpdate
  <2>1. pc = "loop" /\ pc' = "check" /\ UNCHANGED drop /\ i = list_len /\ list_len' = temp_len
    BY <1>9 DEF P!EndUpdate
  <2>2. FirstOf(drop, i, list_len) = list_len
    <3>1. IsFirst(drop, i, list_len, list_len)
      BY <1>1, <2>1 DEF IsFirst
    <3> QED
      BY <1>1, <3>1, FirstUnique
  <2>3. Listed = Half(drop, temp_len, list_len, list_len)
    BY <1>2, <2>1, <2>2 DEF ListOf
  <2>4. Listed' = Plain(drop, temp_len)
    BY <1>2, <2>1 DEF ListOf
  <2> QED
    BY <1>1, <2>3, <2>4, HalfDone
<1>10. CASE UNCHANGED P!vars
  <2>1. UNCHANGED <<pc, drop, list_len, i, temp_len>>
    BY <1>10 DEF P!vars, P!list
  <2> QED
    BY <1>2, <2>1
<1> QED
  BY <1>3, <1>4, <1>5, <1>6, <1>7, <1>8, <1>9, <1>10 DEF P!Next, P!Main

(* Compacting the array in place implements Drops: the oldest go and all   *)
(* the others grow, at once.                                               *)
THEOREM DropsImplemented == DemosSpec => ImplementsDrops
<1>1. P!Init => DropInv /\ Listed = <<>>
  BY InitDrop, InitSeen
<1> QED
  BY PondOfDemos, <1>1, StepDrop, StepSeen, DropsAre, PTL DEF ImplementsDrops

-----------------------------------------------------------------------------
(* The files of a card.                                                    *)

(* An object is open once at most, and locked while it is.                 *)
OnceHeld == \A f \in Files : held[f] <= 1

IInv == TypeOK /\ HeldIsLocked /\ OnceHeld

(* The arithmetic of SD_Close: unsigned, a negative index is a huge one.    *)
LEMMA NegativeIndex ==
    ASSUME NEW n \in Int, n >= 1, n <= 16383
    PROVE  ((0 - n) % 65536) \div 2 >= 16384
<1>1. (0 - n) % 65536 = 65536 - n
  OBVIOUS
<1>2. (65536 - n) \div 2 >= 16384
  OBVIOUS
<1> QED
  BY <1>1, <1>2

(* The slot that SD_Close unlocks is the first one for the first object and *)
(* outside of the table for any other.                                      *)
LEMMA IndexOut ==
    ASSUME NEW f \in Files, NEW g \in Files, g = Index(f)
    PROVE  f = 0 /\ g = 0
<1>1. SD_MAX_FILES \in Int /\ SD_MAX_FILES <= 16384
  BY FilesAssumption
<1>4. f \in Int /\ 0 <= f /\ f <= 16383 /\ g \in Int /\ 0 <= g /\ g <= 16383
  BY <1>1 DEF Files
<1>2. CASE f = 0
  BY <1>4, <1>2 DEF Index, sizeof_pointer
<1>3. CASE f >= 1
  <2>1. g = ((0 - f) % 65536) \div 2
    BY DEF Index, sizeof_pointer
  <2>2. g >= 16384
    BY <1>3, <1>4, <2>1, NegativeIndex
  <2> QED
    BY <1>4, <2>2
<1> QED
  BY <1>2, <1>3, <1>4

(* No object is held at first.                                             *)
LEMMA InitIInv == Init => IInv
<1> SUFFICES ASSUME Init PROVE IInv
  OBVIOUS
<1>1. TypeOK
  BY DEF Init, TypeOK
<1>2. \A f \in Files : held[f] = 0
  BY DEF Init
<1> QED
  BY <1>1, <1>2 DEF IInv, HeldIsLocked, OnceHeld

(* No open, failed open, close or restart unlocks an object held.          *)
LEMMA StepIInv == IInv /\ [Next]_vars => IInv'
<1> SUFFICES ASSUME IInv, [Next]_vars PROVE IInv'
  OBVIOUS
<1> USE DEF IInv, TypeOK, HeldIsLocked, OnceHeld
<1>1. CASE SD_Initialize
  BY <1>1 DEF SD_Initialize
<1>2. CASE OpenNone
  BY <1>2 DEF OpenNone, vars
<1>3. ASSUME NEW f \in Files, OpenFound(f) PROVE IInv'
  <2>1. held[f] = 0
    BY <1>3 DEF OpenFound, Avail, Free
  <2> QED
    BY <1>3, <2>1 DEF OpenFound
<1>4. ASSUME NEW f \in Files, OpenFails(f) PROVE IInv'
  BY <1>4 DEF OpenFails
<1>5. ASSUME NEW f \in Files, SD_Close(f) PROVE IInv'
  <2>1. TypeOK'
    <3>1. held[f] \in Nat /\ held[f] - 1 \in Nat
      BY <1>5 DEF SD_Close
    <3>2. held' \in [Files -> Nat]
      BY <1>5, <3>1 DEF SD_Close
    <3>3. files_lock' \in [Files -> BOOLEAN]
      BY <1>5, Zenon DEF SD_Close
    <3> QED
      BY <1>5, <3>2, <3>3 DEF SD_Close
  <2>2. ASSUME NEW g \in Files, held'[g] > 0 PROVE files_lock'[g]
    <3>1. held[g] > 0 /\ g # f
      BY <1>5, <2>2 DEF SD_Close
    <3>2. g # Index(f)
      BY <3>1, IndexOut
    <3> QED
      BY <1>5, <3>1, <3>2 DEF SD_Close
  <2>3. OnceHeld'
    BY <1>5 DEF SD_Close
  <2> QED
    BY <2>1, <2>2, <2>3
<1>6. ASSUME NEW f \in Files, FILEIO_Close(f) PROVE IInv'
  BY <1>6 DEF FILEIO_Close
<1>7. CASE UNCHANGED vars
  BY <1>7 DEF vars
<1> QED
  BY <1>1, <1>2, <1>3, <1>4, <1>5, <1>6, <1>7 DEF Next, SD_Open

(* The type invariant of MicroSD holds in every behaviour.                  *)
THEOREM TypeCorrect == Spec => []TypeOK
<1>1. IInv => TypeOK
  BY DEF IInv
<1> QED
  BY InitIInv, StepIInv, <1>1, PTL DEF Spec

(* No open file's object is ever unlocked: SD_Close frees its own object or *)
(* none, however many there are.                                            *)
THEOREM HeldStaysLocked == Spec => []HeldIsLocked
<1>1. IInv => HeldIsLocked
  BY DEF IInv
<1> QED
  BY InitIInv, StepIInv, <1>1, PTL DEF Spec

(* SD_Open never gives an object that is open.                              *)
THEOREM NotOpenedTwice == Spec => OpenedWasClosed
<1>1. IInv /\ [Next]_vars
        => [\A f \in Files : OpenFound(f) => held[f] = 0]_vars
  <2> SUFFICES ASSUME IInv, NEW f \in Files, OpenFound(f) PROVE held[f] = 0
    OBVIOUS
  <2> QED
    BY DEF IInv, TypeOK, HeldIsLocked, OpenFound, Avail, Free
<1> QED
  BY InitIInv, StepIInv, <1>1, PTL DEF Spec, OpenedWasClosed
=============================================================================
