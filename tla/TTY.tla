--------------------------------- MODULE TTY ---------------------------------
(***************************************************************************)
(* The text terminal of tty.c, as tty_config.h builds it: it wraps at the  *)
(* right margin, rolls from the last row to the first, and paints the      *)
(* background of what it writes.                                           *)
(***************************************************************************)
EXTENDS Integers

CONSTANTS
    MAX_X, MAX_Y,       \* columns and rows: 32, 16
    TAB,                \* 8
    Chars,              \* printable characters but the space
    Strings             \* lengths of the strings that are centered

ASSUME PageAssumption ==
    /\ MAX_X \in Nat \ {0} /\ MAX_Y \in Nat \ 0..1
    /\ TAB \in Nat \ {0} /\ MAX_X % TAB = 0
    /\ Strings \subseteq Nat

VARIABLES cx, cy, screen

ttyVars == <<cx, cy, screen>>

Columns == 0..MAX_X-1
Rows == 0..MAX_Y-1
Space == " "
Control == {"\\b", "\\t", "\\n", "\\r"}

(* A terminal: its cursor and what its screen shows. *)
Terminal(x, y, page) == [x |-> x, y |-> y, page |-> page]

Blank == [row \in Rows |-> [col \in Columns |-> Space]]

TTY_Init == cx = 0 /\ cy = 0 /\ screen = Blank

-----------------------------------------------------------------------------
(* Slip: nothing rolls the cursor back to the first row.                   *)
SlipDown(t) == [t EXCEPT !.y = @ + 1]

Down(t) == [t EXCEPT !.y = IF @ + 1 >= MAX_Y THEN 0 ELSE @ + 1]

Right(t) ==
    IF t.x + 1 >= MAX_X THEN Down([t EXCEPT !.x = 0]) ELSE [t EXCEPT !.x = @ + 1]

Off(t) == t.x >= MAX_X \/ t.y >= MAX_Y

(* Slip: the character is drawn where the cursor has moved to.             *)
SlipPut(t, c) ==
    IF Off(t) THEN [t EXCEPT !.x = 0, !.y = 0]
    ELSE LET r == Right(t) IN [r EXCEPT !.page[r.y][r.x] = c]

(* What is off the page is clipped, and the cursor goes home.              *)
Put(t, c) ==
    IF Off(t) THEN [t EXCEPT !.x = 0, !.y = 0]
    ELSE Right([t EXCEPT !.page[t.y][t.x] = c])

Puts(t, c, n) ==
    LET done[k \in 0..n] == IF k = 0 THEN t ELSE Put(done[k - 1], c)
    IN  done[n]

Erased(t) ==
    [t EXCEPT !.page[t.y] =
        [col \in Columns |-> IF col >= t.x THEN Space ELSE @[col]]]

Backspace(t) ==
    IF t.x > 0
      THEN [Put([t EXCEPT !.x = @ - 1], Space) EXCEPT !.x = @ - 1]
      ELSE t

TabStop(x) == (x \div TAB + 1) * TAB

Tab(t) == Puts(t, Space, IF t.x < TabStop(t.x) - 1 THEN TabStop(t.x) - 1 - t.x ELSE 0)

Return(t) == [Erased(t) EXCEPT !.x = 0]

NewLine(t) == Return(Down(t))

CharPut(t, c) ==
    CASE c = "\\b" -> Backspace(t)
      [] c = "\\t" -> Tab(t)
      [] c = "\\n" -> NewLine(t)
      [] c = "\\r" -> Return(t)
      [] OTHER -> Put(t, c)

ToEOL(t) == [Puts(t, Space, MAX_X - t.x) EXCEPT !.x = t.x]

(* (_MAX_X - strlen(s))/2 is unsigned. *)
Centered(t, p, n, c) ==
    Puts(Terminal(((MAX_X - n) % 2^16) \div 2, MAX_Y \div 2 - 1 + p, t.page), c, n)

-----------------------------------------------------------------------------
Now == Terminal(cx, cy, screen)

Becomes(t) == cx' = t.x /\ cy' = t.y /\ screen' = t.page

Write(c) == Becomes(CharPut(Now, c))
ClearToEOL == Becomes(ToEOL(Now))
Clear == Becomes(Terminal(0, 0, Blank))
Home == Becomes([Now EXCEPT !.x = 0, !.y = 0])
LineHome == Becomes([Now EXCEPT !.x = 0])
CursorSet(x, y) == Becomes(Terminal(x, y, screen))
CursorLeft == cx > 0 /\ Becomes([Now EXCEPT !.x = @ - 1])
CursorUp == cy > 0 /\ Becomes([Now EXCEPT !.y = @ - 1])
CursorDown == Becomes(Down(Now))
CursorRight == Becomes(Right(Now))

(* Strings are centered in a row of the page. *)
StringCenter ==
    \E p \in -(MAX_Y \div 2 - 1)..MAX_Y - MAX_Y \div 2, n \in Strings, c \in Chars :
        n > 0 /\ Becomes(Centered(Now, p, n, c))

TTYNext ==
    \/ \E c \in Chars \cup Control : Write(c)
    \/ ClearToEOL \/ Clear \/ Home \/ LineHome
    \/ \E x \in Columns, y \in Rows : CursorSet(x, y)
    \/ CursorLeft \/ CursorUp \/ CursorDown \/ CursorRight
    \/ StringCenter

-----------------------------------------------------------------------------
(***************************************************************************)
(* The cursor is always on the page, whatever is written at its corners,   *)
(* and a string too long for its row does not leave it elsewhere.          *)
(***************************************************************************)
OnPage ==
    /\ cx \in Columns /\ cy \in Rows
    /\ screen \in [Rows -> [Columns -> Chars \cup {Space}]]

(***************************************************************************)
(* A character changes nothing on the screen but the row of the cursor, or *)
(* of the next one if it is a new line, however the cursor wraps or rolls. *)
(***************************************************************************)
OtherRowsKept ==
    [][\A c \in Chars \cup Control : Write(c) =>
         \A row \in Rows :
            screen'[row] = screen[row] \/ row = IF c = "\\n" THEN cy' ELSE cy]_ttyVars

-----------------------------------------------------------------------------
(* tty.c:229, "move to next tab position".                                 *)
TabReached == [][Write("\\t") => cx' % TAB = 0]_ttyVars

(* tty.c:87, "return to position".                                         *)
PositionKept == [][ClearToEOL => cx' = cx /\ cy' = cy]_ttyVars
=============================================================================
