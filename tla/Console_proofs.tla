--------------------------- MODULE Console_proofs ---------------------------
(***************************************************************************)
(* Proofs about Console, for every size of the screen and of a character.  *)
(***************************************************************************)
EXTENDS Console, TLAPS

\* Strips of a line of cells.
LineStrips == Height * Cols

-----------------------------------------------------------------------------
(***************************************************************************)
(* Arithmetic of addresses.                                                *)
(***************************************************************************)

LEMMA SizeFacts ==
  /\ LineStrips \in Nat /\ LineStrips >= Cols
  /\ Strips \in Nat /\ Strips >= LineStrips /\ Strips = Rows * LineStrips
  /\ Cols \in Nat /\ Cols >= 1 /\ Rows \in Nat /\ Rows >= 1 /\ Height \in Nat /\ Height >= 1
  /\ Word \in Nat /\ Word > 192 * (Strips + 2)
<1>1. /\ Cols \in Nat /\ Cols >= 1 /\ Rows \in Nat /\ Rows >= 1 /\ Height \in Nat /\ Height >= 1
  BY ConsoleAssumption
<1>2. LineStrips \in Nat /\ LineStrips >= Cols
  <2>1. \A a, b \in Nat : a >= 1 => a * b \in Nat /\ a * b >= b  OBVIOUS
  <2> QED BY <1>1, <2>1 DEF LineStrips
<1>3. Strips = Rows * LineStrips
  <2>1. \A a, b, c \in Nat : a * b * c = a * (b * c)  OBVIOUS
  <2> QED BY <1>1, <2>1 DEF LineStrips, Strips
<1>4. Strips \in Nat /\ Strips >= LineStrips
  <2>1. \A a, b \in Nat : a >= 1 => a * b \in Nat /\ a * b >= b  OBVIOUS
  <2> QED BY <1>1, <1>2, <1>3, <2>1
<1> QED BY <1>1, <1>2, <1>3, <1>4, ConsoleAssumption DEF Stride

\* Row h of pixels of a character in line y starts here.
LEMMA RowStart ==
  ASSUME NEW y \in Nat, NEW h \in 0 .. Height - 1
  PROVE  /\ (y * Height + h) * Cols = y * LineStrips + h * Cols
         /\ h * Cols \in Nat /\ h * Cols <= LineStrips - Cols
         /\ y * LineStrips \in Nat
<1>1. /\ Cols \in Nat /\ Height \in Nat /\ h \in Nat  BY SizeFacts
<1>2. \A a, b, c, d \in Nat : (a * b + c) * d = a * (b * d) + c * d  OBVIOUS
<1>3. \A a, b, d \in Nat : a <= b - 1 => a * d \in Nat /\ a * d <= b * d - d
  <2> SUFFICES ASSUME NEW a \in Nat, NEW b \in Nat, NEW d \in Nat, a <= b - 1
               PROVE  a * d \in Nat /\ a * d <= b * d - d
    OBVIOUS
  <2>1. PICK k \in Nat : b = a + 1 + k
    <3>1. b - a - 1 \in Nat /\ b = a + 1 + (b - a - 1)  OBVIOUS
    <3> QED BY <3>1
  <2>2. b * d = a * d + d + k * d  BY <2>1
  <2>3. a * d \in Nat /\ k * d \in Nat /\ b * d \in Nat  BY <2>1
  <2> QED BY <2>2, <2>3
<1>4. \A a, b \in Nat : a * b \in Nat  OBVIOUS
<1> QED BY <1>1, <1>2, <1>3, <1>4, SizeFacts DEF LineStrips

\* A column on the screen is no wrap.
LEMMA SmallColumn ==
  ASSUME NEW x \in 0 .. Cols
  PROVE  ((x * Stride) % Word) \div Stride = x
<1>1. x * 192 \in Nat /\ x * 192 < Word
  BY SizeFacts
<1>2. (x * 192) % Word = x * 192
  BY <1>1, SizeFacts
<1>3. (x * 192) \div 192 = x
  BY SizeFacts
<1> QED BY <1>2, <1>3 DEF Stride

LEMMA AnyColumn ==
  ASSUME NEW x \in Nat
  PROVE  ((x * Stride) % Word) \div Stride \in Nat
<1>1. x * 192 \in Nat  OBVIOUS
<1>2. (x * 192) % Word \in Nat  BY <1>1, SizeFacts
<1>3. \A a \in Nat : a \div 192 \in Nat  OBVIOUS
<1> QED BY <1>2, <1>3 DEF Stride

LEMMA AddressFacts ==
  ASSUME NEW x \in Nat, NEW y \in Nat, NEW h \in 0 .. Height - 1
  PROVE  /\ Address(x, y, h) \in Nat /\ Address(x, y, h) >= y * LineStrips
         /\ x <= Cols => Address(x, y, h) = y * LineStrips + h * Cols + x
<1>1. Address(x, y, h) = y * LineStrips + h * Cols + ((x * Stride) % Word) \div Stride
  BY RowStart DEF Address
<1>2. ((x * Stride) % Word) \div Stride \in Nat  BY AnyColumn
<1>3. x <= Cols => ((x * Stride) % Word) \div Stride = x
  BY SmallColumn, SizeFacts
<1> HIDE DEF Address
<1> QED BY <1>1, <1>2, <1>3, RowStart

\* Row 0 of line y starts where the rows of the lines above end.
LEMMA LinesApart ==
  ASSUME NEW r \in Nat, NEW y \in Nat, r < y
  PROVE  /\ r * LineStrips \in Nat /\ y * LineStrips \in Nat
         /\ r * LineStrips + LineStrips <= y * LineStrips
<1>1. LineStrips \in Nat  BY SizeFacts
<1>2. \A a, b, d \in Nat : a < b => /\ a * d \in Nat /\ b * d \in Nat
                                    /\ a * d + d <= b * d
  <2> SUFFICES ASSUME NEW a \in Nat, NEW b \in Nat, NEW d \in Nat, a < b
               PROVE  a * d \in Nat /\ b * d \in Nat /\ a * d + d <= b * d
    OBVIOUS
  <2>1. PICK k \in Nat : b = a + 1 + k
    <3>1. b - a - 1 \in Nat /\ b = a + 1 + (b - a - 1)  OBVIOUS
    <3> QED BY <3>1
  <2>2. b * d = a * d + d + k * d  BY <2>1
  <2>3. a * d \in Nat /\ k * d \in Nat /\ b * d \in Nat  BY <2>1
  <2> QED BY <2>2, <2>3
<1> HIDE DEF LineStrips
<1> QED BY <1>1, <1>2

\* A cell of the screen lies in the framebuffer.
LEMMA CellInside ==
  ASSUME NEW x \in 0 .. Cols - 1, NEW y \in 0 .. Rows - 1
  PROVE  Cell(x, y) \subseteq 0 .. Strips - 1
<1> SUFFICES ASSUME NEW h \in 0 .. Height - 1
             PROVE  Address(x, y, h) \in 0 .. Strips - 1
  BY DEF Cell
<1>1. x \in Nat /\ x <= Cols /\ y \in Nat  BY SizeFacts
<1>2. /\ Address(x, y, h) \in Nat
      /\ Address(x, y, h) = y * LineStrips + h * Cols + x
  BY <1>1, AddressFacts
<1>3. h * Cols \in Nat /\ h * Cols <= LineStrips - Cols
  BY <1>1, RowStart
<1>4. y * LineStrips \in Nat /\ y * LineStrips + LineStrips <= Strips
  BY <1>1, LinesApart, SizeFacts
<1> HIDE DEF LineStrips, Strips, Address
<1> QED BY <1>2, <1>3, <1>4, SizeFacts

-----------------------------------------------------------------------------
(***************************************************************************)
(* The cursor.                                                             *)
(***************************************************************************)

\* The inductive invariant: the cursor is on the screen, and while the
\* printing is tidy every pixel so far was.
IInv == TypeOK /\ CursorOnScreen /\ TidyStaysInside

LEMMA InitInv == Init => IInv
<1> SUFFICES ASSUME Init PROVE IInv  OBVIOUS
<1>1. TypeOK
  <2>1. fb \in [0 .. Strips - 1 -> Ink]
    <3>1. White \in Ink  BY DEF Ink
    <3> HIDE DEF White, Ink, Strips
    <3> QED BY <3>1 DEF Init
  <2>2. 0 \in 0 .. Word - 1  BY SizeFacts
  <2>3. chars_x = 0 /\ chars_y = 0 /\ outside = FALSE /\ tidy = TRUE  BY DEF Init
  <2> QED BY <2>1, <2>2, <2>3 DEF TypeOK
<1>2. chars_x = 0 /\ chars_y = 0 /\ outside = FALSE
  BY DEF Init
<1>3. CursorOnScreen
  BY <1>2, SizeFacts DEF CursorOnScreen
<1>4. TidyStaysInside
  BY <1>2 DEF TidyStaysInside
<1> QED BY <1>1, <1>3, <1>4 DEF IInv

\* The row after the scroll, which always leaves one.
LEMMA RowOnScreen ==
  ASSUME CursorOnScreen
  PROVE  Row \in 0 .. Rows - 1
BY SizeFacts DEF CursorOnScreen, Row

LEMMA ScreenType ==
  ASSUME fb \in [0 .. Strips - 1 -> Ink]
  PROVE  Screen \in [0 .. Strips - 1 -> Ink]
<1>1. \A f \in [0 .. Strips - 1 -> Ink] : Scrolled(f) \in [0 .. Strips - 1 -> Ink]
  <2> SUFFICES ASSUME NEW f \in [0 .. Strips - 1 -> Ink], NEW a \in 0 .. Strips - 1
               PROVE  (IF a < Strips - Height * Cols THEN f[a + Height * Cols] ELSE White) \in Ink
    BY DEF Scrolled
  <2>1. White \in Ink  BY DEF Ink
  <2>2. Height * Cols \in Nat /\ Strips \in Nat  BY SizeFacts DEF LineStrips
  <2> HIDE DEF Strips, Ink, White
  <2>3. a < Strips - Height * Cols => a + Height * Cols \in 0 .. Strips - 1
    <3> DEFINE L == Height * Cols
    <3>1. L \in Nat  BY <2>2
    <3> HIDE DEF L
    <3>2. a < Strips - L => a + L \in 0 .. Strips - 1  BY <3>1, <2>2
    <3> QED BY <3>2 DEF L
  <2> QED BY <2>1, <2>3
<1> QED BY <1>1 DEF Screen

LEMMA DrawnType ==
  ASSUME NEW f \in [0 .. Strips - 1 -> Ink], NEW g \in Glyphs \cup {Blank}, NEW x, NEW y
  PROVE  Drawn(f, g, x, y) \in [0 .. Strips - 1 -> Ink]
<1>1. \A h \in 0 .. Height - 1 : Slice(g, h) \in Ink
  BY DEF Slice, Ink, White
<1>2. \A a : (\E h \in 0 .. Height - 1 : a = Address(x, y, h))
             => (CHOOSE h \in 0 .. Height - 1 : a = Address(x, y, h)) \in 0 .. Height - 1
  OBVIOUS
<1> HIDE DEF Ink, Slice, Address, Strips
<1> QED BY <1>1, <1>2 DEF Drawn

LEMMA DrawKeepsType ==
  ASSUME TypeOK, NEW g \in Glyphs \cup {Blank}, NEW x, Draw(g, x)
  PROVE  fb' \in [0 .. Strips - 1 -> Ink] /\ outside' \in BOOLEAN
<1>1. Screen \in [0 .. Strips - 1 -> Ink]  BY ScreenType DEF TypeOK
<1>2. fb' \in [0 .. Strips - 1 -> Ink]
  BY <1>1, DrawnType DEF Draw
<1>3. outside' \in BOOLEAN
  BY DEF Draw, TypeOK
<1> QED BY <1>2, <1>3

\* Where a character leaves the cursor, and where it was drawn.
LEMMA Columns ==
  ASSUME CursorOnScreen
  PROVE  /\ (chars_x + 1) % Word = chars_x + 1
         /\ chars_x > 0 => Left(chars_x) = chars_x - 1
         /\ chars_x = 0 => Left(chars_x) = Word - 1
         /\ Left(chars_x) \in 0 .. Word - 1
         /\ Word - 1 > Cols
         /\ 0 \in 0 .. Word - 1
<1>1. chars_x \in Nat /\ chars_x <= Cols  BY SizeFacts DEF CursorOnScreen
<1>2. Word \in Nat /\ Word > Cols + 2  BY SizeFacts
<1>3. (chars_x + 1) % Word = chars_x + 1  BY <1>1, <1>2, SizeFacts
<1>4. chars_x > 0 => (chars_x - 1) % Word = chars_x - 1  BY <1>1, <1>2, SizeFacts
<1>5. (0 - 1) % Word = Word - 1  BY <1>2, SizeFacts
<1> QED BY <1>1, <1>2, <1>3, <1>4, <1>5, SizeFacts DEF Left

LEMMA MoveKeepsCursor ==
  ASSUME CursorOnScreen, NEW x \in Nat, MoveTo(x)
  PROVE  /\ chars_x' \in 0 .. Cols /\ chars_y' \in 0 .. Rows
         /\ chars_x' \in 0 .. Word - 1 /\ chars_y' \in 0 .. Word - 1
<1>1. Row \in 0 .. Rows - 1  BY RowOnScreen
<1>2. Word > Cols /\ Word > Rows /\ Word \in Nat
  <2>1. Strips >= Rows
    <3>1. \A a, b \in Nat : b >= 1 => a * b >= a  OBVIOUS
    <3>2. LineStrips >= 1 /\ LineStrips \in Nat  BY SizeFacts
    <3> HIDE DEF LineStrips
    <3> QED BY <3>1, <3>2, SizeFacts
  <2> QED BY <2>1, SizeFacts
<1>3. chars_x' \in 0 .. Cols /\ chars_y' \in 0 .. Rows
  BY <1>1, SizeFacts DEF MoveTo
<1> QED BY <1>2, <1>3, SizeFacts

\* A character drawn on the screen stays in the framebuffer.
LEMMA DrawInside ==
  ASSUME CursorOnScreen, TidyStaysInside, NEW g, NEW x \in 0 .. Cols - 1, Draw(g, x), tidy
  PROVE  ~ outside'
<1>1. Cell(x, Row) \subseteq 0 .. Strips - 1
  BY RowOnScreen, CellInside
<1> QED BY <1>1 DEF Draw, TidyStaysInside

LEMMA PutCharInv ==
  ASSUME IInv, NEW g \in Glyphs \cup {Blank}, PutChar(g)
  PROVE  IInv'
<1> USE DEF IInv
<1>1. chars_x \in Nat /\ chars_x <= Cols /\ Cols \in Nat
  BY SizeFacts DEF CursorOnScreen
<1>2. MoveTo(chars_x + 1)
  BY Columns DEF PutChar
<1>3. fb' \in [0 .. Strips - 1 -> Ink] /\ outside' \in BOOLEAN
  BY DrawKeepsType DEF PutChar
<1>4. /\ chars_x' \in 0 .. Cols /\ chars_y' \in 0 .. Rows
      /\ chars_x' \in 0 .. Word - 1 /\ chars_y' \in 0 .. Word - 1
  BY <1>1, <1>2, MoveKeepsCursor
<1>5. tidy' = (tidy /\ chars_x < Cols) /\ tidy' \in BOOLEAN
  BY DEF PutChar, TypeOK
<1>6. tidy' => ~ outside'
  <2> SUFFICES ASSUME tidy' PROVE ~ outside'  OBVIOUS
  <2>1. tidy /\ chars_x < Cols  BY <1>5
  <2>3. chars_x \in 0 .. Cols - 1  BY <1>1, <2>1
  <2>2. Draw(g, chars_x)  BY DEF PutChar
  <2> QED BY <2>1, <2>2, <2>3, DrawInside
<1>7. CursorOnScreen' BY <1>4 DEF CursorOnScreen
<1>8. TidyStaysInside' BY <1>6 DEF TidyStaysInside
<1>9. TypeOK' BY <1>3, <1>4, <1>5 DEF TypeOK
<1> QED BY <1>7, <1>8, <1>9

LEMMA EraseInv ==
  ASSUME IInv, Erase
  PROVE  IInv'
<1> USE DEF IInv
<1>1. chars_x \in Nat /\ chars_x <= Cols /\ Cols \in Nat
  BY SizeFacts DEF CursorOnScreen
<1>2. Left(chars_x) \in Nat /\ MoveTo(Left(chars_x)) /\ Draw(Blank, Left(chars_x))
  BY Columns, SizeFacts DEF Erase
<1>3. fb' \in [0 .. Strips - 1 -> Ink] /\ outside' \in BOOLEAN
  BY <1>2, DrawKeepsType
<1>4. /\ chars_x' \in 0 .. Cols /\ chars_y' \in 0 .. Rows
      /\ chars_x' \in 0 .. Word - 1 /\ chars_y' \in 0 .. Word - 1
  BY <1>2, MoveKeepsCursor
<1>5. tidy' = (tidy /\ chars_x > 0) /\ tidy' \in BOOLEAN
  BY DEF Erase, TypeOK
<1>6. tidy' => ~ outside'
  <2> SUFFICES ASSUME tidy' PROVE ~ outside'  OBVIOUS
  <2>1. tidy /\ chars_x > 0  BY <1>5
  <2>2. Left(chars_x) = chars_x - 1  BY <2>1, Columns
  <2>3. Left(chars_x) \in 0 .. Cols - 1  BY <1>1, <2>1, <2>2
  <2> QED BY <1>2, <2>1, <2>3, DrawInside
<1>7. CursorOnScreen' BY <1>4 DEF CursorOnScreen
<1>8. TidyStaysInside' BY <1>6 DEF TidyStaysInside
<1>9. TypeOK' BY <1>3, <1>4, <1>5 DEF TypeOK
<1> QED BY <1>7, <1>8, <1>9

LEMMA NewLineInv ==
  ASSUME IInv, NewLine
  PROVE  IInv'
<1> USE DEF IInv
<1>1. fb' \in [0 .. Strips - 1 -> Ink]
  BY ScreenType DEF NewLine, TypeOK
<1>2. Row \in 0 .. Rows - 1  BY RowOnScreen
<1>3. MoveTo(Word - 1)
  BY Columns DEF NewLine, MoveTo
<1>4. /\ chars_x' \in 0 .. Cols /\ chars_y' \in 0 .. Rows
      /\ chars_x' \in 0 .. Word - 1 /\ chars_y' \in 0 .. Word - 1
  BY <1>3, MoveKeepsCursor, SizeFacts
<1>5. UNCHANGED <<outside, tidy>>  BY DEF NewLine
<1>6. CursorOnScreen' BY <1>4 DEF CursorOnScreen
<1>7. TidyStaysInside' BY <1>5 DEF TidyStaysInside
<1>8. TypeOK' BY <1>1, <1>4, <1>5 DEF TypeOK
<1> QED BY <1>6, <1>7, <1>8

LEMMA NextInv == IInv /\ [Next]_vars => IInv'
<1> SUFFICES ASSUME IInv, [Next]_vars PROVE IInv'  OBVIOUS
<1>1. ASSUME NEW g \in Glyphs \cup {Blank}, PutChar(g) PROVE IInv'
  BY <1>1, PutCharInv
<1>2. CASE Erase  BY <1>2, EraseInv
<1>3. CASE NewLine  BY <1>3, NewLineInv
<1>4. CASE UNCHANGED vars
  BY <1>4 DEF vars, IInv, TypeOK, CursorOnScreen, TidyStaysInside
<1> QED BY <1>1, <1>2, <1>3, <1>4 DEF Next

THEOREM Invariance == Spec => []IInv
<1>1. Init => IInv  BY InitInv
<1>2. IInv /\ [Next]_vars => IInv'  BY NextInv
<1> QED BY <1>1, <1>2, PTL DEF Spec

\* The cursor keeps its type, and the framebuffer holds nothing but whole rows
\* of glyphs and white, for every size of the screen.
THEOREM TypeCorrect == Spec => []TypeOK
<1>1. IInv => TypeOK  BY DEF IInv
<1> QED BY <1>1, Invariance, PTL

\* The cursor never leaves the screen by more than one column and one row,
\* whatever is printed or erased.
THEOREM CursorStays == Spec => []CursorOnScreen
<1>1. IInv => CursorOnScreen  BY DEF IInv
<1> QED BY <1>1, Invariance, PTL

\* No pixel is written outside the framebuffer before a character too many on a
\* line or an erase in column 0.
THEOREM TidyInside == Spec => []TidyStaysInside
<1>1. IInv => TidyStaysInside  BY DEF IInv
<1> QED BY <1>1, Invariance, PTL

-----------------------------------------------------------------------------
(***************************************************************************)
(* What is above the cursor.                                               *)
(***************************************************************************)

\* A character drawn in line y leaves the lines above alone, even if its column
\* is far off the screen.
LEMMA DrawnAbove ==
  ASSUME NEW f, NEW g, NEW x \in Nat, NEW y \in 0 .. Rows - 1,
         NEW r \in Nat, r < y
  PROVE  LineOf(Drawn(f, g, x, y), r) = LineOf(f, r)
<1> SUFFICES ASSUME NEW a \in 0 .. LineStrips - 1
             PROVE  Drawn(f, g, x, y)[r * LineStrips + a] = f[r * LineStrips + a]
  <2>1. r * Height * Cols = r * LineStrips
    <3>1. \A i, j, k \in Nat : i * j * k = i * (j * k)  OBVIOUS
    <3> QED BY <3>1, SizeFacts DEF LineStrips
  <2> QED BY <2>1 DEF LineOf, LineStrips
<1>1. /\ r * LineStrips \in Nat /\ y * LineStrips \in Nat
      /\ r * LineStrips + LineStrips <= y * LineStrips
      /\ y * LineStrips + LineStrips <= Strips
  <2>1. y \in Nat /\ y < Rows  BY SizeFacts
  <2> QED BY <2>1, LinesApart, SizeFacts
<1>2. \A h \in 0 .. Height - 1 : Address(x, y, h) \in Nat /\ Address(x, y, h) >= y * LineStrips
  <2> SUFFICES ASSUME NEW h \in 0 .. Height - 1
               PROVE  Address(x, y, h) \in Nat /\ Address(x, y, h) >= y * LineStrips
    OBVIOUS
  <2>1. y \in Nat  BY SizeFacts
  <2> HIDE DEF Address, LineStrips
  <2> QED BY <2>1, AddressFacts
<1> HIDE DEF LineStrips, Strips, Address
<1>3. r * LineStrips + a \in 0 .. Strips - 1
  BY <1>1, SizeFacts
<1>4. \A h \in 0 .. Height - 1 : r * LineStrips + a # Address(x, y, h)
  BY <1>1, <1>2, SizeFacts
<1> QED BY <1>3, <1>4 DEF Drawn

LEMMA NextKeepsAbove ==
  IInv /\ Next => \A r \in 0 .. Rows - 1 : r < Row => LineOf(fb', r) = LineOf(Screen, r)
<1> SUFFICES ASSUME IInv, Next, NEW r \in 0 .. Rows - 1, r < Row
             PROVE  LineOf(fb', r) = LineOf(Screen, r)
  OBVIOUS
<1> USE DEF IInv
<1>1. Screen \in [0 .. Strips - 1 -> Ink]  BY ScreenType DEF TypeOK
<1>2. Row \in 0 .. Rows - 1 /\ r \in Nat  BY RowOnScreen, SizeFacts
<1>3. ASSUME NEW g, NEW x \in Nat, Draw(g, x) PROVE LineOf(fb', r) = LineOf(Screen, r)
  <2>1. fb' = Drawn(Screen, g, x, Row)  BY <1>3 DEF Draw
  <2> QED BY <1>1, <1>2, <2>1, DrawnAbove
<1>4. ASSUME NEW g \in Glyphs \cup {Blank}, PutChar(g) PROVE LineOf(fb', r) = LineOf(Screen, r)
  BY <1>3, <1>4, SizeFacts DEF PutChar, CursorOnScreen
<1>5. CASE Erase
  <2>1. Left(chars_x) \in Nat /\ Draw(Blank, Left(chars_x))
    BY <1>5, Columns, SizeFacts DEF Erase
  <2> QED BY <1>3, <2>1
<1>6. CASE NewLine
  BY <1>6 DEF NewLine
<1> QED BY <1>4, <1>5, <1>6 DEF Next

\* What is printed stays until it scrolls off: no character changes a line above
\* the cursor's, whatever the size of the screen.
THEOREM AboveKept == Spec => LinesAboveKept
<1>1. IInv /\ [Next]_vars
      => [\A r \in 0 .. Rows - 1 : r < Row => LineOf(fb', r) = LineOf(Screen, r)]_vars
  BY NextKeepsAbove
<1> QED BY <1>1, Invariance, PTL DEF Spec, LinesAboveKept

-----------------------------------------------------------------------------
(***************************************************************************)
(* The screen as a page of characters.                                     *)
(***************************************************************************)

Chars == Glyphs \cup {Blank}

\* Strip h of the cell in column c of line r.
Strip(r, c, h) == (r * Height + h) * Cols + c

\* The cell shows g.
Shows(f, r, c, g) == \A h \in 0 .. Height - 1 : f[Strip(r, c, h)] = Slice(g, h)

LEMMA StripFacts ==
  ASSUME NEW r \in 0 .. Rows - 1, NEW c \in 0 .. Cols - 1, NEW h \in 0 .. Height - 1
  PROVE  /\ Strip(r, c, h) \in 0 .. Strips - 1
         /\ Strip(r, c, h) = r * LineStrips + h * Cols + c
         /\ Strip(r, c, h) = Address(c, r, h)
<1>1. r \in Nat /\ c \in Nat /\ c <= Cols  BY SizeFacts
<1>2. Strip(r, c, h) = r * LineStrips + h * Cols + c
  BY <1>1, RowStart, SizeFacts DEF Strip
<1>3. Address(c, r, h) = r * LineStrips + h * Cols + c
  BY <1>1, AddressFacts
<1>4. Address(c, r, h) \in 0 .. Strips - 1
  BY CellInside DEF Cell
<1> QED BY <1>2, <1>3, <1>4

\* Quotient and remainder are unique.
LEMMA OnePlace ==
  ASSUME NEW a \in Nat, NEW b \in Nat, NEW d \in Nat, NEW c \in 0 .. d - 1, NEW e \in 0 .. d - 1,
         a * d + c = b * d + e
  PROVE  a = b /\ c = e
<1>1. ASSUME NEW i \in Nat, NEW j \in Nat, i < j
      PROVE  i * d \in Nat /\ j * d \in Nat /\ i * d + d <= j * d
  <2>1. PICK k \in Nat : j = i + 1 + k
    <3>1. j - i - 1 \in Nat /\ j = i + 1 + (j - i - 1)  BY <1>1
    <3> QED BY <3>1
  <2>2. j * d = i * d + d + k * d  BY <2>1
  <2>3. i * d \in Nat /\ k * d \in Nat /\ j * d \in Nat  BY <2>1
  <2> QED BY <2>2, <2>3
<1>2. ~ (a < b)
  <2> SUFFICES ASSUME a < b PROVE FALSE  OBVIOUS
  <2>1. a * d \in Nat /\ b * d \in Nat /\ a * d + d <= b * d  BY <1>1
  <2> DEFINE p == a * d   q == b * d
  <2>2. p \in Nat /\ q \in Nat /\ p + d <= q /\ p + c = q + e  BY <2>1
  <2> HIDE DEF p, q
  <2> QED BY <2>2
<1>3. ~ (b < a)
  <2> SUFFICES ASSUME b < a PROVE FALSE  OBVIOUS
  <2>1. b * d \in Nat /\ a * d \in Nat /\ b * d + d <= a * d  BY <1>1
  <2> DEFINE p == a * d   q == b * d
  <2>2. p \in Nat /\ q \in Nat /\ q + d <= p /\ p + c = q + e  BY <2>1
  <2> HIDE DEF p, q
  <2> QED BY <2>2
<1>4. a = b  BY <1>2, <1>3
<1>5. c = e
  <2> DEFINE p == a * d
  <2>1. p \in Nat /\ p + c = p + e  BY <1>4
  <2> HIDE DEF p
  <2> QED BY <2>1
<1> QED BY <1>4, <1>5

\* No strip belongs to two cells.
LEMMA StripsApart ==
  ASSUME NEW r1 \in 0 .. Rows - 1, NEW c1 \in 0 .. Cols - 1, NEW h1 \in 0 .. Height - 1,
         NEW r2 \in 0 .. Rows - 1, NEW c2 \in 0 .. Cols - 1, NEW h2 \in 0 .. Height - 1,
         Strip(r1, c1, h1) = Strip(r2, c2, h2)
  PROVE  r1 = r2 /\ c1 = c2 /\ h1 = h2
<1>1. /\ r1 \in Nat /\ h1 \in Nat /\ r2 \in Nat /\ h2 \in Nat
      /\ Height \in Nat /\ Cols \in Nat
  BY SizeFacts
<1>2. \A a, b, c \in Nat : a * b + c \in Nat  OBVIOUS
<1>3. r1 * Height + h1 = r2 * Height + h2 /\ c1 = c2
  <2>1. r1 * Height + h1 \in Nat /\ r2 * Height + h2 \in Nat  BY <1>1, <1>2
  <2> QED BY <1>1, <2>1, OnePlace DEF Strip
<1>4. r1 = r2 /\ h1 = h2  BY <1>1, <1>3, OnePlace
<1> QED BY <1>3, <1>4

LEMMA ShowsUnique ==
  ASSUME NEW f, NEW r, NEW c, NEW g1 \in Chars, NEW g2 \in Chars,
         Shows(f, r, c, g1), Shows(f, r, c, g2)
  PROVE  g1 = g2
<1>1. 0 \in 0 .. Height - 1  BY SizeFacts
<1>2. Slice(g1, 0) = Slice(g2, 0)  BY <1>1 DEF Shows
<1>3. Slice(g1, 0) = <<g1, 0>> /\ Slice(g2, 0) = <<g2, 0>>  BY DEF Slice, White
<1> QED BY <1>2, <1>3

\* CellShows, without the choice.
LEMMA CellShowsIs ==
  ASSUME NEW f, NEW r, NEW c
  PROVE  /\ \A g \in Chars : Shows(f, r, c, g) => CellShows(f, r, c) = g
         /\ (\A g \in Chars : ~ Shows(f, r, c, g)) => CellShows(f, r, c) = Smear
<1>1. CellShows(f, r, c) = IF \E g \in Chars : Shows(f, r, c, g)
                           THEN CHOOSE g \in Chars : Shows(f, r, c, g) ELSE Smear
  BY DEF CellShows, Chars, Shows, Strip
<1>2. ASSUME NEW g \in Chars, Shows(f, r, c, g) PROVE CellShows(f, r, c) = g
  <2> DEFINE k == CHOOSE i \in Chars : Shows(f, r, c, i)
  <2>1. k \in Chars /\ Shows(f, r, c, k)  BY <1>2
  <2>2. CellShows(f, r, c) = k  BY <1>1, <1>2
  <2> HIDE DEF k
  <2> QED BY <1>2, <2>1, <2>2, ShowsUnique
<1>3. ASSUME \A g \in Chars : ~ Shows(f, r, c, g) PROVE CellShows(f, r, c) = Smear
  BY <1>1, <1>3
<1> QED BY <1>2, <1>3

\* Two cells with the same strips show the same.
LEMMA SameCell ==
  ASSUME NEW f1, NEW r1, NEW c1, NEW f2, NEW r2, NEW c2,
         \A h \in 0 .. Height - 1 : f1[Strip(r1, c1, h)] = f2[Strip(r2, c2, h)]
  PROVE  CellShows(f1, r1, c1) = CellShows(f2, r2, c2)
<1>1. \A g \in Chars : Shows(f1, r1, c1, g) <=> Shows(f2, r2, c2, g)
  BY DEF Shows
<1> QED BY <1>1, CellShowsIs

\* A character drawn on the screen changes its cell and no other.
LEMMA DrawnStrip ==
  ASSUME NEW f, NEW g \in Chars,
         NEW x \in 0 .. Cols - 1, NEW y \in 0 .. Rows - 1,
         NEW r \in 0 .. Rows - 1, NEW c \in 0 .. Cols - 1, NEW h \in 0 .. Height - 1
  PROVE  /\ r = y /\ c = x => Drawn(f, g, x, y)[Strip(r, c, h)] = Slice(g, h)
         /\ ~ (r = y /\ c = x) => Drawn(f, g, x, y)[Strip(r, c, h)] = f[Strip(r, c, h)]
<1>1. Strip(r, c, h) \in 0 .. Strips - 1  BY StripFacts
<1>2. \A k \in 0 .. Height - 1 : Address(x, y, k) = Strip(y, x, k)  BY StripFacts
<1>3. \A k \in 0 .. Height - 1 : Strip(r, c, h) = Address(x, y, k) => r = y /\ c = x /\ h = k
  BY <1>2, StripsApart
<1>4. r = y /\ c = x => Strip(r, c, h) = Address(x, y, h)  BY <1>2
<1> DEFINE a == Strip(r, c, h)
           at(k) == a = Address(x, y, k)
           k0 == CHOOSE k \in 0 .. Height - 1 : at(k)
<1>5. Drawn(f, g, x, y)[a] = IF \E k \in 0 .. Height - 1 : at(k) THEN Slice(g, k0) ELSE f[a]
  BY <1>1 DEF Drawn
<1>6. CASE r = y /\ c = x
  <2>1. at(h)  BY <1>4, <1>6
  <2>2. k0 \in 0 .. Height - 1 /\ at(k0)
    BY <2>1
  <2> HIDE DEF k0
  <2>3. k0 = h  BY <1>3, <2>2
  <2>4. Drawn(f, g, x, y)[a] = Slice(g, h)  BY <1>5, <2>1, <2>3
  <2> QED BY <1>6, <2>4
<1>7. CASE ~ (r = y /\ c = x)
  <2>1. \A k \in 0 .. Height - 1 : ~ at(k)  BY <1>3, <1>7
  <2> QED BY <1>5, <1>7, <2>1
<1> QED BY <1>6, <1>7

\* d is f with g drawn at (x, y), as far as the cell at (r, c) is concerned.
CellDrawn(d, f, g, x, y, r, c) ==
  \A h \in 0 .. Height - 1 :
    /\ r = y /\ c = x => d[Strip(r, c, h)] = Slice(g, h)
    /\ ~ (r = y /\ c = x) => d[Strip(r, c, h)] = f[Strip(r, c, h)]

LEMMA DrawnCellStrips ==
  ASSUME NEW f, NEW g \in Chars,
         NEW x \in 0 .. Cols - 1, NEW y \in 0 .. Rows - 1,
         NEW r \in 0 .. Rows - 1, NEW c \in 0 .. Cols - 1
  PROVE  CellDrawn(Drawn(f, g, x, y), f, g, x, y, r, c)
<1> SUFFICES ASSUME NEW h \in 0 .. Height - 1
             PROVE  /\ r = y /\ c = x => Drawn(f, g, x, y)[Strip(r, c, h)] = Slice(g, h)
                    /\ ~ (r = y /\ c = x) => Drawn(f, g, x, y)[Strip(r, c, h)] = f[Strip(r, c, h)]
  BY Zenon DEF CellDrawn
<1> QED BY DrawnStrip

LEMMA DrawnCell ==
  ASSUME NEW f, NEW g \in Chars,
         NEW x \in 0 .. Cols - 1, NEW y \in 0 .. Rows - 1,
         NEW r \in 0 .. Rows - 1, NEW c \in 0 .. Cols - 1
  PROVE  CellShows(Drawn(f, g, x, y), r, c)
           = IF r = y /\ c = x THEN g ELSE CellShows(f, r, c)
<1> DEFINE d == Drawn(f, g, x, y)
<1>0. ASSUME NEW h \in 0 .. Height - 1
      PROVE  /\ r = y /\ c = x => d[Strip(r, c, h)] = Slice(g, h)
             /\ ~ (r = y /\ c = x) => d[Strip(r, c, h)] = f[Strip(r, c, h)]
  BY DrawnCellStrips DEF CellDrawn
<1> HIDE DEF d
<1>1. ASSUME r = y, c = x PROVE CellShows(d, r, c) = g
  <2>1. \A h \in 0 .. Height - 1 : d[Strip(r, c, h)] = Slice(g, h)  BY <1>0, <1>1
  <2>2. Shows(d, r, c, g)  BY <2>1 DEF Shows
  <2> QED BY <2>2, CellShowsIs
<1>2. ASSUME ~ (r = y /\ c = x) PROVE CellShows(d, r, c) = CellShows(f, r, c)
  <2>1. \A h \in 0 .. Height - 1 : d[Strip(r, c, h)] = f[Strip(r, c, h)]  BY <1>0, <1>2
  <2>2. \A k \in Chars : Shows(d, r, c, k) <=> Shows(f, r, c, k)  BY <2>1 DEF Shows
  <2> QED BY <2>2, CellShowsIs
<1>3. CellShows(d, r, c) = IF r = y /\ c = x THEN g ELSE CellShows(f, r, c)
  BY <1>1, <1>2
<1> QED BY <1>3 DEF d

\* After a scroll each line shows what the next one did, and the last one is
\* blank.
LEMMA ScrolledStrip ==
  ASSUME NEW f, NEW r \in 0 .. Rows - 1, NEW c \in 0 .. Cols - 1, NEW h \in 0 .. Height - 1
  PROVE  Scrolled(f)[Strip(r, c, h)]
           = IF r < Rows - 1 THEN f[Strip(r + 1, c, h)] ELSE White
<1> DEFINE a == Strip(r, c, h)
<1>1. a \in 0 .. Strips - 1 /\ a = r * LineStrips + h * Cols + c  BY StripFacts
<1>2. r \in Nat /\ h * Cols \in Nat /\ h * Cols <= LineStrips - Cols
  BY RowStart, SizeFacts
<1>3. h * Cols + c < LineStrips  BY <1>2, SizeFacts
<1>4. Scrolled(f)[a] = IF a < Strips - LineStrips THEN f[a + LineStrips] ELSE White
  BY <1>1 DEF Scrolled, LineStrips
<1>5. CASE r < Rows - 1
  <2>1. r + 1 \in 0 .. Rows - 1  BY <1>5, SizeFacts
  <2>2. Strip(r + 1, c, h) = (r + 1) * LineStrips + h * Cols + c  BY <2>1, StripFacts
  <2>3. (r + 1) * LineStrips = r * LineStrips + LineStrips
    <3>1. \A i, j \in Nat : (i + 1) * j = i * j + j  OBVIOUS
    <3> QED BY <1>2, <3>1, SizeFacts
  <2>4. r * LineStrips \in Nat /\ (r + 1) * LineStrips + LineStrips <= Strips
    <3>1. r + 1 \in Nat /\ r + 1 < Rows  BY <2>1, SizeFacts
    <3> QED BY <1>2, <3>1, LinesApart, SizeFacts
  <2> DEFINE p == r * LineStrips   q == h * Cols
  <2> HIDE DEF a, p, q, LineStrips, Strips
  <2>5. /\ p \in Nat /\ q \in Nat /\ q + c < LineStrips /\ p + LineStrips + LineStrips <= Strips
        /\ a = p + q + c /\ Strip(r + 1, c, h) = p + LineStrips + q + c
    BY <1>1, <1>2, <1>3, <2>2, <2>3, <2>4 DEF p, q
  <2>6. a < Strips - LineStrips /\ a + LineStrips = Strip(r + 1, c, h)
    BY <2>5, SizeFacts
  <2> QED BY <1>4, <1>5, <2>6 DEF a
<1>6. CASE ~ (r < Rows - 1)
  <2>1. r + 1 = Rows  BY <1>6, SizeFacts
  <2>2. r * LineStrips + LineStrips = Strips
    <3>1. \A i, j \in Nat : (i + 1) * j = i * j + j  OBVIOUS
    <3> QED BY <1>2, <2>1, <3>1, SizeFacts
  <2> DEFINE p == r * LineStrips   q == h * Cols
  <2>3. p \in Nat
    <3>1. \A i, j \in Nat : i * j \in Nat  OBVIOUS
    <3> QED BY <1>2, <3>1, SizeFacts
  <2> HIDE DEF a, p, q, LineStrips, Strips
  <2>4. p + LineStrips = Strips /\ a = p + q + c /\ q \in Nat
    BY <1>1, <1>2, <2>2 DEF p, q
  <2>5. ~ (a < Strips - LineStrips)  BY <2>3, <2>4, SizeFacts
  <2> QED BY <1>4, <1>6, <2>5 DEF a
<1> QED BY <1>5, <1>6

LEMMA ScrolledCell ==
  ASSUME NEW f, NEW r \in 0 .. Rows - 1, NEW c \in 0 .. Cols - 1
  PROVE  CellShows(Scrolled(f), r, c)
           = IF r < Rows - 1 THEN CellShows(f, r + 1, c) ELSE Blank
<1> DEFINE s == Scrolled(f)
<1>1. \A h \in 0 .. Height - 1 :
        s[Strip(r, c, h)] = IF r < Rows - 1 THEN f[Strip(r + 1, c, h)] ELSE White
  BY ScrolledStrip
<1> HIDE DEF s
<1>2. CASE r < Rows - 1
  <2>1. \A h \in 0 .. Height - 1 : s[Strip(r, c, h)] = f[Strip(r + 1, c, h)]  BY <1>1, <1>2
  <2>2. CellShows(s, r, c) = CellShows(f, r + 1, c)  BY <2>1, SameCell
  <2> QED BY <1>2, <2>2 DEF s
<1>3. CASE ~ (r < Rows - 1)
  <2>1. Shows(s, r, c, Blank)  BY <1>1, <1>3 DEF Shows, Slice
  <2>2. Blank \in Chars  BY DEF Chars
  <2>3. CellShows(s, r, c) = Blank  BY <2>1, <2>2, CellShowsIs
  <2> QED BY <1>3, <2>3 DEF s
<1> QED BY <1>2, <1>3

\* While it is tidy, the cursor's line is the terminal's, and the next step
\* leaves a scroll to do only after a line at the bottom.
TermLine == IF chars_y >= Rows THEN Rows - 1 ELSE chars_y

LEMMA LineIsRow == CursorOnScreen => TermLine = Row
BY SizeFacts DEF CursorOnScreen, TermLine, Row

\* A character drawn where the cursor stays on the line.
LEMMA DrawnPage ==
  ASSUME CursorOnScreen, NEW g \in Chars, NEW x \in 0 .. Cols - 1, Draw(g, x),
         chars_y' = Row
  PROVE  /\ Page' = [Page EXCEPT ![TermLine][x] = g]
         /\ TermLine' = TermLine
<1>1. Row \in 0 .. Rows - 1 /\ TermLine = Row  BY RowOnScreen, LineIsRow
<1>2. ~ (chars_y' >= Rows)  BY <1>1, SizeFacts
<1>3. TermLine' = TermLine  BY <1>1, <1>2 DEF TermLine
<1>4. Screen' = fb' /\ fb' = Drawn(Screen, g, x, Row)
  BY <1>2 DEF Screen, Draw
<1> DEFINE new == Drawn(Screen, g, x, Row)
<1>5. Page' = [r \in 0 .. Rows - 1 |-> [c \in 0 .. Cols - 1 |-> CellShows(new, r, c)]]
  BY <1>4 DEF Page
<1>6. \A r \in 0 .. Rows - 1 : \A c \in 0 .. Cols - 1 :
        CellShows(new, r, c) = IF r = Row /\ c = x THEN g ELSE CellShows(Screen, r, c)
  BY <1>1, DrawnCell
<1> HIDE DEF new
<1> DEFINE old == [Page EXCEPT ![Row][x] = g]
<1>7. old = [r \in 0 .. Rows - 1 |-> [c \in 0 .. Cols - 1 |->
               IF r = Row /\ c = x THEN g ELSE CellShows(Screen, r, c)]]
  BY <1>1 DEF Page
<1> HIDE DEF old
<1>8. Page' = old  BY <1>5, <1>6, <1>7
<1> QED BY <1>1, <1>3, <1>8 DEF old

LEMMA PutCharShown ==
  ASSUME IInv, NEW g \in Chars, PutChar(g), tidy'
  PROVE  Term!PutChar(g)
<1> USE DEF IInv
<1>1. chars_x \in Nat /\ chars_x <= Cols  BY SizeFacts DEF CursorOnScreen
<1>2. chars_x < Cols  BY DEF PutChar
<1>3. MoveTo(chars_x + 1) /\ Draw(g, chars_x)  BY Columns DEF PutChar
<1>4. chars_x' = chars_x + 1 /\ chars_y' = Row
  BY <1>1, <1>2, <1>3, SizeFacts DEF MoveTo
<1>5. chars_x \in 0 .. Cols - 1  BY <1>1, <1>2, SizeFacts
<1>6. Page' = [Page EXCEPT ![TermLine][chars_x] = g] /\ TermLine' = TermLine
  BY <1>3, <1>4, <1>5, DrawnPage
<1> QED BY <1>2, <1>4, <1>6 DEF Term!PutChar, TermLine

LEMMA EraseShown ==
  ASSUME IInv, Erase, tidy'
  PROVE  Term!Erase
<1> USE DEF IInv
<1>1. chars_x \in Nat /\ chars_x <= Cols  BY SizeFacts DEF CursorOnScreen
<1>2. chars_x > 0  BY DEF Erase
<1>3. MoveTo(chars_x - 1) /\ Draw(Blank, chars_x - 1)  BY <1>2, Columns DEF Erase
<1>4. chars_x' = chars_x - 1 /\ chars_y' = Row
  BY <1>1, <1>2, <1>3, SizeFacts DEF MoveTo
<1>5. chars_x - 1 \in 0 .. Cols - 1  BY <1>1, <1>2, SizeFacts
<1>6. Blank \in Chars  BY DEF Chars
<1>7. Page' = [Page EXCEPT ![TermLine][chars_x - 1] = Blank] /\ TermLine' = TermLine
  BY <1>3, <1>4, <1>5, <1>6, DrawnPage
<1> QED BY <1>2, <1>4, <1>7 DEF Term!Erase, TermLine

LEMMA NewLineShown ==
  ASSUME IInv, NewLine
  PROVE  Term!NewLine
<1> USE DEF IInv
<1>1. Row \in 0 .. Rows - 1 /\ TermLine = Row  BY RowOnScreen, LineIsRow
<1>2. chars_x' = 0 /\ chars_y' = Row + 1 /\ fb' = Screen  BY DEF NewLine
<1>3. CASE Row < Rows - 1
  <2>1. ~ (chars_y' >= Rows)  BY <1>1, <1>2, <1>3, SizeFacts
  <2>2. TermLine' = TermLine + 1  BY <1>1, <1>2, <2>1 DEF TermLine
  <2>3. Screen' = Screen  BY <1>2, <2>1 DEF Screen
  <2>4. Page' = Page  BY <2>3 DEF Page
  <2> QED BY <1>1, <1>2, <1>3, <2>2, <2>4 DEF Term!NewLine, TermLine
<1>4. CASE ~ (Row < Rows - 1)
  <2>1. Row = Rows - 1  BY <1>1, <1>4, SizeFacts
  <2>2. chars_y' >= Rows  BY <1>2, <2>1, SizeFacts
  <2>3. TermLine' = TermLine  BY <1>1, <2>1, <2>2 DEF TermLine
  <2>4. Screen' = Scrolled(Screen)  BY <1>2, <2>2 DEF Screen, Scrolled
  <2> DEFINE s == Screen
             next == [r \in 0 .. Rows - 1 |-> IF r < Rows - 1 THEN Page[r + 1] ELSE Term!BlankLine]
  <2>5. Page' = [r \in 0 .. Rows - 1 |-> [c \in 0 .. Cols - 1 |-> CellShows(Scrolled(s), r, c)]]
    BY <2>4 DEF Page
  <2>6. Page = [r \in 0 .. Rows - 1 |-> [c \in 0 .. Cols - 1 |-> CellShows(s, r, c)]]
    BY DEF Page
  <2>7. \A r \in 0 .. Rows - 1 : \A c \in 0 .. Cols - 1 :
          CellShows(Scrolled(s), r, c) = IF r < Rows - 1 THEN CellShows(s, r + 1, c) ELSE Blank
    BY ScrolledCell
  <2> HIDE DEF s
  <2>8. ASSUME NEW r \in 0 .. Rows - 1
        PROVE  [c \in 0 .. Cols - 1 |-> CellShows(Scrolled(s), r, c)]
                 = IF r < Rows - 1 THEN Page[r + 1] ELSE Term!BlankLine
    <3>1. CASE r < Rows - 1
      <4>1. r + 1 \in 0 .. Rows - 1  BY <3>1, SizeFacts
      <4>2. Page[r + 1] = [c \in 0 .. Cols - 1 |-> CellShows(s, r + 1, c)]  BY <2>6, <4>1
      <4> QED BY <2>7, <3>1, <4>2
    <3>2. CASE ~ (r < Rows - 1)
      <4>1. Term!BlankLine = [c \in 0 .. Cols - 1 |-> Blank]  BY DEF Term!BlankLine
      <4> QED BY <2>7, <3>2, <4>1
    <3> QED BY <3>1, <3>2
  <2>9. Page' = next  BY <2>5, <2>8
  <2> QED BY <1>1, <1>2, <2>1, <2>3, <2>9 DEF Term!NewLine, TermLine
<1> QED BY <1>3, <1>4

LEMMA InitShown == Init => Term!Init
<1> SUFFICES ASSUME Init PROVE Term!Init  OBVIOUS
<1>1. chars_x = 0 /\ chars_y = 0 /\ fb = [a \in 0 .. Strips - 1 |-> White]  BY DEF Init
<1>2. ~ (chars_y >= Rows)  BY <1>1, SizeFacts
<1>3. Screen = fb  BY <1>2 DEF Screen
<1>4. ASSUME NEW r \in 0 .. Rows - 1, NEW c \in 0 .. Cols - 1
      PROVE  CellShows(fb, r, c) = Blank
  <2>1. \A h \in 0 .. Height - 1 : Strip(r, c, h) \in 0 .. Strips - 1  BY StripFacts
  <2>2. Shows(fb, r, c, Blank)  BY <1>1, <2>1 DEF Shows, Slice
  <2> QED BY <2>2, CellShowsIs DEF Chars
<1>5. Page = [r \in 0 .. Rows - 1 |-> [c \in 0 .. Cols - 1 |-> Blank]]
  BY <1>3, <1>4 DEF Page
<1>6. Page = [r \in 0 .. Rows - 1 |-> Term!BlankLine]
  BY <1>5 DEF Term!BlankLine
<1> QED BY <1>1, <1>2, <1>6 DEF Term!Init

LEMMA NextShown == IInv /\ [Next]_vars => [tidy' => Term!Next]_<<Page, Row, chars_x>>
<1> SUFFICES ASSUME IInv, [Next]_vars, tidy'
             PROVE  Term!Next \/ UNCHANGED <<Page, Row, chars_x>>
  OBVIOUS
<1>1. ASSUME NEW g \in Glyphs \cup {Blank}, PutChar(g) PROVE Term!Next
  BY <1>1, PutCharShown DEF Chars, Term!Next
<1>2. CASE Erase  BY <1>2, EraseShown DEF Term!Next
<1>3. CASE NewLine  BY <1>3, NewLineShown DEF Term!Next
<1>4. CASE UNCHANGED vars
  BY <1>4 DEF vars, Page, Row, Screen, Scrolled
<1> QED BY <1>1, <1>2, <1>3, <1>4 DEF Next

\* gpu_putc implements the terminal on every screen as long as nothing is drawn
\* beyond the edges: characters appear where the cursor is, and lines scroll up
\* whole and in order.
THEOREM ImplementsTerminal == Spec => ShowsPage
<1>1. Init => Term!Init  BY InitShown
<1>2. IInv /\ [Next]_vars => [tidy' => Term!Next]_<<Page, Row, chars_x>>  BY NextShown
<1> QED BY <1>1, <1>2, Invariance, PTL DEF Spec, ShowsPage
=============================================================================
