------------------------------ MODULE Terminal ------------------------------
(***************************************************************************)
(* What a text console promises: a page of Rows lines of Cols cells, and a *)
(* place where the next character goes.  A line that starts below the last *)
(* one pushes the page up by one line.                                     *)
(***************************************************************************)
EXTENDS Naturals

CONSTANTS Rows, Cols, Glyphs, Blank

VARIABLES page, line, col

BlankLine == [c \in 0..Cols-1 |-> Blank]

Init ==
  /\ page = [r \in 0..Rows-1 |-> BlankLine]
  /\ line = 0 /\ col = 0

PutChar(g) ==
  /\ col < Cols
  /\ page' = [page EXCEPT ![line][col] = g]
  /\ col' = col + 1
  /\ UNCHANGED line

Erase ==
  /\ col > 0
  /\ page' = [page EXCEPT ![line][col - 1] = Blank]
  /\ col' = col - 1
  /\ UNCHANGED line

NewLine ==
  /\ col' = 0
  /\ \/ line < Rows - 1 /\ line' = line + 1 /\ UNCHANGED page
     \/ /\ line = Rows - 1
        /\ page' = [r \in 0..Rows-1 |->
                      IF r < Rows - 1 THEN page[r + 1] ELSE BlankLine]
        /\ UNCHANGED line

Next == (\E g \in Glyphs \cup {Blank} : PutChar(g)) \/ Erase \/ NewLine

Spec == Init /\ [][Next]_<<page, line, col>>
=============================================================================
