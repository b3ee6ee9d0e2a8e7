------------------------------ MODULE Terminal ------------------------------
(***************************************************************************)
(* What a text screen shows: rows of coloured characters and a cursor.     *)
(* A character goes where the cursor is; a row that is full, or ended,     *)
(* gives way to the next one; below the last row the text moves up.        *)
(***************************************************************************)
EXTENDS Naturals, Sequences

CONSTANTS Rows, Cols, Blank, Cell

VARIABLES rows, row, col     \* row and col of the cursor, from 0

screen == <<rows, row, col>>

BlankRow == [c \in 0 .. Cols - 1 |-> Blank]

ScreenInit ==
    /\ rows = [r \in 1 .. Rows |-> BlankRow]
    /\ row = 0 /\ col = 0

(* The cursor goes to the beginning of the next row of the text.           *)
NewRow(text) ==
    /\ col' = 0
    /\ IF row + 1 < Rows
       THEN row' = row + 1 /\ rows' = text
       ELSE row' = Rows - 1 /\ rows' = Append(Tail(text), BlankRow)

Show(cell) ==
    LET text == [rows EXCEPT ![row + 1][col] = cell]
    IN  IF col + 1 = Cols /\ row + 1 = Rows THEN NewRow(text)
        ELSE /\ rows' = text
             /\ row' = IF col + 1 = Cols THEN row + 1 ELSE row
             /\ col' = (col + 1) % Cols

EndRow == NewRow(rows)

Erase ==
    /\ row' = IF col = 0 THEN row - 1 ELSE row
    /\ col' = IF col = 0 THEN Cols - 1 ELSE col - 1
    /\ rows' = [rows EXCEPT ![row' + 1][col'] = Blank]

ScreenNext ==
    \/ \E cell \in Cell : Show(cell)
    \/ EndRow
    \/ (row # 0 \/ col # 0) /\ Erase

ScreenSpec == ScreenInit /\ [][ScreenNext]_screen
=============================================================================
