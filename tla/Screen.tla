------------------------------- MODULE Screen -------------------------------
(***************************************************************************)
(* Text output, lib/kernel/print.S: put_str and put_char, by which a task  *)
(* prints, and put_char_color, by which the keyboard's handler echoes the  *)
(* character of a key.  All of them work on the video memory, an array of  *)
(* cells, and on the cursor, which is kept by the display controller: a    *)
(* call reads it, writes into the array and sets it again.                 *)
(*                                                                         *)
(* What prints today (system calls, printk in schedule(), the code of the  *)
(* boot) has interrupts off.  memory_thread in main.c, which is not        *)
(* started, would print with interrupts on (IfOn).                         *)
(***************************************************************************)
EXTENDS Naturals, Sequences

CONSTANTS
    Rows, Cols,     \* 25 rows of 80 characters
    Limit,          \* the cells of the video segment, 16 K
    Strings,        \* bound: the strings tasks print, sequences of characters
    Keys,           \* bound: the characters of keys
    color,          \* of an echo; text has color 7
    IfOn            \* whether a task prints with interrupts on

Cells == Rows * Cols
WordMod == 65536    \* bx has 16 bits

ASSUME ScreenAssumption ==
    /\ {Rows, Cols} \subseteq Nat \ {0}
    /\ Limit \in Cells .. WordMod - 1
    /\ IfOn \in BOOLEAN
    /\ \A s \in Strings : s # <<>> /\ s \in Seq({s[i] : i \in DOMAIN s})

VARIABLES
    video,          \* the video memory: character and color of each cell
    cursor,         \* the controller's cursor location
    pc, str, bx,    \* the task: its next step, what is left of its string,
                    \* its copy of the cursor
    halted          \* a general protection fault was reported

vars == <<video, cursor, pc, str, bx, halted>>

Space == <<" ", 7>>

(* mbr.S has cleared the screen.                                           *)
Init ==
    /\ video = [i \in 0 .. Cells - 1 |-> Space]
    /\ cursor = 0
    /\ pc = "idle" /\ str = <<>> /\ bx = 0
    /\ halted = FALSE

-----------------------------------------------------------------------------
(* .roll_screen: the rows 1 .. move to the rows 0 .., the last one is      *)
(* cleared.  The faulty variant forgets to clear it.                       *)
rolled_uncleared(v) ==
    [i \in 0 .. Cells - 1 |-> IF i < Cells - Cols THEN v[i + Cols] ELSE v[i]]

rolled(v) ==
    [i \in 0 .. Cells - 1 |-> IF i < Cells - Cols THEN v[i + Cols] ELSE Space]

(* .is_line_feed, .is_carriage_return: both go to the next row, and the    *)
(* screen is rolled if there is none.                                      *)
line_feed(v, b) ==
    LET next == b - (b % Cols) + Cols
    IN  IF next < Cells THEN [video |-> v, bx |-> next]
        ELSE [video |-> rolled(v), bx |-> Cells - Cols]

(* .put_other: the test for the end of the screen (faulty: one too late).  *)
on_screen_late(b) == b <= Cells

on_screen(b) == b < Cells

put_other(v, b, cell) ==
    LET w == [v EXCEPT ![b] = cell]
    IN  IF on_screen(b + 1) THEN [video |-> w, bx |-> b + 1] ELSE line_feed(w, b + 1)

(* .is_backspace: the cell before the cursor.                              *)
before(b) == (b + WordMod - 1) % WordMod

backspace(v, b) == [video |-> [v EXCEPT ![before(b)] = Space], bx |-> before(b)]

(* put_char, put_char_color with the cursor in b: what they make of the    *)
(* array and of the cursor.                                                *)
put(v, b, c, attr) ==
    CASE c \in {"CR", "LF"} -> line_feed(v, b)
      [] c = "BS"           -> backspace(v, b)
      [] OTHER              -> put_other(v, b, <<c, attr>>)

(* The cell would be behind the segment's limit: the processor faults, and *)
(* general_intr_handler reports it and stops.                              *)
faults(c, b) == c = "BS" /\ before(b) >= Limit

gp_fault ==
    /\ halted' = TRUE
    /\ UNCHANGED <<video, cursor, pc, str, bx>>

-----------------------------------------------------------------------------
(* put_str, called with a string.                                          *)
put_str(s) ==
    /\ ~halted
    /\ pc = "idle"
    /\ pc' = "get_cursor" /\ str' = s
    /\ UNCHANGED <<video, cursor, bx, halted>>

(* put_char of its first character: the cursor is read, ...                *)
get_cursor ==
    /\ ~halted
    /\ pc = "get_cursor"
    /\ bx' = cursor
    /\ pc' = "write"
    /\ UNCHANGED <<video, cursor, str, halted>>

(* ... the character written ...                                           *)
write ==
    /\ ~halted
    /\ pc = "write"
    /\ IF faults(Head(str), bx) THEN gp_fault
       ELSE /\ video' = put(video, bx, Head(str), 7).video
            /\ bx' = put(video, bx, Head(str), 7).bx
            /\ pc' = "set_cursor"
            /\ UNCHANGED <<cursor, str, halted>>

(* ... and the cursor set.  Then comes the next character.                 *)
set_cursor ==
    /\ ~halted
    /\ pc = "set_cursor"
    /\ cursor' = bx
    /\ bx' = 0
    /\ str' = Tail(str)
    /\ pc' = IF Tail(str) = <<>> THEN "idle" ELSE "get_cursor"
    /\ UNCHANGED <<video, halted>>

(* The keyboard's handler echoes a character.                              *)
intr_keyboard_handler(c) ==
    /\ ~halted
    /\ IfOn \/ pc = "idle"
    /\ IF faults(c, cursor) THEN gp_fault
       ELSE /\ video' = put(video, cursor, c, color).video
            /\ cursor' = put(video, cursor, c, color).bx
            /\ UNCHANGED <<pc, str, bx, halted>>

Next ==
    \/ \E s \in Strings : put_str(s)
    \/ get_cursor
    \/ write
    \/ set_cursor
    \/ \E c \in Keys : intr_keyboard_handler(c)

Spec == Init /\ [][Next]_vars

-----------------------------------------------------------------------------
(* The cursor, and the copy of it a call works with, always name a cell of *)
(* the screen, so the next character is written inside the array.          *)
CursorOnScreen == cursor \in 0 .. Cells - 1 /\ bx \in 0 .. Cells - 1

(* The array is the screen of Terminal.  The cursor has moved as soon as   *)
(* the character is written.                                               *)
at == IF pc = "set_cursor" THEN bx ELSE cursor

Shown == INSTANCE Terminal WITH
    Blank <- Space,
    Cell <- {<<c, 7>> : c \in UNION {{s[i] : i \in DOMAIN s} : s \in Strings}}
              \cup {<<c, color>> : c \in Keys},
    rows <- [r \in 1 .. Rows |-> [c \in 0 .. Cols - 1 |-> video[(r - 1) * Cols + c]]],
    row <- at \div Cols,
    col <- at % Cols

TerminalRefinement == Shown!ScreenSpec

(* print.S, put_char: typing backspaces never stops the machine.           *)
NeverFaults == ~halted
=============================================================================
