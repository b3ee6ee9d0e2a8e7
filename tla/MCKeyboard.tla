----------------------------- MODULE MCKeyboard -----------------------------
(* Small instances of Keyboard.                                            *)
EXTENDS Keyboard

CONSTANT reader

MCRole == [t \in Tasks |-> {"consumer"}]

(* The key a, both shift keys, an extended modifier and caps lock.         *)
MCKeys == {30, shift_l_make, shift_r_make, ctrl_r_make, caps_lock_make}

MCChar == {30} \X BOOLEAN
=============================================================================
