------------------------------ MODULE Keyboard ------------------------------
(***************************************************************************)
(* The keyboard driver of device/keyboard.c: the interrupt handler decodes *)
(* one byte of a scan code per interrupt, keeps the state of the modifier  *)
(* keys and puts printable characters into the queue kbd_buf, from which   *)
(* tasks read.  A key is named by its make code; the bytes a key sends,    *)
(* and the order of interrupts, belong to the hardware (external).         *)
(***************************************************************************)
EXTENDS IoQueue

CONSTANTS
    Keys,       \* the make codes of the keys that are used
    MaxPort     \* bound: bytes the controller holds back for the handler

VARIABLES
    down,       \* the keys that are physically held
    port,       \* the bytes still to be read from KDB_BUF_PORT
    ctrl_status, alt_status, shift_status, caps_lock_status, ext_scancode

flags == <<ctrl_status, alt_status, shift_status, caps_lock_status, ext_scancode>>
kbd_vars == <<vars, down, port, flags>>

shift_l_make   == 42     \* 0x2a
shift_r_make   == 54     \* 0x36
alt_l_make     == 56     \* 0x38
alt_r_make     == 57400  \* 0xe038
ctrl_l_make    == 29     \* 0x1d
ctrl_r_make    == 57373  \* 0xe01d
caps_lock_make == 58     \* 0x3a

(* No key has a code whose break code would end in the prefix 0xe0.        *)
ASSUME KeyboardAssumption ==
    /\ Keys \subseteq (1 .. 127) \cup (57345 .. 57471)
    /\ \A k \in Keys : k % 256 # 96
    /\ MaxPort \in Nat

-----------------------------------------------------------------------------
(* The bytes of a make code; a break code has 0x80 set in its last byte.   *)
scan_bytes(key, released) ==
    (IF key >= 57344 THEN <<224>> ELSE <<>>)
        \o <<(key % 256) + (IF released THEN 128 ELSE 0)>>

press(k) ==
    /\ Len(port) + Len(scan_bytes(k, FALSE)) <= MaxPort
    /\ down' = down \cup {k}
    /\ port' = port \o scan_bytes(k, FALSE)
    /\ UNCHANGED <<vars, flags>>

release(k) ==
    /\ k \in down
    /\ Len(port) + Len(scan_bytes(k, TRUE)) <= MaxPort
    /\ down' = down \ {k}
    /\ port' = port \o scan_bytes(k, TRUE)
    /\ UNCHANGED <<vars, flags>>

-----------------------------------------------------------------------------
(* keymap[index][shift]: a character is named by its place in the table,   *)
(* the entries that hold 0 have none.                                      *)
keymap(index, shift) ==
    IF index \in {0, ctrl_l_make, shift_l_make, shift_r_make, alt_l_make, caps_lock_make}
    THEN NULL ELSE <<index, shift>>

(* The keys on which caps lock has no effect: digits and punctuation.      *)
symbol_key(scancode) ==
    scancode < 14 \/ scancode \in {26, 27, 39, 40, 41, 43, 51, 52, 53}

shifted(scancode) ==
    IF symbol_key(scancode) THEN shift_status
    ELSE shift_status # caps_lock_status

handled(scancode) ==
    (scancode > 0 /\ scancode < 59) \/ scancode \in {ctrl_r_make, alt_r_make}

(* Faulty variant: the release of a right-hand modifier is not recognised. *)
break_key_left_only(make_code) ==
    /\ ctrl_status' = (ctrl_status /\ make_code # ctrl_l_make)
    /\ shift_status' = (shift_status /\ make_code # shift_l_make)
    /\ alt_status' = (alt_status /\ make_code # alt_l_make)
    /\ UNCHANGED caps_lock_status

break_key(make_code) ==
    /\ ctrl_status' = (ctrl_status /\ make_code \notin {ctrl_l_make, ctrl_r_make})
    /\ shift_status' = (shift_status /\ make_code \notin {shift_l_make, shift_r_make})
    /\ alt_status' = (alt_status /\ make_code \notin {alt_l_make, alt_r_make})
    /\ UNCHANGED caps_lock_status

make_modifier(index) ==
    /\ ctrl_status' = (ctrl_status \/ index = ctrl_l_make)
    /\ alt_status' = (alt_status \/ index = alt_l_make)
    /\ shift_status' = (shift_status \/ index \in {shift_l_make, shift_r_make})
    /\ caps_lock_status' = (caps_lock_status # (index = caps_lock_make))

(* The interrupt handler, once per byte.  A full queue drops the character.*)
intr_keyboard_handler ==
    /\ port # <<>>
    /\ port' = Tail(port)
    /\ LET byte_in  == Head(port)
           scancode == IF ext_scancode THEN 57344 + byte_in ELSE byte_in
           index    == scancode % 256
           char     == keymap(index, shifted(scancode))
       IN  CASE byte_in = 224 ->
                  /\ ext_scancode' = TRUE
                  /\ UNCHANGED <<vars, ctrl_status, alt_status, shift_status,
                                 caps_lock_status>>
             [] byte_in # 224 /\ byte_in >= 128 ->
                  /\ ext_scancode' = FALSE
                  /\ break_key(scancode - 128)
                  /\ UNCHANGED vars
             [] byte_in < 128 /\ handled(scancode) /\ char # NULL ->
                  /\ ext_scancode' = FALSE
                  /\ UNCHANGED <<ctrl_status, alt_status, shift_status, caps_lock_status>>
                  /\ IF ioq_full THEN UNCHANGED vars
                     ELSE /\ put(char, ready)
                          /\ UNCHANGED <<holder, waiters, pc, role, arg>>
             [] byte_in < 128 /\ handled(scancode) /\ char = NULL ->
                  /\ ext_scancode' = FALSE
                  /\ make_modifier(index)
                  /\ UNCHANGED vars
             [] OTHER ->
                  /\ ext_scancode' = FALSE
                  /\ UNCHANGED <<vars, ctrl_status, alt_status, shift_status,
                                 caps_lock_status>>
    /\ UNCHANGED down

reader_step(t) ==
    /\ ioq_getchar(t) \/ after_ioq_wait(t)
    /\ UNCHANGED <<down, port, flags>>

keyboard_init ==
    /\ Init
    /\ down = {}
    /\ port = <<>>
    /\ ctrl_status = FALSE /\ alt_status = FALSE /\ shift_status = FALSE
    /\ caps_lock_status = FALSE /\ ext_scancode = FALSE

KbdNext ==
    \/ \E k \in Keys : press(k) \/ release(k)
    \/ intr_keyboard_handler
    \/ \E t \in Tasks : reader_step(t)

(* The handler runs for every byte and a ready reader gets the processor   *)
(* (KernelThreads!NoStarvation).                                           *)
KbdSpec ==
    /\ keyboard_init
    /\ [][KbdNext]_kbd_vars
    /\ WF_kbd_vars(intr_keyboard_handler)
    /\ \A t \in Tasks : WF_kbd_vars(reader_step(t))

-----------------------------------------------------------------------------
(* keyboard.c: the status variables record whether the modifier keys are   *)
(* pressed.  Once the handler has seen every byte, a variable that is set  *)
(* has a held key behind it, however the keys of its pair overlapped (none *)
(* sticks), and it is set whenever all the keys of the pair are held.  With*)
(* one of two held it may be either: a release of the other clears it.     *)
PairAgrees(status, pair) ==
    /\ status => down \cap pair # {}
    /\ pair \cap Keys # {} /\ pair \cap Keys \subseteq down => status

ModifiersAgree ==
    port = <<>> =>
        /\ PairAgrees(ctrl_status, {ctrl_l_make, ctrl_r_make})
        /\ PairAgrees(alt_status, {alt_l_make, alt_r_make})
        /\ PairAgrees(shift_status, {shift_l_make, shift_r_make})

(* keyboard.c: "records whether ctrl, shift, alt ... are pressed": while   *)
(* one of the two keys is held the variable is set.                        *)
AnyKeySets ==
    port = <<>> =>
        /\ down \cap {ctrl_l_make, ctrl_r_make} # {} => ctrl_status
        /\ down \cap {alt_l_make, alt_r_make} # {} => alt_status
        /\ down \cap {shift_l_make, shift_r_make} # {} => shift_status

(* The handler never sleeps and a wakeup is never lost: the oldest         *)
(* character in kbd_buf is read in the end.                                *)
OldestIsRead ==
    \A i \in 0 .. bufsize - 1 : (tail = i /\ ~ioq_empty) ~> tail # i

(* A key press between the reader's test and its sleep would leave it      *)
(* asleep with a character to read: with interrupts off this cannot be.    *)
ReaderAwakeWhenNotEmpty ==
    \A t \in Tasks : ~ioq_empty => t \in ready

(* Handler and reader together: no ASSERT of the queue fails and no reader *)
(* sleeps with a character to read.                                        *)
KeyboardInv == NoAssertFails /\ ReaderAwakeWhenNotEmpty
=============================================================================
