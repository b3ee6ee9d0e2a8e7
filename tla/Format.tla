------------------------------- MODULE Format -------------------------------
(***************************************************************************)
(* vsprintf (lib/stdio.c), which printf, printk and sprintf call.  A       *)
(* format is a sequence of characters, of which only "%", the letters of   *)
(* the conversions and one other occur; one turn of vsprintf's loop is one *)
(* action.                                                                 *)
(***************************************************************************)
EXTENDS Numerals

CONSTANTS
    Formats,        \* bound: the formats
    Texts           \* bound: the arguments of %s, sequences of codes

ASSUME FormatAssumption == Texts \subseteq Seq(1 .. 127)

VARIABLES
    format,         \* what is left of the format
    args,           \* the arguments not yet fetched
    str,            \* what is written before buf_ptr
    behind,         \* the characters from buf_ptr on: zeroes, a NUL, or junk
    fmt_step,       \* "idle", "loop", "returned" or "panic"
    called          \* the format and the arguments vsprintf was called with

format_vars == <<format, args, str, behind, fmt_step, called>>

FormatInit ==
    /\ format = <<>> /\ args = <<>> /\ str = <<>>
    /\ behind = "zero" /\ fmt_step = "idle" /\ called = <<>>

-----------------------------------------------------------------------------
(* printf and printk clear their buffer; sprintf's callers do not.         *)
vsprintf(fmt, ap, buffer) ==
    /\ fmt_step = "idle" /\ fmt_step' = "loop"
    /\ format' = fmt /\ args' = ap /\ called' = <<fmt, ap>>
    /\ str' = <<>> /\ behind' = buffer

(* An ordinary character is copied.  Junk behind it stays junk.            *)
copy_char ==
    /\ fmt_step = "loop" /\ format # <<>> /\ Head(format) # Percent
    /\ str' = Append(str, Head(format))
    /\ behind' = IF behind = "nul" THEN "junk" ELSE behind
    /\ format' = Tail(format)
    /\ UNCHANGED <<args, fmt_step, called>>

(* A conversion: strcpy also writes the NUL, which the next character      *)
(* overwrites.                                                             *)
convert ==
    /\ fmt_step = "loop" /\ Len(format) >= 2 /\ Head(format) = Percent
    /\ format[2] \in {Letter.s, Letter.c, Letter.d, Letter.u, Letter.x}
    /\ str' = str \o conversion(format[2], Head(args))
    /\ behind' = IF behind = "zero" THEN "zero"
                 ELSE IF format[2] = Letter.s THEN "nul"
                 ELSE "junk"
    /\ args' = Tail(args)
    /\ format' = SubSeq(format, 3, Len(format))
    /\ UNCHANGED <<fmt_step, called>>

(* %f panics, and so does %o, which has no break.                          *)
panic_float ==
    /\ fmt_step = "loop" /\ Len(format) >= 2 /\ Head(format) = Percent
    /\ format[2] \in {Letter.o, Letter.f}
    /\ fmt_step' = "panic"
    /\ str' = IF format[2] = Letter.o THEN str \o conversion(Letter.o, Head(args)) ELSE str
    /\ UNCHANGED <<format, args, behind, called>>

(* Any other character behind "%" (or the end) is looked at in the next    *)
(* turn.                                                                   *)
skip_percent ==
    /\ fmt_step = "loop" /\ format # <<>> /\ Head(format) = Percent
    /\ Len(format) >= 2 => format[2] \notin {Letter[l] : l \in DOMAIN Letter}
    /\ format' = Tail(format)
    /\ UNCHANGED <<args, str, behind, fmt_step, called>>

(* strlen(str): nothing has been written behind the last character.        *)
return_length ==
    /\ fmt_step = "loop" /\ format = <<>>
    /\ fmt_step' = "returned"
    /\ UNCHANGED <<format, args, str, behind, called>>

FormatTurn == copy_char \/ convert \/ panic_float \/ skip_percent \/ return_length

-----------------------------------------------------------------------------
(* The ordinary characters and the conversions of a format.                *)
Pieces(fmt) ==
    SelectSeq([k \in DOMAIN fmt |->
                 IF fmt[k] = Percent THEN <<"percent", 0>>
                 ELSE IF k > 1 /\ fmt[k - 1] = Percent THEN <<"arg", fmt[k]>>
                 ELSE <<"char", fmt[k]>>],
              LAMBDA p : p[1] # "percent")

Conversions(fmt) == SelectSeq(Pieces(fmt), LAMBDA p : p[1] = "arg")

WellFormed(fmt) ==
    \A k \in DOMAIN fmt : fmt[k] = Percent =>
        k < Len(fmt) /\ fmt[k + 1] \in {Letter[l] : l \in DOMAIN Letter}

(* printf and printk: the text can be read back.  It falls into pieces,    *)
(* one for each ordinary character and each conversion, and every piece    *)
(* shows its argument; the least negative number is no exception.          *)
PrintedReadsBack ==
    (fmt_step = "returned" /\ behind # "junk" /\ WellFormed(called[1])) =>
        LET pieces == Pieces(called[1])
            n      == Len(pieces)
            arg(k) == called[2][Cardinality({j \in 1 .. k : pieces[j][1] = "arg"})]
        IN  \E cut \in [1 .. n - 1 -> 0 .. Len(str)] :
              \A k \in 1 .. n :
                LET first == IF k = 1 THEN 1 ELSE cut[k - 1] + 1
                    last  == IF k = n THEN Len(str) ELSE cut[k]
                    piece == SubSeq(str, first, last)
                IN  /\ first <= last + 1
                    /\ IF pieces[k][1] = "char" THEN piece = <<pieces[k][2]>>
                       ELSE Shows(piece, pieces[k][2], arg(k))

(* mem_pool_init and the exception messages print numbers with put_int,    *)
(* the later ones with printk: both print the same digits.                 *)
PutIntAgrees ==
    (fmt_step = "returned" /\ called[1] = <<Percent, Letter.x>>) =>
        put_int(called[2][1]) = str

(* stdio.c: vsprintf returns the length of the string it has made, for     *)
(* sprintf's callers too, whose buffers are not cleared.                   *)
Terminated == fmt_step = "returned" => behind # "junk"

(* stdio.c: %o prints an octal number.                                     *)
OctalPrints ==
    fmt_step = "panic" => \E k \in DOMAIN called[1] : called[1][k] = Letter.f

(* Whatever vsprintf and put_int print reads back as what they were given. *)
OutputRight == PrintedReadsBack /\ PutIntAgrees
=============================================================================
