------------------------------ MODULE Numerals ------------------------------
(***************************************************************************)
(* Numbers to text: itoa and the conversions of vsprintf (lib/stdio.c) and *)
(* put_int (lib/kernel/print.S).  Characters are their codes.  Words have  *)
(* WordSize values (2^32).                                                 *)
(***************************************************************************)
EXTENDS Integers, Sequences, FiniteSets

CONSTANTS
    WordSize,
    HexDigits       \* hexadecimal digits of a word (8)

ASSUME WordAssumption ==
    /\ HexDigits \in Nat \ {0} /\ WordSize \in Nat /\ WordSize > 1
    /\ WordSize = 16 ^ HexDigits

Percent == 37
Minus == 45
Letter == [s |-> 115, c |-> 99, d |-> 100, u |-> 117, x |-> 120, o |-> 111, f |-> 102]

-----------------------------------------------------------------------------
(* A digit's character.                                                    *)
digit_char(m) == IF m < 10 THEN m + 48 ELSE m - 10 + 65

(* itoa: the digits of the quotient first, then the remainder.  In the     *)
(* faulty variant the last digit comes first.                              *)
itoa_backwards(value, base) ==
    LET digits[v \in Nat] ==
          <<digit_char(v % base)>> \o IF v \div base # 0 THEN digits[v \div base] ELSE <<>>
    IN  digits[value]

itoa(value, base) ==
    LET digits[v \in Nat] ==
          (IF v \div base # 0 THEN digits[v \div base] ELSE <<>>) \o <<digit_char(v % base)>>
    IN  digits[value]

(* An int32_t, given as the word that holds it.                            *)
negative(w) == w >= WordSize \div 2

signed_text(w) ==
    IF negative(w) THEN <<Minus>> \o itoa((WordSize - w) % WordSize, 10) ELSE itoa(w, 10)

(* The text of one conversion.                                             *)
conversion(ch, arg) ==
    CASE ch = Letter.s -> arg
      [] ch = Letter.c -> <<arg>>
      [] ch = Letter.d -> signed_text(arg)
      [] ch = Letter.u -> itoa(arg, 10)
      [] ch = Letter.x -> itoa(arg, 16)
      [] ch = Letter.o -> itoa(arg, 8)

-----------------------------------------------------------------------------
(* put_int: the digits from left to right without the leading zeros; a     *)
(* word without another digit is printed as one zero.  The faulty variant  *)
(* prints nothing then.                                                    *)
put_int_buffer(w) == [k \in 1 .. HexDigits |-> (w \div 16 ^ (HexDigits - k)) % 16]

full0_not == <<>>

full0 == <<digit_char(0)>>

put_int(w) ==
    LET buffer == put_int_buffer(w)
        shown  == {k \in 1 .. HexDigits : \E j \in 1 .. k : buffer[j] # 0}
    IN  IF shown = {} THEN full0
        ELSE [k \in 1 .. Cardinality(shown) |->
                digit_char(buffer[HexDigits - Cardinality(shown) + k])]

-----------------------------------------------------------------------------
(* The reference: a numeral has no leading zero and its digits add up to   *)
(* the value.                                                              *)
DigitValue(ch) == IF ch >= 65 THEN ch - 65 + 10 ELSE ch - 48

ValueOf(text, base) ==
    LET value[k \in 0 .. Len(text)] ==
          IF k = 0 THEN 0 ELSE value[k - 1] * base + DigitValue(text[k])
    IN  value[Len(text)]

Reads(text, base, value) ==
    /\ text # <<>>
    /\ \A k \in DOMAIN text : text[k] \in 48 .. 57 \cup 65 .. 70 /\ DigitValue(text[k]) < base
    /\ Len(text) > 1 => DigitValue(text[1]) # 0
    /\ ValueOf(text, base) = value

(* text is what the conversion of arg should be.                           *)
Shows(text, ch, arg) ==
    CASE ch = Letter.s -> text = arg
      [] ch = Letter.c -> text = <<arg>>
      [] ch = Letter.d -> IF negative(arg)
                          THEN text # <<>> /\ Head(text) = Minus
                               /\ Reads(Tail(text), 10, WordSize - arg)
                          ELSE Reads(text, 10, arg)
      [] ch = Letter.u -> Reads(text, 10, arg)
      [] ch = Letter.x -> Reads(text, 16, arg)
=============================================================================
