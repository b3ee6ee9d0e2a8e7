------------------------------- MODULE Bitmap -------------------------------
(***************************************************************************)
(* The allocation bitmaps of lib/kernel/bitmap.c.  A bitmap is the set of  *)
(* the indices whose bit is 1 and the number of bits it covers.  Bits that *)
(* lie behind its end may be in the set: the bitmaps are packed one after  *)
(* the other in memory, and bitmap_scan looks one bit too far.             *)
(***************************************************************************)
EXTENDS Integers, FiniteSetsExt

CONSTANT
    ByteBits    \* bits in a byte (8)

ASSUME ByteBitsAssumption == ByteBits \in Nat \ {0}

(* btmp->bits[b] == 0xFF                                                   *)
byte_full(bits, b) ==
    \A i \in b * ByteBits .. b * ByteBits + ByteBits - 1 : i \in bits

bitmap_scan_test(bits, bit_idx) == bit_idx \in bits

(* The number of clear bits in a row up to n that the second loop has      *)
(* counted, when the first clear bit is start.                             *)
clear_run(bits, start, last) ==
    LET count[n \in start .. last] ==
          IF n = start THEN 1
          ELSE IF bitmap_scan_test(bits, n) THEN 0
          ELSE count[n - 1] + 1
    IN  count

(* Faulty variant: the start of the run is off by one.                     *)
scan_run_off_by_one(bits, len, cnt, start) ==
    LET last  == start + (len - start)
        count == clear_run(bits, start, last)
        hits  == {n \in start + 1 .. last : count[n] = cnt}
    IN  IF hits = {} THEN start ELSE Min(hits) - cnt

(* The second loop: bits start+1 up to and including the one behind the    *)
(* end; without success the first clear bit is returned all the same.      *)
scan_run(bits, len, cnt, start) ==
    LET last  == start + (len - start)
        count == clear_run(bits, start, last)
        hits  == {n \in start + 1 .. last : count[n] = cnt}
    IN  IF hits = {} THEN start ELSE Min(hits) - cnt + 1

(* The bytes the first loop finds not full; the faulty variant stops one   *)
(* byte early.                                                             *)
free_bytes_short(bits, bytes) == {b \in 0 .. bytes - 2 : ~byte_full(bits, b)}

free_bytes(bits, bytes) == {b \in 0 .. bytes - 1 : ~byte_full(bits, b)}

(* bitmap_scan over bytes * ByteBits bits, cnt > 0.                        *)
bitmap_scan(bits, bytes, cnt) ==
    LET idx_byte == Min(free_bytes(bits, bytes))
        idx_bit  == Min({i \in 0 .. ByteBits - 1 : idx_byte * ByteBits + i \notin bits})
        start    == idx_byte * ByteBits + idx_bit
    IN  IF free_bytes(bits, bytes) = {} THEN -1
        ELSE IF cnt = 1 THEN start
        ELSE scan_run(bits, bytes * ByteBits, cnt, start)

bitmap_set(bits, bit_idx, value) ==
    IF value = 1 THEN bits \cup {bit_idx} ELSE bits \ {bit_idx}

bitmap_init == {}

-----------------------------------------------------------------------------
(* Reference: the runs of cnt clear bits inside a bitmap of len bits.      *)
Runs(bits, len, cnt) ==
    {i \in 0 .. len - cnt : \A j \in i .. i + cnt - 1 : j \notin bits}

(* bitmap_scan returns the first run of cnt clear bits whenever there is   *)
(* one, and never a bit that is set.                                       *)
ScanFindsFirstRun(bits, bytes, cnt) ==
    LET found == bitmap_scan(bits, bytes, cnt)
        runs  == Runs(bits, bytes * ByteBits, cnt)
    IN  /\ runs # {} => found = Min(runs)
        /\ found # -1 => found \notin bits

(* A single bit: -1 exactly when every bit is set.                         *)
ScanOneFailsWhenFull(bits, bytes) ==
    bitmap_scan(bits, bytes, 1) = -1 <=> \A i \in 0 .. bytes * ByteBits - 1 : i \in bits
=============================================================================
