----------------------------- MODULE MCRoutines -----------------------------
(***************************************************************************)
(* The parts that run alone, one at a time: bitmaps, the memory pools,     *)
(* formatted output, the entry code, segments and gates.                   *)
(***************************************************************************)
EXTENDS Bitmap, Pools, Format, Entry, Segments

CONSTANTS bytes, MaxCnt, Buffers

VARIABLES
    subject,        \* the part that is run
    bits            \* a bitmap

vars == <<subject, bits, pools_vars, format_vars, entry_vars, seg_vars>>

-----------------------------------------------------------------------------
(* Machines of several sizes, up to where page counts no longer fit 16     *)
(* bits, whose BIOS refuses the first calls or none.  The highest area of  *)
(* the map, flash memory below 4 GB, ends at 2^32.                         *)
BiosMap(ram) ==
    <<[base |-> 0, size |-> 639], [base |-> 1024, size |-> ram - 1024],
      [base |-> 4194048, size |-> 256]>>

Machine(ram) ==
    [ram |-> ram, usable |-> ram,
     e820 |-> BiosMap(ram),
     e801 |-> IF ram <= 16384 THEN <<ram - 1024, 0>> ELSE <<15360, (ram - 16384) \div 64>>,
     x88  |-> <<IF ram <= 65535 THEN ram - 1024 ELSE 64512>>]

Without(b, calls) == [k \in DOMAIN b |-> IF k \in calls THEN <<>> ELSE b[k]]

Machines(sizes) ==
    {Without(Machine(ram), calls) :
        ram \in sizes, calls \in {{}, {"e820"}, {"e820", "e801"}, {"e820", "e801", "x88"}}}

BiosSmall == Machines({2052, 2076, 2080, 2112, 4096, 16384, 16448, 32768, 65536, 131072,
                       264188, 264191, 264192, 300000, 524288, 2097151})

(* 512 MB; and 32 MB of which the highest 64 KB belong to ACPI.            *)
Bios512 == Machines({524288})

BiosAcpi ==
    {[Machine(32768) EXCEPT
        !.usable = 32704,
        !.e820 = <<[base |-> 0, size |-> 639], [base |-> 1024, size |-> 31680],
                   [base |-> 32704, size |-> 64]>>]}

-----------------------------------------------------------------------------
(* Formats with each conversion, alone and between others.                 *)
percent(ch) == <<Percent, ch>>

Conversion == {percent(Letter[l]) : l \in DOMAIN Letter}

FormatsAll ==
    Conversion
        \cup {<<97>> \o percent(Letter.d) \o <<98>>,
              percent(Letter.s) \o percent(Letter.d), percent(Letter.d) \o percent(Letter.s),
              <<97, Percent>>, percent(98)}

FormatsOctal == {percent(Letter.o)}

TextsAll == {<<>>, <<98, 97>>}

ArgsOf(ch) ==
    CASE ch = Letter.s -> Texts
      [] ch = Letter.c -> {97}
      [] OTHER         -> 0 .. WordSize - 1

ArgLists(fmt) ==
    LET c == IF WellFormed(fmt) THEN Conversions(fmt) ELSE <<>>
    IN  IF c = <<>> THEN {<<>>}
        ELSE IF Len(c) = 1 THEN {<<x>> : x \in ArgsOf(c[1][2])}
        ELSE {<<x, y>> : x \in ArgsOf(c[1][2]), y \in ArgsOf(c[2][2])}

-----------------------------------------------------------------------------
(* tss lies in the kernel's data.                                          *)
TssAddress == <<0, 64, 1, 192>>

-----------------------------------------------------------------------------
Init ==
    /\ subject \in {"bitmap", "pools", "format", "entry", "segments"}
    /\ bits = bitmap_init
    /\ IF subject = "pools" THEN PoolsInit
       ELSE /\ bios \in {CHOOSE b \in Bios : TRUE} /\ mem_step = "hlt"
            /\ ards = 1 /\ edx = 0 /\ pools = <<>>
    /\ FormatInit
    /\ EntryInit /\ SegmentsInit

(* Every bitmap, and the first bit behind it.                              *)
len == bytes * ByteBits

set_bit(i, value) ==
    /\ bits' = bitmap_set(bits, i, value)
    /\ bits' # bits

bitmap_step ==
    /\ subject = "bitmap"
    /\ \E i \in 0 .. len, value \in {0, 1} : set_bit(i, value)
    /\ UNCHANGED <<subject, pools_vars, format_vars, entry_vars, seg_vars>>

pools_step ==
    /\ subject = "pools"
    /\ PoolsNext
    /\ UNCHANGED <<subject, bits, format_vars, entry_vars, seg_vars>>

format_step ==
    /\ subject = "format"
    /\ \/ \E fmt \in Formats, buffer \in Buffers :
            \E ap \in ArgLists(fmt) : vsprintf(fmt, ap, buffer)
       \/ FormatTurn
    /\ UNCHANGED <<subject, bits, pools_vars, entry_vars, seg_vars>>

entry_step ==
    /\ subject = "entry"
    /\ EntryNext
    /\ UNCHANGED <<subject, bits, pools_vars, format_vars, seg_vars>>

segments_step ==
    /\ subject = "segments"
    /\ SegmentsNext
    /\ UNCHANGED <<subject, bits, pools_vars, format_vars, entry_vars>>

Next ==
    \/ bitmap_step \/ pools_step \/ format_step \/ entry_step
    \/ segments_step

Spec == Init /\ [][Next]_vars

-----------------------------------------------------------------------------
(* bitmap_scan on every bitmap: the first run, and nothing if all is set.  *)
ScanSound ==
    subject = "bitmap" =>
        /\ \A cnt \in 1 .. MaxCnt : ScanFindsFirstRun(bits, bytes, cnt)
        /\ ScanOneFailsWhenFull(bits, bytes)

(* bitmap.c: failure returns -1.                                           *)
FailureReturnsMinusOne ==
    subject = "bitmap" =>
        \A cnt \in 1 .. MaxCnt :
            Runs(bits, len, cnt) = {} => bitmap_scan(bits, bytes, cnt) = -1
=============================================================================
