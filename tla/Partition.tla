----------------------------- MODULE Partition -----------------------------
(***************************************************************************)
(* The partition scan of device/ide.c: ide_init goes through the disks of  *)
(* every channel and partition_scan reads the boot sector of each slave    *)
(* disk, follows its extended partitions by recursion and records what it  *)
(* finds in prim_parts and logic_parts.                                    *)
(*                                                                         *)
(* A disk is a function from the sectors that hold a partition table to    *)
(* their entries; any other sector reads as an empty table.  The recursion *)
(* is a stack of calls; one turn of the loop over the entries of a table   *)
(* is one action.  ide_read is taken to deliver the sector; Ide.tla has    *)
(* what it really does.                                                    *)
(*                                                                         *)
(* partition_list is never given to list_init: head.next and tail.prev are *)
(* the NULL of zeroed memory, so the element at address 0 stands between   *)
(* head and tail.  list_append writes that element's next field, the word  *)
(* at address 4, and every walk from head begins with it.  Before the      *)
(* first append that word is what the memory holds and the walk goes       *)
(* wherever it points; from then on the list is the sequence below.        *)
(***************************************************************************)
EXTENDS Naturals, Sequences, FiniteSets

CONSTANTS
    Layouts,        \* the contents of the slave disks, channel by channel
    channel_cnt,    \* IDE channels, 1 or 2
    TableSize,      \* entries of a partition table (4)
    MaxPrimary,     \* length of disk.prim_parts (4)
    MaxLogic        \* length of disk.logic_parts (8)

table_entries == [fs_type : {"data", "extended", "none"}, start_lba : Nat]

ASSUME PartitionAssumption ==
    /\ {channel_cnt, TableSize, MaxPrimary, MaxLogic} \subseteq Nat \ {0}
    /\ \A d \in Layouts :
         /\ DOMAIN d = 0 .. channel_cnt - 1
         /\ \A ch \in DOMAIN d :
              /\ DOMAIN d[ch] \subseteq Nat
              /\ \A lba \in DOMAIN d[ch] : d[ch][lba] \in [1 .. TableSize -> table_entries]

VARIABLES
    disks,              \* what is on the disks
    channel_no,         \* ide_init's loop over the channels
    calls,              \* the calls of partition_scan in progress, innermost last
    extension_lba_base, primary_partition, logic_partition,
    parts,              \* the array entries written: <<channel, array, index>>
    partition_list,     \* its elements, as list_traversal meets them: a
                        \* partition found is <<channel, start_lba>>
    boot_sectors,       \* boot_sector buffers that are allocated
    panic               \* ASSERT(primary_partition < 4) failed

scan_vars == <<calls, extension_lba_base, primary_partition, logic_partition,
               parts, partition_list, boot_sectors, panic>>
partition_vars == <<disks, channel_no, scan_vars>>

free_entry == [fs_type |-> "none", start_lba |-> 0]

(* ide_read of one sector.                                                 *)
read_table(ch, lba) ==
    IF lba \in DOMAIN disks[ch] THEN disks[ch][lba]
    ELSE [i \in 1 .. TableSize |-> free_entry]

(* The element at address 0, a partition of no channel.                    *)
address_0 == <<channel_cnt, 0>>

(* One call of partition_scan, about to look at entry idx.                 *)
call(lba) == [extension_lba |-> lba, idx |-> 1]

frame == calls[Len(calls)]
table_entry == read_table(channel_no, frame.extension_lba)[frame.idx]

(* part_idx and p move on; partition_scan returns.                         *)
advanced == [calls EXCEPT ![Len(calls)].idx = @ + 1]
returned == SubSeq(calls, 1, Len(calls) - 1)

ScanInit ==
    /\ disks \in Layouts
    /\ channel_no = 0
    /\ calls = <<call(0)>>
    /\ boot_sectors = 1
    /\ extension_lba_base = 0 /\ primary_partition = 0 /\ logic_partition = 0
    /\ parts = <<>> /\ partition_list = <<address_0>>
    /\ panic = FALSE

-----------------------------------------------------------------------------
scanning ==
    /\ ~panic
    /\ calls # <<>>
    /\ frame.idx <= TableSize

(* The sector of an extended partition: relative to the outermost one.     *)
(* The faulty variant takes every address for absolute.                    *)
extended_lba_absolute(p) == p.start_lba

extended_lba(p) == p.start_lba + extension_lba_base

(* An extended partition: the first one met sets the base for all others.  *)
scan_extended ==
    /\ scanning
    /\ table_entry.fs_type = "extended"
    /\ extension_lba_base' = IF extension_lba_base = 0 THEN table_entry.start_lba
                             ELSE extension_lba_base
    /\ calls' = Append(advanced, call(extended_lba(table_entry)))
    /\ boot_sectors' = boot_sectors + 1
    /\ UNCHANGED <<disks, channel_no, primary_partition, logic_partition,
                   parts, partition_list, panic>>

(* The entry of prim_parts or logic_parts that is filled in, and linked    *)
(* between the last element of partition_list, the one at address 0 at     *)
(* first, and tail; the faulty variant counts before it writes.            *)
record_after_count(array, index) ==
    /\ parts' = Append(parts, <<channel_no, array, index + 1>>)
    /\ partition_list' = Append(partition_list,
                                <<channel_no, frame.extension_lba + table_entry.start_lba>>)

record(array, index) ==
    /\ parts' = Append(parts, <<channel_no, array, index>>)
    /\ partition_list' = Append(partition_list,
                                <<channel_no, frame.extension_lba + table_entry.start_lba>>)

(* A partition in the table of sector 0.                                   *)
scan_primary ==
    /\ scanning
    /\ table_entry.fs_type = "data"
    /\ frame.extension_lba = 0
    /\ record("prim_parts", primary_partition)
    /\ primary_partition' = primary_partition + 1
    /\ panic' = ~(primary_partition' < MaxPrimary)
    /\ calls' = advanced
    /\ UNCHANGED <<disks, channel_no, extension_lba_base, logic_partition, boot_sectors>>

(* A partition inside an extended one; beyond the limit the call returns,  *)
(* with its boot_sector still allocated.                                   *)
scan_logical ==
    /\ scanning
    /\ table_entry.fs_type = "data"
    /\ frame.extension_lba # 0
    /\ record("logic_parts", logic_partition)
    /\ logic_partition' = logic_partition + 1
    /\ calls' = IF logic_partition >= MaxLogic THEN returned ELSE advanced
    /\ UNCHANGED <<disks, channel_no, extension_lba_base, primary_partition,
                   boot_sectors, panic>>

scan_free ==
    /\ scanning
    /\ table_entry.fs_type = "none"
    /\ calls' = advanced
    /\ UNCHANGED <<disks, channel_no, extension_lba_base, primary_partition,
                   logic_partition, parts, partition_list, boot_sectors, panic>>

(* sys_free(bs) at the end of partition_scan; the faulty variant omits it. *)
free_boot_sector_not == UNCHANGED boot_sectors

free_boot_sector == boot_sectors' = boot_sectors - 1

scan_return ==
    /\ ~panic
    /\ calls # <<>>
    /\ frame.idx > TableSize
    /\ free_boot_sector
    /\ calls' = returned
    /\ UNCHANGED <<disks, channel_no, extension_lba_base, primary_partition,
                   logic_partition, parts, partition_list, panic>>

(* ide_init resets its counters between disks; the faulty variant not.     *)
reset_counters_not == UNCHANGED <<primary_partition, logic_partition>>

reset_counters == primary_partition' = 0 /\ logic_partition' = 0

(* The loops of ide_init: the counters are reset after each disk, and the  *)
(* slave of the next channel is scanned.                                   *)
next_channel ==
    /\ ~panic
    /\ calls = <<>>
    /\ channel_no < channel_cnt
    /\ reset_counters
    /\ channel_no' = channel_no + 1
    /\ IF channel_no' < channel_cnt
       THEN calls' = <<call(0)>> /\ boot_sectors' = boot_sectors + 1
       ELSE UNCHANGED <<calls, boot_sectors>>
    /\ UNCHANGED <<disks, extension_lba_base, parts, partition_list, panic>>

ScanNext ==
    \/ scan_extended
    \/ scan_primary
    \/ scan_logical
    \/ scan_free
    \/ scan_return
    \/ next_channel

ScanSpec == ScanInit /\ [][ScanNext]_partition_vars /\ WF_partition_vars(ScanNext)

-----------------------------------------------------------------------------
ide_init_done == channel_no = channel_cnt

(* Reference: where the partitions of a disk really start.  A partition    *)
(* lies relative to the table that describes it.                           *)
DataEntries(ch) ==
    {x \in (DOMAIN disks[ch]) \X (1 .. TableSize) : disks[ch][x[1]][x[2]].fs_type = "data"}

Starts(ch) == {x[1] + disks[ch][x[1]][x[2]].start_lba : x \in DataEntries(ch)}

(* Behind the element at address 0 partition_list has every partition of   *)
(* every slave disk, once, at the sector where it starts.                  *)
AllPartitionsFound ==
    ide_init_done =>
        \A ch \in 0 .. channel_cnt - 1 :
            LET found == {i \in DOMAIN partition_list : partition_list[i][1] = ch}
            IN  /\ {partition_list[i][2] : i \in found} = Starts(ch)
                /\ Cardinality(found) = Cardinality(Starts(ch))

(* ide.h: a disk has at most MaxPrimary primary and MaxLogic logical       *)
(* partitions; no entry outside the arrays is written, and none twice.     *)
EntriesInBounds ==
    /\ \A i \in DOMAIN parts :
         parts[i][3] < IF parts[i][2] = "prim_parts" THEN MaxPrimary ELSE MaxLogic
    /\ \A i, j \in DOMAIN parts : parts[i] = parts[j] => i = j

(* Every boot_sector buffer belongs to a call that is in progress: the     *)
(* scan gives all of them back.                                            *)
BuffersGivenBack == boot_sectors = Len(calls)

(* "The partition queue (records all partitions)": a walk meets nothing    *)
(* else.                                                                   *)
OnlyPartitions == \A i \in DOMAIN partition_list : partition_list[i] # address_0

(* ide.h: a disk may have four primary partitions: the scan accepts them.  *)
NoPanic == ~panic

(* The recursion ends and every disk is scanned.                           *)
ScanEnds == <>ide_init_done

(* On disks within the limits, partition_scan writes inside its arrays,    *)
(* each entry once, and gives back the buffer of every call that returns.  *)
ScanInv == EntriesInBounds /\ BuffersGivenBack
=============================================================================
