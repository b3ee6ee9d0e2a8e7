---------------------------- MODULE MCPartition ----------------------------
(* Disks with k primary partitions and, if n > 0, an extended partition    *)
(* with n logical ones: table j of the chain is Ext + (j - 1) * Step.      *)
EXTENDS Partition

Ext == 100
Step == 10

data(lba) == [fs_type |-> "data", start_lba |-> lba]
extended(lba) == [fs_type |-> "extended", start_lba |-> lba]

Table(entries) ==
    [i \in 1 .. TableSize |-> IF i \in DOMAIN entries THEN entries[i] ELSE free_entry]

Disk(k, n) ==
    [lba \in {0} \cup {Ext + j * Step : j \in 0 .. n - 1} |->
       IF lba = 0
       THEN Table([i \in 1 .. k |-> data(i)] \o (IF n > 0 THEN <<extended(Ext)>> ELSE <<>>))
       ELSE Table(<<data(1)>> \o
              (IF lba < Ext + (n - 1) * Step THEN <<extended(lba + Step - Ext)>> ELSE <<>>))]

Two(a, b) == [ch \in 0 .. 1 |-> IF ch = 0 THEN a ELSE b]

(* Within the limits, one extended partition at most.                      *)
Regular ==
    {Two(Disk(k, n), Disk(m, 0)) : k \in 0 .. 3, m \in 0 .. 3, n \in 0 .. 8}
        \cup {Two(Disk(k, 0), Disk(m, n)) : k \in 0 .. 3, m \in 0 .. 3, n \in 0 .. 8}

FourPrimaries == {Two(Disk(4, 0), Disk(0, 0))}

NineLogical == {Two(Disk(1, 9), Disk(0, 0))}

TwoExtended == {Two(Disk(1, 1), Disk(1, 1))}
=============================================================================
