------------------------------ MODULE MCDisks -------------------------------
(* Machines with two disks on one channel, with one on each, or with a     *)
(* device that is not an ATA disk beside one that is too big.  The tables  *)
(* hold partitions that fit, that start or end past the disk, or whose end *)
(* wraps around, and extended partitions.                                  *)
EXTENDS Disks

Machine(a, b, c, d) ==
  [ch \in Channel |-> [dv \in {0, 1} |-> CASE ch = 0 /\ dv = 0 -> a
                                           [] ch = 0 /\ dv = 1 -> b
                                           [] ch = 1 /\ dv = 0 -> c
                                           [] OTHER -> d]]
MCHardware == {Machine("ata", "ata", "none", "none"),
               Machine("ata", "none", "ata", "none"),
               Machine("other", "ata", "none", "ata")}
MCCapacity == [k \in Disk |-> CASE k = <<0, 0>> -> 6
                                [] k = <<0, 1>> -> 4
                                [] k = <<1, 0>> -> 3
                                [] OTHER -> 8]
MCEntry(type, offset, size) == [type |-> type, offset |-> offset, size |-> size]
MCTable(p) == [signature |-> TRUE, partitions |-> p]
MCTables ==
  {NoTable,
   MCTable(<<MCEntry(33, 1, 1), MCEntry(35, 2, 1)>>),
   MCTable(<<MCEntry(33, 3, 7), MCEntry(131, 2, 1)>>),
   MCTable(<<MCEntry(5, 3, 2), MCEntry(33, 1, 1)>>),
   MCTable(<<MCEntry(34, 1, 1), MCEntry(5, 1, 2)>>)}
=============================================================================
