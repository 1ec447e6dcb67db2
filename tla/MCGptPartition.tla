---------------------------- MODULE MCGptPartition ----------------------------
\* Two versions of a table of two entries; the second has larger entries, and
\* its first partition is empty.
EXTENDS GptPartition, TLC

E(g, e) == [guid |-> g, empty |-> e]

MCTable == [v1 |-> <<E("boot", FALSE), E("data", FALSE)>>,
            v2 |-> <<E("data", TRUE), E("boot", FALSE)>>]

MCEntrySize == [v1 |-> 128, v2 |-> 256]

DeviceSymmetry == Permutations(Devices)
=============================================================================
