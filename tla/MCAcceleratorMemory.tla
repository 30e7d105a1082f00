------------------------ MODULE MCAcceleratorMemory ------------------------
(* Instances of AcceleratorMemory with two invocations, for TLC.           *)
EXTENDS AcceleratorMemory

CONSTANTS i1, i2, t1, t2

\* Lines of 8 bytes.  The first block of the first invocation starts in the
\* middle of line 1: it asks for 12 and 20, and contains the addresses of the
\* lines 2 and 3; the second is so small that it has no element.  The blocks of
\* the second invocation ask for 8, for 16 (twice at the DRAM) and for 8 again,
\* and each contains the line after as well (Memory_helpers.cpp:26).
MCBlocksOf ==
  [i \in {i1, i2} |->
    IF i = i1 THEN << [start |-> 12, size |-> 20, factor |-> 1],
                      [start |-> 24, size |-> 4, factor |-> 1] >>
    ELSE << [start |-> 8, size |-> 12, factor |-> 1],
            [start |-> 16, size |-> 12, factor |-> 2],
            [start |-> 8, size |-> 12, factor |-> 1] >>]

MCAddrs == {8, 12, 16, 20}

\* One load in the line that the first block does not contain, one in a line
\* that both invocations read.
MCAddrOf == [t \in {t1, t2} |-> IF t = t1 THEN 8 ELSE 20]
=============================================================================
