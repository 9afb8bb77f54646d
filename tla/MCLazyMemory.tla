---------------------------- MODULE MCLazyMemory ----------------------------
EXTENDS LazyMemory
MCByte == {0, 1}
MCAddress == {1, 2, 5}
MCLengths == {0, 1, 4}
MCDeltas == {1, 2}
=============================================================================
