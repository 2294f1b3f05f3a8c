----------------------------- MODULE MCMemoryFace -----------------------------
EXTENDS MemoryFace, TLC

CONSTANTS c1, c2

MCCallers  == {c1, c2}
MCIds      == 1..4
MCSeeded   == 1..3
MCEntities == {5}
MCLimits   == {0, 2}
MCSymmetry == Permutations(MCCallers)
=============================================================================
