---------------------------- MODULE MCMemoryGraph ----------------------------
EXTENDS MemoryGraph, TLC

CONSTANTS alice, ally, chat, mail, m1, m2

MCNames == {alice, ally}
MCConvs == {chat, mail}
MCManagers == {m1, m2}
MCSymmetry == Permutations(MCNames) \cup Permutations(MCConvs) \cup Permutations(MCManagers)

=============================================================================
