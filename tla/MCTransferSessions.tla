------------------------ MODULE MCTransferSessions ------------------------
EXTENDS TransferSessions, TLC

CONSTANTS t1, t2, c1, c2

Symmetry == Permutations(Transfers) \cup Permutations(Callers)
=============================================================================
