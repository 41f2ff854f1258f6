--------------------------- MODULE MCMinerMonitor ---------------------------
EXTENDS MinerMonitor, TLC
ConnSymmetry == Permutations(Conn)
=============================================================================
