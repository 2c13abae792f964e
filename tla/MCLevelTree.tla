----------------------------- MODULE MCLevelTree -----------------------------
EXTENDS LevelTree

MCMaxBytes == [l \in 1 .. 2 |-> 2 * l]
=============================================================================
