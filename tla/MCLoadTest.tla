----------------------------- MODULE MCLoadTest -----------------------------
EXTENDS LoadTest, TLC

Workers == Permutations(Worker)
=============================================================================
