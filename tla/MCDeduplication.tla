---------------------------- MODULE MCDeduplication ----------------------------
EXTENDS Deduplication, TLC

CONSTANTS t1, t2, t3, u1, s1, s2
TabsDef  == {t1, t2, t3}
UsersDef == {u1}
TermsDef == {s1, s2}
Symmetry == Permutations(TabsDef) \cup Permutations(TermsDef)
=============================================================================
