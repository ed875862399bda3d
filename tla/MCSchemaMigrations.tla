------------------------- MODULE MCSchemaMigrations -------------------------
EXTENDS SchemaMigrations, TLC
LastTwo == {LastFile - 1, LastFile}
Odd == {f \in Files : f % 2 = 1}
RunSymmetry == Permutations(Runs)
=============================================================================
