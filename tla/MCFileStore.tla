----------------------------- MODULE MCFileStore -----------------------------
(* FileStore for TLC: three Saves, two names, one reader.                    *)
EXTENDS FileStore, TLC

CONSTANTS i1, i2, i3, n1, n2, g1

ThreeReports == {i1, i2, i3}
TwoNames == {n1, n2}
OneReader == {g1}

\* Saves differ only in their ids, and names only in being different.
StoreSymmetry == Permutations(ThreeReports) \cup Permutations(TwoNames)

=============================================================================
