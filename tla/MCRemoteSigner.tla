---------------------------- MODULE MCRemoteSigner ----------------------------
(* RemoteSigner for TLC: the ring may be empty, replaced, or extended at     *)
(* either end, and a rotation can fall between any two steps of the callers. *)
EXTENDS RemoteSigner

CONSTANTS c1, c2, c3, w1, w2, d

MCWallets == {w1, w2}
MCKeyRings == {<< >>, <<w1>>, <<w2>>, <<w2, w1>>}
MCTypedData == {d}

ThreeCallers == {c1, c2, c3}

=============================================================================
