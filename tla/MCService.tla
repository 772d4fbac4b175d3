------------------------------ MODULE MCService ------------------------------
(* Service for TLC: two audits, one reader.                                  *)
EXTENDS Service

CONSTANTS a1, a2, g1

TwoRequests == {a1, a2}
OneReader == {g1}

=============================================================================
