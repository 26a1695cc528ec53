----------------------------- MODULE MCLineLink -----------------------------
(* Small instances of LineLink for TLC.                                     *)
EXTENDS LineLink, TLC

CONSTANTS u1, u2, a1, a2, s1, s2, c1, c2

NoIdentities == [u \in Users |-> NoAccount]
\* The first member signed up with the first LINE account.
OneIdentity == [u \in Users |-> IF u = u1 THEN a1 ELSE NoAccount]

LoginSymmetry == Permutations({s1, s2}) \cup Permutations({c1, c2})

=============================================================================
