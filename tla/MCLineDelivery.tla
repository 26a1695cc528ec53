--------------------------- MODULE MCLineDelivery ---------------------------
EXTENDS LineDelivery, TLC

CONSTANTS u1, m1, m2, a1, a2

OneOwner == m1 :> u1
TwoOfOne == (m1 :> u1) @@ (m2 :> u1)
DoubleEachTime == <<1, 2>>

AccountSymmetry == Permutations(Accounts)
Interchangeable == Permutations(Accounts) \cup Permutations(Workers)
=============================================================================
