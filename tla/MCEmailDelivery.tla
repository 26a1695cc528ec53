--------------------------- MODULE MCEmailDelivery ---------------------------
(* Small instances of EmailDelivery for TLC.                                *)
EXTENDS EmailDelivery, TLC

CONSTANTS u1, m1, m2, w1, w2

OwnerAll == [m \in Messages |-> u1]
\* One tick after the first attempts, two ticks later on.
ShortBackoff == [a \in 1..MaxAttempts |-> IF a = 1 THEN 1 ELSE 2]
Workers2 == Permutations({w1, w2})

=============================================================================
