--------------------------- MODULE MCAccountPage ---------------------------
(* AccountPage has finitely many states and no constant: TLC explores it    *)
(* whole.                                                                   *)
EXTENDS AccountPage

=============================================================================
