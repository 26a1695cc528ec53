------------------------- MODULE MCEmailPreference -------------------------
(* Small instances of EmailPreference for TLC.                              *)
EXTENDS EmailPreference, TLC


=============================================================================
