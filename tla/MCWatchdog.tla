----------------------------- MODULE MCWatchdog -----------------------------
(* Small instances of Watchdog for TLC.                                     *)
EXTENDS Watchdog, TLC

CONSTANTS i1, i2

Calls == Permutations({i1, i2})
\* The service window closes for one tick.
Closes == 0..MaxTime \ {StaleAfter + 3}

=============================================================================
