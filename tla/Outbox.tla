------------------------------- MODULE Outbox -------------------------------
(***************************************************************************)
(* What a delivery queue promises, whatever its channel: a message is      *)
(* queued once, cleared before anything is delivered, delivered at most    *)
(* once, confirmed only if it was, and never open again once it is not.  A *)
(* delivery may come after that: its request was under way.                *)
(***************************************************************************)
EXTENDS Naturals

CONSTANT Messages

VARIABLES
    phase,      \* "none", "open", "confirmed", "dropped", or "gone" with its member
    cleared,    \* messages that a worker was allowed to deliver
    copies      \* how often a message reached its member

vars == <<phase, cleared, copies>>

Init ==
    /\ phase = [m \in Messages |-> "none"]
    /\ cleared = {}
    /\ copies = [m \in Messages |-> 0]

Queue(m) ==
    /\ phase[m] = "none"
    /\ phase' = [phase EXCEPT ![m] = "open"]
    /\ UNCHANGED <<cleared, copies>>

Clear(m) ==
    /\ phase[m] = "open"
    /\ cleared' = cleared \cup {m}
    /\ UNCHANGED <<phase, copies>>

Deliver(m) ==
    /\ m \in cleared /\ copies[m] = 0
    /\ copies' = [copies EXCEPT ![m] = 1]
    /\ UNCHANGED <<phase, cleared>>

\* Only what was delivered is recorded as delivered.
Confirm(m) ==
    /\ phase[m] = "open" /\ copies[m] = 1
    /\ phase' = [phase EXCEPT ![m] = "confirmed"]
    /\ UNCHANGED <<cleared, copies>>

\* One transaction may cancel or give up any number of open messages.
Drop(S) ==
    /\ \A m \in S : phase[m] = "open"
    /\ phase' = [m \in Messages |-> IF m \in S THEN "dropped" ELSE phase[m]]
    /\ UNCHANGED <<cleared, copies>>

\* The provider's later word on a message it took.
Correct(m) ==
    /\ phase[m] \in {"confirmed", "dropped"} /\ copies[m] = 1
    /\ \E p \in {"confirmed", "dropped"} : phase' = [phase EXCEPT ![m] = p]
    /\ UNCHANGED <<cleared, copies>>

\* A member's messages, those to come included, go with the account.
Remove(S) ==
    /\ phase' = [m \in Messages |-> IF m \in S THEN "gone" ELSE phase[m]]
    /\ UNCHANGED <<cleared, copies>>

Next ==
    \/ \E m \in Messages :
          Queue(m) \/ Clear(m) \/ Deliver(m) \/ Confirm(m) \/ Correct(m)
    \/ \E S \in SUBSET Messages : Drop(S) \/ Remove(S)

Spec == Init /\ [][Next]_vars

=============================================================================
