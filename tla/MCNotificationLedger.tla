------------------------ MODULE MCNotificationLedger ------------------------
(* Small instances of NotificationLedger for TLC.                           *)
EXTENDS NotificationLedger

CONSTANTS u1, u2, s1, s2, r1, r2

OwnerOfRule == [r \in Rules |-> IF r = r2 /\ u2 \in Users THEN u2 ELSE u1]
\* One slot for each of two days; that of an unlisted facility, for the first.
SlotDays == [s \in Slots |-> IF s \in Unknown THEN 1 ELSE IF s = s1 THEN 2 ELSE 3]

=============================================================================
