----------------------------- MODULE MemberLinks -----------------------------
(***************************************************************************)
(* What the LINE queue takes for granted of members and their LINE         *)
(* accounts, and what linking has to keep to: one member changes at a      *)
(* time, an account is linked to one member, and a member who was deleted  *)
(* has no link and never comes back.                                       *)
(***************************************************************************)
CONSTANTS Users, Accounts, NoAccount

VARIABLES
    member,     \* "active", "inactive" or "deleted"
    link        \* the LINE account of a member's active link

vars == <<member, link>>

Init ==
    /\ member = [u \in Users |-> "active"]
    /\ link = [u \in Users |-> NoAccount]

\* The link becomes active, with an account no link has, or stops being so.
Relink(u, a) ==
    /\ member[u] # "deleted" /\ a # link[u]
    /\ a = NoAccount \/ \A v \in Users : link[v] # a
    /\ link' = [link EXCEPT ![u] = a]
    /\ UNCHANGED member

Suspend(u) ==
    /\ member[u] = "active"
    /\ member' = [member EXCEPT ![u] = "inactive"]
    /\ UNCHANGED link

Resume(u) ==
    /\ member[u] = "inactive"
    /\ member' = [member EXCEPT ![u] = "active"]
    /\ UNCHANGED link

Delete(u) ==
    /\ member[u] = "inactive"
    /\ member' = [member EXCEPT ![u] = "deleted"]
    /\ link' = [link EXCEPT ![u] = NoAccount]

Next ==
    \E u \in Users :
        \/ Suspend(u) \/ Resume(u) \/ Delete(u)
        \/ \E a \in Accounts \cup {NoAccount} : Relink(u, a)

Spec == Init /\ [][Next]_vars

=============================================================================
