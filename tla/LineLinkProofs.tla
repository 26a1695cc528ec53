--------------------------- MODULE LineLinkProofs ---------------------------
(***************************************************************************)
(* Proofs about LineLink, for any numbers of members, LINE accounts,       *)
(* sessions and overlapping calls.                                         *)
(*                                                                         *)
(* The argument is about row locks.  A callback that is past its lookup    *)
(* has its session to itself, and the row is still there, unconsumed, so   *)
(* whoever ends the member's logins has to wait for it.  And a callback    *)
(* that found a link has the row to itself, so what it concluded from the  *)
(* row is still true when it commits.                                      *)
(***************************************************************************)
EXTENDS LineLink, TLAPS

CallTypeOK ==
    /\ call \in [Calls -> {Idle} \cup Starting \cup Returning \cup Completing
                                 \cup Unlinking]
    /\ owner \in [Sessions -> Users \cup {NoUser}]
    /\ consumed \in [Sessions -> BOOLEAN]
    /\ uses \in [Sessions -> Nat]
    /\ born \subseteq Sessions
    /\ barred \subseteq Sessions
    /\ account \in [Users -> Accounts \cup {NoAccount}]
    /\ status \in [Users -> LinkStatuses]

\* A session that is held is there, unconsumed, and held once.
HoldInv ==
    \A c \in Calls, s \in Sessions : Holds(c, s) =>
        /\ owner[s] = call[c].user
        /\ ~consumed[s]
        /\ \A d \in Calls : Holds(d, s) => d = c

\* A session that may still be accepted never was, and was not ended.
SessionInv ==
    \A s \in Sessions :
        /\ uses[s] <= 1
        /\ owner[s] # NoUser => s \in born /\ s \notin barred
        /\ s \notin born => ~consumed[s] /\ uses[s] = 0 /\ s \notin barred
        /\ owner[s] # NoUser /\ ~consumed[s] => uses[s] = 0

\* Where a callback found a link, what it found still holds when it writes.
FoundInv ==
    \A c \in Calls :
        call[c].pc \in {"write", "delete"} /\ call[c].found
        => LET u == call[c].user IN
           status[u] \in Linked => account[u] = call[c].account

\* A link is locked once.
LockInv ==
    \A c \in Calls, u \in Users :
        LocksLink(c, u) => \A d \in Calls : LocksLink(d, u) => d = c

\* A delete lists sessions that exist, and a callback's its own.
DoomedInv ==
    \A c \in Calls :
        /\ call[c].pc \in {"delete", "clear"} => call[c].doomed \subseteq born
        /\ call[c].pc = "delete" => call[c].sess \in call[c].doomed

LinkInv == CallTypeOK /\ HoldInv /\ SessionInv /\ FoundInv /\ LockInv /\ DoomedInv


-----------------------------------------------------------------------------
\* What the program counter says of the rest of a call

LEMMA Kinds ==
  ASSUME CallTypeOK, NEW c \in Calls
  PROVE  /\ call[c].pc = "insert" => call[c] \in Starting
         /\ call[c].pc = "persist" => call[c] \in Returning
         /\ call[c].pc \in {"link", "write", "delete"} => call[c] \in Completing
         /\ call[c].pc \in {"unlink", "clear"} => call[c] \in Unlinking
  BY DEF CallTypeOK, Idle, Starting, Returning, Completing, Unlinking

\* A call moves alone.
LEMMA MovesAlone ==
  ASSUME CallTypeOK, NEW c \in Calls, NEW next, Moves(c, next)
  PROVE  /\ call'[c] = next
         /\ \A d \in Calls : d # c => call'[d] = call[d]
         /\ next \in {Idle} \cup Starting \cup Returning \cup Completing \cup Unlinking
              => call' \in [Calls -> {Idle} \cup Starting \cup Returning
                                     \cup Completing \cup Unlinking]
  BY DEF CallTypeOK, Moves

\* A holder's session can neither be accepted by another nor be new.
LEMMA HeldIsLive ==
  ASSUME LinkInv, NEW c \in Calls, call[c].pc \in {"link", "write", "delete"}
  PROVE  /\ call[c] \in Completing /\ Holds(c, call[c].sess)
         /\ call[c].sess \in Sessions /\ call[c].user \in Users
         /\ owner[call[c].sess] = call[c].user
         /\ ~consumed[call[c].sess]
         /\ uses[call[c].sess] = 0
         /\ call[c].sess \in born /\ call[c].sess \notin barred
<1>1. /\ call[c] \in Completing /\ call[c].sess \in Sessions /\ call[c].user \in Users
      /\ Holds(c, call[c].sess)
  BY Kinds DEF LinkInv, Completing, Holds
<1>2. owner[call[c].sess] = call[c].user /\ ~consumed[call[c].sess]
  BY <1>1 DEF LinkInv, HoldInv, Holds
<1>3. owner[call[c].sess] # NoUser
  BY <1>1, <1>2, LinkAssumption
<1>4. QED
  BY <1>1, <1>2, <1>3 DEF LinkInv, SessionInv

\* A step that only lets go of what a call held, or takes nothing.
LEMMA LettingGo ==
  ASSUME LinkInv, NEW c \in Calls, NEW next, Moves(c, next),
         next \in {Idle} \cup Starting \cup Returning,
         UNCHANGED <<owner, consumed, uses, born, barred, account, status>>
  PROVE  LinkInv'
<1>0. /\ call'[c] = next
      /\ \A d \in Calls : d # c => call'[d] = call[d]
      /\ call' \in [Calls -> {Idle} \cup Starting \cup Returning \cup Completing
                             \cup Unlinking]
  BY MovesAlone DEF LinkInv
<1>1. next.pc \notin {"link", "write", "delete", "unlink", "clear"}
  BY DEF Idle, Starting, Returning
<1>2. CallTypeOK'
  BY <1>0 DEF LinkInv, CallTypeOK
<1>3. HoldInv'
  BY <1>0, <1>1 DEF LinkInv, HoldInv, Holds
<1>4. SessionInv'
  BY DEF LinkInv, SessionInv
<1>5. FoundInv'
  BY <1>0, <1>1 DEF LinkInv, FoundInv
<1>6. LockInv' /\ DoomedInv'
  BY <1>0, <1>1 DEF LinkInv, LockInv, LocksLink, DoomedInv
<1>7. QED
  BY <1>2, <1>3, <1>4, <1>5, <1>6 DEF LinkInv

-----------------------------------------------------------------------------
\* The calls, step by step

LEMMA StartKeeps ==
  ASSUME LinkInv, NEW c \in Calls, NEW u \in Users, Start(c, u)
  PROVE  LinkInv'
<1> DEFINE next == [pc |-> "insert", user |-> u, doomed |-> SessionsOf(u)]
<1>1. next \in Starting
  BY DEF Starting, SessionsOf
<1>2. Moves(c, next)
  BY DEF Start
<1>3. UNCHANGED <<owner, consumed, uses, born, barred, account, status>>
  BY DEF Start, linkVars, sessionVars, historyVars
<1> HIDE DEF next
<1>4. QED
  BY <1>1, <1>2, <1>3, LettingGo

LEMMA CallbackKeeps ==
  ASSUME LinkInv, NEW c \in Calls, NEW s \in Sessions, NEW a \in Accounts,
         Callback(c, s, a), friend[a] \in BOOLEAN, now \in Nat
  PROVE  LinkInv'
<1> DEFINE next == [pc |-> "persist", sess |-> s, account |-> a,
                    isFriend |-> friend[a]]
<1>1. next \in Returning
  BY DEF Returning
<1>2. Moves(c, next)
  BY DEF Callback
<1>3. UNCHANGED <<owner, consumed, uses, born, barred, account, status>>
  BY DEF Callback, linkVars, sessionVars, historyVars
<1> HIDE DEF next
<1>4. QED
  BY <1>1, <1>2, <1>3, LettingGo

LEMMA RollbackKeeps ==
  ASSUME LinkInv, NEW c \in Calls, Rollback(c)
  PROVE  LinkInv'
<1>1. Moves(c, Idle)
  BY DEF Rollback
<1>2. UNCHANGED <<owner, consumed, uses, born, barred, account, status>>
  BY DEF Rollback, linkVars, sessionVars, historyVars
<1>3. QED
  BY <1>1, <1>2, LettingGo

LEMMA StartCommitKeeps ==
  ASSUME LinkInv, NEW c \in Calls, NEW s \in Sessions, StartCommit(c, s)
  PROVE  LinkInv'
<1> DEFINE u == call[c].user
           doomed == call[c].doomed
<1>0. u \in Users /\ doomed \subseteq Sessions /\ call[c].pc = "insert"
  BY Kinds DEF LinkInv, StartCommit, Starting
<1>1. /\ call'[c] = Idle
      /\ \A d \in Calls : d # c => call'[d] = call[d]
      /\ call' \in [Calls -> {Idle} \cup Starting \cup Returning \cup Completing
                             \cup Unlinking]
  BY MovesAlone DEF LinkInv, StartCommit
<1>2. Idle.pc = "idle"
  BY DEF Idle
<1>3. /\ s \notin born
      /\ owner' = [r \in Sessions |-> IF r = s THEN u
                                      ELSE IF r \in doomed THEN NoUser ELSE owner[r]]
      /\ born' = born \cup {s}
      /\ UNCHANGED <<consumed, uses, barred, account, status>>
      /\ \A d \in Calls \ {c}, r \in doomed : ~Holds(d, r)
  BY DEF StartCommit, SessionsFree, Others, linkVars
<1>4. \A d \in Calls : ~Holds(d, s)
  <2> SUFFICES ASSUME NEW d \in Calls, Holds(d, s) PROVE FALSE
    OBVIOUS
  <2>1. QED
    BY <1>3, HeldIsLive DEF Holds
<1> HIDE DEF u, doomed
<1>5. CallTypeOK'
  BY <1>0, <1>1, <1>3 DEF LinkInv, CallTypeOK
<1>6. HoldInv'
  <2> SUFFICES ASSUME NEW d \in Calls, NEW r \in Sessions, Holds(d, r)'
               PROVE  /\ owner'[r] = call'[d].user
                      /\ ~consumed'[r]
                      /\ \A e \in Calls : Holds(e, r)' => e = d
    BY DEF HoldInv
  <2>1. d # c /\ Holds(d, r)
    BY <1>1, <1>2 DEF Holds
  <2>2. r # s /\ r \notin doomed
    BY <1>3, <1>4, <2>1
  <2>3. owner'[r] = owner[r]
    BY <1>3, <2>2
  <2>4. \A e \in Calls : Holds(e, r)' => Holds(e, r)
    BY <1>1, <1>2 DEF Holds
  <2>5. QED
    BY <1>1, <1>3, <2>1, <2>3, <2>4 DEF LinkInv, HoldInv
<1>7. SessionInv'
  BY <1>0, <1>3, LinkAssumption DEF LinkInv, SessionInv, CallTypeOK
<1>8. FoundInv'
  BY <1>1, <1>2, <1>3 DEF LinkInv, FoundInv
<1>9. LockInv' /\ DoomedInv'
  BY <1>1, <1>2, <1>3 DEF LinkInv, LockInv, LocksLink, DoomedInv
<1>10. QED
  BY <1>5, <1>6, <1>7, <1>8, <1>9 DEF LinkInv

\* A refusal uses up the session, which nobody else holds, and lets go of it.
LEMMA RefuseKeeps ==
  ASSUME LinkInv, NEW c \in Calls, NEW s \in Sessions, Refuse(c, s),
         s \in born, uses[s] = 0, ~consumed[s], s \notin barred,
         \A d \in Calls \ {c} : ~Holds(d, s)
  PROVE  LinkInv'
<1>1. /\ call'[c] = Idle
      /\ \A d \in Calls : d # c => call'[d] = call[d]
      /\ call' \in [Calls -> {Idle} \cup Starting \cup Returning \cup Completing
                             \cup Unlinking]
  BY MovesAlone DEF LinkInv, Refuse
<1>2. Idle.pc = "idle"
  BY DEF Idle
<1>3. /\ consumed' = [consumed EXCEPT ![s] = TRUE]
      /\ uses' = [uses EXCEPT ![s] = @ + 1]
      /\ UNCHANGED <<owner, born, barred, account, status>>
  BY DEF Refuse, linkVars
<1>4. CallTypeOK'
  BY <1>1, <1>3 DEF LinkInv, CallTypeOK
<1>5. HoldInv'
  BY <1>1, <1>2, <1>3 DEF LinkInv, HoldInv, Holds, CallTypeOK
<1>6. SessionInv'
  BY <1>3 DEF LinkInv, SessionInv, CallTypeOK
<1>7. FoundInv'
  BY <1>1, <1>2, <1>3 DEF LinkInv, FoundInv
<1>8. LockInv' /\ DoomedInv'
  BY <1>1, <1>2, <1>3 DEF LinkInv, LockInv, LocksLink, DoomedInv
<1>9. QED
  BY <1>4, <1>5, <1>6, <1>7, <1>8 DEF LinkInv

LEMMA FindSessionKeeps ==
  ASSUME LinkInv, NEW c \in Calls, FindSession(c)
  PROVE  LinkInv'
<1> DEFINE s == call[c].sess
           u == owner[s]
<1>0. /\ call[c] \in Returning /\ s \in Sessions
      /\ \A d \in Calls \ {c} : ~Holds(d, s)
  BY Kinds DEF LinkInv, FindSession, Returning, SessionsFree, Others
<1>1. Live(s) => /\ u \in Users /\ s \in born /\ s \notin barred
                 /\ uses[s] = 0 /\ ~consumed[s]
  BY <1>0 DEF Live, LinkInv, CallTypeOK, SessionInv
<1>2. CASE /\ ~Live(s) /\ Moves(c, Idle)
           /\ UNCHANGED <<linkVars, sessionVars, historyVars>>
  BY <1>2, LettingGo DEF linkVars, sessionVars, historyVars
<1>3. CASE Live(s) /\ Refuse(c, s)
  BY <1>0, <1>1, <1>3, RefuseKeeps
<1>4. ASSUME Live(s),
             Moves(c, [pc |-> "link", user |-> u, sess |-> s,
                       account |-> call[c].account, isFriend |-> call[c].isFriend,
                       found |-> FALSE, doomed |-> {}]),
             UNCHANGED <<linkVars, sessionVars, historyVars>>
      PROVE  LinkInv'
  <2> DEFINE next == [pc |-> "link", user |-> u, sess |-> s,
                      account |-> call[c].account, isFriend |-> call[c].isFriend,
                      found |-> FALSE, doomed |-> {}]
  <2>1. next \in Completing /\ next.pc = "link" /\ next.user = u /\ next.sess = s
    BY <1>0, <1>1, <1>4 DEF Returning, Completing
  <2>2. /\ call'[c] = next
        /\ \A d \in Calls : d # c => call'[d] = call[d]
        /\ call' \in [Calls -> {Idle} \cup Starting \cup Returning \cup Completing
                               \cup Unlinking]
    BY <1>4, <2>1, MovesAlone DEF LinkInv
  <2>3. UNCHANGED <<owner, consumed, uses, born, barred, account, status>>
    BY <1>4 DEF linkVars, sessionVars, historyVars
  <2> HIDE DEF next, s, u
  <2>4. CallTypeOK'
    BY <2>2, <2>3 DEF LinkInv, CallTypeOK
  <2>5. HoldInv'
    <3> SUFFICES ASSUME NEW d \in Calls, NEW r \in Sessions, Holds(d, r)'
                 PROVE  /\ owner'[r] = call'[d].user
                        /\ ~consumed'[r]
                        /\ \A e \in Calls : Holds(e, r)' => e = d
      BY DEF HoldInv
    <3>1. CASE d = c
      <4>1. r = s
        BY <2>1, <2>2, <3>1 DEF Holds
      <4>2. \A e \in Calls : Holds(e, r)' => e = c
        BY <1>0, <2>2, <4>1 DEF Holds
      <4>3. QED
        BY <1>1, <1>4, <2>1, <2>2, <2>3, <3>1, <4>1, <4>2 DEF u
    <3>2. CASE d # c
      <4>1. Holds(d, r)
        BY <2>2, <3>2 DEF Holds
      <4>2. r # s
        BY <1>0, <3>2, <4>1
      <4>3. \A e \in Calls : Holds(e, r)' => Holds(e, r)
        BY <2>1, <2>2, <4>2 DEF Holds
      <4>4. QED
        BY <2>2, <2>3, <3>2, <4>1, <4>3 DEF LinkInv, HoldInv
    <3>3. QED
      BY <3>1, <3>2
  <2>6. SessionInv'
    BY <2>3 DEF LinkInv, SessionInv
  <2>7. FoundInv'
    BY <2>1, <2>2, <2>3 DEF LinkInv, FoundInv
  <2>8. LockInv' /\ DoomedInv'
    BY <2>1, <2>2, <2>3 DEF LinkInv, LockInv, LocksLink, DoomedInv
  <2>9. QED
    BY <2>4, <2>5, <2>6, <2>7, <2>8 DEF LinkInv
<1>5. QED
  BY <1>2, <1>3, <1>4 DEF FindSession

\* A callback that holds its session goes on; the link was free if it locks it.
LEMMA HolderMoves ==
  ASSUME LinkInv, NEW c \in Calls, NEW next \in Completing, Moves(c, next),
         call[c].pc \in {"link", "write"}, next.pc \in {"write", "delete"},
         next.user = call[c].user, next.sess = call[c].sess,
         next.found /\ status[next.user] \in Linked
           => account[next.user] = next.account,
         next.found \/ next.pc = "delete"
           => \A d \in Calls \ {c} : ~LocksLink(d, next.user),
         next.pc = "delete" => next.doomed \subseteq born /\ next.sess \in next.doomed,
         UNCHANGED <<owner, consumed, uses, born, barred, account, status>>
  PROVE  LinkInv'
<1>1. /\ call'[c] = next
      /\ \A d \in Calls : d # c => call'[d] = call[d]
      /\ call' \in [Calls -> {Idle} \cup Starting \cup Returning \cup Completing
                             \cup Unlinking]
  BY MovesAlone DEF LinkInv
<1>2. \A d \in Calls, r \in Sessions : Holds(d, r)' <=> Holds(d, r)
  BY <1>1 DEF Holds
<1>3. \A d \in Calls : call'[d].user = call[d].user \/ ~\E r \in Sessions : Holds(d, r)
  BY <1>1
<1>4. CallTypeOK'
  BY <1>1 DEF LinkInv, CallTypeOK
<1>5. HoldInv'
  BY <1>2, <1>3 DEF LinkInv, HoldInv
<1>6. SessionInv'
  BY DEF LinkInv, SessionInv
<1>7. FoundInv'
  BY <1>1 DEF LinkInv, FoundInv
<1>8. LockInv' /\ DoomedInv'
  BY <1>1 DEF LinkInv, LockInv, LocksLink, DoomedInv
<1>9. QED
  BY <1>4, <1>5, <1>6, <1>7, <1>8 DEF LinkInv

LEMMA FindLinkKeeps ==
  ASSUME LinkInv, NEW c \in Calls, FindLink(c)
  PROVE  LinkInv'
<1> DEFINE s == call[c].sess
           u == call[c].user
           next == [call[c] EXCEPT !.pc = "write", !.found = status[u] # "none"]
<1>1. call[c].pc = "link"
  BY DEF FindLink
<1>2. /\ call[c] \in Completing /\ s \in Sessions
      /\ s \in born /\ s \notin barred /\ uses[s] = 0 /\ ~consumed[s]
      /\ \A d \in Calls \ {c} : ~Holds(d, s)
      /\ status[u] # "none" => \A d \in Calls \ {c} : ~LocksLink(d, u)
  BY <1>1, HeldIsLive DEF LinkInv, HoldInv, FindLink, LinkFree, Others
<1>3. CASE Refuse(c, s)
  BY <1>2, <1>3, RefuseKeeps
<1>4. ASSUME status[u] \in Linked => account[u] = call[c].account,
             Moves(c, next),
             UNCHANGED <<linkVars, sessionVars, historyVars>>
      PROVE  LinkInv'
  <2>1. /\ next \in Completing /\ next.pc = "write" /\ next.user = u
        /\ next.sess = s /\ next.account = call[c].account
        /\ next.found <=> status[u] # "none"
    BY <1>2 DEF Completing
  <2>2. UNCHANGED <<owner, consumed, uses, born, barred, account, status>>
    BY <1>4 DEF linkVars, sessionVars, historyVars
  <2> HIDE DEF next
  <2>3. QED
    BY <1>1, <1>2, <1>4, <2>1, <2>2, HolderMoves
<1>5. QED
  BY <1>3, <1>4 DEF FindLink

LEMMA WriteLinkKeeps ==
  ASSUME LinkInv, NEW c \in Calls, WriteLink(c)
  PROVE  LinkInv'
<1> DEFINE s == call[c].sess
           u == call[c].user
           next == [call[c] EXCEPT !.pc = "delete", !.doomed = SessionsOf(u)]
<1>1. call[c].pc = "write"
  BY DEF WriteLink
<1>2. /\ call[c] \in Completing /\ s \in Sessions
      /\ s \in born /\ s \notin barred /\ uses[s] = 0 /\ ~consumed[s]
      /\ \A d \in Calls \ {c} : ~Holds(d, s)
      /\ \A d \in Calls \ {c} : ~LocksLink(d, u)
  BY <1>1, HeldIsLive DEF LinkInv, HoldInv, WriteLink, LinkFree, Others
<1>3. CASE Refuse(c, s)
  BY <1>2, <1>3, RefuseKeeps
<1>4. ASSUME Moves(c, next), UNCHANGED <<linkVars, sessionVars, historyVars>>
      PROVE  LinkInv'
  <2>1. /\ next \in Completing /\ next.pc = "delete" /\ next.user = u
        /\ next.sess = s /\ next.account = call[c].account
        /\ next.found = call[c].found
    BY <1>2 DEF Completing, SessionsOf
  <2>2. UNCHANGED <<owner, consumed, uses, born, barred, account, status>>
    BY <1>4 DEF linkVars, sessionVars, historyVars
  <2>3. next.found /\ status[u] \in Linked => account[u] = next.account
    BY <1>1, <2>1 DEF LinkInv, FoundInv
  <2>4. next.doomed \subseteq born /\ s \in next.doomed
    <3>1. next.doomed = SessionsOf(u) /\ u \in Users /\ owner[s] = u
      BY <1>1, <1>2, HeldIsLive DEF Completing
    <3>2. QED
      BY <1>2, <3>1, LinkAssumption DEF SessionsOf, LinkInv, SessionInv
  <2> HIDE DEF next
  <2>5. QED
    BY <1>1, <1>2, <1>4, <2>1, <2>2, <2>3, <2>4, HolderMoves
<1>5. QED
  BY <1>3, <1>4 DEF WriteLink

\* The commit of a call that deletes sessions: nobody else holds one of them.
LEMMA EndingKeeps ==
  ASSUME LinkInv, NEW c \in Calls, NEW doomed \in SUBSET Sessions,
         Moves(c, Idle), DeleteSessions(doomed), barred' = barred \cup doomed,
         \A d \in Calls \ {c}, r \in doomed : ~Holds(d, r),
         doomed \subseteq born, UNCHANGED <<consumed, born>>
  PROVE  /\ HoldInv'
         /\ LockInv'
         /\ owner' \in [Sessions -> Users \cup {NoUser}]
         /\ barred' \subseteq Sessions
         /\ \A s \in Sessions : owner'[s] # NoUser => owner[s] # NoUser /\ s \notin doomed
<1>1. /\ call'[c] = Idle
      /\ \A d \in Calls : d # c => call'[d] = call[d]
  BY MovesAlone DEF LinkInv
<1>2. Idle.pc = "idle"
  BY DEF Idle
<1>3. owner' = [s \in Sessions |-> IF s \in doomed THEN NoUser ELSE owner[s]]
  BY DEF DeleteSessions
<1>4. HoldInv'
  <2> SUFFICES ASSUME NEW d \in Calls, NEW r \in Sessions, Holds(d, r)'
               PROVE  /\ owner'[r] = call'[d].user
                      /\ ~consumed'[r]
                      /\ \A e \in Calls : Holds(e, r)' => e = d
    BY DEF HoldInv
  <2>1. d # c /\ Holds(d, r)
    BY <1>1, <1>2 DEF Holds
  <2>2. r \notin doomed
    BY <2>1
  <2>3. \A e \in Calls : Holds(e, r)' => Holds(e, r)
    BY <1>1, <1>2 DEF Holds
  <2>4. QED
    BY <1>1, <1>3, <2>1, <2>2, <2>3 DEF LinkInv, HoldInv
<1>5. LockInv'
  BY <1>1, <1>2 DEF LinkInv, LockInv, LocksLink
<1>6. QED
  BY <1>3, <1>4, <1>5 DEF LinkInv, CallTypeOK

LEMMA LinkCommitKeeps ==
  ASSUME LinkInv, NEW c \in Calls, LinkCommit(c)
  PROVE  LinkInv'
<1> DEFINE s == call[c].sess
           u == call[c].user
           a == call[c].account
           st == StatusOf(call[c].isFriend)
           doomed == call[c].doomed
<1>1. call[c].pc = "delete"
  BY DEF LinkCommit
<1>2. /\ call[c] \in Completing /\ s \in Sessions /\ u \in Users /\ a \in Accounts
      /\ doomed \in SUBSET Sessions
      /\ s \in born /\ uses[s] = 0 /\ LocksLink(c, u)
  BY <1>1, HeldIsLive DEF Completing, LocksLink
<1>3. /\ account' = [account EXCEPT ![u] = a]
      /\ status' = [status EXCEPT ![u] = st]
      /\ uses' = [uses EXCEPT ![s] = @ + 1]
      /\ barred' = barred \cup doomed
      /\ DeleteSessions(doomed)
      /\ Moves(c, Idle)
      /\ UNCHANGED <<consumed, born>>
      /\ \A d \in Calls \ {c}, r \in doomed : ~Holds(d, r)
  BY DEF LinkCommit, SetLink, SessionsFree, Others
<1>4. st \in Linked
  BY DEF StatusOf, Linked
<1>5. /\ call'[c] = Idle
      /\ \A d \in Calls : d # c => call'[d] = call[d]
      /\ call' \in [Calls -> {Idle} \cup Starting \cup Returning \cup Completing
                             \cup Unlinking]
  BY <1>3, MovesAlone DEF LinkInv
<1>6. Idle.pc = "idle"
  BY DEF Idle
<1>7. s \in doomed /\ doomed \subseteq born
  BY <1>1, <1>2 DEF LinkInv, DoomedInv
<1> HIDE DEF s, u, a, st, doomed
<1>8. /\ HoldInv' /\ LockInv'
      /\ owner' \in [Sessions -> Users \cup {NoUser}]
      /\ barred' \subseteq Sessions
      /\ \A r \in Sessions : owner'[r] # NoUser => owner[r] # NoUser /\ r \notin doomed
  BY <1>2, <1>3, <1>7, EndingKeeps
<1>9. CallTypeOK'
  <2>1. account' \in [Users -> Accounts \cup {NoAccount}]
    BY <1>2, <1>3 DEF LinkInv, CallTypeOK
  <2>2. status' \in [Users -> LinkStatuses]
    BY <1>2, <1>3, <1>4 DEF LinkInv, CallTypeOK, LinkStatuses
  <2>3. uses' \in [Sessions -> Nat]
    BY <1>2, <1>3 DEF LinkInv, CallTypeOK
  <2>4. QED
    BY <1>3, <1>5, <1>8, <2>1, <2>2, <2>3 DEF LinkInv, CallTypeOK
<1>10. SessionInv'
  BY <1>2, <1>3, <1>7, <1>8 DEF LinkInv, SessionInv, CallTypeOK
<1>11. FoundInv'
  <2> SUFFICES ASSUME NEW d \in Calls, call'[d].pc \in {"write", "delete"},
                      call'[d].found,
                      status'[call'[d].user] \in Linked
               PROVE  account'[call'[d].user] = call'[d].account
    BY DEF FoundInv
  <2>1. d # c /\ call'[d] = call[d]
    BY <1>5, <1>6
  <2>2. call[d].user \in Users /\ LocksLink(d, call[d].user)
    BY <2>1, HeldIsLive DEF LocksLink
  <2>3. call[d].user # u
    BY <1>2, <2>1, <2>2 DEF LinkInv, LockInv
  <2>4. QED
    BY <1>3, <2>1, <2>2, <2>3 DEF LinkInv, FoundInv, CallTypeOK
<1>12. DoomedInv'
  BY <1>3, <1>5, <1>6 DEF LinkInv, DoomedInv
<1>13. QED
  BY <1>8, <1>9, <1>10, <1>11, <1>12 DEF LinkInv

\* An unlink that locks the link only if it was free.
LEMMA UnlinkerMoves ==
  ASSUME LinkInv, NEW c \in Calls, NEW next \in Unlinking, Moves(c, next),
         next.found => \A d \in Calls \ {c} : ~LocksLink(d, next.user),
         next.pc = "clear" => next.doomed \subseteq born,
         UNCHANGED <<owner, consumed, uses, born, barred, account, status>>
  PROVE  LinkInv'
<1>1. /\ call'[c] = next
      /\ \A d \in Calls : d # c => call'[d] = call[d]
      /\ call' \in [Calls -> {Idle} \cup Starting \cup Returning \cup Completing
                             \cup Unlinking]
  BY MovesAlone DEF LinkInv
<1>2. next.pc \in {"unlink", "clear"}
  BY DEF Unlinking
<1>3. CallTypeOK'
  BY <1>1 DEF LinkInv, CallTypeOK
<1>4. HoldInv'
  BY <1>1, <1>2 DEF LinkInv, HoldInv, Holds
<1>5. SessionInv'
  BY DEF LinkInv, SessionInv
<1>6. FoundInv'
  BY <1>1, <1>2 DEF LinkInv, FoundInv
<1>7. LockInv' /\ DoomedInv'
  BY <1>1, <1>2 DEF LinkInv, LockInv, LocksLink, DoomedInv
<1>8. QED
  BY <1>3, <1>4, <1>5, <1>6, <1>7 DEF LinkInv

LEMMA UnlinkKeeps ==
  ASSUME LinkInv, NEW c \in Calls, NEW u \in Users, Unlink(c, u)
  PROVE  LinkInv'
<1> DEFINE next == [pc |-> "unlink", user |-> u, found |-> status[u] \in Linked,
                    doomed |-> {}]
<1>1. /\ next \in Unlinking /\ next.pc = "unlink" /\ next.user = u
      /\ next.found = (status[u] \in Linked)
  BY DEF Unlinking
<1>2. /\ Moves(c, next)
      /\ next.found => \A d \in Calls \ {c} : ~LocksLink(d, u)
      /\ UNCHANGED <<owner, consumed, uses, born, barred, account, status>>
  BY <1>1 DEF Unlink, LinkFree, Others, linkVars, sessionVars, historyVars
<1> HIDE DEF next
<1>3. QED
  BY <1>1, <1>2, UnlinkerMoves

LEMMA ListSessionsKeeps ==
  ASSUME LinkInv, NEW c \in Calls, ListSessions(c)
  PROVE  LinkInv'
<1> DEFINE u == call[c].user
           next == [call[c] EXCEPT !.pc = "clear", !.doomed = SessionsOf(u)]
<1>1. call[c] \in Unlinking /\ call[c].pc = "unlink" /\ u \in Users
  BY Kinds DEF LinkInv, ListSessions, Unlinking
<1>2. /\ next \in Unlinking /\ next.user = u /\ next.found = call[c].found
      /\ next.doomed = SessionsOf(u)
  BY <1>1 DEF Unlinking, SessionsOf
<1>3. SessionsOf(u) \subseteq born
  BY <1>1, LinkAssumption DEF SessionsOf, LinkInv, SessionInv
<1>4. /\ Moves(c, next)
      /\ UNCHANGED <<owner, consumed, uses, born, barred, account, status>>
  BY DEF ListSessions, linkVars, sessionVars, historyVars
<1>5. next.found => \A d \in Calls \ {c} : ~LocksLink(d, u)
  BY <1>1, <1>2 DEF LinkInv, LockInv, LocksLink
<1> HIDE DEF next
<1>6. QED
  BY <1>2, <1>3, <1>4, <1>5, UnlinkerMoves

LEMMA UnlinkCommitKeeps ==
  ASSUME LinkInv, NEW c \in Calls, UnlinkCommit(c)
  PROVE  LinkInv'
<1> DEFINE u == call[c].user
           doomed == call[c].doomed
<1>1. /\ call[c].pc = "clear" /\ u \in Users /\ doomed \in SUBSET Sessions
      /\ call[c].found => LocksLink(c, u)
      /\ doomed \subseteq born
  BY Kinds DEF LinkInv, UnlinkCommit, Unlinking, LocksLink, DoomedInv
<1>2. /\ DeleteSessions(doomed)
      /\ barred' = barred \cup doomed
      /\ Moves(c, Idle)
      /\ UNCHANGED <<account, consumed, born, uses>>
      /\ \A d \in Calls \ {c}, r \in doomed : ~Holds(d, r)
      /\ IF call[c].found THEN status' = [status EXCEPT ![u] = "unlinked"]
                          ELSE status' = status
  BY DEF UnlinkCommit, SessionsFree, Others
<1>3. /\ call'[c] = Idle
      /\ \A d \in Calls : d # c => call'[d] = call[d]
      /\ call' \in [Calls -> {Idle} \cup Starting \cup Returning \cup Completing
                             \cup Unlinking]
  BY <1>2, MovesAlone DEF LinkInv
<1>4. Idle.pc = "idle"
  BY DEF Idle
<1> HIDE DEF u, doomed
<1>5. /\ HoldInv' /\ LockInv'
      /\ owner' \in [Sessions -> Users \cup {NoUser}]
      /\ barred' \subseteq Sessions
      /\ \A r \in Sessions : owner'[r] # NoUser => owner[r] # NoUser /\ r \notin doomed
  BY <1>1, <1>2, EndingKeeps
<1>6. CallTypeOK'
  BY <1>1, <1>2, <1>3, <1>5 DEF LinkInv, CallTypeOK, LinkStatuses
<1>7. SessionInv'
  BY <1>1, <1>2, <1>5 DEF LinkInv, SessionInv
<1>8. FoundInv'
  <2> SUFFICES ASSUME NEW d \in Calls, call'[d].pc \in {"write", "delete"},
                      call'[d].found,
                      status'[call'[d].user] \in Linked
               PROVE  account'[call'[d].user] = call'[d].account
    BY DEF FoundInv
  <2>1. d # c /\ call'[d] = call[d]
    BY <1>3, <1>4
  <2>2. call[d].user \in Users /\ LocksLink(d, call[d].user)
    BY <2>1, HeldIsLive DEF LocksLink
  <2>3. ~call[c].found \/ call[d].user # u
    BY <1>1, <2>1, <2>2 DEF LinkInv, LockInv
  <2>4. status'[call[d].user] = status[call[d].user]
    BY <1>2, <2>2, <2>3 DEF LinkInv, CallTypeOK
  <2>5. QED
    BY <1>2, <2>1, <2>4 DEF LinkInv, FoundInv
<1>9. DoomedInv'
  BY <1>2, <1>3, <1>4 DEF LinkInv, DoomedInv
<1>10. QED
  BY <1>5, <1>6, <1>7, <1>8, <1>9 DEF LinkInv

-----------------------------------------------------------------------------
\* The steps beside the calls

\* What is beside the calls changes links no call has locked.
LEMMA LinksAside ==
  ASSUME LinkInv, NEW U \in SUBSET Users,
         account' \in [Users -> Accounts \cup {NoAccount}],
         status' \in [Users -> LinkStatuses],
         \A u \in Users \ U : account'[u] = account[u] /\ status'[u] = status[u],
         \A u \in U, c \in Calls : ~LocksLink(c, u),
         UNCHANGED call
  PROVE  FoundInv' /\ LockInv'
<1>1. LockInv'
  BY DEF LinkInv, LockInv, LocksLink
<1>2. FoundInv'
  <2> SUFFICES ASSUME NEW d \in Calls, call[d].pc \in {"write", "delete"},
                      call[d].found,
                      status'[call[d].user] \in Linked
               PROVE  account'[call[d].user] = call[d].account
    BY DEF FoundInv
  <2>1. call[d].user \in Users /\ LocksLink(d, call[d].user)
    BY HeldIsLive DEF LocksLink
  <2>2. call[d].user \notin U
    BY <2>1
  <2>3. QED
    BY <2>1, <2>2 DEF LinkInv, FoundInv
<1>3. QED
  BY <1>1, <1>2

LEMMA SyncIdentityKeeps ==
  ASSUME LinkInv, NEW u \in Users, SyncIdentity(u)
  PROVE  LinkInv'
<1>1. /\ UNCHANGED <<call, owner, consumed, uses, born, barred>>
      /\ Identity[u] \in Accounts
      /\ account' = [account EXCEPT ![u] = Identity[u]]
      /\ status' = [status EXCEPT ![u] = "active"]
      /\ \A c \in Calls : ~LocksLink(c, u)
  BY LinkAssumption DEF SyncIdentity, SetLink, LinkFree, sessionVars
<1>2. CallTypeOK'
  BY <1>1 DEF LinkInv, CallTypeOK, LinkStatuses, Linked
<1>3. HoldInv' /\ SessionInv' /\ DoomedInv'
  BY <1>1 DEF LinkInv, HoldInv, Holds, SessionInv, DoomedInv
<1>4. \A v \in Users \ {u} : account'[v] = account[v] /\ status'[v] = status[v]
  BY <1>1 DEF LinkInv, CallTypeOK
<1>5. FoundInv' /\ LockInv'
  <2>1. /\ account' \in [Users -> Accounts \cup {NoAccount}]
        /\ status' \in [Users -> LinkStatuses]
    BY <1>2 DEF CallTypeOK
  <2> DEFINE U == {u}
  <2> HIDE DEF U
  <2>2. U \in SUBSET Users /\ \A v \in U, c \in Calls : ~LocksLink(c, v)
    BY <1>1 DEF U
  <2>3. \A v \in Users \ U : account'[v] = account[v] /\ status'[v] = status[v]
    BY <1>4 DEF U
  <2>4. QED
    BY <1>1, <2>1, <2>2, <2>3, LinksAside
<1>6. QED
  BY <1>2, <1>3, <1>5 DEF LinkInv

LEMMA DeleteMemberKeeps ==
  ASSUME LinkInv, NEW u \in Users, DeleteMember(u)
  PROVE  LinkInv'
<1>1. /\ UNCHANGED <<call, consumed, uses, born, barred>>
      /\ account' = [account EXCEPT ![u] = NoAccount]
      /\ status' = [status EXCEPT ![u] = "none"]
      /\ owner' = [r \in Sessions |-> IF owner[r] = u THEN NoUser ELSE owner[r]]
      /\ \A c \in Calls : ~LocksLink(c, u)
      /\ \A c \in Calls, r \in Sessions : owner[r] = u => ~Holds(c, r)
  BY DEF DeleteMember, SetLink, DeleteSessions, SessionsOf, LinkFree, SessionsFree
<1>2. CallTypeOK'
  BY <1>1 DEF LinkInv, CallTypeOK, LinkStatuses
<1>3. HoldInv' /\ DoomedInv'
  BY <1>1 DEF LinkInv, HoldInv, Holds, DoomedInv
<1>4. SessionInv'
  BY <1>1 DEF LinkInv, SessionInv, CallTypeOK
<1>5. \A v \in Users \ {u} : account'[v] = account[v] /\ status'[v] = status[v]
  BY <1>1 DEF LinkInv, CallTypeOK
<1>6. FoundInv' /\ LockInv'
  <2>1. /\ account' \in [Users -> Accounts \cup {NoAccount}]
        /\ status' \in [Users -> LinkStatuses]
    BY <1>2 DEF CallTypeOK
  <2> DEFINE U == {u}
  <2> HIDE DEF U
  <2>2. U \in SUBSET Users /\ \A v \in U, c \in Calls : ~LocksLink(c, v)
    BY <1>1 DEF U
  <2>3. \A v \in Users \ U : account'[v] = account[v] /\ status'[v] = status[v]
    BY <1>5 DEF U
  <2>4. QED
    BY <1>1, <2>1, <2>2, <2>3, LinksAside
<1>7. QED
  BY <1>2, <1>3, <1>4, <1>6 DEF LinkInv

LEMMA RecordEventKeeps ==
  ASSUME LinkInv, NEW e, RecordEvent(e)
  PROVE  LinkInv'
<1> DEFINE U == {u \in Users : AppliesTo(u, e)}
<1>1. /\ UNCHANGED <<call, owner, consumed, uses, born, barred, account>>
      /\ \A u \in Users, c \in Calls : AppliesTo(u, e) => ~LocksLink(c, u)
      /\ status' = [u \in Users |-> IF AppliesTo(u, e) THEN StatusOf(e.follow)
                                                     ELSE status[u]]
  BY DEF RecordEvent, LinkFree, sessionVars
<1>2. StatusOf(e.follow) \in LinkStatuses
  BY DEF StatusOf, LinkStatuses, Linked
<1>3. CallTypeOK'
  BY <1>1, <1>2 DEF LinkInv, CallTypeOK
<1>4. HoldInv' /\ SessionInv' /\ DoomedInv'
  BY <1>1 DEF LinkInv, HoldInv, Holds, SessionInv, DoomedInv
<1>5. FoundInv' /\ LockInv'
  <2>1. \A v \in Users \ U : account'[v] = account[v] /\ status'[v] = status[v]
    BY <1>1
  <2>2. \A v \in U, c \in Calls : ~LocksLink(c, v)
    BY <1>1
  <2>3. QED
    BY <1>1, <1>3, <2>1, <2>2, LinksAside DEF CallTypeOK
<1>6. QED
  BY <1>3, <1>4, <1>5 DEF LinkInv

linkInvVars == <<call, owner, consumed, uses, born, barred, account, status>>

LEMMA QuietKeeps ==
  ASSUME LinkInv, UNCHANGED linkInvVars
  PROVE  LinkInv'
  BY DEF linkInvVars, LinkInv, CallTypeOK, HoldInv, SessionInv, FoundInv, LockInv,
         DoomedInv, Holds, LocksLink

-----------------------------------------------------------------------------
\* The invariant holds in every reachable state

EnvTypeOK == now \in Nat /\ friend \in [Accounts -> BOOLEAN]
Safe == LinkInv /\ EnvTypeOK

LEMMA InitSafe == Init => Safe
<1> SUFFICES ASSUME Init PROVE Safe
  OBVIOUS
<1>1. Idle.pc = "idle"
  BY DEF Idle
<1>2. CallTypeOK
  BY DEF Init, CallTypeOK, LinkStatuses
<1>3. HoldInv /\ FoundInv /\ LockInv /\ DoomedInv
  BY <1>1 DEF Init, HoldInv, FoundInv, LockInv, DoomedInv, Holds, LocksLink
<1>4. SessionInv
  BY DEF Init, SessionInv
<1>5. EnvTypeOK
  BY DEF Init, EnvTypeOK
<1>6. QED
  BY <1>2, <1>3, <1>4, <1>5 DEF Safe, LinkInv

LEMMA EnvKeeps ==
  ASSUME EnvTypeOK, [Next]_vars
  PROVE  EnvTypeOK'
<1>1. CASE UNCHANGED vars
  BY <1>1 DEF vars, EnvTypeOK
<1>2. ASSUME NEW a \in Accounts, ChangeFriendship(a) PROVE EnvTypeOK'
  BY <1>2 DEF ChangeFriendship, EnvTypeOK
<1>3. CASE Tick
  BY <1>3 DEF Tick, EnvTypeOK
<1>4. ASSUME NEW c \in Calls,
             \/ \E u \in Users : Start(c, u) \/ Unlink(c, u)
             \/ \E s \in Sessions : StartCommit(c, s)
             \/ \E s \in Sessions, a \in Accounts : Callback(c, s, a)
             \/ ListSessions(c) \/ UnlinkCommit(c) \/ Rollback(c)
      PROVE  UNCHANGED <<now, friend>>
  BY <1>4 DEF Start, Unlink, StartCommit, Callback, ListSessions,
              UnlinkCommit, Rollback
<1>5. ASSUME NEW c \in Calls,
             FindSession(c) \/ FindLink(c) \/ WriteLink(c) \/ LinkCommit(c)
      PROVE  UNCHANGED <<now, friend>>
  BY <1>5 DEF FindSession, FindLink, WriteLink, LinkCommit, Refuse
<1>6. ASSUME \/ \E u \in Users : SyncIdentity(u) \/ ChangeMembership(u)
                                                \/ DeleteMember(u)
             \/ \E e \in net : RecordEvent(e)
      PROVE  UNCHANGED <<now, friend>>
  BY <1>6 DEF SyncIdentity, ChangeMembership, DeleteMember, RecordEvent
<1>7. QED
  BY <1>1, <1>2, <1>3, <1>4, <1>5, <1>6 DEF Next, EnvTypeOK

LEMMA StepSafe ==
  ASSUME Safe, [Next]_vars
  PROVE  Safe'
<1>1. LinkInv /\ EnvTypeOK
  BY DEF Safe
<1>2. EnvTypeOK'
  BY <1>1, EnvKeeps
<1>3. ASSUME UNCHANGED vars PROVE LinkInv'
  BY <1>1, <1>3, QuietKeeps DEF vars, linkVars, sessionVars, historyVars, linkInvVars
<1>4. ASSUME NEW c \in Calls, NEW u \in Users, Start(c, u) PROVE LinkInv'
  BY <1>1, <1>4, StartKeeps
<1>5. ASSUME NEW c \in Calls, NEW u \in Users, Unlink(c, u) PROVE LinkInv'
  BY <1>1, <1>5, UnlinkKeeps
<1>6. ASSUME NEW c \in Calls, NEW s \in Sessions, StartCommit(c, s) PROVE LinkInv'
  BY <1>1, <1>6, StartCommitKeeps
<1>7. ASSUME NEW c \in Calls, NEW s \in Sessions, NEW a \in Accounts,
             Callback(c, s, a)
      PROVE  LinkInv'
  BY <1>1, <1>7, CallbackKeeps DEF EnvTypeOK
<1>8. ASSUME NEW c \in Calls, FindSession(c) PROVE LinkInv'
  BY <1>1, <1>8, FindSessionKeeps
<1>9. ASSUME NEW c \in Calls, FindLink(c) PROVE LinkInv'
  BY <1>1, <1>9, FindLinkKeeps
<1>10. ASSUME NEW c \in Calls, WriteLink(c) PROVE LinkInv'
  BY <1>1, <1>10, WriteLinkKeeps
<1>11. ASSUME NEW c \in Calls, UnlinkCommit(c) PROVE LinkInv'
  BY <1>1, <1>11, UnlinkCommitKeeps
<1>12. ASSUME NEW c \in Calls, Rollback(c) PROVE LinkInv'
  BY <1>1, <1>12, RollbackKeeps
<1>13. ASSUME NEW u \in Users, SyncIdentity(u) PROVE LinkInv'
  BY <1>1, <1>13, SyncIdentityKeeps
<1>14. ASSUME NEW u \in Users, DeleteMember(u) PROVE LinkInv'
  BY <1>1, <1>14, DeleteMemberKeeps
<1>15. ASSUME NEW e \in net, RecordEvent(e) PROVE LinkInv'
  BY <1>1, <1>15, RecordEventKeeps
<1>16. ASSUME \/ \E u \in Users : ChangeMembership(u)
              \/ \E a \in Accounts : ChangeFriendship(a)
              \/ Tick
       PROVE  LinkInv'
  <2>1. UNCHANGED linkInvVars
    BY <1>16 DEF ChangeMembership, ChangeFriendship, Tick, linkVars, sessionVars,
                 historyVars, linkInvVars
  <2>2. QED
    BY <1>1, <2>1, QuietKeeps
<1>17. ASSUME NEW c \in Calls, LinkCommit(c) PROVE LinkInv'
  BY <1>1, <1>17, LinkCommitKeeps
<1>18. ASSUME NEW c \in Calls, ListSessions(c) PROVE LinkInv'
  BY <1>1, <1>18, ListSessionsKeeps
<1>19. QED
  BY <1>2, <1>3, <1>4, <1>5, <1>6, <1>7, <1>8, <1>9, <1>10, <1>11, <1>12, <1>13,
     <1>14, <1>15, <1>16, <1>17, <1>18 DEF Next, Safe

\* The row locks protect what the calls found: HoldInv, SessionInv, FoundInv,
\* LockInv and DoomedInv hold in every reachable state.
THEOREM LocksProtect == Spec => []Safe
<1>1. Safe /\ [Next]_vars => Safe'
  BY StepSafe
<1>2. QED
  BY <1>1, InitSafe, PTL DEF Spec

-----------------------------------------------------------------------------
\* The properties

\* A session lets at most one callback through (complete_line_account_link).
THEOREM SessionsAreSingleUse == Spec => []AcceptedOnce
<1>1. Safe => AcceptedOnce
  BY DEF Safe, LinkInv, SessionInv, AcceptedOnce
<1>2. QED
  BY <1>1, LocksProtect, PTL

\* Only a callback that may use a session, uses it.
LEMMA WhoUses ==
  ASSUME Safe, [Next]_vars, NEW s \in Sessions, uses'[s] # uses[s]
  PROVE  s \notin barred
<1>1. LinkInv
  BY DEF Safe
<1>2. CASE UNCHANGED uses
  BY <1>2
<1>3. ASSUME NEW c \in Calls, FindSession(c), uses' # uses PROVE s \notin barred
  <2> DEFINE r == call[c].sess
  <2>1. r \in Sessions
    BY <1>1, <1>3, Kinds DEF LinkInv, FindSession, Returning
  <2>2. Live(r) /\ Refuse(c, r)
    BY <1>3 DEF FindSession, historyVars
  <2>3. r \notin barred
    BY <1>1, <2>1, <2>2 DEF Live, LinkInv, SessionInv
  <2>4. s = r
    BY <1>1, <2>1, <2>2 DEF Refuse, LinkInv, CallTypeOK
  <2>5. QED
    BY <2>3, <2>4
<1>4. ASSUME NEW c \in Calls, FindLink(c) \/ WriteLink(c) \/ LinkCommit(c),
             uses' # uses
      PROVE  s \notin barred
  <2> DEFINE r == call[c].sess
  <2>1. call[c].pc \in {"link", "write", "delete"}
    BY <1>4 DEF FindLink, WriteLink, LinkCommit
  <2>2. r \in Sessions /\ r \notin barred
    BY <1>1, <2>1, HeldIsLive
  <2>3. uses' = [uses EXCEPT ![r] = @ + 1]
    BY <1>4 DEF FindLink, WriteLink, LinkCommit, Refuse, historyVars
  <2>4. s = r
    BY <1>1, <2>2, <2>3 DEF LinkInv, CallTypeOK
  <2>5. QED
    BY <2>2, <2>4
<1>5. ASSUME NEW c \in Calls,
             \/ \E u \in Users : Start(c, u) \/ Unlink(c, u)
             \/ \E r \in Sessions : StartCommit(c, r)
             \/ \E r \in Sessions, a \in Accounts : Callback(c, r, a)
             \/ ListSessions(c) \/ UnlinkCommit(c) \/ Rollback(c)
      PROVE  UNCHANGED uses
  BY <1>5 DEF Start, Unlink, StartCommit, Callback, ListSessions,
              UnlinkCommit, Rollback, historyVars
<1>6. ASSUME \/ \E u \in Users : SyncIdentity(u) \/ ChangeMembership(u)
                                                \/ DeleteMember(u)
             \/ \E a \in Accounts : ChangeFriendship(a)
             \/ \E e \in net : RecordEvent(e)
             \/ Tick
             \/ UNCHANGED vars
      PROVE  UNCHANGED uses
  BY <1>6 DEF SyncIdentity, ChangeMembership, DeleteMember, ChangeFriendship,
              RecordEvent, Tick, vars, historyVars
<1>7. QED
  BY <1>2, <1>3, <1>4, <1>5, <1>6 DEF Next

\* The logins a link or an unlink found in progress are not accepted after it.
THEOREM EndedIsEnded == Spec => EndedLoginsStayEnded
<1>1. Safe /\ [Next]_vars => [\A s \in barred : uses'[s] = uses[s]]_vars
  <2> SUFFICES ASSUME Safe, [Next]_vars, NEW s \in barred PROVE uses'[s] = uses[s]
    OBVIOUS
  <2>1. s \in Sessions
    BY DEF Safe, LinkInv, CallTypeOK
  <2>2. QED
    BY <2>1, WhoUses
<1>2. QED
  BY <1>1, LocksProtect, PTL DEF Spec, EndedLoginsStayEnded

\* Only a callback that found no link gives a linked member another account.
LEMMA WhoRelinks ==
  ASSUME Safe, [Next]_vars, NEW u \in Users, account'[u] # account[u],
         status[u] \in Linked, status'[u] \in Linked
  PROVE  \E c \in Calls : LocksLink(c, u) /\ ~call[c].found
<1>1. LinkInv /\ "none" \notin Linked
  BY DEF Safe, Linked
<1>2. ASSUME NEW c \in Calls, LinkCommit(c)
      PROVE  LocksLink(c, u) /\ ~call[c].found
  <2>1. /\ call[c].pc = "delete"
        /\ account' = [account EXCEPT ![call[c].user] = call[c].account]
    BY <1>2 DEF LinkCommit, SetLink
  <2>2. call[c].user = u
    BY <1>1, <2>1 DEF LinkInv, CallTypeOK
  <2>3. account'[u] = call[c].account
    BY <1>1, <2>1, <2>2 DEF LinkInv, CallTypeOK
  <2>4. QED
    BY <1>1, <2>1, <2>2, <2>3 DEF LinkInv, FoundInv, LocksLink
<1>3. ASSUME NEW v \in Users, SyncIdentity(v) \/ DeleteMember(v)
      PROVE  FALSE
  <2>1. v = u
    BY <1>1, <1>3 DEF SyncIdentity, DeleteMember, SetLink, LinkInv, CallTypeOK
  <2>2. CASE SyncIdentity(v)
    BY <1>1, <2>1, <2>2 DEF SyncIdentity
  <2>3. CASE DeleteMember(v)
    BY <1>1, <2>1, <2>3 DEF DeleteMember, SetLink, LinkInv, CallTypeOK
  <2>4. QED
    BY <1>3, <2>2, <2>3
<1>4. ASSUME NEW c \in Calls, FindSession(c) \/ FindLink(c) \/ WriteLink(c)
      PROVE  UNCHANGED account
  BY <1>4 DEF FindSession, FindLink, WriteLink, Refuse, linkVars
<1>5. ASSUME NEW c \in Calls,
             \/ \E v \in Users : Start(c, v) \/ Unlink(c, v)
             \/ \E s \in Sessions : StartCommit(c, s)
             \/ \E s \in Sessions, a \in Accounts : Callback(c, s, a)
             \/ ListSessions(c) \/ UnlinkCommit(c) \/ Rollback(c)
      PROVE  UNCHANGED account
  BY <1>5 DEF Start, Unlink, StartCommit, Callback, ListSessions, UnlinkCommit,
              Rollback, linkVars
<1>6. ASSUME \/ \E v \in Users : ChangeMembership(v)
             \/ \E a \in Accounts : ChangeFriendship(a)
             \/ \E e \in net : RecordEvent(e)
             \/ Tick
             \/ UNCHANGED vars
      PROVE  UNCHANGED account
  BY <1>6 DEF ChangeMembership, ChangeFriendship, RecordEvent, Tick, vars, linkVars
<1>7. QED
  BY <1>2, <1>3, <1>4, <1>5, <1>6 DEF Next

\* The row lock on a link that was found keeps the conflict check true.
THEOREM ConflictCheckHolds == Spec => FoundLinksKept
<1> DEFINE Kept ==
      \A u \in Users :
         {status[u], status'[u]} \subseteq Linked /\ account'[u] # account[u]
         => \E c \in Calls : LocksLink(c, u) /\ ~call[c].found
<1>1. Safe /\ [Next]_vars => [Kept]_vars
  <2> SUFFICES ASSUME Safe, [Next]_vars, NEW u \in Users, account'[u] # account[u],
                      {status[u], status'[u]} \subseteq Linked
               PROVE  \E c \in Calls : LocksLink(c, u) /\ ~call[c].found
    OBVIOUS
  <2>1. QED
    BY WhoRelinks
<1>2. QED
  BY <1>1, LocksProtect, PTL DEF Spec, FoundLinksKept

-----------------------------------------------------------------------------
\* Webhooks out of order

RealEvents == {e \in Events : e.at # Null}

EventInv ==
    /\ now \in Nat \ {0}
    /\ friend \in [Accounts -> BOOLEAN]
    /\ net \subseteq RealEvents
    /\ heard \in [Users -> SUBSET RealEvents]
    /\ lastAt \in [Users -> Nat]
    /\ status \in [Users -> LinkStatuses]
    /\ LinkFollowsNewestEvent

\* What the status follows is the status, the last instant and the events.
LEMMA FollowsAlone ==
  ASSUME EventInv, net' \subseteq RealEvents, now' \in Nat \ {0},
         friend' \in [Accounts -> BOOLEAN], UNCHANGED <<status, lastAt, heard>>
  PROVE  EventInv'
  BY DEF EventInv, LinkFollowsNewestEvent

\* A link that is made anew has heard nothing.
LEMMA NewLinkFollows ==
  ASSUME EventInv, NEW u \in Users, NEW a, NEW st \in LinkStatuses,
         SetLink(u, a, st), UNCHANGED <<net, now, friend>>
  PROVE  EventInv'
<1>1. /\ status' = [status EXCEPT ![u] = st]
      /\ lastAt' = [lastAt EXCEPT ![u] = Null]
      /\ heard' = [heard EXCEPT ![u] = {}]
  BY DEF SetLink
<1>2. /\ heard' \in [Users -> SUBSET RealEvents]
      /\ lastAt' \in [Users -> Nat]
      /\ status' \in [Users -> LinkStatuses]
  BY <1>1 DEF EventInv, Null
<1>3. LinkFollowsNewestEvent'
  BY <1>1 DEF EventInv, LinkFollowsNewestEvent
<1>4. QED
  BY <1>2, <1>3 DEF EventInv

LEMMA UnlinkFollows ==
  ASSUME EventInv, Safe, NEW c \in Calls, UnlinkCommit(c)
  PROVE  EventInv'
<1> DEFINE u == call[c].user
<1>1. u \in Users
  BY Kinds DEF Safe, LinkInv, UnlinkCommit, Unlinking
<1>2. UNCHANGED <<net, now, friend, heard>>
  BY DEF UnlinkCommit
<1>3. CASE UNCHANGED <<status, lastAt>>
  BY <1>2, <1>3, FollowsAlone DEF EventInv
<1>4. ASSUME status' = [status EXCEPT ![u] = "unlinked"],
             lastAt' = [lastAt EXCEPT ![u] = Null]
      PROVE  EventInv'
  <2>1. lastAt' \in [Users -> Nat] /\ status' \in [Users -> LinkStatuses]
    BY <1>4 DEF EventInv, Null, LinkStatuses
  <2>2. LinkFollowsNewestEvent'
    BY <1>1, <1>2, <1>4 DEF EventInv, LinkFollowsNewestEvent, Linked
  <2>3. QED
    BY <1>2, <2>1, <2>2 DEF EventInv
<1>5. QED
  BY <1>3, <1>4 DEF UnlinkCommit

\* An event either is the newest, or leaves the newest in place.
LEMMA RecordFollows ==
  ASSUME EventInv, NEW e \in net, RecordEvent(e)
  PROVE  EventInv'
<1>1. /\ UNCHANGED <<net, now, friend>>
      /\ e \notin recorded
      /\ status' = [u \in Users |-> IF AppliesTo(u, e) THEN StatusOf(e.follow)
                                                     ELSE status[u]]
      /\ lastAt' = [u \in Users |-> IF AppliesTo(u, e) THEN e.at ELSE lastAt[u]]
      /\ heard' = [u \in Users |-> IF u \in Reaches(e) /\ e \notin recorded
                                   THEN heard[u] \cup {e} ELSE heard[u]]
  BY DEF RecordEvent, Unrecorded
<1>2. e \in RealEvents /\ e.at \in Nat /\ e.at # Null
  BY DEF EventInv, RealEvents, Events
<1>3. StatusOf(e.follow) \in LinkStatuses
  BY DEF StatusOf, LinkStatuses, Linked
<1>4. /\ heard' \in [Users -> SUBSET RealEvents]
      /\ lastAt' \in [Users -> Nat]
      /\ status' \in [Users -> LinkStatuses]
  BY <1>1, <1>2, <1>3 DEF EventInv
<1>5. LinkFollowsNewestEvent'
  <2> SUFFICES ASSUME NEW u \in Users, status'[u] \in Linked
               PROVE  IF heard'[u] = {} THEN lastAt'[u] = Null
                      ELSE \E f \in heard'[u] :
                             /\ \A g \in heard'[u] : g.at <= f.at
                             /\ lastAt'[u] = f.at
                             /\ status'[u] = IF f.follow THEN "active" ELSE "blocked"
    BY DEF LinkFollowsNewestEvent
  <2>0. \A g \in heard[u] : g.at \in Nat /\ g.at # Null
    BY DEF EventInv, RealEvents, Events
  <2>1. CASE u \notin Reaches(e)
    BY <1>1, <2>1 DEF EventInv, LinkFollowsNewestEvent, AppliesTo
  <2>2. CASE u \in Reaches(e) /\ Newest(u, e)
    <3>1. /\ heard'[u] = heard[u] \cup {e} /\ lastAt'[u] = e.at
          /\ status'[u] = IF e.follow THEN "active" ELSE "blocked"
      BY <1>1, <2>2 DEF AppliesTo, StatusOf
    <3>2. \A g \in heard[u] : g.at <= e.at
      <4>1. status[u] \in Linked
        BY <2>2 DEF Reaches
      <4>2. CASE heard[u] = {}
        BY <4>2
      <4>3. CASE heard[u] # {}
        <5>1. PICK f \in heard[u] : /\ \A g \in heard[u] : g.at <= f.at
                                    /\ lastAt[u] = f.at
          BY <4>1, <4>3 DEF EventInv, LinkFollowsNewestEvent
        <5>2. f.at <= e.at
          BY <2>0, <2>2, <5>1 DEF Newest
        <5>3. QED
          BY <1>2, <2>0, <5>1, <5>2
      <4>4. QED
        BY <4>2, <4>3
    <3>3. \A g \in heard'[u] : g.at <= e.at
      BY <1>2, <3>1, <3>2
    <3>4. QED
      BY <3>1, <3>3
  <2>3. CASE u \in Reaches(e) /\ ~Newest(u, e)
    <3>1. /\ heard'[u] = heard[u] \cup {e} /\ lastAt'[u] = lastAt[u]
          /\ status'[u] = status[u] /\ status[u] \in Linked
      BY <1>1, <2>3 DEF AppliesTo, Reaches
    <3>2. lastAt[u] # Null /\ ~(lastAt[u] <= e.at) /\ lastAt[u] \in Nat
      BY <2>3 DEF Newest, EventInv
    <3>3. PICK f \in heard[u] : /\ \A g \in heard[u] : g.at <= f.at
                                /\ lastAt[u] = f.at
                                /\ status[u] = IF f.follow THEN "active" ELSE "blocked"
      BY <3>1, <3>2 DEF EventInv, LinkFollowsNewestEvent
    <3>4. e.at <= f.at
      BY <1>2, <3>2, <3>3
    <3>5. QED
      BY <3>1, <3>3, <3>4
  <2>4. QED
    BY <2>1, <2>2, <2>3
<1>6. QED
  BY <1>1, <1>4, <1>5 DEF EventInv

LEMMA EventKeeps ==
  ASSUME EventInv, Safe, [Next]_vars
  PROVE  EventInv'
<1>1. ASSUME NEW c \in Calls, LinkCommit(c) PROVE EventInv'
  <2>1. call[c].user \in Users
    BY <1>1, HeldIsLive DEF LinkCommit, Safe
  <2>2. StatusOf(call[c].isFriend) \in LinkStatuses
    BY DEF StatusOf, LinkStatuses, Linked
  <2>3. SetLink(call[c].user, call[c].account, StatusOf(call[c].isFriend))
          /\ UNCHANGED <<net, now, friend>>
    BY <1>1 DEF LinkCommit
  <2>4. QED
    BY <2>1, <2>2, <2>3, NewLinkFollows
<1>2. ASSUME NEW u \in Users, SyncIdentity(u) PROVE EventInv'
  <2>1. "active" \in LinkStatuses
    BY DEF LinkStatuses, Linked
  <2>2. SetLink(u, Identity[u], "active") /\ UNCHANGED <<net, now, friend>>
    BY <1>2 DEF SyncIdentity
  <2>3. QED
    BY <2>1, <2>2, NewLinkFollows
<1>3. ASSUME NEW u \in Users, DeleteMember(u) PROVE EventInv'
  <2>1. "none" \in LinkStatuses
    BY DEF LinkStatuses
  <2>2. SetLink(u, NoAccount, "none") /\ UNCHANGED <<net, now, friend>>
    BY <1>3 DEF DeleteMember
  <2>3. QED
    BY <2>1, <2>2, NewLinkFollows
<1>4. ASSUME NEW c \in Calls, UnlinkCommit(c) PROVE EventInv'
  BY <1>4, UnlinkFollows
<1>5. ASSUME NEW e \in net, RecordEvent(e) PROVE EventInv'
  BY <1>5, RecordFollows
<1>6. ASSUME NEW a \in Accounts, ChangeFriendship(a) PROVE EventInv'
  <2>1. friend' \in [Accounts -> BOOLEAN]
    BY <1>6 DEF ChangeFriendship, EventInv
  <2>2. [account |-> a, follow |-> ~friend[a], at |-> now] \in RealEvents
    BY DEF RealEvents, Events, EventInv, Null
  <2>3. /\ net' \subseteq RealEvents
        /\ UNCHANGED <<now, status, lastAt, heard>>
    BY <1>6, <2>2 DEF ChangeFriendship, EventInv, linkVars, historyVars
  <2>4. QED
    BY <2>1, <2>3, FollowsAlone DEF EventInv
<1>7. ASSUME Tick PROVE EventInv'
  <2>1. now' \in Nat \ {0} /\ UNCHANGED <<net, friend, status, lastAt, heard>>
    BY <1>7 DEF Tick, EventInv, linkVars, historyVars
  <2>2. QED
    BY <2>1, FollowsAlone DEF EventInv
<1>8. ASSUME NEW c \in Calls,
             \/ \E u \in Users : Start(c, u) \/ Unlink(c, u)
             \/ \E s \in Sessions : StartCommit(c, s)
             \/ \E s \in Sessions, a \in Accounts : Callback(c, s, a)
             \/ ListSessions(c) \/ Rollback(c)
      PROVE  EventInv'
  <2>1. UNCHANGED <<net, now, friend, status, lastAt, heard>>
    BY <1>8 DEF Start, Unlink, StartCommit, Callback, ListSessions, Rollback,
                linkVars, historyVars
  <2>2. QED
    BY <2>1, FollowsAlone DEF EventInv
<1>9. ASSUME NEW c \in Calls, FindSession(c) \/ FindLink(c) \/ WriteLink(c)
      PROVE  EventInv'
  <2>1. UNCHANGED <<net, now, friend, status, lastAt, heard>>
    BY <1>9 DEF FindSession, FindLink, WriteLink, Refuse, linkVars, historyVars
  <2>2. QED
    BY <2>1, FollowsAlone DEF EventInv
<1>10. ASSUME (\E u \in Users : ChangeMembership(u)) \/ UNCHANGED vars
       PROVE  EventInv'
  <2>1. UNCHANGED <<net, now, friend, status, lastAt, heard>>
    BY <1>10 DEF ChangeMembership, vars, linkVars, historyVars
  <2>2. QED
    BY <2>1, FollowsAlone DEF EventInv
<1>11. QED
  BY <1>1, <1>2, <1>3, <1>4, <1>5, <1>6, <1>7, <1>8, <1>9, <1>10 DEF Next

\* However late, repeated or out of order the webhooks arrive, a link has the
\* status of the newest event that met it (record_line_webhook_events).
THEOREM NewestEventRules == Spec => []LinkFollowsNewestEvent
<1>1. Init => EventInv
  BY DEF Init, EventInv, LinkFollowsNewestEvent, LinkStatuses, Linked, RealEvents, Null
<1>2. EventInv /\ Safe /\ [Next]_vars => EventInv'
  BY EventKeeps
<1>3. EventInv => LinkFollowsNewestEvent
  BY DEF EventInv
<1>4. QED
  BY <1>1, <1>2, <1>3, LocksProtect, PTL DEF Spec

-----------------------------------------------------------------------------
\* Types, and the unique constraint on line_user_id.  The account that a write
\* takes stays free until the write commits: later writers wait for its lock.

AccountsUnique ==
    \A u, v \in Users : account[u] = account[v] => u = v \/ account[u] = NoAccount

TakenInv ==
    \A c \in Calls : call[c].pc = "delete" =>
        /\ ~Taken(call[c].user, call[c].account)
        /\ \A d \in Calls : call[d].pc = "delete" /\ call[d].account = call[c].account
                              => d = c

RowTypes ==
    /\ membership \in [Users -> {"active", "inactive", "deleted"}]
    /\ expires \in [Sessions -> Nat]
    /\ recorded \subseteq Events

TypeInv == Safe /\ EventInv /\ RowTypes /\ AccountsUnique /\ TakenInv

LEMMA InitTypes == Init => TypeInv
<1> SUFFICES ASSUME Init PROVE TypeInv
  OBVIOUS
<1>1. Safe
  BY InitSafe
<1>2. EventInv
  BY DEF Init, EventInv, LinkFollowsNewestEvent, LinkStatuses, Linked, RealEvents, Null
<1>3. RowTypes
  BY DEF Init, RowTypes, Null
<1>4. AccountsUnique /\ TakenInv
  BY DEF Init, AccountsUnique, TakenInv, Idle
<1>5. QED
  BY <1>1, <1>2, <1>3, <1>4 DEF TypeInv

LEMMA RowsKeep ==
  ASSUME TypeInv, [Next]_vars
  PROVE  RowTypes'
<1>0. /\ now \in Nat /\ Lifetime \in Nat /\ net \subseteq Events
      /\ membership \in [Users -> {"active", "inactive", "deleted"}]
      /\ expires \in [Sessions -> Nat] /\ recorded \subseteq Events
  BY LinkAssumption DEF TypeInv, EventInv, RowTypes, RealEvents
<1>1. CASE UNCHANGED <<membership, expires, recorded>>
  BY <1>1, <1>0 DEF RowTypes
<1>2. ASSUME NEW c \in Calls, NEW s \in Sessions, StartCommit(c, s) PROVE RowTypes'
  BY <1>0, <1>2 DEF StartCommit, RowTypes
<1>3. ASSUME NEW u \in Users, ChangeMembership(u) \/ DeleteMember(u) PROVE RowTypes'
  BY <1>0, <1>3 DEF ChangeMembership, DeleteMember, RowTypes, sessionVars
<1>4. ASSUME NEW e \in net, RecordEvent(e) PROVE RowTypes'
  BY <1>0, <1>4 DEF RecordEvent, RowTypes, sessionVars
<1>5. ASSUME NEW c \in Calls,
             \/ \E u \in Users : Start(c, u) \/ Unlink(c, u)
             \/ \E s \in Sessions, a \in Accounts : Callback(c, s, a)
             \/ ListSessions(c) \/ UnlinkCommit(c) \/ Rollback(c)
      PROVE  UNCHANGED <<membership, expires, recorded>>
  BY <1>5 DEF Start, Unlink, Callback, ListSessions, UnlinkCommit, Rollback, sessionVars
<1>6. ASSUME NEW c \in Calls,
             FindSession(c) \/ FindLink(c) \/ WriteLink(c) \/ LinkCommit(c)
      PROVE  UNCHANGED <<membership, expires, recorded>>
  BY <1>6 DEF FindSession, FindLink, WriteLink, LinkCommit, Refuse, sessionVars
<1>7. ASSUME \/ \E u \in Users : SyncIdentity(u)
             \/ \E a \in Accounts : ChangeFriendship(a)
             \/ Tick \/ UNCHANGED vars
      PROVE  UNCHANGED <<membership, expires, recorded>>
  BY <1>7 DEF SyncIdentity, ChangeFriendship, Tick, vars, sessionVars
<1>8. QED
  BY <1>1, <1>2, <1>3, <1>4, <1>5, <1>6, <1>7 DEF Next

\* A step after which every call that writes was writing before, and no link has
\* another account.
LEMMA NothingTaken ==
  ASSUME TypeInv, UNCHANGED account,
         \A c \in Calls : call'[c] = call[c] \/ call'[c].pc # "delete"
  PROVE  AccountsUnique' /\ TakenInv'
  BY DEF TypeInv, AccountsUnique, TakenInv, Taken

LEMMA WriteTakes ==
  ASSUME TypeInv, NEW c \in Calls, WriteLink(c), ~Refuse(c, call[c].sess)
  PROVE  AccountsUnique' /\ TakenInv'
<1> DEFINE u == call[c].user
           a == call[c].account
           next == [call[c] EXCEPT !.pc = "delete", !.doomed = SessionsOf(u)]
<1>1. call[c] \in Completing /\ CallTypeOK
  BY HeldIsLive DEF TypeInv, Safe, LinkInv, WriteLink
<1>2. next.pc = "delete" /\ next.user = u /\ next.account = a
  BY <1>1 DEF Completing
<1>3. Moves(c, next) /\ ~Taken(u, a) /\ UNCHANGED account
  BY DEF WriteLink, linkVars
<1>4. call'[c] = next /\ \A d \in Calls : d # c => call'[d] = call[d]
  BY <1>1, <1>3, MovesAlone
<1>5. \A d \in Calls \ {c} : call[d].pc = "delete" => call[d].account # a
  BY DEF WriteLink, AccountFree, Others
<1> HIDE DEF u, a, next
<1>6. QED
  BY <1>2, <1>3, <1>4, <1>5 DEF TypeInv, AccountsUnique, TakenInv, Taken

\* A link gets an account that no other link has, and that no other write takes.
LEMMA SetUnique ==
  ASSUME AccountsUnique, TakenInv, CallTypeOK,
         NEW u \in Users, NEW a, account' = [account EXCEPT ![u] = a],
         a = NoAccount \/ ~Taken(u, a),
         NEW D \in SUBSET Calls, \A d \in D : call'[d] = call[d],
         \A d \in Calls \ D : call'[d].pc # "delete",
         \A d \in D : call[d].pc = "delete" => call[d].account # a
  PROVE  AccountsUnique' /\ TakenInv'
<1>1. AccountsUnique'
  BY DEF AccountsUnique, Taken, CallTypeOK
<1>2. TakenInv'
  BY DEF TakenInv, Taken, CallTypeOK
<1>3. QED
  BY <1>1, <1>2

LEMMA CommitUnique ==
  ASSUME TypeInv, NEW c \in Calls, LinkCommit(c)
  PROVE  AccountsUnique' /\ TakenInv'
<1>0. AccountsUnique /\ TakenInv /\ CallTypeOK /\ call[c].pc = "delete"
  BY DEF TypeInv, Safe, LinkInv, LinkCommit
<1>1. PICK u, a : u = call[c].user /\ a = call[c].account
  OBVIOUS
<1>2. u \in Users
  BY <1>0, <1>1, HeldIsLive DEF TypeInv, Safe
<1>3. account' = [account EXCEPT ![u] = a] /\ Moves(c, Idle)
  BY <1>1 DEF LinkCommit, SetLink
<1>4. call'[c] = Idle /\ \A d \in Calls \ {c} : call'[d] = call[d]
  BY <1>0, <1>3, MovesAlone
<1>5. /\ ~Taken(u, a)
      /\ \A d \in Calls \ {c} : call[d].pc = "delete" => call[d].account # a
  BY <1>0, <1>1 DEF TakenInv
<1>6. Idle.pc # "delete"
  BY DEF Idle
<1>7. Calls \ {c} \in SUBSET Calls /\ \A d \in Calls \ (Calls \ {c}) : call'[d].pc # "delete"
  BY <1>4, <1>6
<1>8. QED
  BY <1>0, <1>2, <1>3, <1>4, <1>5, <1>7, SetUnique

LEMMA SyncUnique ==
  ASSUME TypeInv, NEW u \in Users, SyncIdentity(u) \/ DeleteMember(u)
  PROVE  AccountsUnique' /\ TakenInv'
<1>0. AccountsUnique /\ TakenInv /\ CallTypeOK /\ Safe
  BY DEF TypeInv, Safe, LinkInv
<1>1. \A d \in Calls : call[d].pc = "delete" => call[d].account # NoAccount
  BY <1>0, HeldIsLive, LinkAssumption DEF Safe, Completing
<1>2. PICK a : /\ account' = [account EXCEPT ![u] = a]
               /\ a = NoAccount \/ ~Taken(u, a)
               /\ \A d \in Calls : call[d].pc = "delete" => call[d].account # a
  <2>1. CASE SyncIdentity(u)
    BY <2>1 DEF SyncIdentity, SetLink, AccountFree
  <2>2. CASE DeleteMember(u)
    BY <1>1, <2>2 DEF DeleteMember, SetLink
  <2>3. QED
    BY <2>1, <2>2
<1>3. call' = call
  BY DEF SyncIdentity, DeleteMember
<1>4. QED
  BY <1>0, <1>2, <1>3, SetUnique

LEMMA UniqueKeeps ==
  ASSUME TypeInv, [Next]_vars
  PROVE  AccountsUnique' /\ TakenInv'
<1>0. CallTypeOK /\ Idle.pc = "idle"
  BY DEF TypeInv, Safe, LinkInv, Idle
<1>1. ASSUME NEW c \in Calls, NEW next, Moves(c, next), next.pc # "delete",
             UNCHANGED account
      PROVE  AccountsUnique' /\ TakenInv'
  <2>1. \A d \in Calls : call'[d] = call[d] \/ call'[d].pc # "delete"
    BY <1>0, <1>1, MovesAlone
  <2>2. QED
    BY <1>1, <2>1, NothingTaken
<1>2. ASSUME NEW c \in Calls,
             \/ \E u \in Users : Start(c, u) \/ Unlink(c, u)
             \/ \E s \in Sessions : StartCommit(c, s)
             \/ \E s \in Sessions, a \in Accounts : Callback(c, s, a)
             \/ UnlinkCommit(c) \/ Rollback(c)
      PROVE  AccountsUnique' /\ TakenInv'
  <2>1. CASE \E u \in Users : Start(c, u)
    <3>1. \E next : Moves(c, next) /\ next.pc = "insert"
      BY <2>1 DEF Start
    <3>2. UNCHANGED account
      BY <2>1 DEF Start, linkVars
    <3>3. QED
      BY <1>1, <3>1, <3>2
  <2>2. CASE \E u \in Users : Unlink(c, u)
    <3>1. \E next : Moves(c, next) /\ next.pc = "unlink"
      BY <2>2 DEF Unlink
    <3>2. UNCHANGED account
      BY <2>2 DEF Unlink, linkVars
    <3>3. QED
      BY <1>1, <3>1, <3>2
  <2>3. CASE \E s \in Sessions, a \in Accounts : Callback(c, s, a)
    <3>1. \E next : Moves(c, next) /\ next.pc = "persist"
      BY <2>3 DEF Callback
    <3>2. UNCHANGED account
      BY <2>3 DEF Callback, linkVars
    <3>3. QED
      BY <1>1, <3>1, <3>2
  <2>4. CASE (\E s \in Sessions : StartCommit(c, s)) \/ UnlinkCommit(c) \/ Rollback(c)
    <3>1. Moves(c, Idle) /\ UNCHANGED account
      BY <2>4 DEF StartCommit, UnlinkCommit, Rollback, linkVars
    <3>2. QED
      BY <1>0, <1>1, <3>1
  <2>5. QED
    BY <1>2, <2>1, <2>2, <2>3, <2>4
<1>3. ASSUME NEW c \in Calls, ListSessions(c) PROVE AccountsUnique' /\ TakenInv'
  <2>1. call[c] \in Unlinking
    BY <1>0, <1>3, Kinds DEF ListSessions
  <2>2. PICK next : /\ next = [call[c] EXCEPT !.pc = "clear",
                                              !.doomed = SessionsOf(call[c].user)]
                    /\ Moves(c, next)
    BY <1>3 DEF ListSessions
  <2>3. next.pc = "clear"
    BY <2>1, <2>2 DEF Unlinking
  <2>4. UNCHANGED account
    BY <1>3 DEF ListSessions, linkVars
  <2>5. QED
    BY <1>1, <2>2, <2>3, <2>4
<1>4. ASSUME NEW c \in Calls, NEW s, Refuse(c, s) PROVE AccountsUnique' /\ TakenInv'
  BY <1>0, <1>1, <1>4 DEF Refuse, linkVars
<1>5. ASSUME NEW c \in Calls, FindSession(c) PROVE AccountsUnique' /\ TakenInv'
  <2>1. CASE Refuse(c, call[c].sess)
    BY <1>4, <2>1
  <2>2. CASE ~Refuse(c, call[c].sess)
    <3>1. \E next : Moves(c, next) /\ next.pc # "delete"
      BY <1>0, <1>5, <2>2 DEF FindSession
    <3>2. UNCHANGED account
      BY <1>5, <2>2 DEF FindSession, linkVars
    <3>3. QED
      BY <1>1, <3>1, <3>2
  <2>3. QED
    BY <2>1, <2>2
<1>6. ASSUME NEW c \in Calls, FindLink(c) PROVE AccountsUnique' /\ TakenInv'
  <2>1. CASE Refuse(c, call[c].sess)
    BY <1>4, <2>1
  <2>2. CASE ~Refuse(c, call[c].sess)
    <3>1. PICK next : /\ next = [call[c] EXCEPT !.pc = "write", !.found = status[call[c].user] # "none"]
                      /\ Moves(c, next)
      BY <1>6, <2>2 DEF FindLink
    <3>2. call[c] \in Completing
      BY <1>0, <1>6, Kinds DEF FindLink
    <3>3. next.pc = "write"
      BY <3>1, <3>2 DEF Completing
    <3>4. UNCHANGED account
      BY <1>6, <2>2 DEF FindLink, linkVars
    <3>5. QED
      BY <1>1, <3>1, <3>3, <3>4
  <2>3. QED
    BY <2>1, <2>2
<1>7. ASSUME NEW c \in Calls, WriteLink(c) PROVE AccountsUnique' /\ TakenInv'
  BY <1>4, <1>7, WriteTakes
<1>8. ASSUME NEW c \in Calls, LinkCommit(c) PROVE AccountsUnique' /\ TakenInv'
  BY <1>8, CommitUnique
<1>9. ASSUME NEW u \in Users, SyncIdentity(u) \/ DeleteMember(u)
      PROVE  AccountsUnique' /\ TakenInv'
  BY <1>9, SyncUnique
<1>10. ASSUME \/ \E u \in Users : ChangeMembership(u)
              \/ \E a \in Accounts : ChangeFriendship(a)
              \/ \E e \in net : RecordEvent(e)
              \/ Tick \/ UNCHANGED vars
       PROVE  AccountsUnique' /\ TakenInv'
  <2>1. UNCHANGED <<account, call>>
    BY <1>10 DEF ChangeMembership, ChangeFriendship, RecordEvent, Tick, vars, linkVars
  <2>2. QED
    BY <2>1, NothingTaken
<1>11. QED
  BY <1>2, <1>3, <1>5, <1>6, <1>7, <1>8, <1>9, <1>10 DEF Next

\* Every variable keeps its type, and no LINE account is in two links.
THEOREM TypeCorrect == Spec => []TypeOK
<1>1. TypeInv /\ [Next]_vars => TypeInv'
  BY StepSafe, EventKeeps, RowsKeep, UniqueKeeps DEF TypeInv
<1>2. TypeInv => TypeOK
  <2>1. RealEvents \subseteq Events
    BY DEF RealEvents
  <2>2. QED
    BY <2>1 DEF TypeInv, Safe, EnvTypeOK, LinkInv, CallTypeOK, EventInv, RowTypes,
                AccountsUnique, TypeOK
<1>3. QED
  BY InitTypes, <1>1, <1>2, PTL DEF Spec

-----------------------------------------------------------------------------
(***************************************************************************)
(* What the LINE queue takes for granted.  To LineDelivery a member has    *)
(* the account of an active link or none; that linking changes this one    *)
(* member at a time, never gives an account to two and never brings back   *)
(* one who was deleted is MemberLinks, which the calls implement although  *)
(* each takes several steps and deletion, events and logins run beside.    *)
(***************************************************************************)

\* Nothing is left of a deleted member, and no call can bring it back: those
\* that would write hold a lock the deletion waited for.
GoneInv ==
    \A u \in Users : membership[u] = "deleted" =>
        /\ status[u] = "none" /\ account[u] = NoAccount
        /\ SessionsOf(u) = {}
        /\ \A c \in Calls : ~LocksLink(c, u)

\* The account LineDelivery may push to.
LinkOf(u) == IF status[u] = "active" THEN account[u] ELSE NoAccount

Links == INSTANCE MemberLinks WITH member <- membership, link <- [u \in Users |-> LinkOf(u)]

LinkStep == Links!Next \/ UNCHANGED Links!vars

GoneTypeInv == TypeInv /\ GoneInv

LEMMA InitGone == Init => GoneTypeInv
BY InitTypes DEF Init, GoneTypeInv, GoneInv

\* A callback past its lookup is some member's who is still there.
LEMMA HolderThere ==
  ASSUME GoneTypeInv, NEW c \in Calls, call[c].pc \in {"link", "write", "delete"}
  PROVE  call[c].user \in Users /\ membership[call[c].user] # "deleted"
<1>1. /\ call[c].user \in Users /\ call[c].sess \in Sessions
      /\ owner[call[c].sess] = call[c].user
  BY HeldIsLive DEF GoneTypeInv, TypeInv, Safe
<1>2. QED
  BY <1>1 DEF GoneTypeInv, GoneInv, SessionsOf

\* Calls that lock nothing new and write nothing.
LEMMA GoneStays ==
  ASSUME GoneTypeInv, UNCHANGED <<membership, account, status>>,
         \A r \in Sessions : owner'[r] \in {owner[r], NoUser},
         \A c \in Calls, u \in Users : LocksLink(c, u)' /\ ~LocksLink(c, u)
                                         => membership[u] # "deleted"
  PROVE  GoneInv'
<1> SUFFICES ASSUME NEW u \in Users, membership[u] = "deleted"
             PROVE  /\ status[u] = "none" /\ account[u] = NoAccount
                    /\ SessionsOf(u)' = {}
                    /\ \A c \in Calls : ~LocksLink(c, u)'
  BY DEF GoneInv
<1>1. \A r \in Sessions : owner'[r] # u
  BY LinkAssumption DEF GoneTypeInv, GoneInv, SessionsOf
<1>2. QED
  BY <1>1 DEF GoneTypeInv, GoneInv, SessionsOf

\* A call moves alone, to where it locks nothing or a link of a member who is there.
LEMMA MoveGone ==
  ASSUME GoneTypeInv, NEW c \in Calls, NEW next, Moves(c, next),
         UNCHANGED <<membership, account, status>>,
         \A r \in Sessions : owner'[r] \in {owner[r], NoUser},
         \/ next.pc \in {"idle", "insert", "persist", "link"}
         \/ next.pc \in {"write", "delete", "unlink", "clear"} /\ membership[next.user] # "deleted"
         \/ next.pc = "clear" /\ call[c].pc = "unlink"
              /\ next.found = call[c].found /\ next.user = call[c].user
  PROVE  GoneInv'
<1>1. call'[c] = next /\ \A d \in Calls : d # c => call'[d] = call[d]
  BY MovesAlone DEF GoneTypeInv, TypeInv, Safe, LinkInv
<1>2. \A d \in Calls, u \in Users : LocksLink(d, u)' /\ ~LocksLink(d, u)
                                      => membership[u] # "deleted"
  BY <1>1 DEF LocksLink
<1>3. QED
  BY <1>2, GoneStays

\* A step that writes only rows of members who are there, and takes no lock.
LEMMA WriteGone ==
  ASSUME GoneTypeInv, membership' = membership,
         \A r \in Sessions : owner'[r] \in {owner[r], NoUser},
         \A c \in Calls : call'[c] \in {call[c], Idle},
         \A u \in Users : account'[u] # account[u] \/ status'[u] # status[u]
                          => membership[u] # "deleted"
  PROVE  GoneInv'
<1> SUFFICES ASSUME NEW u \in Users, membership[u] = "deleted"
             PROVE  /\ status'[u] = "none" /\ account'[u] = NoAccount
                    /\ SessionsOf(u)' = {}
                    /\ \A c \in Calls : ~LocksLink(c, u)'
  BY DEF GoneInv
<1>1. \A r \in Sessions : owner'[r] # u
  BY LinkAssumption DEF GoneTypeInv, GoneInv, SessionsOf
<1>2. \A c \in Calls : ~LocksLink(c, u)'
  BY DEF GoneTypeInv, GoneInv, LocksLink, Idle
<1>3. QED
  BY <1>1, <1>2 DEF GoneTypeInv, GoneInv, SessionsOf

LEMMA IdleOrSame ==
  ASSUME GoneTypeInv, NEW c \in Calls, Moves(c, Idle)
  PROVE  \A d \in Calls : call'[d] \in {call[d], Idle}
BY MovesAlone DEF GoneTypeInv, TypeInv, Safe, LinkInv

LEMMA LinkCommitGone ==
  ASSUME GoneTypeInv, NEW c \in Calls, LinkCommit(c)
  PROVE  GoneInv'
<1>1. /\ membership' = membership /\ Moves(c, Idle)
      /\ DeleteSessions(call[c].doomed)
      /\ \A u \in Users : u # call[c].user => account'[u] = account[u] /\ status'[u] = status[u]
  BY DEF LinkCommit, SetLink, GoneTypeInv, TypeInv, Safe, LinkInv, CallTypeOK
<1>2. membership[call[c].user] # "deleted"
  BY HolderThere DEF LinkCommit
<1>3. \A r \in Sessions : owner'[r] \in {owner[r], NoUser}
  BY <1>1 DEF DeleteSessions
<1> QED
  BY <1>1, <1>2, <1>3, IdleOrSame, WriteGone

LEMMA UnlinkCommitGone ==
  ASSUME GoneTypeInv, NEW c \in Calls, UnlinkCommit(c)
  PROVE  GoneInv'
<1>1. /\ membership' = membership /\ Moves(c, Idle) /\ account' = account
      /\ DeleteSessions(call[c].doomed)
      /\ \A u \in Users : u # call[c].user \/ ~call[c].found => status'[u] = status[u]
  BY DEF UnlinkCommit, GoneTypeInv, TypeInv, Safe, LinkInv, CallTypeOK
<1>2. call[c].pc = "clear" /\ call[c].user \in Users
  BY Kinds DEF UnlinkCommit, Unlinking, GoneTypeInv, TypeInv, Safe, LinkInv
<1>3. call[c].found => membership[call[c].user] # "deleted"
  BY <1>2 DEF GoneTypeInv, GoneInv, LocksLink
<1>4. \A r \in Sessions : owner'[r] \in {owner[r], NoUser}
  BY <1>1 DEF DeleteSessions
<1> QED
  BY <1>1, <1>3, <1>4, IdleOrSame, WriteGone

\* A session is only made for a member who is there.
LEMMA StartCommitGone ==
  ASSUME GoneTypeInv, NEW c \in Calls, NEW s \in Sessions, StartCommit(c, s)
  PROVE  GoneInv'
<1>1. /\ UNCHANGED <<membership, account, status>> /\ Moves(c, Idle)
      /\ membership[call[c].user] # "deleted"
      /\ \A r \in Sessions : owner'[r] \in {owner[r], NoUser, call[c].user}
  BY DEF StartCommit, linkVars
<1> SUFFICES ASSUME NEW u \in Users, membership[u] = "deleted"
             PROVE  /\ status'[u] = "none" /\ account'[u] = NoAccount
                    /\ SessionsOf(u)' = {}
                    /\ \A d \in Calls : ~LocksLink(d, u)'
  BY <1>1 DEF GoneInv
<1>2. \A r \in Sessions : owner'[r] # u
  BY <1>1, LinkAssumption DEF GoneTypeInv, GoneInv, SessionsOf
<1>3. \A d \in Calls : ~LocksLink(d, u)'
  BY <1>1, IdleOrSame DEF GoneTypeInv, GoneInv, LocksLink, Idle
<1>4. QED
  BY <1>1, <1>2, <1>3 DEF GoneTypeInv, GoneInv, SessionsOf

\* The steps beside the calls; a deletion leaves nothing behind.
LEMMA AsideGone ==
  ASSUME GoneTypeInv, NEW u \in Users,
         SyncIdentity(u) \/ ChangeMembership(u) \/ DeleteMember(u)
  PROVE  GoneInv'
<1>0. CallTypeOK /\ RowTypes
  BY DEF GoneTypeInv, TypeInv, Safe, LinkInv
<1>1. CASE SyncIdentity(u)
  <2>1. /\ membership' = membership /\ call' = call /\ owner' = owner
        /\ membership[u] = "active"
        /\ \A v \in Users : v # u => account'[v] = account[v] /\ status'[v] = status[v]
    BY <1>0, <1>1 DEF SyncIdentity, SetLink, sessionVars, CallTypeOK
  <2>2. QED
    BY <2>1, WriteGone
<1>2. CASE ChangeMembership(u)
  <2>1. /\ UNCHANGED <<account, status, owner, call>>
        /\ \A v \in Users : membership'[v] = "deleted" => membership[v] = "deleted"
    BY <1>0, <1>2 DEF ChangeMembership, linkVars, sessionVars, RowTypes
  <2>2. QED
    BY <2>1 DEF GoneTypeInv, GoneInv, SessionsOf, LocksLink
<1>3. CASE DeleteMember(u)
  <2>1. /\ call' = call /\ \A c \in Calls : ~LocksLink(c, u)
        /\ status'[u] = "none" /\ account'[u] = NoAccount
        /\ \A v \in Users : v # u => /\ account'[v] = account[v] /\ status'[v] = status[v]
                                    /\ membership'[v] = membership[v]
        /\ \A r \in Sessions : owner'[r] = IF owner[r] = u THEN NoUser ELSE owner[r]
    BY <1>0, <1>3 DEF DeleteMember, SetLink, DeleteSessions, SessionsOf, LinkFree,
                      CallTypeOK, RowTypes
  <2>2. \A v \in Users, c \in Calls : LocksLink(c, v)' <=> LocksLink(c, v)
    BY <2>1 DEF LocksLink
  <2>3. \A r \in Sessions : owner'[r] # u
    BY <2>1, LinkAssumption
  <2>4. \A v \in Users : SessionsOf(v) = {} => SessionsOf(v)' = {}
    BY <2>1, LinkAssumption DEF SessionsOf
  <2>5. ASSUME NEW v \in Users, v # u, membership'[v] = "deleted"
        PROVE  /\ status'[v] = "none" /\ account'[v] = NoAccount
               /\ SessionsOf(v)' = {}
               /\ \A c \in Calls : ~LocksLink(c, v)'
    BY <2>1, <2>2, <2>4, <2>5 DEF GoneTypeInv, GoneInv
  <2>6. SessionsOf(u)' = {}
    BY <2>3 DEF SessionsOf
  <2>7. QED
    BY <2>1, <2>2, <2>5, <2>6 DEF GoneInv
<1>4. QED
  BY <1>1, <1>2, <1>3

LEMMA EventGone ==
  ASSUME GoneTypeInv, NEW e \in net, RecordEvent(e)
  PROVE  GoneInv'
<1>1. UNCHANGED <<membership, account, owner, call>>
  BY DEF RecordEvent, sessionVars
<1>2. ASSUME NEW u \in Users, status'[u] # status[u] PROVE membership[u] # "deleted"
  <2>1. status[u] \in Linked
    BY <1>2 DEF RecordEvent, AppliesTo, Reaches
  <2>2. QED
    BY <2>1 DEF GoneTypeInv, GoneInv, Linked
<1>3. QED
  BY <1>1, <1>2, WriteGone

\* The other calls move, and write no row of a link.
LEMMA MovesGone ==
  ASSUME GoneTypeInv, NEW c \in Calls,
         \/ \E u \in Users : Start(c, u) \/ Unlink(c, u)
         \/ \E s \in Sessions, a \in Accounts : Callback(c, s, a)
         \/ FindSession(c) \/ FindLink(c) \/ WriteLink(c)
         \/ ListSessions(c) \/ Rollback(c)
  PROVE  /\ GoneInv'
         /\ UNCHANGED <<membership, account, status>>
<1>0. CallTypeOK /\ Idle.pc = "idle"
  BY DEF GoneTypeInv, TypeInv, Safe, LinkInv, Idle
<1>1. UNCHANGED <<membership, account, status, owner>>
  BY DEF Start, Unlink, Callback, FindSession, FindLink, WriteLink, ListSessions,
         Rollback, Refuse, linkVars, sessionVars
<1> DEFINE Fits(n) ==
             \/ n.pc \in {"idle", "insert", "persist", "link"}
             \/ n.pc \in {"write", "delete", "unlink", "clear"} /\ membership[n.user] # "deleted"
             \/ n.pc = "clear" /\ call[c].pc = "unlink"
                  /\ n.found = call[c].found /\ n.user = call[c].user
<1>2. ASSUME NEW s, Refuse(c, s) PROVE \E n : Moves(c, n) /\ Fits(n)
  BY <1>0, <1>2 DEF Refuse
<1>3. ASSUME NEW u \in Users, Start(c, u) \/ Unlink(c, u)
      PROVE  \E n : Moves(c, n) /\ Fits(n)
  <2>1. CASE Start(c, u)
    <3>1. \E n : Moves(c, n) /\ n.pc = "insert"  BY <2>1 DEF Start
    <3>2. QED  BY <3>1
  <2>2. CASE Unlink(c, u)
    <3>1. \E n : Moves(c, n) /\ n.pc = "unlink" /\ membership[n.user] # "deleted"
      BY <2>2 DEF Unlink
    <3>2. QED  BY <3>1
  <2>3. QED  BY <1>3, <2>1, <2>2
<1>4. ASSUME NEW s \in Sessions, NEW a \in Accounts, Callback(c, s, a)
      PROVE  \E n : Moves(c, n) /\ Fits(n)
  <2>1. \E n : Moves(c, n) /\ n.pc = "persist"  BY <1>4 DEF Callback
  <2>2. QED  BY <2>1
<1>5. ASSUME FindSession(c) PROVE \E n : Moves(c, n) /\ Fits(n)
  <2>1. CASE \E n : Moves(c, n) /\ n.pc \in {"idle", "link"}  BY <2>1
  <2>2. CASE Refuse(c, call[c].sess)  BY <1>2, <2>2
  <2>3. QED  BY <1>0, <1>5, <2>1, <2>2 DEF FindSession
<1>6. ASSUME FindLink(c) PROVE \E n : Moves(c, n) /\ Fits(n)
  <2>1. CASE Refuse(c, call[c].sess)  BY <1>2, <2>1
  <2>2. CASE ~Refuse(c, call[c].sess)
    <3>1. call[c] \in Completing /\ membership[call[c].user] # "deleted"
      BY <1>0, <1>6, Kinds, HolderThere DEF FindLink
    <3>2. PICK n : /\ n = [call[c] EXCEPT !.pc = "write", !.found = status[call[c].user] # "none"]
                   /\ Moves(c, n)
      BY <1>6, <2>2 DEF FindLink
    <3>3. n.pc = "write" /\ n.user = call[c].user
      BY <3>1, <3>2 DEF Completing
    <3>4. QED  BY <3>1, <3>2, <3>3
  <2>3. QED  BY <2>1, <2>2
<1>7. ASSUME WriteLink(c) PROVE \E n : Moves(c, n) /\ Fits(n)
  <2>1. CASE Refuse(c, call[c].sess)  BY <1>2, <2>1
  <2>2. CASE ~Refuse(c, call[c].sess)
    <3>1. call[c] \in Completing /\ membership[call[c].user] # "deleted"
      BY <1>0, <1>7, Kinds, HolderThere DEF WriteLink
    <3>2. PICK n : /\ n = [call[c] EXCEPT !.pc = "delete",
                                          !.doomed = SessionsOf(call[c].user)]
                   /\ Moves(c, n)
      BY <1>7, <2>2 DEF WriteLink
    <3>3. n.pc = "delete" /\ n.user = call[c].user
      BY <3>1, <3>2 DEF Completing
    <3>4. QED  BY <3>1, <3>2, <3>3
  <2>3. QED  BY <2>1, <2>2
<1>8. ASSUME ListSessions(c) PROVE \E n : Moves(c, n) /\ Fits(n)
  <2>1. call[c] \in Unlinking /\ call[c].pc = "unlink"
    BY <1>0, <1>8, Kinds DEF ListSessions
  <2>2. PICK n : /\ n = [call[c] EXCEPT !.pc = "clear",
                                        !.doomed = SessionsOf(call[c].user)]
                 /\ Moves(c, n)
    BY <1>8 DEF ListSessions
  <2>3. n.pc = "clear" /\ n.user = call[c].user /\ n.found = call[c].found
    BY <2>1, <2>2 DEF Unlinking
  <2>4. QED  BY <2>1, <2>2, <2>3
<1>9. ASSUME Rollback(c) PROVE \E n : Moves(c, n) /\ Fits(n)
  BY <1>0, <1>9 DEF Rollback
<1>10. \E n : Moves(c, n) /\ Fits(n)
  BY <1>3, <1>4, <1>5, <1>6, <1>7, <1>8, <1>9
<1> QED
  BY <1>1, <1>10, MoveGone

LEMMA StepGone ==
  ASSUME GoneTypeInv, [Next]_vars
  PROVE  GoneTypeInv'
<1>1. TypeInv'
  BY StepSafe, EventKeeps, RowsKeep, UniqueKeeps DEF GoneTypeInv, TypeInv
<1>2. ASSUME \/ \E a \in Accounts : ChangeFriendship(a)
             \/ Tick \/ UNCHANGED vars
      PROVE  GoneInv'
  <2>1. UNCHANGED <<membership, account, status, owner, call>>
    BY <1>2 DEF ChangeFriendship, Tick, vars, linkVars, sessionVars
  <2>2. QED
    BY <2>1, WriteGone
<1>3. GoneInv'
  BY <1>2, MovesGone, StartCommitGone, LinkCommitGone, UnlinkCommitGone, AsideGone,
     EventGone DEF Next
<1>4. QED
  BY <1>1, <1>3 DEF GoneTypeInv

\* One member's link, and nothing else that the queue sees, becomes another.
LEMMA OneLink ==
  ASSUME NEW u \in Users, \A v \in Users \ {u} : LinkOf(v)' = LinkOf(v)
  PROVE  [v \in Users |-> LinkOf(v)]' = [[v \in Users |-> LinkOf(v)] EXCEPT ![u] = LinkOf(u)']
OBVIOUS

\* A step that the queue does not see.
LEMMA NoRow ==
  ASSUME membership' = membership, \A u \in Users : LinkOf(u)' = LinkOf(u)
  PROVE  LinkStep
<1>1. [u \in Users |-> LinkOf(u)]' = [u \in Users |-> LinkOf(u)]
  OBVIOUS
<1>2. QED
  BY <1>1 DEF LinkStep, Links!vars

\* One member's row gets another status or account, or both.
LEMMA OneRow ==
  ASSUME NEW u \in Users, membership' = membership, membership[u] # "deleted",
         \A v \in Users \ {u} : account'[v] = account[v] /\ status'[v] = status[v],
         account'[u] \in Accounts \cup {NoAccount},
         account'[u] = NoAccount \/ \A v \in Users \ {u} : account[v] # account'[u]
  PROVE  LinkStep
<1>1. \A v \in Users \ {u} : LinkOf(v)' = LinkOf(v)
  BY DEF LinkOf
<1>2. CASE LinkOf(u)' = LinkOf(u)
  BY <1>1, <1>2, NoRow
<1>3. CASE LinkOf(u)' # LinkOf(u)
  <2>1. LinkOf(u)' \in {account'[u], NoAccount}
    BY DEF LinkOf
  <2>2. LinkOf(u)' = NoAccount \/ \A v \in Users : LinkOf(v) # LinkOf(u)'
    BY <1>3, <2>1 DEF LinkOf
  <2>3. Links!Relink(u, LinkOf(u)')
    BY <1>1, <1>3, <2>2, OneLink DEF Links!Relink
  <2>4. QED
    BY <2>1, <2>3 DEF LinkStep, Links!Next
<1>4. QED
  BY <1>2, <1>3

LEMMA LinkCommitSeen ==
  ASSUME GoneTypeInv, NEW c \in Calls, LinkCommit(c)
  PROVE  LinkStep
<1>0. CallTypeOK /\ TakenInv
  BY DEF GoneTypeInv, TypeInv, Safe, LinkInv
<1>1. PICK u, a : u = call[c].user /\ a = call[c].account
  OBVIOUS
<1>2. u \in Users /\ membership[u] # "deleted" /\ a \in Accounts
  BY <1>0, <1>1, Kinds, HolderThere DEF LinkCommit, Completing
<1>3. ~Taken(u, a)
  BY <1>0, <1>1 DEF LinkCommit, TakenInv
<1>4. /\ membership' = membership /\ account'[u] = a
      /\ \A v \in Users \ {u} : account'[v] = account[v] /\ status'[v] = status[v]
  BY <1>0, <1>1, <1>2 DEF LinkCommit, SetLink, CallTypeOK
<1>5. QED
  BY <1>2, <1>3, <1>4, OneRow DEF Taken

LEMMA UnlinkCommitSeen ==
  ASSUME GoneTypeInv, NEW c \in Calls, UnlinkCommit(c)
  PROVE  LinkStep
<1>0. CallTypeOK /\ AccountsUnique
  BY DEF GoneTypeInv, TypeInv, Safe, LinkInv
<1>1. PICK u : u = call[c].user
  OBVIOUS
<1>2. u \in Users /\ (call[c].found => membership[u] # "deleted")
  BY <1>0, <1>1, Kinds DEF UnlinkCommit, Unlinking, GoneTypeInv, GoneInv, LocksLink
<1>3. membership' = membership /\ account' = account
  BY DEF UnlinkCommit
<1>4. CASE ~call[c].found
  BY <1>3, <1>4, NoRow DEF UnlinkCommit, LinkOf
<1>5. CASE call[c].found
  <2>1. \A v \in Users \ {u} : status'[v] = status[v]
    BY <1>0, <1>1, <1>5 DEF UnlinkCommit, CallTypeOK
  <2>2. /\ account'[u] \in Accounts \cup {NoAccount}
        /\ account'[u] = NoAccount \/ \A v \in Users \ {u} : account[v] # account'[u]
    BY <1>0, <1>2, <1>3 DEF CallTypeOK, AccountsUnique
  <2>3. QED
    BY <1>2, <1>3, <1>5, <2>1, <2>2, OneRow
<1>6. QED
  BY <1>4, <1>5

LEMMA SyncSeen ==
  ASSUME GoneTypeInv, NEW u \in Users, SyncIdentity(u)
  PROVE  LinkStep
<1>1. /\ membership' = membership /\ membership[u] # "deleted"
      /\ account'[u] = Identity[u] /\ Identity[u] \in Accounts \cup {NoAccount}
      /\ \A v \in Users \ {u} : account'[v] = account[v] /\ status'[v] = status[v]
      /\ \A v \in Users \ {u} : account[v] # Identity[u]
  BY LinkAssumption DEF SyncIdentity, SetLink, Taken, GoneTypeInv, TypeInv, Safe,
                        LinkInv, CallTypeOK
<1>2. QED
  BY <1>1, OneRow

\* An event reaches the one link that has its account.
LEMMA EventSeen ==
  ASSUME GoneTypeInv, NEW e \in net, RecordEvent(e)
  PROVE  LinkStep
<1>0. /\ CallTypeOK /\ AccountsUnique /\ e.account \in Accounts
      /\ UNCHANGED <<membership, account>>
  BY DEF GoneTypeInv, TypeInv, Safe, LinkInv, EventInv, RealEvents, Events, RecordEvent
<1>1. \A u \in Users : ~AppliesTo(u, e) => status'[u] = status[u]
  BY DEF RecordEvent
<1>2. CASE \A u \in Users : ~AppliesTo(u, e)
  BY <1>0, <1>1, <1>2, NoRow DEF LinkOf
<1>3. ASSUME NEW u \in Users, AppliesTo(u, e) PROVE LinkStep
  <2>1. account[u] = e.account /\ status[u] \in Linked
    BY <1>3 DEF AppliesTo, Reaches
  <2>2. \A v \in Users \ {u} : account[v] # e.account
    BY <1>0, <2>1, LinkAssumption DEF AccountsUnique
  <2>3. \A v \in Users \ {u} : status'[v] = status[v]
    BY <1>1, <2>2 DEF AppliesTo, Reaches
  <2>4. membership[u] # "deleted"
    BY <2>1 DEF GoneTypeInv, GoneInv, Linked
  <2>5. QED
    BY <1>0, <2>1, <2>2, <2>3, <2>4, OneRow
<1>4. QED
  BY <1>2, <1>3

LEMMA MemberSeen ==
  ASSUME GoneTypeInv, NEW u \in Users, ChangeMembership(u) \/ DeleteMember(u)
  PROVE  LinkStep
<1>0. CallTypeOK /\ RowTypes
  BY DEF GoneTypeInv, TypeInv, Safe, LinkInv
<1>1. CASE ChangeMembership(u)
  <2>1. [v \in Users |-> LinkOf(v)]' = [v \in Users |-> LinkOf(v)]
    BY <1>1 DEF ChangeMembership, LinkOf, linkVars
  <2>2. Links!Suspend(u) \/ Links!Resume(u)
    BY <1>0, <1>1, <2>1 DEF ChangeMembership, Links!Suspend, Links!Resume, RowTypes
  <2>3. QED
    BY <2>2 DEF LinkStep, Links!Next
<1>2. CASE DeleteMember(u)
  <2>1. LinkOf(u)' = NoAccount /\ \A v \in Users \ {u} : LinkOf(v)' = LinkOf(v)
    BY <1>0, <1>2 DEF DeleteMember, SetLink, LinkOf, CallTypeOK
  <2>2. Links!Delete(u)
    BY <1>2, <2>1, OneLink DEF DeleteMember, Links!Delete
  <2>3. QED
    BY <2>2 DEF LinkStep, Links!Next
<1>3. QED
  BY <1>1, <1>2

LEMMA StepSeen ==
  ASSUME GoneTypeInv, [Next]_vars
  PROVE  LinkStep
<1>1. ASSUME \/ \E a \in Accounts : ChangeFriendship(a)
             \/ \E c \in Calls, s \in Sessions : StartCommit(c, s)
             \/ Tick \/ UNCHANGED vars
      PROVE  LinkStep
  <2>1. UNCHANGED <<membership, account, status>>
    BY <1>1 DEF ChangeFriendship, StartCommit, Tick, vars, linkVars
  <2>2. QED
    BY <2>1, NoRow DEF LinkOf
<1>2. ASSUME NEW c \in Calls,
             \/ \E u \in Users : Start(c, u) \/ Unlink(c, u)
             \/ \E s \in Sessions, a \in Accounts : Callback(c, s, a)
             \/ FindSession(c) \/ FindLink(c) \/ WriteLink(c)
             \/ ListSessions(c) \/ Rollback(c)
      PROVE  LinkStep
  BY <1>2, MovesGone, NoRow DEF LinkOf
<1>3. QED
  BY <1>1, <1>2, LinkCommitSeen, UnlinkCommitSeen, SyncSeen, EventSeen, MemberSeen DEF Next

LEMMA GoneInvariant == Spec => []GoneTypeInv
BY InitGone, StepGone, PTL DEF Spec

\* A deleted member has no link and no session, whatever callbacks, unlinks and
\* starts were in progress when the Auth user was deleted: each holds a lock
\* that the cascade waits for, or finds the member gone when it commits.
THEOREM DeletedLeavesNothing == Spec => []GoneInv
<1>1. GoneTypeInv => GoneInv
  BY DEF GoneTypeInv
<1>2. QED
  BY <1>1, GoneInvariant, PTL

\* Linking implements MemberLinks: a call's last statement, the login identity,
\* a webhook, a change of membership or a deletion is one change of one member's
\* link or membership, and every other step is none.
THEOREM LinkingIsMemberLinks == Spec => Links!Spec
<1>1. Init => Links!Init
  <2> SUFFICES ASSUME Init PROVE Links!Init
    OBVIOUS
  <2>1. [u \in Users |-> LinkOf(u)] = [u \in Users |-> NoAccount]
    BY DEF Init, LinkOf
  <2>2. QED
    BY <2>1 DEF Init, Links!Init
<1>2. GoneTypeInv /\ [Next]_vars => [Links!Next]_Links!vars
  BY StepSeen DEF LinkStep
<1>3. QED
  BY <1>1, <1>2, GoneInvariant, PTL DEF Spec, Links!Spec

=============================================================================
