------------------------------ MODULE LineLink ------------------------------
(***************************************************************************)
(* How a member and a LINE account come to be linked, and how the link     *)
(* follows what the member does in LINE: the three link functions and      *)
(* their RPCs, the link made from the login identity, and the LINE webhook. *)
(*                                                                         *)
(* Transactions are READ COMMITTED and take several statements, so the     *)
(* RPCs that race are split at the statements where they read or lock rows *)
(* another call may write.  A delete lists the rows its snapshot shows and *)
(* then waits for their locks, so it is two steps.  A call holds its locks *)
(* from the step that takes them to its commit or rollback; what it wrote  *)
(* before that is visible to nobody else, so only the commit changes the   *)
(* tables.                                                                 *)
(***************************************************************************)
EXTENDS Naturals, FiniteSets

CONSTANTS
    Users, NoUser,
    Accounts, NoAccount,   \* LINE user ids
    Identity,              \* the custom:line identity a member logs in with
    Sessions,              \* rows of line_link_sessions that may come to exist
    Calls,                 \* invocations of the link functions that may overlap
    Lifetime,              \* of a session (9 minutes)
    MaxEvents,             \* bound: follow and unfollow events
    MaxTime                \* bound: the clock

ASSUME LinkAssumption ==
    /\ NoUser \notin Users
    /\ NoAccount \notin Accounts
    /\ Identity \in [Users -> Accounts \cup {NoAccount}]
    /\ Lifetime \in Nat \ {0}
    /\ MaxEvents \in Nat
    /\ MaxTime \in Nat

VARIABLES
    now,
    membership,                   \* profiles
    account, status, lastAt,      \* line_account_links, by member
    owner, expires, consumed,     \* line_link_sessions
    recorded,                     \* line_webhook_events
    call,                         \* the link functions in progress
    friend, net,                  \* LINE: who follows, what webhooks may arrive
    \* history: session ids handed out, how often each was accepted, those a
    \* link or an unlink ended; the events a link met
    born, uses, barred, heard

linkVars == <<account, status, lastAt>>
sessionVars == <<owner, expires, consumed>>
historyVars == <<born, uses, barred, heard>>
vars == <<now, membership, linkVars, sessionVars, recorded, call, friend, net,
          historyVars>>

Null == 0
Linked == {"active", "blocked"}
\* "none" stands for a member without a row.
LinkStatuses == Linked \cup {"unlinked", "none"}
Events == [account : Accounts, follow : BOOLEAN, at : Nat]

\* Where a call stands: between two statements, or between an answer of LINE
\* and the RPC that uses it.
Idle == [pc |-> "idle"]
Starting == [pc : {"insert"}, user : Users, doomed : SUBSET Sessions]
Returning == [pc : {"persist"}, sess : Sessions, account : Accounts,
              isFriend : BOOLEAN]
Completing == [pc : {"link", "write", "delete"}, user : Users, sess : Sessions,
               account : Accounts, isFriend : BOOLEAN,
               found : BOOLEAN, doomed : SUBSET Sessions]
Unlinking == [pc : {"unlink", "clear"}, user : Users, found : BOOLEAN,
              doomed : SUBSET Sessions]

TypeOK ==
    /\ now \in Nat \ {0}
    /\ membership \in [Users -> {"active", "inactive", "deleted"}]
    /\ account \in [Users -> Accounts \cup {NoAccount}]
    /\ status \in [Users -> LinkStatuses]
    /\ lastAt \in [Users -> Nat]
    /\ owner \in [Sessions -> Users \cup {NoUser}]
    /\ expires \in [Sessions -> Nat]
    /\ consumed \in [Sessions -> BOOLEAN]
    /\ recorded \subseteq Events
    /\ call \in [Calls -> {Idle} \cup Starting \cup Returning \cup Completing
                                 \cup Unlinking]
    /\ friend \in [Accounts -> BOOLEAN]
    /\ net \subseteq Events
    /\ born \subseteq Sessions
    /\ uses \in [Sessions -> Nat]
    /\ barred \subseteq Sessions
    /\ heard \in [Users -> SUBSET Events]
    \* the unique constraint on line_user_id
    /\ \A u, v \in Users : account[u] = account[v] => u = v \/ account[u] = NoAccount

Init ==
    /\ now = 1
    /\ membership = [u \in Users |-> "active"]
    /\ account = [u \in Users |-> NoAccount]
    /\ status = [u \in Users |-> "none"]
    /\ lastAt = [u \in Users |-> Null]
    /\ owner = [s \in Sessions |-> NoUser]
    /\ expires = [s \in Sessions |-> Null]
    /\ consumed = [s \in Sessions |-> FALSE]
    /\ recorded = {}
    /\ call = [c \in Calls |-> Idle]
    /\ friend \in [Accounts -> BOOLEAN]
    /\ net = {}
    /\ born = {}
    /\ uses = [s \in Sessions |-> 0]
    /\ barred = {}
    /\ heard = [u \in Users |-> {}]

-----------------------------------------------------------------------------
\* Rows and the locks on them.  Faulty variants of a definition stand before
\* it; the project file says which property rejects them.

SessionsOf(u) == {s \in Sessions : owner[s] = u}
LiveThoughConsumed(s) == owner[s] # NoUser /\ now <= expires[s]
Live(s) == owner[s] # NoUser /\ ~consumed[s] /\ now <= expires[s]

\* complete_line_account_link keeps the session it consumes locked...
Holds(c, s) == call[c].pc \in {"link", "write", "delete"} /\ call[c].sess = s
\* ... and, like unlink_line_account, the link it found.  A link it has inserted
\* is locked too: other writes of that row wait for it, reads do not see it.
LocksLink(c, u) ==
    /\ \/ call[c].pc \in {"write", "unlink", "clear"} /\ call[c].found
       \/ call[c].pc = "delete"
    /\ call[c].user = u

Others(c) == Calls \ {c}
SessionsUnlocked(D, S) == S \subseteq Sessions
SessionsFree(D, S) == \A d \in D, s \in S : ~Holds(d, s)
LinkUnlocked(D, u) == u \in Users
LinkFree(D, u) == \A d \in D : ~LocksLink(d, u)
\* An uncommitted write holds both the LINE account it takes and the one it frees.
AccountFree(D, a) ==
    \A d \in D : call[d].pc = "delete"
                   => a \notin {call[d].account, account[call[d].user]}

Moves(c, next) == call' = [call EXCEPT ![c] = next]
DeleteSessions(S) == owner' = [s \in Sessions |-> IF s \in S THEN NoUser ELSE owner[s]]

\* Whether the account follows the bot decides; nothing writes delivery_failed.
StatusFailed(follows) == IF follows THEN "active" ELSE "delivery_failed"
StatusOf(follows) == IF follows THEN "active" ELSE "blocked"

\* A link row gets (or changes) its LINE account: nothing heard about it yet.
SetLink(u, a, st) ==
    /\ account' = [account EXCEPT ![u] = a]
    /\ status' = [status EXCEPT ![u] = st]
    /\ lastAt' = [lastAt EXCEPT ![u] = Null]
    /\ heard' = [heard EXCEPT ![u] = {}]

\* The unique constraint on line_user_id counts unlinked rows too.
Taken(u, a) == \E v \in Users \ {u} : account[v] = a

-----------------------------------------------------------------------------
\* start-line-account-link: create_line_link_session

\* The member is active; its delete sees the sessions committed so far.
Start(c, u) ==
    /\ call[c] = Idle
    /\ membership[u] = "active"
    /\ Moves(c, [pc |-> "insert", user |-> u, doomed |-> SessionsOf(u)])
    /\ UNCHANGED <<now, membership, linkVars, sessionVars, recorded, friend, net,
                   historyVars>>

\* The delete gets its locks, the new session is inserted, and both commit.
StartCommit(c, s) ==
    LET u == call[c].user  doomed == call[c].doomed IN
    /\ call[c].pc = "insert"
    /\ membership[u] # "deleted"
    /\ s \in Sessions \ born
    /\ SessionsFree(Others(c), doomed)
    /\ owner' = [r \in Sessions |-> IF r = s THEN u
                                    ELSE IF r \in doomed THEN NoUser ELSE owner[r]]
    /\ expires' = [expires EXCEPT ![s] = now + Lifetime]
    /\ born' = born \cup {s}
    /\ Moves(c, Idle)
    /\ UNCHANGED <<now, membership, linkVars, consumed, recorded, friend, net,
                   uses, barred, heard>>

-----------------------------------------------------------------------------
\* complete-line-account-link: LINE's answers, then complete_line_account_link

\* The browser comes back with a session's state; LINE has verified the account
\* and answers whether it is a friend of the bot.  One authorization URL can be
\* gone through several times, and with any LINE account.
Callback(c, s, a) ==
    /\ call[c] = Idle
    /\ s \in born
    /\ Moves(c, [pc |-> "persist", sess |-> s, account |-> a,
                 isFriend |-> friend[a]])
    /\ UNCHANGED <<now, membership, linkVars, sessionVars, recorded, friend, net,
                   historyVars>>

\* A transaction that refuses still commits the consumption of its session.
Refuse(c, s) ==
    /\ consumed' = [consumed EXCEPT ![s] = TRUE]
    /\ uses' = [uses EXCEPT ![s] = @ + 1]
    /\ Moves(c, Idle)
    /\ UNCHANGED <<now, membership, linkVars, owner, expires, recorded, friend, net,
                   born, barred, heard>>

\* select ... from line_link_sessions ... for update
FindSession(c) ==
    LET s == call[c].sess IN
    /\ call[c].pc = "persist"
    /\ SessionsFree(Others(c), {s})
    /\ \/ /\ ~Live(s)  \* invalid_session
          /\ Moves(c, Idle)
          /\ UNCHANGED <<now, membership, linkVars, sessionVars, recorded, friend,
                         net, historyVars>>
       \/ /\ Live(s)
          /\ membership[owner[s]] # "active"  \* inactive_member
          /\ Refuse(c, s)
       \/ /\ Live(s)
          /\ membership[owner[s]] = "active"
          /\ Moves(c, [pc |-> "link", user |-> owner[s], sess |-> s,
                       account |-> call[c].account, isFriend |-> call[c].isFriend,
                       found |-> FALSE, doomed |-> {}])
          /\ UNCHANGED <<now, membership, linkVars, sessionVars, recorded, friend,
                         net, historyVars>>

\* select ... from line_account_links ... for update: it waits for a row that is
\* there.  Where there is none it locks nothing, and neither sees nor waits for
\* one that another call has inserted but not committed.
FindLink(c) ==
    LET u == call[c].user  s == call[c].sess IN
    /\ call[c].pc = "link"
    /\ status[u] # "none" => LinkFree(Others(c), u)
    /\ \/ /\ status[u] \in Linked
          /\ account[u] # call[c].account  \* member_conflict
          /\ Refuse(c, s)
       \/ /\ status[u] \in Linked => account[u] = call[c].account
          /\ Moves(c, [call[c] EXCEPT !.pc = "write", !.found = status[u] # "none"])
          /\ UNCHANGED <<now, membership, linkVars, sessionVars, recorded, friend,
                         net, historyVars>>

\* insert ... on conflict (user_id) do update, which waits for a row that another
\* call is inserting and does not look at the account of the row it then updates;
\* after it the delete sees the member's sessions.
WriteLink(c) ==
    LET u == call[c].user  a == call[c].account IN
    /\ call[c].pc = "write"
    /\ LinkFree(Others(c), u)
    /\ AccountFree(Others(c), a)
    /\ \/ Taken(u, a) /\ Refuse(c, call[c].sess)  \* line_conflict
       \/ /\ ~Taken(u, a)
          /\ Moves(c, [call[c] EXCEPT !.pc = "delete", !.doomed = SessionsOf(u)])
          /\ UNCHANGED <<now, membership, linkVars, sessionVars, recorded, friend,
                         net, historyVars>>

\* The delete gets its locks, and the transaction commits.
LinkCommit(c) ==
    LET u == call[c].user  s == call[c].sess  doomed == call[c].doomed IN
    /\ call[c].pc = "delete"
    /\ SessionsFree(Others(c), doomed)
    /\ SetLink(u, call[c].account, StatusOf(call[c].isFriend))
    /\ DeleteSessions(doomed)
    /\ uses' = [uses EXCEPT ![s] = @ + 1]
    /\ barred' = barred \cup doomed
    /\ Moves(c, Idle)
    /\ UNCHANGED <<now, membership, expires, consumed, recorded, friend, net, born>>

-----------------------------------------------------------------------------
\* unlink-line-account: unlink_line_account

\* update line_account_links, which locks the row if there is a link to end
Unlink(c, u) ==
    /\ call[c] = Idle
    /\ membership[u] = "active"
    /\ status[u] \in Linked => LinkFree(Others(c), u)
    /\ Moves(c, [pc |-> "unlink", user |-> u, found |-> status[u] \in Linked,
                 doomed |-> {}])
    /\ UNCHANGED <<now, membership, linkVars, sessionVars, recorded, friend, net,
                   historyVars>>

\* The delete sees the member's sessions.
ListSessions(c) ==
    /\ call[c].pc = "unlink"
    /\ Moves(c, [call[c] EXCEPT !.pc = "clear",
                                !.doomed = SessionsOf(call[c].user)])
    /\ UNCHANGED <<now, membership, linkVars, sessionVars, recorded, friend, net,
                   historyVars>>

UnlinkCommit(c) ==
    LET u == call[c].user  doomed == call[c].doomed IN
    /\ call[c].pc = "clear"
    /\ SessionsFree(Others(c), doomed)
    /\ IF call[c].found
       THEN /\ status' = [status EXCEPT ![u] = "unlinked"]
            /\ lastAt' = [lastAt EXCEPT ![u] = Null]
       ELSE UNCHANGED <<status, lastAt>>
    /\ DeleteSessions(doomed)
    /\ barred' = barred \cup doomed
    /\ Moves(c, Idle)
    /\ UNCHANGED <<now, membership, account, expires, consumed, recorded, friend, net,
                   born, uses, heard>>

\* A deadlock victim, a lost connection, an invocation cut off.
Rollback(c) ==
    /\ call[c] # Idle
    /\ Moves(c, Idle)
    /\ UNCHANGED <<now, membership, linkVars, sessionVars, recorded, friend, net,
                   historyVars>>

-----------------------------------------------------------------------------
\* sync_my_line_auth_identity, which the account page calls after every login

SyncIdentity(u) ==
    /\ membership[u] = "active"
    /\ Identity[u] # NoAccount
    /\ status[u] = "none"
    /\ LinkFree(Calls, u) /\ AccountFree(Calls, Identity[u])
    /\ ~Taken(u, Identity[u])
    /\ SetLink(u, Identity[u], "active")
    /\ UNCHANGED <<now, membership, sessionVars, recorded, call, friend, net, born,
                   uses, barred>>

-----------------------------------------------------------------------------
\* LINE: follows, unfollows and their webhooks

\* Two events of an account have different instants.
ChangeFriendship(a) ==
    /\ Cardinality(net) < MaxEvents
    /\ \A e \in net : e.account = a => e.at < now
    /\ friend' = [friend EXCEPT ![a] = ~@]
    /\ net' = net \cup {[account |-> a, follow |-> ~friend[a], at |-> now]}
    /\ UNCHANGED <<now, membership, linkVars, sessionVars, recorded, call, historyVars>>

\* on conflict (webhook_event_id) do nothing
Unrecorded(e) == e \notin recorded

Reaches(e) == {u \in Users : account[u] = e.account /\ status[u] \in Linked}
LastToArrive(u, e) == u \in Users
Newest(u, e) == lastAt[u] = Null \/ lastAt[u] <= e.at
AppliesTo(u, e) == u \in Reaches(e) /\ Newest(u, e)

\* line-messaging-webhook: record_line_webhook_events, for one event.  LINE
\* redelivers what was not answered with 2xx, so an event that was sent may
\* arrive late, twice, after a later one, or never.
RecordEvent(e) ==
    /\ e \in net
    /\ Unrecorded(e)
    /\ \A u \in Users : AppliesTo(u, e) => LinkFree(Calls, u)
    /\ recorded' = recorded \cup {e}
    /\ status' = [u \in Users |-> IF AppliesTo(u, e) THEN StatusOf(e.follow)
                                                     ELSE status[u]]
    /\ lastAt' = [u \in Users |-> IF AppliesTo(u, e) THEN e.at ELSE lastAt[u]]
    /\ heard' = [u \in Users |-> IF u \in Reaches(e) /\ e \notin recorded
                                 THEN heard[u] \cup {e} ELSE heard[u]]
    /\ UNCHANGED <<now, membership, account, sessionVars, call, friend, net, born,
                   uses, barred>>

-----------------------------------------------------------------------------
\* Members and time

\* New terms or a withdrawal, and the consent or retry that undoes it.
ChangeMembership(u) ==
    /\ membership[u] # "deleted"
    /\ membership' = [membership EXCEPT ![u] = IF @ = "active" THEN "inactive"
                                                               ELSE "active"]
    /\ UNCHANGED <<now, linkVars, sessionVars, recorded, call, friend, net,
                   historyVars>>

\* Deleting the Auth user cascades to the link and to the sessions.
DeleteMember(u) ==
    /\ membership[u] = "inactive"
    /\ LinkFree(Calls, u) /\ SessionsFree(Calls, SessionsOf(u))
    /\ membership' = [membership EXCEPT ![u] = "deleted"]
    /\ SetLink(u, NoAccount, "none")
    /\ DeleteSessions(SessionsOf(u))
    /\ UNCHANGED <<now, expires, consumed, recorded, call, friend, net, born, uses,
                   barred>>

Tick ==
    /\ now < MaxTime
    /\ now' = now + 1
    /\ UNCHANGED <<membership, linkVars, sessionVars, recorded, call, friend, net,
                   historyVars>>

Next ==
    \/ \E c \in Calls :
         \/ \E u \in Users : Start(c, u) \/ Unlink(c, u)
         \/ \E s \in Sessions : StartCommit(c, s)
         \/ \E s \in Sessions, a \in Accounts : Callback(c, s, a)
         \/ FindSession(c) \/ FindLink(c) \/ WriteLink(c) \/ LinkCommit(c)
         \/ ListSessions(c) \/ UnlinkCommit(c) \/ Rollback(c)
    \/ \E u \in Users : SyncIdentity(u) \/ ChangeMembership(u) \/ DeleteMember(u)
    \/ \E a \in Accounts : ChangeFriendship(a)
    \/ \E e \in net : RecordEvent(e)
    \/ Tick

Spec == Init /\ [][Next]_vars

-----------------------------------------------------------------------------
\* Properties

\* A session lets one callback through, however many come back with its state
\* and whatever becomes of them: complete_line_account_link reads the session
\* for update and consumes it in the transaction that refuses or links.
AcceptedOnce == \A s \in Sessions : uses[s] <= 1

\* Once a link or an unlink has committed, none of the logins it found in
\* progress can be accepted any more: it deletes their sessions, and waits for
\* the one another callback is using.
EndedLoginsStayEnded == [][\A s \in barred : uses'[s] = uses[s]]_vars

\* A linked member's LINE account is replaced only by a callback that found no
\* link: where it found one, its row lock keeps the conflict check true until
\* it commits, whatever unlinks, logins and deletions run beside it.
FoundLinksKept ==
    [][\A u \in Users :
         {status[u], status'[u]} \subseteq Linked /\ account'[u] # account[u]
         => \E c \in Calls : LocksLink(c, u) /\ ~call[c].found]_vars

\* A link has the status of the newest event that met it, in whatever order
\* and however often the webhooks arrived, and its last_webhook_at.
LinkFollowsNewestEvent ==
    \A u \in Users : status[u] \in Linked =>
        IF heard[u] = {} THEN lastAt[u] = Null
        ELSE \E e \in heard[u] :
               /\ \A f \in heard[u] : f.at <= e.at
               /\ lastAt[u] = e.at
               /\ status[u] = IF e.follow THEN "active" ELSE "blocked"

\* What the account link test says: a conflict preserves the original LINE
\* account of a linked member.
AccountPreserved ==
    [][\A u \in Users : {status[u], status'[u]} \subseteq Linked
         => account'[u] = account[u]]_vars

=============================================================================
