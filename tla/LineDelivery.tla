---------------------------- MODULE LineDelivery ----------------------------
(***************************************************************************)
(* The LINE queue: overlapping invocations of dispatch-line-notifications  *)
(* claim, authorize and push messages while members move their LINE        *)
(* account and the operator replaces the beta allowlist.  Where a member   *)
(* can be pushed to is LineLink's subject; here the link simply changes.   *)
(***************************************************************************)
EXTENDS Naturals, FiniteSets

CONSTANTS
    Users, Messages,
    Owner,          \* the member a message is for
    Accounts,       \* LINE accounts
    NoAccount,      \* no active link
    Workers,        \* invocations that may overlap
    NoMessage,      \* a worker between two messages
    Modes,          \* rollout modes the secrets may select
    Canary,         \* LINE_NOTIFICATION_CANARY_USER_ID
    MaxListed,      \* v_max_allowlisted_members (20)
    QuotaLimit,     \* LINE_MONTHLY_PUSH_LIMIT (180)
    BatchSize,      \* MAX_BATCH_SIZE (10)
    MaxAttempts,    \* v_max_attempts (5)
    Lease,          \* locked_until - locked_at (5 minutes)
    Window,         \* v_provider_safety_window (23 hours)
    ProviderWindow, \* how long LINE remembers a retry key (24 hours)
    Flight,         \* from the authorization to the last instant its push can land
    Backoff,        \* v_delay_seconds, by attempts made so far
    Restless,       \* bound: the members who do anything meanwhile
    MaxTime         \* bound: the clock

ASSUME LineAssumption ==
    /\ IsFiniteSet(Users)
    /\ Owner \in [Messages -> Users]
    /\ NoMessage \notin Messages /\ NoAccount \notin Accounts
    /\ Modes \subseteq {"canary", "allowlist", "all"}
    /\ Canary \in Users
    /\ Restless \subseteq Users
    /\ MaxListed \in Nat \ {0} /\ QuotaLimit \in Nat \ {0}
    /\ BatchSize \in Nat \ {0} /\ MaxAttempts \in Nat \ {0}
    /\ Lease \in Nat \ {0} /\ Window \in Nat \ {0}
    /\ ProviderWindow \in Nat /\ Flight \in Nat
    /\ Window + Flight <= ProviderWindow
    /\ Backoff \in [1..MaxAttempts -> Nat \ {0}]
    /\ MaxTime \in Nat

VARIABLES
    now,
    \* notification_messages of the channel
    status, attempts, nextAt, lockedUntil, firstAt, recipient,
    tests,          \* those with line_test_text
    \* profiles, line_account_links, line_notification_beta_allowlist
    member, link, allowlist,
    \* invocations
    worker,
    \* LINE: retry keys, pushes made, requests still in the network
    key, pushed, used, late,
    \* history: when a member last stopped being someone to push to
    leftAt

rowVars == <<attempts, nextAt, firstAt, recipient, tests>>
queueVars == <<status, lockedUntil, rowVars>>
memberVars == <<member, link, allowlist, leftAt>>
lineVars == <<key, pushed, used, late>>
vars == <<now, queueVars, memberVars, worker, lineVars>>

Null == 0

Open == {"pending", "processing", "retry_wait"}
Statuses == Open \cup {"accepted", "failed_permanent", "cancelled",
                       "absent", "deleted"}

\* How LINE answers a push that it does not take, and the error recorded.
Classify ==
    [timeout |-> "line_network_error", server |-> "line_server_error",
     quota |-> "line_quota_exceeded", token |-> "line_invalid_access_token",
     request |-> "line_invalid_recipient_or_payload",
     other |-> "line_client_error"]
Refusals == DOMAIN Classify \ {"timeout"}
Retryable == {"line_network_error", "line_server_error"}
Codes == {Classify[a] : a \in DOMAIN Classify}
             \cup {"none", "line_unexpected_response", "worker_internal_error"}

Nobody == NoAccount
Claims == [msg : Messages, to : Accounts]
NoKey == [at |-> Null, to |-> Nobody, mode |-> "none"]

PushRequests == [msg : Messages, to : Accounts, mode : Modes, by : Nat]
Invocations ==
    [pc : {"idle", "claim", "ready", "authorize", "push", "accept", "fail"},
     mode : Modes \cup {"none"}, room : 0..QuotaLimit, todo : SUBSET Claims,
     lease : Nat, msg : Messages \cup {NoMessage},
     to : Accounts \cup {Nobody}, by : Nat, code : Codes]

\* An invocation between calls.
Idle == [pc |-> "idle", mode |-> "none", room |-> 0, todo |-> {}, lease |-> Null,
         msg |-> NoMessage, to |-> Nobody, by |-> Null, code |-> "none"]

TypeOK ==
    /\ now \in Nat \ {0}
    /\ status \in [Messages -> Statuses]
    /\ attempts \in [Messages -> 0..MaxAttempts]
    /\ nextAt \in [Messages -> Nat] /\ lockedUntil \in [Messages -> Nat]
    /\ firstAt \in [Messages -> Nat]
    /\ recipient \in [Messages -> Accounts \cup {Nobody}]
    /\ tests \subseteq Messages
    /\ member \in [Users -> {"active", "inactive", "deleted"}]
    /\ link \in [Users -> Accounts \cup {Nobody}]
    /\ allowlist \subseteq Users /\ Cardinality(allowlist) <= MaxListed
    /\ worker \in [Workers -> Invocations]
    /\ key \in [Messages -> [at : Nat, to : Accounts \cup {Nobody},
                             mode : Modes \cup {"none"}]]
    /\ pushed \in [Messages -> Nat] /\ used \in Nat
    /\ late \subseteq PushRequests
    /\ leftAt \in [Users -> Nat]

Init ==
    /\ now = 1
    /\ status = [m \in Messages |-> "absent"]
    /\ attempts = [m \in Messages |-> 0]
    /\ nextAt = [m \in Messages |-> Null] /\ lockedUntil = [m \in Messages |-> Null]
    /\ firstAt = [m \in Messages |-> Null]
    /\ recipient = [m \in Messages |-> Nobody]
    /\ tests = {}
    /\ member = [u \in Users |-> "active"]
    /\ link = [u \in Users |-> Nobody]
    /\ allowlist = {}
    /\ worker = [w \in Workers |-> Idle]
    /\ key = [m \in Messages |-> NoKey]
    /\ pushed = [m \in Messages |-> 0] /\ used = 0
    /\ late = {}
    /\ leftAt = [u \in Users |-> Null]

-----------------------------------------------------------------------------
(* Whom a push may go to.                                                   *)

\* The account of an active member's active link.
Reach(u) == IF member[u] = "active" THEN link[u] ELSE Nobody

InScope(mode, u) ==
    \/ mode = "all"
    \/ mode = "canary" /\ u = Canary
    \/ mode = "allowlist" /\ u \in allowlist

\* A claim or an authorization under an empty allowlist is an error.
Runs(mode) == mode = "allowlist" => allowlist # {}

Released(m) ==
    \/ status[m] \in {"pending", "retry_wait"}
    \/ status[m] = "processing" /\ lockedUntil[m] <= now

Leased(m) == status[m] = "processing" /\ lockedUntil[m] > now

WindowOfSchedule(m) == nextAt[m] # Null /\ nextAt[m] + Window <= now
WindowOver(m) == firstAt[m] # Null /\ firstAt[m] + Window <= now
SpentLate(m) == attempts[m] > MaxAttempts \/ WindowOver(m)
Spent(m) == attempts[m] >= MaxAttempts \/ WindowOver(m)

Cancellable(mode) ==
    {m \in Messages :
        Released(m) /\ InScope(mode, Owner[m]) /\ Reach(Owner[m]) = Nobody}
Serviceable(mode) ==
    {m \in Messages :
        Released(m) /\ InScope(mode, Owner[m]) /\ Reach(Owner[m]) # Nobody}
Exhausted(mode) == {m \in Serviceable(mode) : Spent(m)}
Claimable(mode) ==
    {m \in Serviceable(mode) :
        ~Spent(m) /\ (status[m] = "processing" \/ nextAt[m] <= now)}

\* ORDER BY next_attempt_at LIMIT n, ties broken in any way.
Batches(S, n) ==
    {B \in SUBSET S :
        /\ Cardinality(B) <= n
        /\ B # S => Cardinality(B) = n
        /\ \A m \in B, k \in S \ B : nextAt[m] <= nextAt[k]}

-----------------------------------------------------------------------------
(* The queue and the operator.                                              *)

\* A row is inserted; an id that is there already is left alone.
Insert(m) ==
    /\ status[m] = "absent"
    /\ status' = [status EXCEPT ![m] = "pending"]
    /\ nextAt' = [nextAt EXCEPT ![m] = now]
    /\ UNCHANGED <<now, attempts, lockedUntil, firstAt, recipient, memberVars,
                   worker, lineVars>>

\* enqueue_line_notification_candidates with a new slot of an eligible member
\* in scope, not in shadow mode.
Enqueue(m) ==
    /\ \E mode \in Modes : Runs(mode) /\ InScope(mode, Owner[m])
    /\ Reach(Owner[m]) # Nobody
    /\ Insert(m)
    /\ UNCHANGED tests

\* enqueue_line_canary_test: the operator's test text, for any member who can be
\* reached.  It takes no lock and looks at neither the rollout nor the allowlist.
EnqueueCanaryTest(m) ==
    /\ Reach(Owner[m]) # Nobody
    /\ Insert(m)
    /\ tests' = tests \cup {m}

CancelRows(S) ==
    /\ status' = [m \in Messages |-> IF m \in S THEN "cancelled" ELSE status[m]]
    /\ lockedUntil' = [m \in Messages |-> IF m \in S THEN Null ELSE lockedUntil[m]]

ReplaceableAnytime(S) ==
    /\ Cardinality(S) <= MaxListed
    /\ \A u \in S : member[u] = "active"
Replaceable(S) ==
    /\ Cardinality(S) <= MaxListed
    /\ \A m \in Messages : ~Leased(m)
    /\ \A u \in S : member[u] = "active"

\* replace_line_notification_beta_allowlist: under an exclusive lock, so in one
\* step with regard to enqueue, claim and authorize.
Replace(S) ==
    /\ Replaceable(S)
    /\ allowlist' = S
    /\ leftAt' = [u \in Users |-> IF u \in allowlist \ S THEN now ELSE leftAt[u]]
    /\ CancelRows({m \in Messages : Released(m) /\ Owner[m] \notin S})
    /\ UNCHANGED <<now, rowVars, member, link, worker, lineVars>>

CancelBacklog ==
    /\ CancelRows({m \in Messages : Released(m)})
    /\ UNCHANGED <<now, rowVars, memberVars, worker, lineVars>>

\* The member's link becomes active, with whatever account, or stops being so.
ChangeLink(u) ==
    /\ member[u] # "deleted"
    /\ \E a \in Accounts \cup {Nobody} :
          /\ a # link[u]
          /\ \A v \in Users : a # Nobody => link[v] # a
          /\ link' = [link EXCEPT ![u] = a]
    /\ leftAt' = [leftAt EXCEPT ![u] = now]
    /\ UNCHANGED <<now, queueVars, member, allowlist, worker, lineVars>>

\* New terms or a withdrawal; consent.
ChangeMembership(u) ==
    /\ \/ member[u] = "active" /\ member' = [member EXCEPT ![u] = "inactive"]
       \/ member[u] = "inactive" /\ member' = [member EXCEPT ![u] = "active"]
    /\ leftAt' = [leftAt EXCEPT ![u] = now]
    /\ UNCHANGED <<now, queueVars, link, allowlist, worker, lineVars>>

\* The Auth user is deleted; the rows go by cascade.
DeleteMember(u) ==
    /\ member[u] = "inactive"
    /\ member' = [member EXCEPT ![u] = "deleted"]
    /\ link' = [link EXCEPT ![u] = Nobody]
    /\ allowlist' = allowlist \ {u}
    /\ leftAt' = [leftAt EXCEPT ![u] = now]
    /\ status' = [m \in Messages |->
          IF Owner[m] = u /\ status[m] # "absent" THEN "deleted" ELSE status[m]]
    /\ UNCHANGED <<now, lockedUntil, rowVars, worker, lineVars>>

-----------------------------------------------------------------------------
(* An invocation.                                                           *)

\* The request is admitted, the secrets select a mode, and LINE tells how much
\* of the month's quota is used; without an answer, or without room, it returns.
Invoke(w) ==
    /\ worker[w].pc = "idle"
    /\ used < QuotaLimit
    /\ \E mode \in Modes :
          worker' = [worker EXCEPT ![w] =
              [Idle EXCEPT !.pc = "claim", !.mode = mode, !.room = QuotaLimit - used]]
    /\ UNCHANGED <<now, queueVars, memberVars, lineVars>>

ClaimSize(w) == IF BatchSize < worker[w].room THEN BatchSize ELSE worker[w].room

\* claim_line_messages cancels C, gives up X and takes G, in one transaction.
Claim(w) ==
    /\ worker[w].pc = "claim"
    /\ Runs(worker[w].mode)
    /\ \E C \in Batches(Cancellable(worker[w].mode), ClaimSize(w)),
          X \in Batches(Exhausted(worker[w].mode), ClaimSize(w)),
          G \in Batches(Claimable(worker[w].mode), ClaimSize(w)) :
        /\ status' = [m \in Messages |->
              IF m \in C THEN "cancelled" ELSE IF m \in X THEN "failed_permanent"
              ELSE IF m \in G THEN "processing" ELSE status[m]]
        /\ attempts' = [m \in Messages |->
              IF m \in G THEN attempts[m] + 1 ELSE attempts[m]]
        /\ lockedUntil' = [m \in Messages |->
              IF m \in G THEN now + Lease
              ELSE IF m \in C \cup X THEN Null ELSE lockedUntil[m]]
        /\ worker' = [worker EXCEPT ![w] =
              [@ EXCEPT !.pc = "ready", !.lease = now + Lease,
                        !.todo = {[msg |-> m, to |-> Reach(Owner[m])] : m \in G}]]
    /\ UNCHANGED <<now, nextAt, firstAt, recipient, tests, memberVars, lineVars>>

\* The invocation turns to its next message, or returns: where it goes next.
Onward(w) ==
    worker' = [worker EXCEPT ![w] =
        IF worker[w].todo = {} THEN Idle
        ELSE [@ EXCEPT !.pc = "ready", !.msg = NoMessage, !.to = Nobody,
                       !.by = Null, !.code = "none"]]

\* The answer of a call is an error, lost, or the platform stops the invocation.
Quit(w) ==
    /\ worker[w].pc # "idle"
    /\ worker' = [worker EXCEPT ![w] = Idle]
    /\ UNCHANGED <<now, queueVars, memberVars, lineVars>>

\* The message is rendered; a text that cannot be made throws.
Prepare(w, c) ==
    /\ worker[w].pc = "ready" /\ c \in worker[w].todo
    /\ \E p \in {"authorize", "fail"} :
          worker' = [worker EXCEPT ![w] =
              [@ EXCEPT !.pc = p, !.todo = worker[w].todo \ {c},
                        !.msg = c.msg, !.to = c.to,
                        !.code = IF p = "fail" THEN "worker_internal_error" ELSE "none"]]
    /\ UNCHANGED <<now, queueVars, memberVars, lineVars>>

HoldsLease(w, m) ==
    status[m] = "processing" /\ lockedUntil[m] = worker[w].lease /\ lockedUntil[m] > now

Settle(m, s) ==
    /\ status' = [status EXCEPT ![m] = s]
    /\ lockedUntil' = [lockedUntil EXCEPT ![m] = Null]

PermittedAtClaim(w, m) == Runs(worker[w].mode)
Permitted(w, m) ==
    InScope(worker[w].mode, Owner[m]) /\ Reach(Owner[m]) = worker[w].to

\* attempt limit, retry-key window, fingerprint (of the recipient: the text of a
\* message is fixed with its items).
Hopeless(w, m) ==
    \/ attempts[m] > MaxAttempts
    \/ WindowOver(m)
    \/ firstAt[m] # Null /\ recipient[m] # worker[w].to

\* authorize_line_message_send.
Authorize(w) ==
    /\ worker[w].pc = "authorize"
    /\ Runs(worker[w].mode)
    /\ LET m == worker[w].msg IN
        \/ /\ ~HoldsLease(w, m)
           /\ Onward(w)
           /\ UNCHANGED <<status, lockedUntil, firstAt, recipient>>
        \/ /\ HoldsLease(w, m)
           /\ \/ ~Permitted(w, m) /\ Settle(m, "cancelled")
              \/ Permitted(w, m) /\ Hopeless(w, m) /\ Settle(m, "failed_permanent")
           /\ Onward(w)
           /\ UNCHANGED <<firstAt, recipient>>
        \/ /\ HoldsLease(w, m) /\ Permitted(w, m) /\ ~Hopeless(w, m)
           /\ firstAt' = [firstAt EXCEPT ![m] = IF @ = Null THEN now ELSE @]
           /\ recipient' = [recipient EXCEPT ![m] = worker[w].to]
           /\ worker' = [worker EXCEPT ![w] =
                            [@ EXCEPT !.pc = "push", !.by = now + Flight]]
           /\ UNCHANGED <<status, lockedUntil>>
    /\ UNCHANGED <<now, attempts, nextAt, tests, memberVars, lineVars>>

-----------------------------------------------------------------------------
(* LINE: POST /message/push with the message id as its retry key.           *)

KeyKnown(m) == key[m].at # Null /\ now < key[m].at + ProviderWindow

\* A push is made, unless LINE remembers the key (409).
Take(m, to, mode) ==
    IF KeyKnown(m) THEN UNCHANGED <<key, pushed, used>>
    ELSE /\ key' = [key EXCEPT ![m] = [at |-> now, to |-> to, mode |-> mode]]
         /\ pushed' = [pushed EXCEPT ![m] = @ + 1]
         /\ used' = used + 1

Report(w, p, code) ==
    worker' = [worker EXCEPT ![w] = [@ EXCEPT !.pc = p, !.by = Null, !.code = code]]

RefusedAsTaken(w, a) == Report(w, "accept", "none")
Refused(w, a) == Report(w, "fail", Classify[a])

\* 200 or 409, with a request id or without one that can be read; or a refusal.
PushAnswered(w) ==
    /\ worker[w].pc = "push"
    /\ \/ /\ Take(worker[w].msg, worker[w].to, worker[w].mode)
          /\ \/ Report(w, "accept", "none")
             \/ Report(w, "fail", "line_unexpected_response")
       \/ \E a \in Refusals : Refused(w, a) /\ UNCHANGED <<key, pushed, used>>
    /\ UNCHANGED <<now, queueVars, memberVars, late>>

Request(v) == [msg |-> v.msg, to |-> v.to, mode |-> v.mode, by |-> v.by]

\* The request times out and may still be on its way.
PushLost(w) ==
    /\ worker[w].pc = "push"
    /\ late' = late \cup {Request(worker[w])}
    /\ Report(w, "fail", Classify["timeout"])
    /\ UNCHANGED <<now, queueVars, memberVars, key, pushed, used>>

LateArrival(r) ==
    /\ late' = late \ {r}
    /\ Take(r.msg, r.to, r.mode)
    /\ UNCHANGED <<now, queueVars, memberVars, worker>>

LateLoss(r) ==
    /\ late' = late \ {r}
    /\ UNCHANGED <<now, queueVars, memberVars, worker, key, pushed, used>>

-----------------------------------------------------------------------------
(* The invocation records what happened.                                    *)

RecordAccepted(w) ==
    /\ worker[w].pc = "accept"
    /\ LET m == worker[w].msg IN
        IF HoldsLease(w, m) /\ firstAt[m] # Null THEN Settle(m, "accepted")
        ELSE UNCHANGED <<status, lockedUntil>>
    /\ Onward(w)
    /\ UNCHANGED <<now, rowVars, memberVars, lineVars>>

RetryAt(m) == now + Backoff[attempts[m]]
MayRetry(w, m) ==
    /\ worker[w].code \in Retryable
    /\ attempts[m] < MaxAttempts
    /\ firstAt[m] = Null \/ RetryAt(m) < firstAt[m] + Window

RecordFailure(w) ==
    /\ worker[w].pc = "fail"
    /\ LET m == worker[w].msg IN
        \/ /\ HoldsLease(w, m) /\ MayRetry(w, m)
           /\ Settle(m, "retry_wait")
           /\ nextAt' = [nextAt EXCEPT ![m] = RetryAt(m)]
        \/ /\ HoldsLease(w, m) /\ ~MayRetry(w, m)
           /\ Settle(m, "failed_permanent")
           /\ UNCHANGED nextAt
        \/ ~HoldsLease(w, m) /\ UNCHANGED <<status, lockedUntil, nextAt>>
    /\ Onward(w)
    /\ UNCHANGED <<now, attempts, firstAt, recipient, tests, memberVars, lineVars>>

\* record_line_message_accepted or _failure cannot be reached: the loop goes on
\* and the message stays in processing until its lease ends.
RecordLost(w) ==
    /\ worker[w].pc \in {"authorize", "accept", "fail"}
    /\ Onward(w)
    /\ UNCHANGED <<now, queueVars, memberVars, lineVars>>

-----------------------------------------------------------------------------

\* A request is answered, lost or given up before its Flight is over.
Tick ==
    /\ now < MaxTime
    /\ \A w \in Workers : worker[w].by # Null => now < worker[w].by
    /\ \A r \in late : now < r.by
    /\ now' = now + 1
    /\ UNCHANGED <<queueVars, memberVars, worker, lineVars>>

WorkerStep(w) ==
    \/ Invoke(w) \/ Claim(w) \/ Quit(w)
    \/ \E c \in worker[w].todo : Prepare(w, c)
    \/ Authorize(w) \/ PushAnswered(w) \/ PushLost(w)
    \/ RecordAccepted(w) \/ RecordFailure(w) \/ RecordLost(w)

Next ==
    \/ \E m \in Messages : Enqueue(m) \/ EnqueueCanaryTest(m)
    \/ \E S \in SUBSET Restless : Replace(S)
    \/ CancelBacklog
    \/ \E u \in Restless : ChangeLink(u) \/ ChangeMembership(u) \/ DeleteMember(u)
    \/ \E w \in Workers : WorkerStep(w)
    \/ \E r \in late : LateArrival(r) \/ LateLoss(r)
    \/ Tick

Spec == Init /\ [][Next]_vars

-----------------------------------------------------------------------------
(* What the queue promises.                                                 *)

Phase(m) ==
    CASE status[m] = "absent" -> "none"
      [] status[m] \in Open -> "open"
      [] status[m] = "accepted" -> "confirmed"
      [] status[m] = "deleted" -> "gone"
      [] OTHER -> "dropped"

\* The LINE queue is a delivery queue: whatever times out, is retried, recorded
\* late or reclaimed, a message is pushed once at most, only after the last
\* check let it, said to be accepted only if LINE took it, and never open again
\* after it was settled.
Box == INSTANCE Outbox WITH
    phase <- [m \in Messages |-> Phase(m)],
    cleared <- {m \in Messages : firstAt[m] # Null},
    copies <- pushed

DeliversOnce == Box!Spec

\* A push goes to the account of the member's active link, and of a member the
\* rollout covers.  When the link, the membership or the place on the allowlist
\* is lost meanwhile, the push was authorized before that, hence it lands at most
\* Flight later.
PushInScope ==
    [][\A m \in Messages : pushed'[m] > pushed[m] =>
          \/ /\ Reach(Owner[m]) = key'[m].to
             /\ InScope(key'[m].mode, Owner[m])
          \/ now <= leftAt[Owner[m]] + Flight]_vars

\* While the rollout is limited to the allowlist, no court notification waits for
\* a member who is not on it: replacing the list cancels what it leaves behind,
\* and none can slip through in the hands of a worker.  The operator's test text
\* may wait for such a member, but no invocation takes it.
QueueKeepsToAllowlist ==
    Modes = {"allowlist"} =>
        \A m \in Messages : status[m] \in Open /\ Owner[m] \notin allowlist =>
            m \in tests /\ status[m] = "pending" /\ attempts[m] = 0

\* The rollout document: pushes stop at the monthly limit.  An invocation reads
\* the consumption once, before its claim, so two that overlap can pass it.
QuotaKept == used <= QuotaLimit

=============================================================================
