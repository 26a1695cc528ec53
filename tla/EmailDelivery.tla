---------------------------- MODULE EmailDelivery ----------------------------
(***************************************************************************)
(* The email half of the notification service: the Postgres message queue, *)
(* the Deno edge-function workers that drain it, the Resend API they call, *)
(* the Resend webhook that reports back, and what members do meanwhile.    *)
(*                                                                         *)
(* One action per transaction of a SQL function, per step of a worker      *)
(* between two of its awaits, and per member operation.  Time is a counter *)
(* of ticks; 0 stands for a null timestamp, so the clock starts at 1.      *)
(***************************************************************************)
EXTENDS Naturals, FiniteSets

CONSTANTS
    Users,          \* members
    Messages,       \* rows of notification_messages that may come to exist
    Owner,          \* the member a message is for
    Workers,        \* invocations of dispatch-email-notifications that may overlap
    NoMessage,      \* a worker between two messages
    BatchSize,      \* messages a claim takes, cancels or fails at most
    MaxAttempts,    \* v_max_attempts (5)
    Lease,          \* locked_until - locked_at (5 minutes)
    Window,         \* v_provider_safety_window (23 hours)
    ProviderWindow, \* how long the provider remembers an idempotency key (24 hours)
    Flight,         \* from the authorization to the last instant its request can land
    Backoff,        \* delay before the next attempt, by attempts made so far
    MaxJitter,      \* the random part of that delay (0..30 seconds)
    Restless,       \* bound: the members who do anything while mail is in flight
    EventTypes,     \* webhook event types the provider may report
    MaxEvents,      \* bound: events stored per message
    MaxToken,       \* bound: unsubscribe tokens a member ever has
    MaxAddress,     \* bound: email addresses a member ever has
    MaxTime         \* bound: the clock

Null == 0

AllEvents == {"sent", "delivery_delayed", "delivered", "failed", "bounced",
              "suppressed", "complained"}
Disabling == {"bounced", "suppressed", "complained"}

\* What wins among events of one instant.
Priority == [sent |-> 10, delivery_delayed |-> 20, delivered |-> 30, failed |-> 40,
             bounced |-> 50, suppressed |-> 60, complained |-> 70]

ASSUME EmailAssumption ==
    /\ Owner \in [Messages -> Users]
    /\ NoMessage \notin Messages
    /\ BatchSize \in Nat \ {0}
    /\ MaxAttempts \in Nat \ {0}
    /\ Lease \in Nat \ {0}
    /\ Window \in Nat \ {0}
    /\ ProviderWindow \in Nat
    /\ Flight \in Nat
    /\ Window + Flight <= ProviderWindow
    /\ Backoff \in [1..MaxAttempts -> Nat \ {0}]
    /\ MaxJitter \in Nat
    /\ Restless \subseteq Users
    /\ EventTypes \subseteq AllEvents
    /\ MaxEvents \in Nat
    /\ MaxToken \in Nat \ {0}
    /\ MaxAddress \in Nat \ {0}
    /\ MaxTime \in Nat

VARIABLES
    now,
    \* notification_messages and notification_provider_events, by message
    status, attempts, nextAt, lockedUntil, firstAt, fingerprint, errorCode,
    providerId, events,
    \* profiles, notification_email_preferences, unsubscribe tokens, auth.users
    membership, enabled, reason, suppressedAt, token, address,
    \* workers
    pc, todo, cur, lease, payload, code, sendBy,
    \* provider: idempotency keys, requests still in the network, emails sent
    keyAt, keyPayload, late, sent,
    \* history: when the member last stopped being eligible
    revokedAt

deliveryVars == <<attempts, nextAt, firstAt, fingerprint>>
feedbackVars == <<providerId, events>>
queueVars == <<status, lockedUntil, errorCode, deliveryVars, feedbackVars>>
preferenceVars == <<enabled, reason, suppressedAt>>
memberVars == <<membership, preferenceVars, token, address, revokedAt>>
workerVars == <<pc, todo, cur, lease, payload, code, sendBy>>
providerVars == <<keyAt, keyPayload, late, sent>>
vars == <<now, queueVars, memberVars, workerVars, providerVars>>

Open == {"pending", "processing", "retry_wait"}
Settled == {"accepted", "delivered", "failed_permanent", "bounced",
            "complained", "suppressed", "cancelled"}
\* Not values of the enum: a row not yet inserted, a row removed by a cascade.
Statuses == Open \cup Settled \cup {"absent", "deleted"}

WorkerErrors == {"retryable", "permanent", "invalid_idempotent_request"}
ErrorCodes == WorkerErrors \cup {"none", "attempt_limit_exceeded",
    "idempotency_window_expired", "provider_payload_changed", "resend_feedback"}

Payloads == [to : Nat, token : Nat]
NoPayload == [to |-> Null, token |-> Null]
NoReason == "none"
Events == [type : AllEvents, at : Nat]
Requests == [msg : Messages, payload : Payloads, by : Nat]

QueueTypeOK ==
    /\ status \in [Messages -> Statuses]
    /\ attempts \in [Messages -> 0..MaxAttempts]
    /\ nextAt \in [Messages -> Nat]
    /\ lockedUntil \in [Messages -> Nat]
    /\ firstAt \in [Messages -> Nat]
    /\ fingerprint \in [Messages -> Payloads]
    /\ errorCode \in [Messages -> ErrorCodes]
    /\ providerId \in [Messages -> Nat]
    /\ events \in [Messages -> SUBSET Events]

MemberTypeOK ==
    /\ membership \in [Users -> {"pending_terms", "active",
                                 "withdrawal_pending", "deleted"}]
    /\ enabled \in [Users -> BOOLEAN]
    /\ reason \in [Users -> Disabling \cup {NoReason}]
    /\ suppressedAt \in [Users -> Nat]
    /\ token \in [Users -> Nat]
    /\ address \in [Users -> Nat]
    /\ revokedAt \in [Users -> Nat]

WorkerTypeOK ==
    /\ pc \in [Workers -> {"ready", "recipient", "authorize", "send",
                           "accept", "fail"}]
    /\ todo \in [Workers -> SUBSET Messages]
    /\ cur \in [Workers -> Messages \cup {NoMessage}]
    /\ lease \in [Workers -> Nat]
    /\ payload \in [Workers -> Payloads]
    /\ code \in [Workers -> WorkerErrors \cup {"none"}]
    /\ sendBy \in [Workers -> Nat]

ProviderTypeOK ==
    /\ keyAt \in [Messages -> Nat]
    /\ keyPayload \in [Messages -> Payloads]
    /\ late \subseteq Requests
    /\ sent \in [Messages -> Nat]

TypeOK ==
    /\ now \in Nat \ {0}
    /\ QueueTypeOK
    /\ MemberTypeOK
    /\ WorkerTypeOK
    /\ ProviderTypeOK

Init ==
    /\ now = 1
    /\ status = [m \in Messages |-> "absent"]
    /\ attempts = [m \in Messages |-> 0]
    /\ nextAt = [m \in Messages |-> Null]
    /\ lockedUntil = [m \in Messages |-> Null]
    /\ firstAt = [m \in Messages |-> Null]
    /\ fingerprint = [m \in Messages |-> NoPayload]
    /\ errorCode = [m \in Messages |-> "none"]
    /\ providerId = [m \in Messages |-> Null]
    /\ events = [m \in Messages |-> {}]
    /\ membership = [u \in Users |-> "active"]
    /\ enabled = [u \in Users |-> TRUE]
    /\ reason = [u \in Users |-> NoReason]
    /\ suppressedAt = [u \in Users |-> Null]
    /\ token = [u \in Users |-> 1]
    /\ address = [u \in Users |-> 1]
    /\ revokedAt = [u \in Users |-> Null]
    /\ pc = [w \in Workers |-> "ready"]
    /\ todo = [w \in Workers |-> {}]
    /\ cur = [w \in Workers |-> NoMessage]
    /\ lease = [w \in Workers |-> Null]
    /\ payload = [w \in Workers |-> NoPayload]
    /\ code = [w \in Workers |-> "none"]
    /\ sendBy = [w \in Workers |-> Null]
    /\ keyAt = [m \in Messages |-> Null]
    /\ keyPayload = [m \in Messages |-> NoPayload]
    /\ late = {}
    /\ sent = [m \in Messages |-> 0]

-----------------------------------------------------------------------------
(* Eligibility and the queue's predicates.                                  *)

Eligible(u) == membership[u] = "active" /\ enabled[u] /\ reason[u] = NoReason

\* Faulty variants of a definition stand before it; the project file says which
\* property each of them breaks.
ReleasedAlways(m) == status[m] \in {"pending", "retry_wait", "processing"}
ReleasedNever(m) == status[m] \in {"pending", "retry_wait"}

Released(m) ==
    \/ status[m] \in {"pending", "retry_wait"}
    \/ status[m] = "processing" /\ lockedUntil[m] <= now

WindowOfSchedule(m) == nextAt[m] # Null /\ nextAt[m] + Window <= now
WindowOver(m) == firstAt[m] # Null /\ firstAt[m] + Window <= now
SpentLate(m) == attempts[m] > MaxAttempts \/ WindowOver(m)
Spent(m) == attempts[m] >= MaxAttempts \/ WindowOver(m)

Cancellable == {m \in Messages : Released(m) /\ ~Eligible(Owner[m])}
Exhausted == {m \in Messages : Released(m) /\ Eligible(Owner[m]) /\ Spent(m)}
Claimable ==
    {m \in Messages :
        /\ Released(m) /\ Eligible(Owner[m]) /\ ~Spent(m)
        /\ status[m] # "processing" => nextAt[m] <= now /\ lockedUntil[m] <= now}

\* The batches ORDER BY next_attempt_at LIMIT batch_size can return.  Ties are
\* broken by created_at and id in the code, in any way here.
Batches(S) ==
    {B \in SUBSET S :
        /\ Cardinality(B) <= BatchSize
        /\ B # S => Cardinality(B) = BatchSize
        /\ \A m \in B, n \in S \ B : nextAt[m] <= nextAt[n]}

HoldsLease(w, m) ==
    status[m] = "processing" /\ lockedUntil[m] = lease[w] /\ lockedUntil[m] > now

-----------------------------------------------------------------------------
(* The queue.                                                               *)

\* What an enqueue transaction does to this queue when it finds a new slot for
\* an eligible member: one pending message.
Enqueue(m) ==
    /\ status[m] = "absent"
    /\ Eligible(Owner[m])
    /\ status' = [status EXCEPT ![m] = "pending"]
    /\ nextAt' = [nextAt EXCEPT ![m] = now]
    /\ UNCHANGED <<now, attempts, lockedUntil, firstAt, fingerprint, errorCode,
                   feedbackVars, memberVars, workerVars, providerVars>>

\* One claim transaction: cancel C, then give up X, then take G, each bounded.
ClaimRows(C, X, G) ==
    /\ status' = [m \in Messages |->
          IF m \in C THEN "cancelled"
          ELSE IF m \in X THEN "failed_permanent"
          ELSE IF m \in G THEN "processing" ELSE status[m]]
    /\ attempts' = [m \in Messages |->
          IF m \in G THEN attempts[m] + 1 ELSE attempts[m]]
    /\ lockedUntil' = [m \in Messages |->
          IF m \in G THEN now + Lease
          ELSE IF m \in C \cup X THEN Null ELSE lockedUntil[m]]
    /\ errorCode' = [m \in Messages |->
          IF m \in C THEN "none"
          ELSE IF m \notin X THEN errorCode[m]
          ELSE IF attempts[m] >= MaxAttempts THEN "attempt_limit_exceeded"
          ELSE "idempotency_window_expired"]

\* The worker leaves with G.  A claim whose answer is lost is this action
\* followed by Crash; one that finds nothing is a stutter.
Claim(w) ==
    /\ pc[w] = "ready" /\ todo[w] = {}
    /\ \E C \in Batches(Cancellable), X \in Batches(Exhausted),
          G \in Batches(Claimable) :
        /\ C \cup X \cup G # {}
        /\ ClaimRows(C, X, G)
        /\ todo' = [todo EXCEPT ![w] = G]
        /\ lease' = [lease EXCEPT ![w] = IF G = {} THEN Null ELSE now + Lease]
    /\ UNCHANGED <<now, nextAt, firstAt, fingerprint, feedbackVars, memberVars,
                   pc, cur, payload, code, sendBy, providerVars>>

-----------------------------------------------------------------------------
(* The worker, one claimed message at a time.                               *)

\* The worker turns to its next message, or returns.
Finish(w) ==
    /\ pc' = [pc EXCEPT ![w] = "ready"]
    /\ cur' = [cur EXCEPT ![w] = NoMessage]
    /\ lease' = [lease EXCEPT ![w] = IF todo[w] = {} THEN Null ELSE lease[w]]
    /\ payload' = [payload EXCEPT ![w] = NoPayload]
    /\ code' = [code EXCEPT ![w] = "none"]
    /\ sendBy' = [sendBy EXCEPT ![w] = Null]
    /\ UNCHANGED todo

GoFail(w, error) ==
    /\ pc' = [pc EXCEPT ![w] = "fail"]
    /\ code' = [code EXCEPT ![w] = error]

\* get_email_unsubscribe_token_for_message, for the next message of the batch.
FetchToken(w, m) ==
    /\ pc[w] = "ready" /\ m \in todo[w]
    /\ todo' = [todo EXCEPT ![w] = @ \ {m}]
    /\ cur' = [cur EXCEPT ![w] = m]
    /\ \/ /\ status[m] # "deleted"
          /\ pc' = [pc EXCEPT ![w] = "recipient"]
          /\ payload' = [payload EXCEPT ![w] =
                            [to |-> Null, token |-> token[Owner[m]]]]
          /\ UNCHANGED code
       \/ GoFail(w, "retryable") /\ UNCHANGED payload
    /\ UNCHANGED <<now, queueVars, memberVars, lease, sendBy, providerVars>>

\* getUserById: the address, no address, or an error.
FetchRecipient(w) ==
    /\ pc[w] = "recipient"
    /\ \/ /\ membership[Owner[cur[w]]] # "deleted"
          /\ pc' = [pc EXCEPT ![w] = "authorize"]
          /\ payload' = [payload EXCEPT ![w] =
                            [to |-> address[Owner[cur[w]]], token |-> @.token]]
          /\ UNCHANGED code
       \/ \E error \in {"retryable", "permanent"} :
            GoFail(w, error) /\ UNCHANGED payload
    /\ UNCHANGED <<now, queueVars, memberVars, todo, cur, lease, sendBy,
                   providerVars>>

Settle(m, s, error) ==
    /\ status' = [status EXCEPT ![m] = s]
    /\ lockedUntil' = [lockedUntil EXCEPT ![m] = Null]
    /\ errorCode' = [errorCode EXCEPT ![m] = error]

\* authorize_email_message_send, one disjunct per outcome.
AuthorizeStale(w) ==
    /\ ~HoldsLease(w, cur[w])
    /\ Finish(w)
    /\ UNCHANGED queueVars

AuthorizeCancelled(w) ==
    /\ HoldsLease(w, cur[w])
    /\ ~Eligible(Owner[cur[w]])
    /\ Settle(cur[w], "cancelled", "none")
    /\ Finish(w)
    /\ UNCHANGED <<deliveryVars, feedbackVars>>

TokenChanged(w) ==
    firstAt[cur[w]] # Null /\ fingerprint[cur[w]].token # payload[w].token
PayloadChanged(w) ==
    firstAt[cur[w]] # Null /\ fingerprint[cur[w]] # payload[w]

AuthorizeError(w) ==
    IF attempts[cur[w]] > MaxAttempts THEN "attempt_limit_exceeded"
    ELSE IF WindowOver(cur[w]) THEN "idempotency_window_expired"
    ELSE IF PayloadChanged(w) THEN "provider_payload_changed"
    ELSE "none"

EntitledAtClaim(w) == HoldsLease(w, cur[w])
Entitled(w) == HoldsLease(w, cur[w]) /\ Eligible(Owner[cur[w]])

AuthorizeFailed(w) ==
    /\ Entitled(w)
    /\ AuthorizeError(w) # "none"
    /\ Settle(cur[w], "failed_permanent", AuthorizeError(w))
    /\ Finish(w)
    /\ UNCHANGED <<deliveryVars, feedbackVars>>

FirstAttemptForgotten(m) == firstAt[m]
FirstAttempt(m) == IF firstAt[m] = Null THEN now ELSE firstAt[m]

AuthorizeGranted(w) ==
    /\ Entitled(w)
    /\ AuthorizeError(w) = "none"
    /\ firstAt' = [firstAt EXCEPT ![cur[w]] = FirstAttempt(cur[w])]
    /\ fingerprint' = [fingerprint EXCEPT ![cur[w]] = payload[w]]
    /\ pc' = [pc EXCEPT ![w] = "send"]
    /\ sendBy' = [sendBy EXCEPT ![w] = now + Flight]
    /\ UNCHANGED <<status, attempts, nextAt, lockedUntil, errorCode,
                   feedbackVars, todo, cur, lease, payload, code>>

Authorize(w) ==
    /\ pc[w] = "authorize"
    /\ \/ AuthorizeStale(w)
       \/ AuthorizeCancelled(w)
       \/ AuthorizeFailed(w)
       \/ AuthorizeGranted(w)
    /\ UNCHANGED <<now, memberVars, providerVars>>

-----------------------------------------------------------------------------
(* The provider: POST /emails with the message id as its idempotency key.   *)

KeyKnown(m) == keyAt[m] # Null /\ now < keyAt[m] + ProviderWindow
KeyMatches(m, p) == KeyKnown(m) => keyPayload[m] = p

\* The provider takes payload p: a new email, unless it remembers the key.
Take(m, p) ==
    /\ KeyMatches(m, p)
    /\ keyAt' = [keyAt EXCEPT ![m] = IF KeyKnown(m) THEN @ ELSE now]
    /\ keyPayload' = [keyPayload EXCEPT ![m] = p]
    /\ sent' = [sent EXCEPT ![m] = IF KeyKnown(m) THEN @ ELSE @ + 1]

RefusedUnread(w, error) == pc' = [pc EXCEPT ![w] = "accept"] /\ UNCHANGED code
Refused(w, error) == GoFail(w, error)

\* The worker's fetch returned an answer: accepted; accepted but unreadable
\* (resend_unexpected_response); refused for the key; refused for another reason.
SendAnswered(w) ==
    /\ pc[w] = "send"
    /\ \/ /\ Take(cur[w], payload[w])
          /\ \/ pc' = [pc EXCEPT ![w] = "accept"] /\ UNCHANGED code
             \/ GoFail(w, "retryable")
       \/ /\ ~KeyMatches(cur[w], payload[w])
          /\ GoFail(w, "invalid_idempotent_request")
          /\ UNCHANGED <<keyAt, keyPayload, sent>>
       \/ \E error \in {"retryable", "permanent"} :
            Refused(w, error) /\ UNCHANGED <<keyAt, keyPayload, sent>>
    /\ sendBy' = [sendBy EXCEPT ![w] = Null]
    /\ UNCHANGED <<now, queueVars, memberVars, todo, cur, lease, payload, late>>

\* The fetch failed or timed out, and its request may still be on its way.
SendLost(w) ==
    /\ pc[w] = "send"
    /\ late' = late \cup {[msg |-> cur[w], payload |-> payload[w], by |-> sendBy[w]]}
    /\ GoFail(w, "retryable")
    /\ sendBy' = [sendBy EXCEPT ![w] = Null]
    /\ UNCHANGED <<now, queueVars, memberVars, todo, cur, lease, payload,
                   keyAt, keyPayload, sent>>

LateArrival(r) ==
    /\ late' = late \ {r}
    /\ Take(r.msg, r.payload)
    /\ UNCHANGED <<now, queueVars, memberVars, workerVars>>

-----------------------------------------------------------------------------
(* The worker records what happened.                                        *)

AcceptableAnyLease(w) == firstAt[cur[w]] # Null
Acceptable(w) == HoldsLease(w, cur[w]) /\ firstAt[cur[w]] # Null

\* record_email_message_accepted; the answer of a stale lease is ignored.
RecordAccepted(w) ==
    /\ pc[w] = "accept"
    /\ \/ /\ Acceptable(w)
          /\ Settle(cur[w], "accepted", "none")
          /\ providerId' = [providerId EXCEPT ![cur[w]] = sent[cur[w]]]
       \/ /\ ~Acceptable(w)
          /\ UNCHANGED <<status, lockedUntil, errorCode, providerId>>
    /\ Finish(w)
    /\ UNCHANGED <<now, deliveryVars, events, memberVars, providerVars>>

\* record_email_message_failure: wait and retry, give up, or a stale lease.
RetryAt(m, jitter) == now + Backoff[attempts[m]] + jitter
InWindow(m, t) == firstAt[m] = Null \/ t < firstAt[m] + Window

RetryLater(w, m, t) ==
    /\ HoldsLease(w, m)
    /\ code[w] = "retryable" /\ attempts[m] < MaxAttempts /\ InWindow(m, t)
    /\ Settle(m, "retry_wait", "retryable")
    /\ nextAt' = [nextAt EXCEPT ![m] = t]

GiveUp(w, m, t) ==
    /\ HoldsLease(w, m)
    /\ \/ code[w] # "retryable" /\ Settle(m, "failed_permanent", code[w])
       \/ /\ code[w] = "retryable" /\ attempts[m] >= MaxAttempts
          /\ Settle(m, "failed_permanent", "attempt_limit_exceeded")
       \/ /\ code[w] = "retryable" /\ attempts[m] < MaxAttempts
          /\ ~InWindow(m, t)
          /\ Settle(m, "failed_permanent", "idempotency_window_expired")
    /\ UNCHANGED nextAt

RecordFailure(w) ==
    /\ pc[w] = "fail"
    /\ LET m == cur[w] IN
        \/ \E jitter \in 0..MaxJitter :
              \/ RetryLater(w, m, RetryAt(m, jitter))
              \/ GiveUp(w, m, RetryAt(m, jitter))
        \/ ~HoldsLease(w, m) /\ UNCHANGED <<status, lockedUntil, errorCode, nextAt>>
    /\ Finish(w)
    /\ UNCHANGED <<now, attempts, firstAt, fingerprint, feedbackVars, memberVars,
                   providerVars>>

\* A call of the worker's try block throws: catch-all of processClaimedMessage.
Throw(w) ==
    /\ pc[w] \in {"recipient", "authorize", "send", "accept"}
    /\ GoFail(w, "retryable")
    /\ sendBy' = [sendBy EXCEPT ![w] = Null]
    /\ UNCHANGED <<now, queueVars, memberVars, todo, cur, lease, payload,
                   providerVars>>

\* An RPC answers with an error: the worker drops the message as it stands.
Drop(w) ==
    /\ pc[w] \in {"authorize", "send", "accept", "fail"}
    /\ Finish(w)
    /\ UNCHANGED <<now, queueVars, memberVars, providerVars>>

\* The platform stops the invocation; nothing of it survives but its leases.
Crash(w) ==
    /\ pc[w] # "ready" \/ todo[w] # {}
    /\ pc' = [pc EXCEPT ![w] = "ready"]
    /\ todo' = [todo EXCEPT ![w] = {}]
    /\ cur' = [cur EXCEPT ![w] = NoMessage]
    /\ lease' = [lease EXCEPT ![w] = Null]
    /\ payload' = [payload EXCEPT ![w] = NoPayload]
    /\ code' = [code EXCEPT ![w] = "none"]
    /\ sendBy' = [sendBy EXCEPT ![w] = Null]
    /\ UNCHANGED <<now, queueVars, memberVars, providerVars>>

-----------------------------------------------------------------------------
(* The webhook: record_resend_email_event.                                  *)

IsNewest(e, E) ==
    \A f \in E :
        f.at < e.at \/ (f.at = e.at /\ Priority[f.type] <= Priority[e.type])

\* The event that gives the message its status, now that e is one of E.
DecidesLast(d, e, E) == d = e
Decides(d, e, E) == d \in E /\ IsNewest(d, E)

StatusOf(type) ==
    CASE type \in {"sent", "delivery_delayed"} -> "accepted"
      [] type = "failed" -> "failed_permanent"
      [] OTHER -> type

ErrorOf(type) ==
    IF type \in Disabling \cup {"failed"} THEN "resend_feedback" ELSE "none"

\* Event of the k-th email of m: by provider id, else by the message tag, which
\* only binds a message whose first attempt is on record.
Correlates(m, k) ==
    \/ providerId[m] = k
    \/ providerId[m] = Null /\ firstAt[m] # Null

OverridesLater(u, e) == reason[u] = NoReason \/ suppressedAt[u] < e.at
\* A disabling event overrides an older or, at the same time, a milder one.
Overrides(u, e) ==
    \/ reason[u] = NoReason
    \/ suppressedAt[u] < e.at
    \/ suppressedAt[u] = e.at /\ Priority[reason[u]] < Priority[e.type]

\* revokedAt records the instant an eligible member stops being one.
Revoke(u) ==
    revokedAt' = [revokedAt EXCEPT ![u] = IF Eligible(u) THEN now ELSE @]

Suppress(u, e) ==
    /\ e.type \in Disabling /\ Overrides(u, e)
    /\ enabled' = [enabled EXCEPT ![u] = FALSE]
    /\ reason' = [reason EXCEPT ![u] = e.type]
    /\ suppressedAt' = [suppressedAt EXCEPT ![u] = e.at]
    /\ Revoke(u)

\* A delivery of an event already stored changes nothing: it is a stutter.
ReceiveEvent(m, k, e) ==
    /\ status[m] # "deleted"
    /\ k \in 1..sent[m] /\ e.at \in 1..now
    /\ e \notin events[m] /\ Cardinality(events[m]) < MaxEvents
    /\ Correlates(m, k)
    /\ providerId' = [providerId EXCEPT ![m] = k]
    /\ events' = [events EXCEPT ![m] = @ \cup {e}]
    /\ \E newest \in events'[m] :
          /\ Decides(newest, e, events'[m])
          /\ Settle(m, StatusOf(newest.type), ErrorOf(newest.type))
    /\ \/ Suppress(Owner[m], e)
       \/ /\ ~(e.type \in Disabling /\ Overrides(Owner[m], e))
          /\ UNCHANGED <<preferenceVars, revokedAt>>
    /\ UNCHANGED <<now, deliveryVars, membership, token, address, workerVars,
                   providerVars>>

-----------------------------------------------------------------------------
(* Members.                                                                 *)

InFlight(m) == status[m] \in {"processing", "retry_wait"}

\* is_enabled false -> true: refused while an email is in flight, and the
\* unsubscribe token rotates.
OptIn(u) ==
    /\ membership[u] = "active" /\ ~enabled[u] /\ reason[u] = NoReason
    /\ \A m \in Messages : Owner[m] = u => ~InFlight(m)
    /\ token[u] < MaxToken
    /\ enabled' = [enabled EXCEPT ![u] = TRUE]
    /\ token' = [token EXCEPT ![u] = @ + 1]
    /\ UNCHANGED <<now, queueVars, membership, reason, suppressedAt, address,
                   revokedAt, workerVars, providerVars>>

\* From the account page (active members), or with the token of an email.
OptOut(u) ==
    /\ enabled[u] /\ reason[u] = NoReason
    /\ \/ membership[u] = "active"
       \/ \E m \in Messages : Owner[m] = u /\ sent[m] > 0
                              /\ keyPayload[m].token = token[u]
    /\ enabled' = [enabled EXCEPT ![u] = FALSE]
    /\ Revoke(u)
    /\ UNCHANGED <<now, queueVars, membership, reason, suppressedAt, token,
                   address, workerVars, providerVars>>

\* Auth (external): the member changes the address the worker will read.
ChangeAddress(u) ==
    /\ membership[u] # "deleted" /\ address[u] < MaxAddress
    /\ address' = [address EXCEPT ![u] = @ + 1]
    /\ UNCHANGED <<now, queueVars, membership, preferenceVars, token, revokedAt,
                   workerVars, providerVars>>

AcceptTerms(u) ==
    /\ membership[u] = "pending_terms"
    /\ membership' = [membership EXCEPT ![u] = "active"]
    /\ UNCHANGED <<now, queueVars, preferenceVars, token, address, revokedAt,
                   workerVars, providerVars>>

\* A terms migration sends every active member back to pending_terms.
PublishTerms ==
    /\ \E u \in Users : membership[u] = "active"
    /\ membership' = [u \in Users |->
          IF membership[u] = "active" THEN "pending_terms" ELSE membership[u]]
    /\ revokedAt' = [u \in Users |-> IF Eligible(u) THEN now ELSE revokedAt[u]]
    /\ UNCHANGED <<now, queueVars, preferenceVars, token, address, workerVars,
                   providerVars>>

\* delete-account marks the profile, then deletes the Auth user; the second
\* call may fail and leave the first one's mark.
Withdraw(u) ==
    /\ membership[u] \in {"pending_terms", "active"}
    /\ membership' = [membership EXCEPT ![u] = "withdrawal_pending"]
    /\ Revoke(u)
    /\ UNCHANGED <<now, queueVars, preferenceVars, token, address, workerVars,
                   providerVars>>

DeleteUser(u) ==
    /\ membership[u] = "withdrawal_pending"
    /\ membership' = [membership EXCEPT ![u] = "deleted"]
    /\ status' = [m \in Messages |-> IF Owner[m] = u THEN "deleted" ELSE status[m]]
    /\ UNCHANGED <<now, deliveryVars, lockedUntil, errorCode, feedbackVars,
                   preferenceVars, token, address, revokedAt, workerVars,
                   providerVars>>

\* Time passes.  No request leaves or lands later than its deadline.
Tick ==
    /\ now < MaxTime
    /\ \A w \in Workers : pc[w] = "send" => now < sendBy[w]
    /\ now' = now + 1
    /\ late' = {r \in late : now < r.by}
    /\ UNCHANGED <<queueVars, memberVars, workerVars, keyAt, keyPayload, sent>>

-----------------------------------------------------------------------------

WorkerStep(w) ==
    \/ \E m \in Messages : FetchToken(w, m)
    \/ FetchRecipient(w)
    \/ Authorize(w)
    \/ SendAnswered(w)
    \/ SendLost(w)
    \/ RecordAccepted(w)
    \/ RecordFailure(w)
    \/ Throw(w)
    \/ Drop(w)

Webhook(m) ==
    \E k \in 1..sent[m], type \in EventTypes, at \in 1..now :
        ReceiveEvent(m, k, [type |-> type, at |-> at])

Member(u) ==
    \/ OptIn(u) \/ OptOut(u) \/ ChangeAddress(u)
    \/ AcceptTerms(u) \/ Withdraw(u) \/ DeleteUser(u)

Next ==
    \/ \E m \in Messages : Enqueue(m)
    \/ \E w \in Workers : Claim(w) \/ WorkerStep(w) \/ Crash(w)
    \/ \E r \in late : LateArrival(r)
    \/ \E m \in Messages : Webhook(m)
    \/ \E u \in Restless : Member(u)
    \/ Restless # {} /\ PublishTerms
    \/ Tick

Spec == Init /\ [][Next]_vars

-----------------------------------------------------------------------------
(* What the queue promises.                                                 *)

\* A message reaches the member's mailbox at most once, whatever the retries,
\* lost answers, late requests and overlapping workers: the 23-hour window,
\* the stored fingerprint and the provider's idempotency key together.
AtMostOneEmail == \A m \in Messages : sent[m] <= 1

\* The provider never sees one idempotency key with two payloads: the
\* fingerprint check stops a changed payload before the request is made.
NeverMismatchedKey == \A w \in Workers : code[w] # "invalid_idempotent_request"

\* locked_until fences: no two invocations that have the same message in hand
\* both hold a live lease on it.
Handles(w, m) == m \in todo[w] \cup {cur[w]} /\ HoldsLease(w, m)

OneLeaseHolder ==
    \A m \in Messages, v, w \in Workers :
        Handles(v, m) /\ Handles(w, m) => v = w

\* Opting out, losing membership or a suppression takes effect: an email leaves
\* for a member who is not eligible only if its request was authorized before,
\* hence at most Flight after the member stopped being eligible.
UnsubscribeTakesEffect ==
    [][\A m \in Messages : sent'[m] > sent[m] =>
          Eligible(Owner[m]) \/ now <= revokedAt[Owner[m]] + Flight]_vars

\* Every email the provider took can be matched by the webhook to its message,
\* by id or by tag: its events are never correlation_conflict.
FeedbackCorrelates ==
    \A m \in Messages : \A k \in 1..sent[m] :
        status[m] # "deleted" => Correlates(m, k)

\* The status of a message that has provider events is a function of the set of
\* those events: their order of arrival does not show, and no worker, claim or
\* late record ever overwrites what the provider said.
StatusFollowsEvents ==
    \A m \in Messages : \A e \in events[m] :
        status[m] # "deleted" /\ IsNewest(e, events[m])
            => status[m] = StatusOf(e.type)

\* The same for the member's suppression, over the events of all messages.
DisablingEvents(u) ==
    UNION {{e \in events[m] : e.type \in Disabling} :
              m \in {n \in Messages : Owner[n] = u}}

SuppressionFollowsEvents ==
    \A u \in Users :
        /\ reason[u] # NoReason => DisablingEvents(u) # {}
        /\ \A e \in DisablingEvents(u) :
              IsNewest(e, DisablingEvents(u)) =>
                  ~enabled[u] /\ reason[u] = e.type /\ suppressedAt[u] = e.at

\* A message that has been settled is never opened again, and only the webhook
\* moves it from one settled status to another.
SettledIsFinal ==
    [][\A m \in Messages : status[m] \in Settled =>
          \/ status'[m] \in {status[m], "deleted"}
          \/ status'[m] \in Settled /\ events'[m] # events[m]]_vars

Phase(m) ==
    CASE status[m] = "absent" -> "none"
      [] status[m] \in Open -> "open"
      [] status[m] = "deleted" -> "gone"
      [] status[m] \in {"failed_permanent", "cancelled"} -> "dropped"
      [] OTHER -> "confirmed"

\* The email queue is a delivery queue: a message leaves only after a worker was
\* cleared for it, at most once, and is said to be accepted, or further, only if
\* the provider took it, whatever is lost, retried, reordered or reclaimed.
Box == INSTANCE Outbox WITH
    phase <- [m \in Messages |-> Phase(m)],
    cleared <- {m \in Messages : firstAt[m] # Null},
    copies <- sent

DeliversOnce == Box!Spec

-----------------------------------------------------------------------------
(* Progress.  Work takes no time worth a tick: a tick passes only when no   *)
(* worker is at work and no claim would find anything, and, so that MaxTime *)
(* bounds waiting and not idleness, only while some message is open.  The   *)
(* platform runs a started worker on; the schedule starts one again and     *)
(* again, so one that would find work is started; and members do not do     *)
(* infinitely many things within a tick (SF of Tick).                       *)

Quiet ==
    /\ \A w \in Workers : pc[w] = "ready" /\ todo[w] = {}
    /\ Cancellable \cup Exhausted \cup Claimable = {}
    /\ \E m \in Messages : status[m] \in Open

UrgentNext == Next /\ (now' # now => Quiet)

Fairness ==
    /\ \A w \in Workers : WF_vars(Claim(w)) /\ WF_vars(WorkerStep(w))
    /\ SF_vars(Tick /\ Quiet)

LiveSpec == Init /\ [][UrgentNext]_vars /\ Fairness

\* Every message that is queued is settled in the end (or its member is gone),
\* whatever crashes, losses and member operations come in between.
EveryMessageSettles ==
    \A m \in Messages :
        status[m] \in Open ~> status[m] \in Settled \cup {"deleted"}

=============================================================================
