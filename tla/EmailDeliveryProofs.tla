------------------------- MODULE EmailDeliveryProofs -------------------------
(***************************************************************************)
(* Proofs about EmailDelivery for every set of members, messages and       *)
(* workers and every value of the timing constants that satisfies          *)
(* EmailAssumption.                                                        *)
(***************************************************************************)
EXTENDS EmailDelivery, TLAPS

(***************************************************************************)
(* Type correctness.  The attempt counter of a message in hand is part of  *)
(* it, because the backoff is looked up with it.                           *)
(***************************************************************************)

AttemptsCounted ==
    \A m \in Messages : status[m] = "processing" => attempts[m] > 0

CurrentKnown ==
    \A w \in Workers : pc[w] # "ready" => cur[w] \in Messages

TypeInv == TypeOK /\ AttemptsCounted /\ CurrentKnown

LEMMA InitTypeInv == Init => TypeInv
<1> SUFFICES ASSUME Init PROVE TypeInv
  OBVIOUS
<1>1. QueueTypeOK
  BY EmailAssumption
     DEF Init, QueueTypeOK, Statuses, ErrorCodes, Payloads, NoPayload, Null
<1>2. MemberTypeOK
  BY DEF Init, MemberTypeOK, Null, NoReason
<1>3. WorkerTypeOK
  BY DEF Init, WorkerTypeOK, Payloads, NoPayload, Null
<1>4. ProviderTypeOK
  BY DEF Init, ProviderTypeOK, Payloads, NoPayload, Null
<1>5. AttemptsCounted /\ CurrentKnown
  BY EmailAssumption DEF Init, AttemptsCounted, CurrentKnown
<1>6. QED
  BY <1>1, <1>2, <1>3, <1>4, <1>5 DEF Init, TypeInv, TypeOK

\* A claim takes rows of the queue, none of them spent.
LEMMA BatchesAreSubsets ==
  ASSUME NEW S, NEW B \in Batches(S)
  PROVE  B \subseteq S
  BY DEF Batches

LEMMA ClaimTypeInv ==
  ASSUME TypeInv, NEW w \in Workers, Claim(w)
  PROVE  TypeInv'
<1> USE EmailAssumption
<1>1. PICK C \in Batches(Cancellable), X \in Batches(Exhausted),
           G \in Batches(Claimable) :
              /\ ClaimRows(C, X, G)
              /\ todo' = [todo EXCEPT ![w] = G]
              /\ lease' = [lease EXCEPT ![w] = IF G = {} THEN Null ELSE now + Lease]
  BY DEF Claim
<1>2. G \subseteq Claimable
  BY BatchesAreSubsets
<1>3. G \subseteq Messages /\ \A m \in G : ~(attempts[m] >= MaxAttempts)
  BY <1>2 DEF Claimable, Spent
<1>4. QueueTypeOK'
  BY <1>1, <1>3 DEF Claim, ClaimRows, TypeInv, TypeOK, QueueTypeOK, Statuses,
     Settled, Open, ErrorCodes, Null, feedbackVars
<1>5. MemberTypeOK' /\ ProviderTypeOK' /\ now' \in Nat \ {0}
  BY DEF Claim, TypeInv, TypeOK, MemberTypeOK, ProviderTypeOK, memberVars,
     preferenceVars, providerVars
<1>6. WorkerTypeOK'
  BY <1>1, <1>3 DEF Claim, TypeInv, TypeOK, WorkerTypeOK, Null
<1>7. AttemptsCounted'
  BY <1>1, <1>3 DEF ClaimRows, TypeInv, TypeOK, QueueTypeOK, AttemptsCounted
<1>8. CurrentKnown'
  BY DEF Claim, TypeInv, CurrentKnown
<1>9. QED BY <1>4, <1>5, <1>6, <1>7, <1>8 DEF TypeInv, TypeOK

\* What a worker's own variables look like after it ends with a message.
LEMMA FinishType ==
  ASSUME TypeInv, NEW w \in Workers, Finish(w)
  PROVE  WorkerTypeOK' /\ CurrentKnown'
<1>1. WorkerTypeOK'
  BY DEF Finish, TypeInv, TypeOK, WorkerTypeOK, Payloads, NoPayload, Null
<1>2. CurrentKnown'
  BY DEF Finish, TypeInv, TypeOK, WorkerTypeOK, CurrentKnown
<1>3. QED BY <1>1, <1>2

\* A row that is settled, or put back to wait, stays well typed.
LEMMA SettleType ==
  ASSUME TypeInv, NEW m \in Messages, NEW s \in Settled \cup {"retry_wait"},
         NEW error \in ErrorCodes, Settle(m, s, error)
  PROVE  /\ status' \in [Messages -> Statuses]
         /\ lockedUntil' \in [Messages -> Nat]
         /\ errorCode' \in [Messages -> ErrorCodes]
         /\ \A n \in Messages : status'[n] = "processing" => status[n] = "processing"
  BY DEF Settle, TypeInv, TypeOK, QueueTypeOK, Statuses, Open, Settled, Null

LEMMA FetchTypeInv ==
  ASSUME TypeInv, NEW w \in Workers,
         (\E m \in Messages : FetchToken(w, m)) \/ FetchRecipient(w)
  PROVE  TypeInv'
<1> USE DEF WorkerErrors, GoFail
<1>1. CASE \E m \in Messages : FetchToken(w, m)
  <2> PICK m \in Messages : FetchToken(w, m)
    BY <1>1
  <2>o. Owner[m] \in Users
    BY EmailAssumption
  <2>a. payload' \in [Workers -> Payloads]
    BY <2>o
       DEF FetchToken, TypeInv, TypeOK, WorkerTypeOK, MemberTypeOK, Payloads, Null
  <2>1. WorkerTypeOK'
    BY <2>a DEF FetchToken, TypeInv, TypeOK, WorkerTypeOK
  <2>2. CurrentKnown'
    BY DEF FetchToken, TypeInv, TypeOK, WorkerTypeOK, CurrentKnown
  <2>3. QED
    BY <2>1, <2>2
       DEF FetchToken, TypeInv, TypeOK, QueueTypeOK, MemberTypeOK, ProviderTypeOK,
       AttemptsCounted, queueVars, deliveryVars, feedbackVars, memberVars,
       preferenceVars, providerVars
<1>2. CASE FetchRecipient(w)
  <2>o. cur[w] \in Messages /\ Owner[cur[w]] \in Users
    BY <1>2, EmailAssumption DEF FetchRecipient, TypeInv, CurrentKnown
  <2>a. payload' \in [Workers -> Payloads]
    BY <1>2, <2>o
       DEF FetchRecipient, TypeInv, TypeOK, WorkerTypeOK, MemberTypeOK, Payloads
  <2>1. WorkerTypeOK'
    BY <1>2, <2>a DEF FetchRecipient, TypeInv, TypeOK, WorkerTypeOK
  <2>2. CurrentKnown'
    BY <1>2 DEF FetchRecipient, TypeInv, TypeOK, WorkerTypeOK, CurrentKnown
  <2>3. QED
    BY <1>2, <2>1, <2>2
       DEF FetchRecipient, TypeInv, TypeOK, QueueTypeOK, MemberTypeOK,
       ProviderTypeOK, AttemptsCounted, queueVars, deliveryVars, feedbackVars,
       memberVars, preferenceVars, providerVars
<1>3. QED BY <1>1, <1>2

LEMMA AuthorizeTypeInv ==
  ASSUME TypeInv, NEW w \in Workers, Authorize(w)
  PROVE  TypeInv'
<1> DEFINE m == cur[w]
<1>1. m \in Messages /\ pc[w] = "authorize"
  BY DEF Authorize, TypeInv, CurrentKnown
<1>2. MemberTypeOK' /\ ProviderTypeOK' /\ now' \in Nat \ {0}
  BY DEF Authorize, TypeInv, TypeOK, MemberTypeOK, ProviderTypeOK, memberVars,
     preferenceVars, providerVars
<1>3. CASE AuthorizeStale(w)
  <2>1. QueueTypeOK' /\ AttemptsCounted'
    BY <1>3 DEF AuthorizeStale, TypeInv, TypeOK, QueueTypeOK, AttemptsCounted,
       queueVars, deliveryVars, feedbackVars
  <2>2. QED BY <1>2, <1>3, <2>1, FinishType DEF AuthorizeStale, TypeInv, TypeOK
<1>4. CASE AuthorizeCancelled(w) \/ AuthorizeFailed(w)
  <2>1. PICK s \in Settled \cup {"retry_wait"}, error \in ErrorCodes :
              Settle(m, s, error)
    BY <1>4 DEF AuthorizeCancelled, AuthorizeFailed, AuthorizeError, Settled, ErrorCodes
  <2>2. QueueTypeOK' /\ AttemptsCounted'
    BY <1>1, <1>4, <2>1, SettleType
       DEF AuthorizeCancelled, AuthorizeFailed, TypeInv, TypeOK, QueueTypeOK,
       AttemptsCounted, deliveryVars, feedbackVars
  <2>3. WorkerTypeOK' /\ CurrentKnown'
    BY <1>4, FinishType DEF AuthorizeCancelled, AuthorizeFailed
  <2>4. QED BY <1>2, <2>2, <2>3 DEF TypeInv, TypeOK
<1>5. CASE AuthorizeGranted(w)
  <2>1. QueueTypeOK' /\ AttemptsCounted'
    BY <1>1, <1>5
       DEF AuthorizeGranted, FirstAttempt, TypeInv, TypeOK, QueueTypeOK, WorkerTypeOK,
       AttemptsCounted, feedbackVars
  <2>2. WorkerTypeOK'
    BY <1>5, EmailAssumption DEF AuthorizeGranted, FirstAttempt, TypeInv, TypeOK, WorkerTypeOK
  <2>3. CurrentKnown'
    BY <1>1, <1>5 DEF AuthorizeGranted, FirstAttempt, TypeInv, TypeOK, WorkerTypeOK, CurrentKnown
  <2>4. QED BY <1>2, <2>1, <2>2, <2>3 DEF TypeInv, TypeOK
<1>6. QED BY <1>3, <1>4, <1>5 DEF Authorize

LEMMA TakeType ==
  ASSUME TypeInv, NEW m \in Messages, NEW p \in Payloads, Take(m, p)
  PROVE  /\ keyAt' \in [Messages -> Nat]
         /\ keyPayload' \in [Messages -> Payloads]
         /\ sent' \in [Messages -> Nat]
  BY DEF Take, TypeInv, TypeOK, ProviderTypeOK

LEMMA SendTypeInv ==
  ASSUME TypeInv, NEW w \in Workers, SendAnswered(w) \/ SendLost(w)
  PROVE  TypeInv'
<1>1. cur[w] \in Messages /\ payload[w] \in Payloads /\ sendBy[w] \in Nat
  BY DEF SendAnswered, SendLost, TypeInv, TypeOK, WorkerTypeOK, CurrentKnown
<1>2. WorkerTypeOK' /\ CurrentKnown'
  BY DEF SendAnswered, SendLost, Refused, GoFail, TypeInv, TypeOK, WorkerTypeOK,
     WorkerErrors, CurrentKnown, Null
<1>3. ProviderTypeOK'
  BY <1>1, TakeType
     DEF SendAnswered, SendLost, TypeInv, TypeOK, ProviderTypeOK, Requests
<1>4. QED
  BY <1>2, <1>3
     DEF SendAnswered, SendLost, TypeInv, TypeOK, QueueTypeOK, MemberTypeOK,
     AttemptsCounted, queueVars, deliveryVars, feedbackVars, memberVars,
     preferenceVars

LEMMA RecordTypeInv ==
  ASSUME TypeInv, NEW w \in Workers, RecordAccepted(w) \/ RecordFailure(w)
  PROVE  TypeInv'
<1> USE EmailAssumption
<1> DEFINE m == cur[w]
<1>1. m \in Messages
  BY DEF RecordAccepted, RecordFailure, TypeInv, CurrentKnown
<1>2. WorkerTypeOK' /\ CurrentKnown'
  BY FinishType DEF RecordAccepted, RecordFailure
<1>3. MemberTypeOK' /\ ProviderTypeOK' /\ now' \in Nat \ {0}
  BY DEF RecordAccepted, RecordFailure, TypeInv, TypeOK, MemberTypeOK,
     ProviderTypeOK, memberVars, preferenceVars, providerVars
<1>4. CASE RecordAccepted(w)
  <2>1. QueueTypeOK' /\ AttemptsCounted'
    BY <1>1, <1>4, SettleType
       DEF RecordAccepted, TypeInv, TypeOK, QueueTypeOK, ProviderTypeOK, Settled,
       ErrorCodes, AttemptsCounted, deliveryVars
  <2>2. QED BY <1>2, <1>3, <2>1 DEF TypeInv, TypeOK
<1>5. CASE RecordFailure(w)
  <2> SUFFICES QueueTypeOK' /\ AttemptsCounted'
    BY <1>2, <1>3 DEF TypeInv, TypeOK
  <2>1. CASE \E jitter \in 0..MaxJitter : RetryLater(w, m, RetryAt(m, jitter))
    <3>1. PICK jitter \in 0..MaxJitter : RetryLater(w, m, RetryAt(m, jitter))
      BY <2>1
    <3>2. attempts[m] \in 1..MaxAttempts
      BY <1>1, <3>1 DEF RetryLater, HoldsLease, TypeInv, TypeOK, QueueTypeOK,
         AttemptsCounted
    <3>3. RetryAt(m, jitter) \in Nat
      BY <3>2 DEF RetryAt, TypeInv, TypeOK
    <3>4. Settle(m, "retry_wait", "retryable")
      BY <3>1 DEF RetryLater
    <3>5. nextAt' \in [Messages -> Nat]
      BY <3>1, <3>3 DEF RetryLater, TypeInv, TypeOK, QueueTypeOK
    <3>6. QED
      BY <1>1, <1>5, <3>4, <3>5, SettleType
         DEF RecordFailure, TypeInv, TypeOK, QueueTypeOK, ErrorCodes, WorkerErrors,
         AttemptsCounted, feedbackVars
  <2>2. CASE \E jitter \in 0..MaxJitter : GiveUp(w, m, RetryAt(m, jitter))
    <3>1. PICK jitter \in 0..MaxJitter : GiveUp(w, m, RetryAt(m, jitter))
      BY <2>2
    <3>2. PICK error \in ErrorCodes : Settle(m, "failed_permanent", error)
      BY <3>1 DEF GiveUp, TypeInv, TypeOK, WorkerTypeOK, ErrorCodes
    <3>3. QED
      BY <1>1, <1>5, <3>1, <3>2, SettleType
         DEF RecordFailure, GiveUp, TypeInv, TypeOK, QueueTypeOK, Settled,
         AttemptsCounted, feedbackVars
  <2>3. CASE UNCHANGED <<status, lockedUntil, errorCode, nextAt>>
    BY <1>5, <2>3 DEF RecordFailure, TypeInv, TypeOK, QueueTypeOK, AttemptsCounted,
       feedbackVars
  <2>4. QED BY <1>5, <2>1, <2>2, <2>3 DEF RecordFailure
<1>6. QED BY <1>4, <1>5

LEMMA AbandonTypeInv ==
  ASSUME TypeInv, NEW w \in Workers, Throw(w) \/ Drop(w) \/ Crash(w)
  PROVE  TypeInv'
<1>1. WorkerTypeOK' /\ CurrentKnown'
  <2>1. CASE Throw(w)
    BY <2>1 DEF Throw, GoFail, TypeInv, TypeOK, WorkerTypeOK, WorkerErrors,
       CurrentKnown, Null
  <2>2. CASE Drop(w)
    BY <2>2, FinishType DEF Drop
  <2>3. CASE Crash(w)
    BY <2>3 DEF Crash, TypeInv, TypeOK, WorkerTypeOK, CurrentKnown, Payloads,
       NoPayload, Null
  <2>4. QED BY <2>1, <2>2, <2>3
<1>2. UNCHANGED <<now, queueVars, memberVars, providerVars>>
  BY DEF Throw, Drop, Crash
<1>3. QED
  BY <1>1, <1>2
     DEF TypeInv, TypeOK, QueueTypeOK, MemberTypeOK, ProviderTypeOK, AttemptsCounted,
     queueVars, deliveryVars, feedbackVars, memberVars, preferenceVars, providerVars

LEMMA LateTypeInv ==
  ASSUME TypeInv, NEW r \in late, LateArrival(r)
  PROVE  TypeInv'
<1>1. r.msg \in Messages /\ r.payload \in Payloads
  BY DEF TypeInv, TypeOK, ProviderTypeOK, Requests
<1>2. ProviderTypeOK'
  BY <1>1, TakeType DEF LateArrival, TypeInv, TypeOK, ProviderTypeOK
<1>3. QED
  BY <1>2
     DEF LateArrival, TypeInv, TypeOK, QueueTypeOK, MemberTypeOK, WorkerTypeOK,
     AttemptsCounted, CurrentKnown, queueVars, deliveryVars, feedbackVars,
     memberVars, preferenceVars, workerVars

LEMMA EnqueueTypeInv ==
  ASSUME TypeInv, NEW m \in Messages, Enqueue(m)
  PROVE  TypeInv'
<1>1. QueueTypeOK' /\ AttemptsCounted'
  BY DEF Enqueue, TypeInv, TypeOK, QueueTypeOK, AttemptsCounted, Statuses, Open,
     feedbackVars
<1>2. QED
  BY <1>1
     DEF Enqueue, TypeInv, TypeOK, MemberTypeOK, WorkerTypeOK, ProviderTypeOK,
     CurrentKnown, memberVars, preferenceVars, workerVars, providerVars

\* The status an event asks for is a settled one.
LEMMA StatusOfSettles ==
  ASSUME NEW type \in AllEvents
  PROVE  StatusOf(type) \in Settled /\ ErrorOf(type) \in ErrorCodes
  BY DEF AllEvents, StatusOf, ErrorOf, Settled, ErrorCodes

LEMMA EventTypeInv ==
  ASSUME TypeInv, NEW m \in Messages, NEW k \in 1..sent[m],
         NEW e \in Events, ReceiveEvent(m, k, e)
  PROVE  TypeInv'
<1>1. events' \in [Messages -> SUBSET Events] /\ providerId' \in [Messages -> Nat]
  BY DEF ReceiveEvent, TypeInv, TypeOK, QueueTypeOK, ProviderTypeOK
<1>2. PICK newest \in events'[m] :
         Settle(m, StatusOf(newest.type), ErrorOf(newest.type))
  BY DEF ReceiveEvent
<1>3. newest.type \in AllEvents
  BY <1>1 DEF Events
<1>4. QueueTypeOK' /\ AttemptsCounted'
  BY <1>1, <1>2, <1>3, StatusOfSettles, SettleType
     DEF ReceiveEvent, TypeInv, TypeOK, QueueTypeOK, AttemptsCounted, deliveryVars
<1>5. MemberTypeOK'
  <2>1. Owner[m] \in Users /\ e.type \in AllEvents /\ e.at \in Nat /\ now \in Nat
    BY EmailAssumption DEF Events, TypeInv, TypeOK
  <2>2. CASE Suppress(Owner[m], e)
    BY <2>1, <2>2
       DEF Suppress, Revoke, ReceiveEvent, TypeInv, TypeOK, MemberTypeOK
  <2>3. CASE UNCHANGED <<preferenceVars, revokedAt>>
    BY <2>3 DEF ReceiveEvent, TypeInv, TypeOK, MemberTypeOK, preferenceVars
  <2>4. QED
    BY <2>2, <2>3 DEF ReceiveEvent
<1>6. QED
  BY <1>4, <1>5
     DEF ReceiveEvent, TypeInv, TypeOK, WorkerTypeOK, ProviderTypeOK, CurrentKnown,
     workerVars, providerVars

LEMMA MemberTypeInv ==
  ASSUME TypeInv, NEW u \in Users, Member(u)
  PROVE  TypeInv'
<1>1. MemberTypeOK'
  <2> now \in Nat /\ MemberTypeOK
    BY DEF TypeInv, TypeOK
  <2>1. CASE OptIn(u)
    BY <2>1 DEF OptIn, MemberTypeOK
  <2>2. CASE OptOut(u)
    BY <2>2 DEF OptOut, Revoke, MemberTypeOK
  <2>3. CASE ChangeAddress(u)
    BY <2>3 DEF ChangeAddress, MemberTypeOK, preferenceVars
  <2>4. CASE AcceptTerms(u)
    BY <2>4 DEF AcceptTerms, MemberTypeOK, preferenceVars
  <2>5. CASE Withdraw(u)
    BY <2>5 DEF Withdraw, Revoke, MemberTypeOK, preferenceVars
  <2>6. CASE DeleteUser(u)
    BY <2>6 DEF DeleteUser, MemberTypeOK, preferenceVars
  <2>7. QED
    BY <2>1, <2>2, <2>3, <2>4, <2>5, <2>6 DEF Member
<1>2. QueueTypeOK' /\ AttemptsCounted'
  <2>1. CASE DeleteUser(u)
    BY <2>1 DEF DeleteUser, TypeInv, TypeOK, QueueTypeOK, AttemptsCounted, Statuses,
       deliveryVars, feedbackVars
  <2>2. CASE UNCHANGED queueVars
    BY <2>2 DEF TypeInv, TypeOK, QueueTypeOK, AttemptsCounted, queueVars,
       deliveryVars, feedbackVars
  <2>3. QED
    BY <2>1, <2>2 DEF Member, OptIn, OptOut, ChangeAddress, AcceptTerms, Withdraw
<1>3. UNCHANGED <<now, workerVars, providerVars>>
  BY DEF Member, OptIn, OptOut, ChangeAddress, AcceptTerms, Withdraw, DeleteUser
<1>4. QED
  BY <1>1, <1>2, <1>3
     DEF TypeInv, TypeOK, WorkerTypeOK, ProviderTypeOK, CurrentKnown, workerVars,
     providerVars

LEMMA TermsTypeInv ==
  ASSUME TypeInv, PublishTerms
  PROVE  TypeInv'
<1>1. MemberTypeOK'
  BY DEF PublishTerms, TypeInv, TypeOK, MemberTypeOK, preferenceVars
<1>2. QED
  BY <1>1
     DEF PublishTerms, TypeInv, TypeOK, QueueTypeOK, WorkerTypeOK, ProviderTypeOK,
     AttemptsCounted, CurrentKnown, queueVars, deliveryVars, feedbackVars,
     workerVars, providerVars

LEMMA TickTypeInv ==
  ASSUME TypeInv, Tick
  PROVE  TypeInv'
  BY DEF Tick, TypeInv, TypeOK, QueueTypeOK, MemberTypeOK, WorkerTypeOK,
     ProviderTypeOK, AttemptsCounted, CurrentKnown, queueVars, deliveryVars,
     feedbackVars, memberVars, preferenceVars, workerVars

LEMMA NextTypeInv == TypeInv /\ [Next]_vars => TypeInv'
<1> SUFFICES ASSUME TypeInv, [Next]_vars PROVE TypeInv'
  OBVIOUS
<1>1. ASSUME NEW m \in Messages, Enqueue(m) PROVE TypeInv'
  BY <1>1, EnqueueTypeInv
<1>2. ASSUME NEW w \in Workers, Claim(w) \/ WorkerStep(w) \/ Crash(w) PROVE TypeInv'
  BY <1>2, ClaimTypeInv, FetchTypeInv, AuthorizeTypeInv, SendTypeInv,
     RecordTypeInv, AbandonTypeInv DEF WorkerStep
<1>3. ASSUME NEW r \in late, LateArrival(r) PROVE TypeInv'
  BY <1>3, LateTypeInv
<1>4. ASSUME NEW m \in Messages, Webhook(m) PROVE TypeInv'
  <2>1. PICK k \in 1..sent[m], type \in EventTypes, at \in 1..now :
           ReceiveEvent(m, k, [type |-> type, at |-> at])
    BY <1>4 DEF Webhook
  <2>2. [type |-> type, at |-> at] \in Events
    BY <1>4, EmailAssumption DEF TypeInv, TypeOK, Events
  <2>3. QED BY <2>1, <2>2, EventTypeInv
<1>5. ASSUME NEW u \in Restless, Member(u) PROVE TypeInv'
  BY <1>5, EmailAssumption, MemberTypeInv
<1>6. CASE UNCHANGED vars
  BY <1>6
     DEF vars, TypeInv, TypeOK, QueueTypeOK, MemberTypeOK, WorkerTypeOK,
     ProviderTypeOK, AttemptsCounted, CurrentKnown, queueVars, deliveryVars,
     feedbackVars, memberVars, preferenceVars, workerVars, providerVars
<1>7. QED
  BY <1>1, <1>2, <1>3, <1>4, <1>5, <1>6, TermsTypeInv, TickTypeInv DEF Next

\* Every variable of the delivery model keeps its type; attempt_count never
\* passes the limit and a message being processed has been attempted.
THEOREM TypeCorrect == Spec => []TypeOK
<1>1. Spec => []TypeInv
  BY InitTypeInv, NextTypeInv, PTL DEF Spec
<1>2. TypeInv => TypeOK
  BY DEF TypeInv
<1>3. QED BY <1>1, <1>2, PTL

(***************************************************************************)
(* One email per message.  The provider remembers an idempotency key for   *)
(* ProviderWindow; a request lands before the window of its first attempt  *)
(* closes, plus Flight, so it always finds the key its message has left    *)
(* there, with the payload whose fingerprint the queue kept.               *)
(***************************************************************************)

KeyInv ==
    \A m \in Messages :
        /\ firstAt[m] <= now
        /\ sent[m] = IF keyAt[m] = Null THEN 0 ELSE 1
        /\ keyAt[m] # Null =>
              /\ firstAt[m] # Null /\ firstAt[m] <= keyAt[m] /\ keyAt[m] <= now
              /\ keyPayload[m] = fingerprint[m]

\* A request for m with payload p that can land until by.
Flies(m, p, by) ==
    /\ firstAt[m] # Null /\ p = fingerprint[m]
    /\ now <= by /\ by <= now + Flight /\ by < firstAt[m] + Window + Flight
    /\ Eligible(Owner[m]) \/ by <= revokedAt[Owner[m]] + Flight

FlightInv ==
    /\ \A w \in Workers : pc[w] = "send" => Flies(cur[w], payload[w], sendBy[w])
    /\ \A r \in late : Flies(r.msg, r.payload, r.by)

DeliveryInv == TypeInv /\ KeyInv /\ FlightInv /\ NeverMismatchedKey

sentVars == <<now, firstAt, fingerprint, keyAt, keyPayload, sent>>
revocationVars == <<membership, enabled, reason, revokedAt>>

\* A worker that moves on without sending: it keeps what it sends, or stops.
Keeps(w) ==
    /\ pc'[w] = "send" =>
          /\ pc[w] = "send" /\ cur'[w] = cur[w] /\ payload'[w] = payload[w]
          /\ sendBy'[w] = sendBy[w]
    /\ code'[w] = "invalid_idempotent_request"
          => code[w] = "invalid_idempotent_request"

LEMMA InitDelivery == Init => DeliveryInv
<1> SUFFICES ASSUME Init PROVE DeliveryInv
  OBVIOUS
<1>1. KeyInv /\ FlightInv /\ NeverMismatchedKey
  BY DEF Init, KeyInv, FlightInv, NeverMismatchedKey, Null
<1>2. QED BY <1>1, InitTypeInv DEF DeliveryInv

LEMMA KeepsDelivery ==
  ASSUME DeliveryInv, TypeInv', UNCHANGED <<sentVars, revocationVars, late>>,
         \A w \in Workers : Keeps(w)
  PROVE  DeliveryInv'
<1>1. KeyInv'
  BY DEF DeliveryInv, KeyInv, sentVars, Null
<1>2. \A m, p, by : Flies(m, p, by)' <=> Flies(m, p, by)
  BY DEF Flies, Eligible, sentVars, revocationVars, Null
<1>3. FlightInv'
  BY <1>2 DEF DeliveryInv, FlightInv, Keeps
<1>4. NeverMismatchedKey'
  BY DEF DeliveryInv, NeverMismatchedKey, Keeps
<1>5. QED BY <1>1, <1>3, <1>4 DEF DeliveryInv

\* Finishing with a message, failing it and reaching a step other than the send.
LEMMA FinishKeeps ==
  ASSUME TypeInv, NEW w \in Workers, Finish(w)
  PROVE  \A v \in Workers : Keeps(v)
  BY DEF Finish, Keeps, TypeInv, TypeOK, WorkerTypeOK

LEMMA QueueDelivery ==
  ASSUME DeliveryInv, TypeInv',
         \/ \E m \in Messages : Enqueue(m)
         \/ \E w \in Workers : Claim(w) \/ Crash(w) \/ RecordAccepted(w)
                               \/ RecordFailure(w) \/ Throw(w) \/ Drop(w)
                               \/ FetchRecipient(w) \/ \E m \in Messages : FetchToken(w, m)
  PROVE  DeliveryInv'
<1> TypeInv
  BY DEF DeliveryInv
<1>1. CASE \E m \in Messages : Enqueue(m)
  BY <1>1, KeepsDelivery
     DEF Enqueue, Keeps, sentVars, revocationVars, memberVars, preferenceVars,
     providerVars, workerVars
<1>2. ASSUME NEW w \in Workers, Claim(w) PROVE DeliveryInv'
  BY <1>2, KeepsDelivery
     DEF Claim, Keeps, sentVars, revocationVars, memberVars, preferenceVars, providerVars
<1>3. ASSUME NEW w \in Workers, Crash(w) PROVE DeliveryInv'
  <2>1. \A v \in Workers : Keeps(v)
    BY <1>3 DEF Crash, Keeps, TypeInv, TypeOK, WorkerTypeOK
  <2>2. QED
    BY <1>3, <2>1, KeepsDelivery
       DEF Crash, sentVars, revocationVars, memberVars, preferenceVars, providerVars,
       queueVars, deliveryVars
<1>4. ASSUME NEW w \in Workers, RecordAccepted(w) \/ RecordFailure(w) \/ Drop(w)
      PROVE  DeliveryInv'
  <2>1. \A v \in Workers : Keeps(v)
    BY <1>4, FinishKeeps DEF RecordAccepted, RecordFailure, Drop
  <2>2. UNCHANGED <<sentVars, revocationVars, late>>
    BY <1>4 DEF RecordAccepted, RecordFailure, Drop, sentVars, revocationVars,
       memberVars, preferenceVars, providerVars, queueVars, deliveryVars
  <2>3. QED
    BY <2>1, <2>2, KeepsDelivery
<1>5. ASSUME NEW w \in Workers,
             Throw(w) \/ FetchRecipient(w) \/ \E m \in Messages : FetchToken(w, m)
      PROVE  DeliveryInv'
  <2>1. \A v \in Workers : Keeps(v)
    BY <1>5 DEF Throw, FetchRecipient, FetchToken, GoFail, Keeps, TypeInv, TypeOK,
       WorkerTypeOK
  <2>2. UNCHANGED <<sentVars, revocationVars, late>>
    BY <1>5 DEF Throw, FetchRecipient, FetchToken, sentVars, revocationVars,
       memberVars, preferenceVars, providerVars, queueVars, deliveryVars
  <2>3. QED
    BY <2>1, <2>2, KeepsDelivery
<1>6. QED BY <1>1, <1>2, <1>3, <1>4, <1>5

\* An authorization starts a flight inside the window, for an eligible member,
\* and keeps the fingerprint of every flight before it.
LEMMA AuthorizeDelivery ==
  ASSUME DeliveryInv, TypeInv', NEW w \in Workers, Authorize(w)
  PROVE  DeliveryInv'
<1> TypeInv
  BY DEF DeliveryInv
<1> DEFINE m == cur[w]
<1>0. m \in Messages /\ pc[w] = "authorize" /\ Owner[m] \in Users
  BY EmailAssumption DEF Authorize, TypeInv, CurrentKnown
<1>1. CASE AuthorizeStale(w) \/ AuthorizeCancelled(w) \/ AuthorizeFailed(w)
  <2>1. \A v \in Workers : Keeps(v)
    BY <1>1, FinishKeeps DEF AuthorizeStale, AuthorizeCancelled, AuthorizeFailed
  <2>2. UNCHANGED <<sentVars, revocationVars, late>>
    BY <1>1 DEF Authorize, AuthorizeStale, AuthorizeCancelled, AuthorizeFailed,
       sentVars, revocationVars, memberVars, preferenceVars, providerVars, queueVars,
       deliveryVars
  <2>3. QED
    BY <2>1, <2>2, KeepsDelivery
<1>2. CASE AuthorizeGranted(w)
  <2>1. /\ firstAt' = [firstAt EXCEPT ![m] = IF firstAt[m] = Null THEN now ELSE firstAt[m]]
        /\ fingerprint' = [fingerprint EXCEPT ![m] = payload[w]]
        /\ UNCHANGED <<now, memberVars, providerVars, cur, payload, code>>
        /\ pc' = [pc EXCEPT ![w] = "send"]
        /\ sendBy' = [sendBy EXCEPT ![w] = now + Flight]
        /\ Eligible(Owner[m])
    BY <1>2 DEF Authorize, AuthorizeGranted, FirstAttempt, Entitled
  <2>2. ~WindowOver(m) /\ ~PayloadChanged(w)
    BY <1>2 DEF AuthorizeGranted, FirstAttempt, AuthorizeError
  <2>3. /\ firstAt \in [Messages -> Nat] /\ fingerprint \in [Messages -> Payloads]
        /\ now \in Nat \ {0} /\ sendBy \in [Workers -> Nat]
        /\ pc \in [Workers -> {"ready", "recipient", "authorize", "send",
                               "accept", "fail"}]
        /\ late \subseteq Requests
    BY DEF TypeInv, TypeOK, QueueTypeOK, WorkerTypeOK, ProviderTypeOK
  <2>4. \A n \in Messages : firstAt[n] # Null =>
          firstAt'[n] = firstAt[n] /\ fingerprint'[n] = fingerprint[n]
    BY <1>0, <2>1, <2>2, <2>3 DEF PayloadChanged
  <2>5. KeyInv'
    BY <1>0, <2>1, <2>3, <2>4 DEF DeliveryInv, KeyInv, providerVars, Null
  <2>6. \A n \in Messages : \A p, by : Flies(n, p, by) => Flies(n, p, by)'
    BY <2>1, <2>4 DEF Flies, Eligible, memberVars, preferenceVars
  <2>7. Flies(m, payload[w], now + Flight)'
    BY <1>0, <2>1, <2>2, <2>3, EmailAssumption
       DEF Flies, WindowOver, Eligible, memberVars, preferenceVars, Null
  <2>8. FlightInv'
    <3>1. ASSUME NEW v \in Workers, pc'[v] = "send"
          PROVE  Flies(cur[v], payload[v], sendBy[v])'
      <4>1. CASE v = w
        BY <2>1, <2>3, <2>7, <4>1 DEF Flies, Eligible
      <4>2. CASE v # w
        <5>1. pc[v] = "send" /\ cur[v] \in Messages /\ sendBy'[v] = sendBy[v]
          BY <2>1, <2>3, <3>1, <4>2 DEF TypeInv, CurrentKnown
        <5>2. Flies(cur[v], payload[v], sendBy[v])
          BY <5>1 DEF DeliveryInv, FlightInv
        <5>3. QED BY <2>1, <2>6, <5>1, <5>2
      <4>3. QED BY <4>1, <4>2
    <3>2. ASSUME NEW r \in late' PROVE Flies(r.msg, r.payload, r.by)'
      <4>1. r \in late /\ r.msg \in Messages
        BY <2>1, <2>3 DEF providerVars, Requests
      <4>2. QED BY <2>6, <4>1 DEF DeliveryInv, FlightInv
    <3>3. QED BY <3>1, <3>2 DEF FlightInv
  <2>9. NeverMismatchedKey'
    BY <2>1 DEF DeliveryInv, NeverMismatchedKey
  <2>10. QED BY <2>5, <2>8, <2>9 DEF DeliveryInv
<1>3. QED BY <1>1, <1>2 DEF Authorize

\* The heart of the argument: a request in flight finds no key, or its own.
LEMMA TakeOnce ==
  ASSUME DeliveryInv, NEW m \in Messages, NEW p, NEW by \in Nat, Flies(m, p, by)
  PROVE  /\ KeyMatches(m, p)
         /\ keyAt[m] # Null => KeyKnown(m)
         /\ Take(m, p) /\ UNCHANGED <<now, firstAt, fingerprint>> => KeyInv'
<1>1. /\ now \in Nat \ {0} /\ firstAt \in [Messages -> Nat]
      /\ keyAt \in [Messages -> Nat] /\ sent \in [Messages -> Nat]
      /\ keyPayload \in [Messages -> Payloads]
  BY DEF DeliveryInv, TypeInv, TypeOK, QueueTypeOK, ProviderTypeOK
<1>2. keyAt[m] # Null => KeyKnown(m) /\ keyPayload[m] = p
  BY <1>1, EmailAssumption DEF DeliveryInv, KeyInv, Flies, KeyKnown, Null
<1>3. ASSUME Take(m, p), UNCHANGED <<now, firstAt, fingerprint>> PROVE KeyInv'
  <2>1. \A n \in Messages \ {m} :
          keyAt'[n] = keyAt[n] /\ keyPayload'[n] = keyPayload[n] /\ sent'[n] = sent[n]
    BY <1>1, <1>3 DEF Take
  <2>2. keyPayload'[m] = p
    BY <1>1, <1>3 DEF Take
  <2>3. CASE KeyKnown(m)
    <3>1. keyAt'[m] = keyAt[m] /\ sent'[m] = sent[m]
      BY <1>1, <1>3, <2>3 DEF Take
    <3>2. QED
      BY <1>2, <1>3, <2>1, <2>2, <3>1 DEF DeliveryInv, KeyInv
  <2>4. CASE ~KeyKnown(m)
    <3>1. keyAt[m] = Null /\ keyAt'[m] = now /\ sent'[m] = sent[m] + 1
      BY <1>1, <1>2, <1>3, <2>4 DEF Take
    <3>2. QED
      BY <1>1, <1>3, <2>1, <2>2, <3>1 DEF DeliveryInv, KeyInv, Flies, Null
  <2>5. QED BY <2>3, <2>4
<1>4. QED BY <1>2, <1>3 DEF KeyMatches, KeyKnown

LEMMA SendDelivery ==
  ASSUME DeliveryInv, TypeInv', NEW w \in Workers, SendAnswered(w) \/ SendLost(w)
  PROVE  DeliveryInv'
<1> DEFINE m == cur[w]
           p == payload[w]
<1>1. /\ m \in Messages /\ pc[w] = "send" /\ sendBy[w] \in Nat
      /\ p \in Payloads /\ Flies(m, p, sendBy[w])
  BY DEF SendAnswered, SendLost, DeliveryInv, FlightInv, TypeInv, TypeOK,
     WorkerTypeOK, CurrentKnown
<1>2. UNCHANGED <<now, firstAt, fingerprint, revocationVars>>
  BY DEF SendAnswered, SendLost, queueVars, deliveryVars, memberVars, preferenceVars,
     revocationVars
<1>3. \A n, q, by : Flies(n, q, by) => Flies(n, q, by)'
  BY <1>2 DEF Flies, Eligible, revocationVars
<1>4. \A v \in Workers : pc'[v] = "send" =>
        pc[v] = "send" /\ UNCHANGED <<cur[v], payload[v], sendBy[v]>>
  BY DEF SendAnswered, SendLost, Refused, GoFail, DeliveryInv, TypeInv, TypeOK, WorkerTypeOK
<1>5. \A r \in late' : Flies(r.msg, r.payload, r.by)
  BY <1>1 DEF SendAnswered, SendLost, DeliveryInv, FlightInv
<1>6. FlightInv'
  BY <1>3, <1>4, <1>5 DEF DeliveryInv, FlightInv
<1>7. KeyInv'
  <2>1. CASE UNCHANGED <<keyAt, keyPayload, sent>>
    BY <1>2, <2>1 DEF DeliveryInv, KeyInv
  <2>2. CASE Take(m, p)
    BY <1>1, <1>2, <2>2, TakeOnce
  <2>3. QED BY <2>1, <2>2 DEF SendAnswered, SendLost
<1>8. NeverMismatchedKey'
  <2>1. KeyMatches(m, p)
    BY <1>1, TakeOnce
  <2>2. QED
    BY <2>1 DEF SendAnswered, SendLost, Refused, GoFail, DeliveryInv, NeverMismatchedKey,
       TypeInv, TypeOK, WorkerTypeOK
<1>9. QED BY <1>6, <1>7, <1>8 DEF DeliveryInv

LEMMA LateDelivery ==
  ASSUME DeliveryInv, TypeInv', NEW r \in late, LateArrival(r)
  PROVE  DeliveryInv'
<1>1. r.msg \in Messages /\ r.by \in Nat /\ Flies(r.msg, r.payload, r.by)
  BY DEF DeliveryInv, FlightInv, TypeInv, TypeOK, ProviderTypeOK, Requests
<1>2. UNCHANGED <<now, firstAt, fingerprint, revocationVars, workerVars>>
  BY DEF LateArrival, queueVars, deliveryVars, memberVars, preferenceVars,
     revocationVars
<1>3. KeyInv'
  BY <1>1, <1>2, TakeOnce DEF LateArrival
<1>4. \A n, q, by : Flies(n, q, by) => Flies(n, q, by)'
  BY <1>2 DEF Flies, Eligible, revocationVars
<1>5. FlightInv' /\ NeverMismatchedKey'
  BY <1>2, <1>4
     DEF LateArrival, DeliveryInv, FlightInv, NeverMismatchedKey, workerVars
<1>6. QED BY <1>3, <1>5 DEF DeliveryInv

\* Whatever ends a member's eligibility writes down when it did.
LEMMA RevokeDelivery ==
  ASSUME DeliveryInv, TypeInv', UNCHANGED <<sentVars, late, workerVars>>,
         \A u \in Users :
            \/ Eligible(u)'
            \/ Eligible(u) /\ revokedAt'[u] = now
            \/ ~Eligible(u) /\ revokedAt'[u] = revokedAt[u]
  PROVE  DeliveryInv'
<1>1. KeyInv' /\ NeverMismatchedKey'
  BY DEF DeliveryInv, KeyInv, NeverMismatchedKey, sentVars, workerVars, Null
<1>2. ASSUME NEW m \in Messages, NEW p, NEW by, Flies(m, p, by)
      PROVE  Flies(m, p, by)'
  <2>1. Owner[m] \in Users
    BY EmailAssumption
  <2>2. QED BY <1>2, <2>1 DEF Flies, sentVars
<1>3. FlightInv'
  BY <1>2 DEF DeliveryInv, FlightInv, TypeInv, TypeOK, ProviderTypeOK, Requests,
     CurrentKnown, workerVars
<1>4. QED BY <1>1, <1>3 DEF DeliveryInv

LEMMA MembersDelivery ==
  ASSUME DeliveryInv, TypeInv',
         \/ \E m \in Messages : Webhook(m)
         \/ \E u \in Users : Member(u)
         \/ PublishTerms
  PROVE  DeliveryInv'
<1>0. now \in Nat /\ MemberTypeOK
  BY DEF DeliveryInv, TypeInv, TypeOK
<1> DEFINE Recorded == \A u \in Users :
                          \/ Eligible(u)'
                          \/ Eligible(u) /\ revokedAt'[u] = now
                          \/ ~Eligible(u) /\ revokedAt'[u] = revokedAt[u]
<1>1. ASSUME NEW m \in Messages, Webhook(m) PROVE DeliveryInv'
  <2>1. PICK k, e : ReceiveEvent(m, k, e)
    BY <1>1 DEF Webhook
  <2>2. Owner[m] \in Users
    BY EmailAssumption
  <2>3. Recorded
    <3>1. CASE Suppress(Owner[m], e)
      BY <1>0, <2>1, <2>2, <3>1 DEF Suppress, Revoke, ReceiveEvent, Eligible, MemberTypeOK
    <3>2. CASE UNCHANGED <<preferenceVars, revokedAt>>
      BY <2>1, <3>2 DEF ReceiveEvent, Eligible, preferenceVars
    <3>3. QED BY <2>1, <3>1, <3>2 DEF ReceiveEvent
  <2>4. QED
    BY <2>1, <2>3, RevokeDelivery
       DEF ReceiveEvent, sentVars, deliveryVars, providerVars
<1>2. ASSUME NEW u \in Users, Member(u) PROVE DeliveryInv'
  <2>1. UNCHANGED <<sentVars, late, workerVars>>
    BY <1>2 DEF Member, OptIn, OptOut, ChangeAddress, AcceptTerms, Withdraw,
       DeleteUser, sentVars, queueVars, deliveryVars, providerVars
  <2>2. Recorded
    <3>1. CASE OptIn(u)
      BY <1>0, <3>1 DEF OptIn, Eligible, MemberTypeOK
    <3>2. CASE OptOut(u)
      BY <1>0, <3>2 DEF OptOut, Revoke, Eligible, MemberTypeOK
    <3>3. CASE ChangeAddress(u)
      BY <1>0, <3>3 DEF ChangeAddress, Eligible, MemberTypeOK, preferenceVars
    <3>4. CASE AcceptTerms(u)
      BY <1>0, <3>4 DEF AcceptTerms, Eligible, MemberTypeOK, preferenceVars
    <3>5. CASE Withdraw(u)
      BY <1>0, <3>5 DEF Withdraw, Revoke, Eligible, MemberTypeOK, preferenceVars
    <3>6. CASE DeleteUser(u)
      BY <1>0, <3>6 DEF DeleteUser, Eligible, MemberTypeOK, preferenceVars
    <3>7. QED
      BY <1>2, <3>1, <3>2, <3>3, <3>4, <3>5, <3>6 DEF Member
  <2>3. QED BY <2>1, <2>2, RevokeDelivery
<1>3. CASE PublishTerms
  <2>1. Recorded
    BY <1>0, <1>3 DEF PublishTerms, Eligible, MemberTypeOK, preferenceVars
  <2>2. QED
    BY <1>3, <2>1, RevokeDelivery
       DEF PublishTerms, sentVars, queueVars, deliveryVars, providerVars
<1>4. QED BY <1>1, <1>2, <1>3

\* No request outlives its deadline: the clock waits for the ones that are still
\* the worker's, and drops the ones that are lost.
LEMMA TickDelivery ==
  ASSUME DeliveryInv, TypeInv', Tick
  PROVE  DeliveryInv'
<1>1. /\ now' = now + 1 /\ now \in Nat /\ firstAt \in [Messages -> Nat]
      /\ keyAt \in [Messages -> Nat] /\ revokedAt \in [Users -> Nat]
  BY DEF Tick, DeliveryInv, TypeInv, TypeOK, QueueTypeOK, ProviderTypeOK, MemberTypeOK
<1>2. UNCHANGED <<firstAt, fingerprint, keyAt, keyPayload, sent, revocationVars,
                  workerVars>>
  BY DEF Tick, queueVars, deliveryVars, memberVars, preferenceVars, revocationVars
<1>3. KeyInv'
  BY <1>1, <1>2 DEF DeliveryInv, KeyInv, Null
<1>4. ASSUME NEW m, NEW p, NEW by \in Nat, Flies(m, p, by), now < by
      PROVE  Flies(m, p, by)'
  BY <1>1, <1>2, <1>4, EmailAssumption DEF Flies, Eligible, revocationVars
<1>5. FlightInv'
  <2>1. ASSUME NEW w \in Workers, pc'[w] = "send"
        PROVE  Flies(cur[w], payload[w], sendBy[w])'
    BY <1>2, <1>4, <2>1 DEF Tick, DeliveryInv, FlightInv, TypeInv, TypeOK,
       WorkerTypeOK, workerVars
  <2>2. ASSUME NEW r \in late' PROVE Flies(r.msg, r.payload, r.by)'
    BY <1>4, <2>2 DEF Tick, DeliveryInv, FlightInv, TypeInv, TypeOK, ProviderTypeOK,
       Requests
  <2>3. QED BY <2>1, <2>2 DEF FlightInv
<1>6. QED BY <1>2, <1>3, <1>5 DEF DeliveryInv, NeverMismatchedKey, workerVars

LEMMA NextDelivery == DeliveryInv /\ [Next]_vars => DeliveryInv'
<1> SUFFICES ASSUME DeliveryInv, [Next]_vars PROVE DeliveryInv'
  OBVIOUS
<1>1. TypeInv'
  BY NextTypeInv DEF DeliveryInv
<1>2. CASE \E m \in Messages : Enqueue(m)
  BY <1>1, <1>2, QueueDelivery
<1>3. ASSUME NEW w \in Workers, Claim(w) \/ WorkerStep(w) \/ Crash(w)
      PROVE  DeliveryInv'
  BY <1>1, <1>3, QueueDelivery, AuthorizeDelivery, SendDelivery DEF WorkerStep
<1>4. ASSUME NEW r \in late, LateArrival(r) PROVE DeliveryInv'
  BY <1>1, <1>4, LateDelivery
<1>5. CASE \/ \E m \in Messages : Webhook(m)
           \/ \E u \in Restless : Member(u)
           \/ PublishTerms
  BY <1>1, <1>5, MembersDelivery, EmailAssumption
<1>6. CASE Tick
  BY <1>1, <1>6, TickDelivery
<1>7. CASE UNCHANGED vars
  <2>1. \A w \in Workers : Keeps(w)
    BY <1>7 DEF vars, workerVars, Keeps
  <2>2. QED
    BY <1>1, <1>7, <2>1, KeepsDelivery
       DEF vars, sentVars, revocationVars, queueVars, deliveryVars, memberVars,
       preferenceVars, providerVars
<1>8. QED BY <1>2, <1>3, <1>4, <1>5, <1>6, <1>7 DEF Next

LEMMA DeliveryInvariant == Spec => []DeliveryInv
  BY InitDelivery, NextDelivery, PTL DEF Spec

\* No interleaving of workers, retries, lost answers, late requests, crashes and
\* member operations ever mails a message twice.
THEOREM OneEmail == Spec => []AtMostOneEmail
<1>1. DeliveryInv => AtMostOneEmail
  BY DEF DeliveryInv, KeyInv, AtMostOneEmail
<1>2. QED BY <1>1, DeliveryInvariant, PTL

\* The provider never refuses a request because its key carries another payload.
THEOREM KeysMatch == Spec => []NeverMismatchedKey
<1>1. DeliveryInv => NeverMismatchedKey
  BY DEF DeliveryInv
<1>2. QED BY <1>1, DeliveryInvariant, PTL

\* An email that leaves after its member opted out, was suppressed or left was
\* authorized before, at most Flight ago.
THEOREM UnsubscribeHolds == Spec => UnsubscribeTakesEffect
<1> DEFINE InTime == \A m \in Messages : sent'[m] > sent[m] =>
                        Eligible(Owner[m]) \/ now <= revokedAt[Owner[m]] + Flight
<1>1. ASSUME DeliveryInv, [Next]_vars PROVE [InTime]_vars
  <2> SUFFICES ASSUME NEW m \in Messages, sent'[m] > sent[m]
               PROVE  Eligible(Owner[m]) \/ now <= revokedAt[Owner[m]] + Flight
    OBVIOUS
  <2> SUFFICES \E p \in Payloads, by \in Nat : Flies(m, p, by)
    <3>1. Owner[m] \in Users /\ now \in Nat /\ revokedAt \in [Users -> Nat]
      BY <1>1, EmailAssumption DEF DeliveryInv, TypeInv, TypeOK, MemberTypeOK
    <3>2. QED BY <3>1, EmailAssumption DEF Flies
  <2>1. sent \in [Messages -> Nat]
    BY <1>1 DEF DeliveryInv, TypeInv, TypeOK, ProviderTypeOK
  <2>2. \/ \E w \in Workers : SendAnswered(w) /\ Take(cur[w], payload[w])
        \/ \E r \in late : LateArrival(r)
    <3>1. UNCHANGED sent \/ (\E w \in Workers : SendAnswered(w) /\ Take(cur[w], payload[w]))
                         \/ (\E r \in late : LateArrival(r))
      BY <1>1 DEF Next, vars, Enqueue, Claim, Crash, Tick, PublishTerms, Webhook,
         ReceiveEvent, Member, OptIn, OptOut, ChangeAddress, AcceptTerms, Withdraw,
         DeleteUser, WorkerStep, FetchToken, FetchRecipient, Authorize, SendAnswered,
         SendLost, RecordAccepted, RecordFailure, Throw, Drop, providerVars
    <3>2. QED BY <2>1, <3>1
  <2>3. ASSUME NEW w \in Workers, SendAnswered(w), Take(cur[w], payload[w])
        PROVE  \E p \in Payloads, by \in Nat : Flies(m, p, by)
    <3>1. m = cur[w]
      BY <2>1, <2>3 DEF Take
    <3>2. /\ Flies(cur[w], payload[w], sendBy[w])
          /\ payload[w] \in Payloads /\ sendBy[w] \in Nat
      BY <1>1, <2>3 DEF SendAnswered, DeliveryInv, FlightInv, TypeInv, TypeOK,
         WorkerTypeOK
    <3>3. QED BY <3>1, <3>2
  <2>4. ASSUME NEW r \in late, LateArrival(r)
        PROVE  \E p \in Payloads, by \in Nat : Flies(m, p, by)
    <3>1. m = r.msg
      BY <2>1, <2>4 DEF LateArrival, Take
    <3>2. Flies(r.msg, r.payload, r.by) /\ r.payload \in Payloads /\ r.by \in Nat
      BY <1>1, <2>4 DEF DeliveryInv, FlightInv, TypeInv, TypeOK, ProviderTypeOK,
         Requests
    <3>3. QED BY <3>1, <3>2
  <2>5. QED BY <2>2, <2>3, <2>4
<1>2. QED
  BY <1>1, DeliveryInvariant, PTL DEF Spec, UnsubscribeTakesEffect

-----------------------------------------------------------------------------
(***************************************************************************)
(* Leases.  A claim's lease ends Lease ticks later, and what it takes      *)
(* cannot be taken again within the same tick: so two workers that have    *)
(* the same message in hand claimed it at different times.                 *)
(***************************************************************************)

InHand(w, m) == m \in todo[w] \cup {cur[w]}

\* What no claim of this tick takes.
Taken(m) ==
    \/ status[m] = "processing" /\ lockedUntil[m] = now + Lease
    \/ status[m] = "retry_wait" /\ nextAt[m] > now
    \/ status[m] \in Settled \cup {"deleted"}

HandInv ==
    /\ \A w \in Workers : pc[w] = "ready" => cur[w] = NoMessage
    /\ \A w \in Workers : \A m \in Messages : InHand(w, m) =>
          lease[w] <= now + Lease /\ (lease[w] = now + Lease => Taken(m))
    /\ \A v, w \in Workers : \A m \in Messages :
          InHand(v, m) /\ InHand(w, m) /\ lease[v] = lease[w] => v = w

\* A step after which w has nothing new in hand.
KeepsHand(w) ==
    /\ \A m \in Messages : InHand(w, m)' => InHand(w, m) /\ lease'[w] = lease[w]
    /\ pc'[w] = "ready" => cur'[w] = NoMessage

LEMMA KeepsHandInv ==
  ASSUME HandInv, now' = now, \A w \in Workers : KeepsHand(w),
         \A m \in Messages : Taken(m) => Taken(m)'
  PROVE  HandInv'
<1>1. \A w \in Workers : pc'[w] = "ready" => cur'[w] = NoMessage
  BY DEF KeepsHand
<1>2. ASSUME NEW w \in Workers, NEW m \in Messages, InHand(w, m)'
      PROVE  lease'[w] <= now' + Lease /\ (lease'[w] = now' + Lease => Taken(m)')
  BY <1>2 DEF KeepsHand, HandInv
<1>3. ASSUME NEW v \in Workers, NEW w \in Workers, NEW m \in Messages,
             InHand(v, m)', InHand(w, m)', lease'[v] = lease'[w]
      PROVE  v = w
  BY <1>3 DEF KeepsHand, HandInv
<1> QED BY <1>1, <1>2, <1>3 DEF HandInv

\* A worker that is through with its message.
LEMMA FinishKeepsHand ==
  ASSUME TypeInv, HandInv, NEW w \in Workers, Finish(w)
  PROVE  \A v \in Workers : KeepsHand(v)
<1> USE EmailAssumption
<1>1. KeepsHand(w) BY DEF Finish, KeepsHand, InHand, TypeInv, TypeOK, WorkerTypeOK
<1>2. ASSUME NEW v \in Workers, v # w PROVE KeepsHand(v)
  BY <1>2 DEF Finish, KeepsHand, InHand, HandInv, TypeInv, TypeOK, WorkerTypeOK
<1> QED BY <1>1, <1>2

\* A row that is settled is taken for good.
LEMMA SettleTakes ==
  ASSUME TypeInv, NEW m \in Messages, NEW s \in Settled, NEW error,
         Settle(m, s, error), now' = now, nextAt' = nextAt
  PROVE  \A n \in Messages : Taken(n) => Taken(n)'
BY DEF Settle, Taken, TypeInv, TypeOK, QueueTypeOK

LEMMA ClaimHand ==
  ASSUME TypeInv, HandInv, NEW w \in Workers, Claim(w)
  PROVE  HandInv'
<1> USE EmailAssumption
<1>1. PICK C \in Batches(Cancellable), X \in Batches(Exhausted),
           G \in Batches(Claimable) :
              /\ ClaimRows(C, X, G)
              /\ todo' = [todo EXCEPT ![w] = G]
              /\ lease' = [lease EXCEPT ![w] = IF G = {} THEN Null ELSE now + Lease]
  BY DEF Claim
<1>2. C \subseteq Cancellable /\ X \subseteq Exhausted /\ G \subseteq Claimable
  BY BatchesAreSubsets
<1>3. now \in Nat \ {0} /\ now' = now /\ nextAt' = nextAt /\ pc' = pc /\ cur' = cur
  BY DEF Claim, TypeInv, TypeOK
<1>4. /\ status \in [Messages -> Statuses] /\ lockedUntil \in [Messages -> Nat]
      /\ nextAt \in [Messages -> Nat] /\ todo \in [Workers -> SUBSET Messages]
      /\ lease \in [Workers -> Nat]
  BY DEF TypeInv, TypeOK, QueueTypeOK, WorkerTypeOK
<1>5. ASSUME NEW m \in Messages, Taken(m) PROVE m \notin G /\ Taken(m)'
  <2>1. m \notin G
    BY <1>2, <1>3, <1>4, <1>5 DEF Taken, Claimable, Released, Settled
  <2> QED
    BY <1>1, <1>3, <1>4, <1>5, <2>1 DEF Taken, ClaimRows, Settled
<1>6. ASSUME NEW m \in G PROVE Taken(m)'
  BY <1>1, <1>2, <1>3, <1>4, <1>6 DEF Taken, ClaimRows, Settled, Claimable
<1>7. ASSUME NEW m \in Messages, InHand(w, m)'
      PROVE  m \in G /\ lease'[w] = now + Lease
  BY <1>1, <1>3, <1>4, <1>7 DEF InHand, HandInv, Claim
<1>8. ASSUME NEW v \in Workers, v # w, NEW m \in Messages
      PROVE  (InHand(v, m)' <=> InHand(v, m)) /\ lease'[v] = lease[v]
  BY <1>1, <1>3, <1>4, <1>8 DEF InHand
<1>9. ASSUME NEW v \in Workers, NEW m \in Messages, InHand(v, m)'
      PROVE  lease'[v] <= now' + Lease /\ (lease'[v] = now' + Lease => Taken(m)')
  <2>1. CASE v = w BY <1>3, <1>6, <1>7, <1>9, <2>1
  <2>2. CASE v # w BY <1>3, <1>5, <1>8, <1>9, <2>2 DEF HandInv
  <2> QED BY <2>1, <2>2
<1>10. ASSUME NEW v \in Workers, NEW u \in Workers, NEW m \in Messages,
              InHand(v, m)', InHand(u, m)', lease'[v] = lease'[u]
       PROVE  v = u
  <2>1. ASSUME NEW x \in Workers, x # w, InHand(x, m), lease[x] = now + Lease
        PROVE  m \notin G
    BY <1>5, <2>1 DEF HandInv
  <2> QED BY <1>7, <1>8, <1>10, <2>1 DEF HandInv
<1> QED BY <1>3, <1>9, <1>10 DEF HandInv

\* Turning to a message, sending it and failing it take nothing new in hand.
LEMMA WorkHand ==
  ASSUME TypeInv, HandInv, NEW w \in Workers,
         \/ \E m \in Messages : FetchToken(w, m)
         \/ FetchRecipient(w) \/ SendAnswered(w) \/ SendLost(w) \/ Throw(w)
         \/ Drop(w) \/ Crash(w)
  PROVE  HandInv'
<1> USE EmailAssumption
<1>1. now' = now /\ \A m \in Messages : Taken(m) => Taken(m)'
  BY DEF FetchToken, FetchRecipient, SendAnswered, SendLost, Throw, Drop, Crash,
     queueVars, deliveryVars, Taken
<1>2. CASE \E m \in Messages : FetchToken(w, m)
  <2> PICK m \in Messages : FetchToken(w, m)
    BY <1>2
  <2>1. \A v \in Workers : KeepsHand(v)
    BY DEF FetchToken, GoFail, KeepsHand, InHand, HandInv, TypeInv, TypeOK, WorkerTypeOK
  <2> QED BY <1>1, <2>1, KeepsHandInv
<1>3. CASE FetchRecipient(w) \/ SendAnswered(w) \/ SendLost(w) \/ Throw(w)
  <2>1. \A v \in Workers : KeepsHand(v)
    BY <1>3 DEF FetchRecipient, SendAnswered, SendLost, Throw, Refused, GoFail,
       KeepsHand, InHand, HandInv, TypeInv, TypeOK, WorkerTypeOK
  <2> QED BY <1>1, <2>1, KeepsHandInv
<1>4. CASE Drop(w)
  <2>1. \A v \in Workers : KeepsHand(v)
    BY <1>4, FinishKeepsHand DEF Drop
  <2> QED BY <1>1, <2>1, KeepsHandInv
<1>5. CASE Crash(w)
  <2>1. \A v \in Workers : KeepsHand(v)
    BY <1>5 DEF Crash, KeepsHand, InHand, HandInv, TypeInv, TypeOK, WorkerTypeOK
  <2> QED BY <1>1, <2>1, KeepsHandInv
<1> QED BY <1>2, <1>3, <1>4, <1>5

LEMMA AuthorizeHand ==
  ASSUME TypeInv, HandInv, NEW w \in Workers, Authorize(w)
  PROVE  HandInv'
<1>1. cur[w] \in Messages /\ now' = now
  BY DEF Authorize, TypeInv, CurrentKnown
<1>2. CASE AuthorizeStale(w) \/ AuthorizeCancelled(w) \/ AuthorizeFailed(w)
  <2>1. \A v \in Workers : KeepsHand(v)
    BY <1>2, FinishKeepsHand DEF AuthorizeStale, AuthorizeCancelled, AuthorizeFailed
  <2>2. \/ UNCHANGED <<status, lockedUntil, nextAt>>
        \/ \E s \in Settled : \E error : Settle(cur[w], s, error) /\ nextAt' = nextAt
    BY <1>2 DEF AuthorizeStale, AuthorizeCancelled, AuthorizeFailed, Settled,
       queueVars, deliveryVars
  <2>3. \A m \in Messages : Taken(m) => Taken(m)'
    BY <1>1, <2>2, SettleTakes DEF Taken
  <2> QED BY <1>1, <2>1, <2>3, KeepsHandInv
<1>3. CASE AuthorizeGranted(w)
  <2>1. \A v \in Workers : KeepsHand(v)
    BY <1>3 DEF AuthorizeGranted, KeepsHand, InHand, HandInv, TypeInv, TypeOK, WorkerTypeOK
  <2>2. \A m \in Messages : Taken(m) => Taken(m)'
    BY <1>1, <1>3 DEF AuthorizeGranted, Taken
  <2> QED BY <1>1, <2>1, <2>2, KeepsHandInv
<1> QED BY <1>2, <1>3 DEF Authorize

\* A failure that is to be retried waits at least one tick.
LEMMA RecordHand ==
  ASSUME TypeInv, HandInv, NEW w \in Workers, RecordAccepted(w) \/ RecordFailure(w)
  PROVE  HandInv'
<1>1. cur[w] \in Messages /\ now' = now /\ now \in Nat
  BY DEF RecordAccepted, RecordFailure, TypeInv, TypeOK, CurrentKnown
<1>2. \A v \in Workers : KeepsHand(v)
  BY FinishKeepsHand DEF RecordAccepted, RecordFailure
<1>3. \/ UNCHANGED <<status, lockedUntil, nextAt>>
      \/ \E s \in Settled : \E error : Settle(cur[w], s, error) /\ nextAt' = nextAt
      \/ RecordFailure(w) /\ \E jitter \in 0..MaxJitter :
            RetryLater(w, cur[w], RetryAt(cur[w], jitter))
  BY DEF RecordAccepted, RecordFailure, GiveUp, Settled, deliveryVars
<1>4. ASSUME NEW jitter \in 0..MaxJitter, RetryLater(w, cur[w], RetryAt(cur[w], jitter))
      PROVE  \A m \in Messages : Taken(m) => Taken(m)'
  <2>1. attempts[cur[w]] \in 1..MaxAttempts
    BY <1>1, <1>4 DEF RetryLater, HoldsLease, TypeInv, TypeOK, QueueTypeOK, AttemptsCounted
  <2>2. RetryAt(cur[w], jitter) > now
    BY <1>1, <2>1, EmailAssumption DEF RetryAt
  <2> QED
    BY <1>1, <1>4, <2>2 DEF RetryLater, Settle, Taken, TypeInv, TypeOK, QueueTypeOK
<1>5. \A m \in Messages : Taken(m) => Taken(m)'
  BY <1>1, <1>3, <1>4, SettleTakes DEF Taken
<1> QED BY <1>1, <1>2, <1>5, KeepsHandInv

LEMMA OthersHand ==
  ASSUME TypeInv, HandInv,
         \/ \E m \in Messages : Enqueue(m) \/ Webhook(m)
         \/ \E r \in late : LateArrival(r)
         \/ \E u \in Users : Member(u)
         \/ PublishTerms \/ Tick
  PROVE  HandInv'
<1> USE EmailAssumption
<1>1. UNCHANGED <<pc, todo, cur, lease>>
  <2>1. CASE \E m \in Messages : Enqueue(m) \/ Webhook(m)
    <3>1. (\E m \in Messages : Enqueue(m)) \/ \E m, k, e : ReceiveEvent(m, k, e)
      BY <2>1 DEF Webhook
    <3> QED BY <3>1 DEF Enqueue, ReceiveEvent, workerVars
  <2>2. CASE \E u \in Users : Member(u)
    BY <2>2 DEF Member, OptIn, OptOut, ChangeAddress, AcceptTerms, Withdraw, DeleteUser,
       workerVars
  <2>3. CASE (\E r \in late : LateArrival(r)) \/ PublishTerms \/ Tick
    BY <2>3 DEF LateArrival, PublishTerms, Tick, workerVars
  <2> QED BY <2>1, <2>2, <2>3
<1>2. \A w \in Workers : KeepsHand(w)
  BY <1>1 DEF KeepsHand, InHand, HandInv
<1>3. CASE Tick
  BY <1>1, <1>3 DEF Tick, HandInv, InHand, TypeInv, TypeOK, WorkerTypeOK
<1>4. ASSUME NEW m \in Messages, Enqueue(m) PROVE HandInv'
  <2>1. \A n \in Messages : Taken(n) => Taken(n)'
    BY <1>4 DEF Enqueue, Taken, Settled, TypeInv, TypeOK, QueueTypeOK
  <2> QED BY <1>2, <1>4, <2>1, KeepsHandInv DEF Enqueue
<1>5. ASSUME NEW m \in Messages, Webhook(m) PROVE HandInv'
  <2>1. PICK k \in 1..sent[m], type \in EventTypes, at \in 1..now :
           ReceiveEvent(m, k, [type |-> type, at |-> at])
    BY <1>5 DEF Webhook
  <2>2. PICK newest \in events'[m] : Settle(m, StatusOf(newest.type), ErrorOf(newest.type))
    BY <2>1 DEF ReceiveEvent
  <2>3. newest.type \in AllEvents
    <3>1. events'[m] = events[m] \cup {[type |-> type, at |-> at]}
      BY <2>1 DEF ReceiveEvent, TypeInv, TypeOK, QueueTypeOK
    <3>2. events[m] \subseteq Events BY DEF TypeInv, TypeOK, QueueTypeOK
    <3> QED BY <2>2, <3>1, <3>2 DEF Events
  <2>4. StatusOf(newest.type) \in Settled BY <2>3, StatusOfSettles
  <2>5. now' = now /\ nextAt' = nextAt BY <2>1 DEF ReceiveEvent, deliveryVars
  <2>6. \A n \in Messages : Taken(n) => Taken(n)' BY <2>2, <2>4, <2>5, SettleTakes
  <2> QED BY <1>2, <2>5, <2>6, KeepsHandInv
<1>6. CASE \/ \E r \in late : LateArrival(r)
           \/ \E u \in Users : Member(u)
           \/ PublishTerms
  <2>1. /\ UNCHANGED <<now, lockedUntil, nextAt>>
        /\ \A n \in Messages : status'[n] = status[n] \/ status'[n] = "deleted"
    BY <1>6 DEF LateArrival, Member, OptIn, OptOut, ChangeAddress, AcceptTerms, Withdraw,
       DeleteUser, PublishTerms, queueVars, deliveryVars, TypeInv, TypeOK, QueueTypeOK
  <2>2. \A n \in Messages : Taken(n) => Taken(n)' BY <2>1 DEF Taken
  <2> QED BY <1>2, <2>1, <2>2, KeepsHandInv
<1> QED BY <1>3, <1>4, <1>5, <1>6

LEMMA NextHand == TypeInv /\ HandInv /\ [Next]_vars => HandInv'
<1> SUFFICES ASSUME TypeInv, HandInv, [Next]_vars PROVE HandInv'
  OBVIOUS
<1>1. ASSUME NEW w \in Workers, Claim(w) \/ WorkerStep(w) \/ Crash(w) PROVE HandInv'
  BY <1>1, ClaimHand, WorkHand, AuthorizeHand, RecordHand DEF WorkerStep
<1>2. CASE UNCHANGED vars
  <2>1. UNCHANGED <<now, status, lockedUntil, nextAt, pc, todo, cur, lease>>
    BY <1>2 DEF vars, queueVars, deliveryVars, workerVars
  <2>2. \A w \in Workers : KeepsHand(w) BY <2>1 DEF KeepsHand, InHand, HandInv
  <2>3. \A m \in Messages : Taken(m) => Taken(m)' BY <2>1 DEF Taken
  <2> QED BY <2>1, <2>2, <2>3, KeepsHandInv
<1>3. CASE \/ \E m \in Messages : Enqueue(m) \/ Webhook(m)
           \/ \E r \in late : LateArrival(r)
           \/ \E u \in Restless : Member(u)
           \/ PublishTerms \/ Tick
  BY <1>3, OthersHand, EmailAssumption
<1> QED BY <1>1, <1>2, <1>3 DEF Next

(***************************************************************************)
(* The record.  What the provider said decides the status of a message and *)
(* the suppression of its member, and nothing that a worker does later     *)
(* decides otherwise.                                                      *)
(***************************************************************************)

\* A worker that is about to record an acceptance was told so by the provider.
AcceptInv == \A w \in Workers : pc[w] = "accept" => sent[cur[w]] = 1

RowInv ==
    \A m \in Messages :
        /\ status[m] = "absent" => firstAt[m] = Null
        /\ providerId[m] <= sent[m]

EventInv ==
    \A m \in Messages : events[m] # {} /\ status[m] # "deleted" =>
        \E d \in events[m] : IsNewest(d, events[m]) /\ status[m] = StatusOf(d.type)

SuppressionInv ==
    \A u \in Users :
        IF reason[u] = NoReason THEN DisablingEvents(u) = {}
        ELSE /\ ~enabled[u]
             /\ \E d \in DisablingEvents(u) :
                   /\ IsNewest(d, DisablingEvents(u))
                   /\ reason[u] = d.type /\ suppressedAt[u] = d.at

RecordInv == AcceptInv /\ RowInv /\ EventInv /\ SuppressionInv

QueueInv == DeliveryInv /\ HandInv /\ RecordInv

\* What happens to a row without a word from the provider.
Moves(m) ==
    \/ status'[m] = status[m]
    \/ status[m] = "absent" /\ status'[m] = "pending"
    \/ status[m] \in Open /\ status'[m] \in Open \cup {"cancelled", "failed_permanent"}
    \/ status[m] \in Open /\ status'[m] = "accepted" /\ sent[m] = 1
    \/ status'[m] = "deleted"

Unsaid ==
    /\ events' = events
    /\ \A m \in Messages :
          /\ Moves(m)
          /\ firstAt'[m] = firstAt[m] \/ status'[m] = "processing"
          /\ providerId'[m] = providerId[m] \/ providerId'[m] = sent'[m]
          /\ sent'[m] >= sent[m]

LEMMA SettleMoves ==
  ASSUME TypeInv, NEW m \in Messages, status[m] \in Open, NEW error, NEW s,
         \/ s \in Open \cup {"cancelled", "failed_permanent"}
         \/ s = "accepted" /\ sent[m] = 1,
         Settle(m, s, error)
  PROVE  \A n \in Messages : Moves(n)
BY DEF Settle, Moves, TypeInv, TypeOK, QueueTypeOK

LEMMA ClaimUnsaid ==
  ASSUME TypeInv, NEW w \in Workers, Claim(w)
  PROVE  Unsaid
<1>1. PICK C \in Batches(Cancellable), X \in Batches(Exhausted),
           G \in Batches(Claimable) : ClaimRows(C, X, G)
  BY DEF Claim
<1>2. C \subseteq Cancellable /\ X \subseteq Exhausted /\ G \subseteq Claimable
  BY BatchesAreSubsets
<1>3. \A m \in C \cup X \cup G : status[m] \in Open
  BY <1>2 DEF Cancellable, Exhausted, Claimable, Released, Open
<1>4. \A m \in Messages : Moves(m)
  BY <1>1, <1>3 DEF ClaimRows, Moves, Open
<1>5. UNCHANGED <<events, firstAt, providerId, sent>>
  BY DEF Claim, feedbackVars, providerVars
<1> QED BY <1>4, <1>5 DEF Unsaid, TypeInv, TypeOK, ProviderTypeOK

LEMMA AuthorizeUnsaid ==
  ASSUME TypeInv, NEW w \in Workers, Authorize(w)
  PROVE  Unsaid
<1>1. cur[w] \in Messages BY DEF Authorize, TypeInv, CurrentKnown
<1>2. UNCHANGED <<events, providerId, sent>>
  BY DEF Authorize, AuthorizeStale, AuthorizeCancelled, AuthorizeFailed, AuthorizeGranted,
     queueVars, feedbackVars, providerVars
<1>3. CASE AuthorizeStale(w)
  BY <1>2, <1>3 DEF AuthorizeStale, queueVars, deliveryVars, Unsaid, Moves, TypeInv, TypeOK,
     ProviderTypeOK
<1>4. CASE AuthorizeCancelled(w) \/ AuthorizeFailed(w)
  <2>1. /\ firstAt' = firstAt /\ status[cur[w]] \in Open
        /\ \E s \in {"cancelled", "failed_permanent"} : \E error : Settle(cur[w], s, error)
    BY <1>4 DEF AuthorizeCancelled, AuthorizeFailed, Entitled, HoldsLease, Open, deliveryVars
  <2>2. PICK s, error : s \in {"cancelled", "failed_permanent"} /\ Settle(cur[w], s, error)
    BY <2>1
  <2>3. \A m \in Messages : Moves(m) BY <1>1, <2>1, <2>2, SettleMoves
  <2> QED BY <1>2, <2>1, <2>3 DEF Unsaid, TypeInv, TypeOK, ProviderTypeOK
<1>5. CASE AuthorizeGranted(w)
  BY <1>1, <1>2, <1>5 DEF AuthorizeGranted, Entitled, HoldsLease, Unsaid, Moves, TypeInv,
     TypeOK, QueueTypeOK, ProviderTypeOK
<1> QED BY <1>3, <1>4, <1>5 DEF Authorize

LEMMA RecordUnsaid ==
  ASSUME TypeInv, AcceptInv, NEW w \in Workers, RecordAccepted(w) \/ RecordFailure(w)
  PROVE  Unsaid
<1>1. cur[w] \in Messages
  BY DEF RecordAccepted, RecordFailure, TypeInv, CurrentKnown
<1>2. UNCHANGED <<events, firstAt, sent>>
  BY DEF RecordAccepted, RecordFailure, deliveryVars, feedbackVars, providerVars
<1>3. CASE RecordAccepted(w)
  <2>1. CASE Acceptable(w) /\ Settle(cur[w], "accepted", "none")
    <3>1. \A m \in Messages : Moves(m)
      BY <1>1, <1>3, <2>1, SettleMoves
         DEF RecordAccepted, Acceptable, HoldsLease, AcceptInv, Open
    <3> QED
      BY <1>1, <1>2, <1>3, <3>1
         DEF RecordAccepted, Unsaid, TypeInv, TypeOK, QueueTypeOK, ProviderTypeOK
  <2>2. CASE UNCHANGED <<status, lockedUntil, errorCode, providerId>>
    BY <1>2, <2>2 DEF Unsaid, Moves, TypeInv, TypeOK, ProviderTypeOK
  <2> QED BY <1>3, <2>1, <2>2 DEF RecordAccepted
<1>4. CASE RecordFailure(w)
  <2>1. providerId' = providerId BY <1>4 DEF RecordFailure, feedbackVars
  <2>2. \/ status' = status
        \/ /\ status[cur[w]] \in Open
           /\ \E s \in {"retry_wait", "failed_permanent"} :
                 \E error : Settle(cur[w], s, error)
    BY <1>4 DEF RecordFailure, RetryLater, GiveUp, HoldsLease, Open
  <2>3. ASSUME status[cur[w]] \in Open,
               NEW s \in {"retry_wait", "failed_permanent"}, NEW error,
               Settle(cur[w], s, error)
        PROVE  \A m \in Messages : Moves(m)
    BY <1>1, <2>3, SettleMoves DEF Open
  <2>4. \A m \in Messages : Moves(m) BY <2>2, <2>3 DEF Moves
  <2> QED BY <1>2, <2>1, <2>4 DEF Unsaid, TypeInv, TypeOK, ProviderTypeOK
<1> QED BY <1>3, <1>4

LEMMA TakeGrows ==
  ASSUME TypeInv, NEW m \in Messages, NEW p, Take(m, p)
  PROVE  \A n \in Messages : sent'[n] >= sent[n]
BY DEF Take, TypeInv, TypeOK, ProviderTypeOK

LEMMA OthersUnsaid ==
  ASSUME TypeInv,
         \/ \E m \in Messages : Enqueue(m)
         \/ \E r \in late : LateArrival(r)
         \/ \E u \in Users : Member(u)
         \/ PublishTerms \/ Tick \/ UNCHANGED vars
         \/ \E w \in Workers :
               \/ \E m \in Messages : FetchToken(w, m)
               \/ FetchRecipient(w) \/ SendAnswered(w) \/ SendLost(w) \/ Throw(w)
               \/ Drop(w) \/ Crash(w)
  PROVE  Unsaid
<1>0. sent \in [Messages -> Nat] /\ status \in [Messages -> Statuses]
  BY DEF TypeInv, TypeOK, ProviderTypeOK, QueueTypeOK
<1>1. ASSUME NEW m \in Messages, Enqueue(m) PROVE Unsaid
  BY <1>0, <1>1 DEF Enqueue, feedbackVars, providerVars, Unsaid, Moves
<1>2. ASSUME NEW u \in Users, Member(u) PROVE Unsaid
  <2>1. UNCHANGED <<events, firstAt, providerId, sent>>
    BY <1>2 DEF Member, OptIn, OptOut, ChangeAddress, AcceptTerms, Withdraw, DeleteUser,
       queueVars, deliveryVars, feedbackVars, providerVars
  <2>2. \A m \in Messages : status'[m] = status[m] \/ status'[m] = "deleted"
    BY <1>2 DEF Member, OptIn, OptOut, ChangeAddress, AcceptTerms, Withdraw, DeleteUser,
       queueVars
  <2> QED BY <1>0, <2>1, <2>2 DEF Unsaid, Moves
<1>3. CASE PublishTerms \/ Tick \/ UNCHANGED vars
  BY <1>0, <1>3 DEF PublishTerms, Tick, vars, queueVars, deliveryVars, feedbackVars,
     providerVars, Unsaid, Moves
<1>4. ASSUME NEW r \in late, LateArrival(r) PROVE Unsaid
  <2>1. r.msg \in Messages BY DEF TypeInv, TypeOK, ProviderTypeOK, Requests
  <2>2. \A m \in Messages : sent'[m] >= sent[m] BY <1>4, <2>1, TakeGrows DEF LateArrival
  <2> QED
    BY <1>4, <2>2 DEF LateArrival, queueVars, deliveryVars, feedbackVars, Unsaid, Moves
<1>5. ASSUME NEW w \in Workers,
             \/ \E m \in Messages : FetchToken(w, m)
             \/ FetchRecipient(w) \/ SendAnswered(w) \/ SendLost(w) \/ Throw(w)
             \/ Drop(w) \/ Crash(w)
      PROVE  Unsaid
  <2>1. UNCHANGED queueVars
    BY <1>5 DEF FetchToken, FetchRecipient, SendAnswered, SendLost, Throw, Drop, Crash
  <2>2. sent' = sent \/ (pc[w] = "send" /\ Take(cur[w], payload[w]))
    <3>1. CASE SendAnswered(w) BY <3>1 DEF SendAnswered
    <3>2. CASE SendLost(w) \/ Throw(w) \/ Drop(w) \/ Crash(w) \/ FetchRecipient(w)
      BY <3>2 DEF SendLost, Throw, Drop, Crash, FetchRecipient, providerVars
    <3>3. CASE \E m \in Messages : FetchToken(w, m)
      BY <3>3 DEF FetchToken, providerVars
    <3> QED BY <1>5, <3>1, <3>2, <3>3
  <2>3. \A m \in Messages : sent'[m] >= sent[m]
    BY <1>0, <2>2, TakeGrows DEF TypeInv, CurrentKnown
  <2> QED BY <2>1, <2>3 DEF queueVars, deliveryVars, feedbackVars, Unsaid, Moves
<1> QED BY <1>1, <1>2, <1>3, <1>4, <1>5

LEMMA UnsaidRows ==
  ASSUME DeliveryInv, DeliveryInv', RecordInv, Unsaid
  PROVE  RowInv' /\ EventInv'
<1>1. /\ providerId \in [Messages -> Nat] /\ sent \in [Messages -> Nat]
      /\ sent' \in [Messages -> Nat] /\ events \in [Messages -> SUBSET Events]
  BY DEF DeliveryInv, TypeInv, TypeOK, QueueTypeOK, ProviderTypeOK
<1>2. ASSUME NEW m \in Messages
      PROVE  (status'[m] = "absent" => firstAt'[m] = Null) /\ providerId'[m] <= sent'[m]
  BY <1>1 DEF RecordInv, RowInv, Unsaid, Moves, Open
<1>3. ASSUME NEW m \in Messages, events'[m] # {}, status'[m] # "deleted"
      PROVE  \E d \in events'[m] : IsNewest(d, events'[m]) /\ status'[m] = StatusOf(d.type)
  <2>1. events'[m] = events[m] BY DEF Unsaid
  <2>2. CASE status[m] = "deleted" BY <1>3, <2>2 DEF Unsaid, Moves, Open
  <2>3. CASE status[m] # "deleted"
    <3>1. PICK d \in events[m] : IsNewest(d, events[m]) /\ status[m] = StatusOf(d.type)
      BY <1>3, <2>1, <2>3 DEF RecordInv, EventInv
    <3>2. status[m] \in Settled BY <1>1, <3>1, StatusOfSettles DEF Events
    <3>3. status'[m] = status[m] BY <1>3, <3>2 DEF Unsaid, Moves, Open, Settled
    <3> QED BY <2>1, <3>1, <3>3 DEF IsNewest
  <2> QED BY <2>2, <2>3
<1> QED BY <1>2, <1>3 DEF RowInv, EventInv

\* Workers that reach the acceptance, or stay before it.
LEMMA KeepsAccept ==
  ASSUME DeliveryInv', AcceptInv, \A m \in Messages : sent'[m] >= sent[m],
         TypeInv,
         \A w \in Workers : pc'[w] = "accept" =>
            \/ pc[w] = "accept" /\ cur'[w] = cur[w]
            \/ cur'[w] \in Messages /\ keyAt'[cur'[w]] # Null
  PROVE  AcceptInv'
<1> SUFFICES ASSUME NEW w \in Workers, pc'[w] = "accept" PROVE sent'[cur'[w]] = 1
  BY DEF AcceptInv
<1>1. \A m \in Messages : sent'[m] = IF keyAt'[m] = Null THEN 0 ELSE 1
  BY DEF DeliveryInv, KeyInv, Null
<1>2. CASE pc[w] = "accept" /\ cur'[w] = cur[w]
  <2>1. cur[w] \in Messages BY <1>2 DEF TypeInv, CurrentKnown
  <2>2. sent[cur[w]] = 1 /\ sent'[cur[w]] >= 1 BY <1>2, <2>1 DEF AcceptInv
  <2> QED BY <1>1, <1>2, <2>1, <2>2
<1> QED BY <1>1, <1>2

LEMMA FinishReaches ==
  ASSUME TypeInv, NEW w \in Workers, Finish(w)
  PROVE  \A v \in Workers : pc'[v] = "accept" => pc[v] = "accept" /\ cur'[v] = cur[v]
BY DEF Finish, TypeInv, TypeOK, WorkerTypeOK

LEMMA WorkerAccept ==
  ASSUME DeliveryInv, DeliveryInv', AcceptInv, Unsaid,
         NEW w \in Workers, Claim(w) \/ WorkerStep(w) \/ Crash(w)
  PROVE  AcceptInv'
<1> DEFINE Reaches ==
      \A v \in Workers : pc'[v] = "accept" =>
         \/ pc[v] = "accept" /\ cur'[v] = cur[v]
         \/ cur'[v] \in Messages /\ keyAt'[cur'[v]] # Null
<1>0. TypeInv /\ \A m \in Messages : sent'[m] >= sent[m] BY DEF DeliveryInv, Unsaid
<1> SUFFICES Reaches BY <1>0, KeepsAccept
<1>1. CASE Claim(w) \/ Crash(w) \/ Throw(w) \/ FetchRecipient(w) \/ SendLost(w)
  BY <1>0, <1>1 DEF Claim, Crash, Throw, FetchRecipient, SendLost, GoFail, TypeInv, TypeOK,
     WorkerTypeOK
<1>2. ASSUME NEW m \in Messages, FetchToken(w, m) PROVE Reaches
  BY <1>0, <1>2 DEF FetchToken, GoFail, TypeInv, TypeOK, WorkerTypeOK
<1>3. CASE Drop(w) \/ RecordAccepted(w) \/ RecordFailure(w)
  BY <1>0, <1>3, FinishReaches DEF Drop, RecordAccepted, RecordFailure
<1>4. CASE Authorize(w)
  <2>1. CASE AuthorizeGranted(w)
    BY <1>0, <2>1 DEF AuthorizeGranted, TypeInv, TypeOK, WorkerTypeOK
  <2>2. CASE AuthorizeStale(w) \/ AuthorizeCancelled(w) \/ AuthorizeFailed(w)
    BY <1>0, <2>2, FinishReaches DEF AuthorizeStale, AuthorizeCancelled, AuthorizeFailed
  <2> QED BY <1>4, <2>1, <2>2 DEF Authorize
<1>5. CASE SendAnswered(w)
  <2>1. cur[w] \in Messages /\ cur' = cur
    BY <1>0, <1>5 DEF SendAnswered, TypeInv, CurrentKnown
  <2>2. \A v \in Workers : v # w => pc'[v] = pc[v]
    BY <1>0, <1>5 DEF SendAnswered, Refused, GoFail, TypeInv, TypeOK, WorkerTypeOK
  <2>3. pc'[w] = "accept" => Take(cur[w], payload[w])
    BY <1>0, <1>5 DEF SendAnswered, Refused, GoFail, TypeInv, TypeOK, WorkerTypeOK
  <2>4. Take(cur[w], payload[w]) => keyAt'[cur[w]] # Null
    BY <1>0, <2>1 DEF Take, KeyKnown, TypeInv, TypeOK, ProviderTypeOK, Null
  <2> QED BY <2>1, <2>2, <2>3, <2>4
<1> QED BY <1>1, <1>2, <1>3, <1>4, <1>5 DEF WorkerStep

\* Priorities order the events of one instant, and tell their types apart.
LEMMA PriorityOrders ==
  /\ \A t \in AllEvents : Priority[t] \in Nat
  /\ \A s, t \in AllEvents : Priority[s] = Priority[t] => s = t
BY DEF Priority, AllEvents

LEMMA NewestIsOne ==
  ASSUME NEW E \in SUBSET Events, NEW d \in E, NEW e \in E, IsNewest(d, E), IsNewest(e, E)
  PROVE  d.at = e.at /\ d.type = e.type
<1>1. /\ d.at \in Nat /\ e.at \in Nat /\ d.type \in AllEvents /\ e.type \in AllEvents
      /\ Priority[d.type] \in Nat /\ Priority[e.type] \in Nat
  BY PriorityOrders DEF Events
<1>2. /\ d.at < e.at \/ (d.at = e.at /\ Priority[d.type] <= Priority[e.type])
      /\ e.at < d.at \/ (e.at = d.at /\ Priority[e.type] <= Priority[d.type])
  BY DEF IsNewest
<1>3. d.at = e.at /\ Priority[d.type] = Priority[e.type] BY <1>1, <1>2
<1> QED BY <1>1, <1>3, PriorityOrders

\* A member who was suppressed by the newest event, or by none, and a new event.
LEMMA NewestAmongMore ==
  ASSUME NEW E \in SUBSET Events, NEW d \in E, IsNewest(d, E), NEW e \in Events
  PROVE  LET over == d.at < e.at \/ (d.at = e.at /\ Priority[d.type] < Priority[e.type])
         IN  IsNewest(IF over THEN e ELSE d, E \cup {e})
<1> DEFINE over == d.at < e.at \/ (d.at = e.at /\ Priority[d.type] < Priority[e.type])
<1>1. \A f \in E \cup {e} : f.at \in Nat /\ Priority[f.type] \in Nat
  BY PriorityOrders DEF Events
<1>2. \A f \in E : f.at < d.at \/ (f.at = d.at /\ Priority[f.type] <= Priority[d.type])
  BY DEF IsNewest
<1>3. CASE over
  <2>1. \A f \in E \cup {e} :
          f.at < e.at \/ (f.at = e.at /\ Priority[f.type] <= Priority[e.type])
    BY <1>1, <1>2, <1>3
  <2> QED BY <1>3, <2>1 DEF IsNewest
<1>4. CASE ~over
  <2>1. \A f \in E \cup {e} :
          f.at < d.at \/ (f.at = d.at /\ Priority[f.type] <= Priority[d.type])
    BY <1>1, <1>2, <1>4
  <2> QED BY <1>4, <2>1 DEF IsNewest
<1> QED BY <1>3, <1>4

\* Opting in needs that no event stands against it; nothing else but an event
\* touches a suppression.
LEMMA SuppressionKept ==
  ASSUME RecordInv, TypeInv, Unsaid, UNCHANGED <<reason, suppressedAt>>,
         \A u \in Users : enabled'[u] => enabled[u] \/ reason[u] = NoReason
  PROVE  SuppressionInv'
<1>1. \A u : DisablingEvents(u)' = DisablingEvents(u) BY DEF Unsaid, DisablingEvents
<1>2. \A d, E : IsNewest(d, E)' <=> IsNewest(d, E) BY DEF IsNewest
<1> QED BY <1>1, <1>2 DEF RecordInv, SuppressionInv, TypeInv, TypeOK, MemberTypeOK

LEMMA UnsaidSuppression ==
  ASSUME RecordInv, TypeInv, Unsaid, [Next]_vars, ~\E m \in Messages : Webhook(m)
  PROVE  SuppressionInv'
<1>0. MemberTypeOK BY DEF TypeInv, TypeOK
<1>1. ASSUME NEW u \in Users, Member(u) PROVE SuppressionInv'
  <2>1. UNCHANGED <<reason, suppressedAt>>
    BY <1>1 DEF Member, OptIn, OptOut, ChangeAddress, AcceptTerms, Withdraw, DeleteUser,
       preferenceVars
  <2>2. \A v \in Users : enabled'[v] => enabled[v] \/ reason[v] = NoReason
    BY <1>0, <1>1 DEF Member, OptIn, OptOut, ChangeAddress, AcceptTerms, Withdraw,
       DeleteUser, preferenceVars, MemberTypeOK
  <2> QED BY <2>1, <2>2, SuppressionKept
<1>2. ASSUME UNCHANGED preferenceVars PROVE SuppressionInv'
  BY <1>2, SuppressionKept DEF preferenceVars
<1>3. CASE PublishTerms \/ Tick \/ (UNCHANGED vars) \/ (\E m \in Messages : Enqueue(m))
           \/ (\E r \in late : LateArrival(r))
  BY <1>2, <1>3 DEF PublishTerms, Tick, vars, memberVars, Enqueue, LateArrival
<1>4. ASSUME NEW w \in Workers, Claim(w) \/ WorkerStep(w) \/ Crash(w) PROVE SuppressionInv'
  <2>1. UNCHANGED memberVars
    BY <1>4 DEF Claim, Crash, WorkerStep, FetchToken, FetchRecipient, Authorize,
       SendAnswered, SendLost, RecordAccepted, RecordFailure, Throw, Drop
  <2> QED BY <1>2, <2>1 DEF memberVars
<1> QED BY <1>1, <1>3, <1>4, EmailAssumption DEF Next

LEMMA DisablingMembers ==
  ASSUME NEW u, NEW e
  PROVE  e \in DisablingEvents(u) <=>
            \E m \in Messages : Owner[m] = u /\ e \in events[m] /\ e.type \in Disabling
BY DEF DisablingEvents

\* A new event decides the row of its message, and of its member what it overrides.
LEMMA EventRecord ==
  ASSUME DeliveryInv, DeliveryInv', RecordInv, NEW m \in Messages, NEW k \in 1..sent[m],
         NEW e \in Events, ReceiveEvent(m, k, e)
  PROVE  RecordInv'
<1> DEFINE u == Owner[m]
<1>0. TypeInv /\ TypeInv' /\ u \in Users BY EmailAssumption DEF DeliveryInv
<1>1. /\ events' = [events EXCEPT ![m] = events[m] \cup {e}]
      /\ providerId' = [providerId EXCEPT ![m] = k]
      /\ UNCHANGED <<firstAt, sent, pc, cur>>
  BY DEF ReceiveEvent, deliveryVars, workerVars, providerVars
<1>2. /\ events \in [Messages -> SUBSET Events] /\ events' \in [Messages -> SUBSET Events]
      /\ providerId \in [Messages -> Nat] /\ sent \in [Messages -> Nat]
      /\ status \in [Messages -> Statuses]
  BY <1>0 DEF TypeInv, TypeOK, QueueTypeOK, ProviderTypeOK
<1>3. PICK newest \in events'[m] :
         /\ IsNewest(newest, events'[m])
         /\ Settle(m, StatusOf(newest.type), ErrorOf(newest.type))
  BY DEF ReceiveEvent, Decides
<1>4. /\ status' = [status EXCEPT ![m] = StatusOf(newest.type)]
      /\ StatusOf(newest.type) \in Settled
  BY <1>2, <1>3, StatusOfSettles DEF Settle, Events
<1>5. AcceptInv' BY <1>1 DEF RecordInv, AcceptInv
<1>6. RowInv' BY <1>1, <1>2, <1>4 DEF RecordInv, RowInv, Settled
<1>7. EventInv'
  <2> SUFFICES ASSUME NEW n \in Messages, events'[n] # {}, status'[n] # "deleted"
               PROVE  \E d \in events'[n] :
                         IsNewest(d, events'[n]) /\ status'[n] = StatusOf(d.type)
    BY DEF EventInv, IsNewest
  <2>1. CASE n = m BY <1>2, <1>3, <1>4, <2>1
  <2>2. CASE n # m BY <1>1, <1>2, <1>4, <2>2 DEF RecordInv, EventInv
  <2> QED BY <2>1, <2>2
<1>8. SuppressionInv'
  <2>1. ASSUME NEW v \in Users
        PROVE  DisablingEvents(v)' = IF v = u /\ e.type \in Disabling
                                     THEN DisablingEvents(v) \cup {e} ELSE DisablingEvents(v)
    <3>1. \A n \in Messages : events'[n] = IF n = m THEN events[n] \cup {e} ELSE events[n]
      BY <1>1, <1>2
    <3>2. \A x : x \in DisablingEvents(v)' <=>
             \E n \in Messages : Owner[n] = v /\ x \in events'[n] /\ x.type \in Disabling
      BY DEF DisablingEvents
    <3>3. \A x : x \in DisablingEvents(v)' <=>
             x \in DisablingEvents(v) \/ (x = e /\ v = u /\ e.type \in Disabling)
      <4> SUFFICES ASSUME NEW x
                   PROVE  x \in DisablingEvents(v)' <=>
                            x \in DisablingEvents(v) \/ (x = e /\ v = u /\ e.type \in Disabling)
        OBVIOUS
      <4>1. ASSUME x \in DisablingEvents(v)'
            PROVE  x \in DisablingEvents(v) \/ (x = e /\ v = u /\ e.type \in Disabling)
        <5>1. PICK n \in Messages : Owner[n] = v /\ x \in events'[n] /\ x.type \in Disabling
          BY <3>2, <4>1
        <5>2. x \in events[n] \/ (n = m /\ x = e) BY <3>1, <5>1
        <5>3. CASE x \in events[n] BY <5>1, <5>3, DisablingMembers
        <5>4. CASE n = m /\ x = e BY <5>1, <5>4
        <5> QED BY <5>2, <5>3, <5>4
      <4>2. ASSUME x \in DisablingEvents(v) PROVE x \in DisablingEvents(v)'
        <5>1. PICK n \in Messages : Owner[n] = v /\ x \in events[n] /\ x.type \in Disabling
          BY <4>2, DisablingMembers
        <5>2. x \in events'[n] BY <3>1, <5>1
        <5> QED BY <3>2, <5>1, <5>2
      <4>3. ASSUME x = e, v = u, e.type \in Disabling PROVE x \in DisablingEvents(v)'
        BY <3>1, <3>2, <4>3
      <4> QED BY <4>1, <4>2, <4>3
    <3> HIDE DEF u
    <3> QED BY <3>3
  <2>2. \A v \in Users : DisablingEvents(v) \in SUBSET Events
    BY <1>2 DEF DisablingEvents
  <2>3. MemberTypeOK BY <1>0 DEF TypeInv, TypeOK
  <2>4. CASE Suppress(u, e)
    <3>1. /\ e.type \in Disabling /\ Overrides(u, e)
          /\ enabled' = [enabled EXCEPT ![u] = FALSE]
          /\ reason' = [reason EXCEPT ![u] = e.type]
          /\ suppressedAt' = [suppressedAt EXCEPT ![u] = e.at]
      BY <2>4 DEF Suppress
    <3>2. IsNewest(e, DisablingEvents(u) \cup {e})
      <4>1. CASE reason[u] = NoReason
        <5>1. DisablingEvents(u) = {} BY <1>0, <4>1 DEF RecordInv, SuppressionInv
        <5> QED BY <5>1, PriorityOrders DEF IsNewest, Events
      <4>2. CASE reason[u] # NoReason
        <5>1. PICK d \in DisablingEvents(u) :
                /\ IsNewest(d, DisablingEvents(u))
                /\ reason[u] = d.type /\ suppressedAt[u] = d.at
          BY <1>0, <4>2 DEF RecordInv, SuppressionInv
        <5>2. d.at < e.at \/ (d.at = e.at /\ Priority[d.type] < Priority[e.type])
          BY <3>1, <4>2, <5>1 DEF Overrides
        <5> QED BY <1>0, <2>2, <5>1, <5>2, NewestAmongMore
      <4> QED BY <4>1, <4>2
    <3>3. ASSUME NEW v \in Users, v # u
          PROVE  /\ enabled'[v] = enabled[v] /\ reason'[v] = reason[v]
                 /\ suppressedAt'[v] = suppressedAt[v]
                 /\ DisablingEvents(v)' = DisablingEvents(v)
      BY <2>1, <2>3, <3>1, <3>3 DEF MemberTypeOK
    <3>4. /\ ~enabled'[u] /\ reason'[u] = e.type /\ suppressedAt'[u] = e.at
          /\ DisablingEvents(u)' = DisablingEvents(u) \cup {e} /\ reason'[u] # NoReason
      BY <1>0, <2>1, <2>3, <3>1 DEF MemberTypeOK, Disabling, NoReason
    <3>5. \A d, E : IsNewest(d, E)' <=> IsNewest(d, E) BY DEF IsNewest
    <3>6. ASSUME NEW v \in Users
          PROVE  IF reason'[v] = NoReason THEN DisablingEvents(v)' = {}
                 ELSE /\ ~enabled'[v]
                      /\ \E d \in DisablingEvents(v)' :
                            /\ IsNewest(d, DisablingEvents(v)')
                            /\ reason'[v] = d.type /\ suppressedAt'[v] = d.at
      <4>1. CASE v = u BY <3>2, <3>4, <4>1
      <4>2. CASE v # u BY <3>3, <4>2 DEF RecordInv, SuppressionInv
      <4> QED BY <4>1, <4>2
    <3> QED BY <3>5, <3>6 DEF SuppressionInv
  <2>5. CASE ~(e.type \in Disabling /\ Overrides(u, e)) /\ UNCHANGED preferenceVars
    <3>1. UNCHANGED <<enabled, reason, suppressedAt>> BY <2>5 DEF preferenceVars
    <3>2. \A d, E : IsNewest(d, E)' <=> IsNewest(d, E) BY DEF IsNewest
    <3>3. CASE e.type \notin Disabling
      BY <2>1, <3>1, <3>2, <3>3 DEF RecordInv, SuppressionInv
    <3>4. CASE e.type \in Disabling
      <4>1. reason[u] # NoReason BY <2>5, <3>4 DEF Overrides
      <4>2. PICK d \in DisablingEvents(u) :
               /\ IsNewest(d, DisablingEvents(u))
               /\ reason[u] = d.type /\ suppressedAt[u] = d.at
        BY <1>0, <4>1 DEF RecordInv, SuppressionInv
      <4>3. ~(d.at < e.at \/ (d.at = e.at /\ Priority[d.type] < Priority[e.type]))
        BY <2>5, <3>4, <4>2 DEF Overrides
      <4>4. IsNewest(d, DisablingEvents(u) \cup {e})
        BY <1>0, <2>2, <4>2, <4>3, NewestAmongMore
      <4> QED BY <2>1, <3>1, <3>2, <3>4, <4>1, <4>2, <4>4 DEF RecordInv, SuppressionInv
    <3> QED BY <3>3, <3>4
  <2> QED BY <2>4, <2>5 DEF ReceiveEvent
<1> QED BY <1>5, <1>6, <1>7, <1>8 DEF RecordInv

LEMMA NextQueue == QueueInv /\ [Next]_vars => QueueInv'
<1> SUFFICES ASSUME QueueInv, [Next]_vars PROVE QueueInv'
  OBVIOUS
<1>1. TypeInv /\ DeliveryInv /\ RecordInv BY DEF QueueInv, DeliveryInv
<1>2. DeliveryInv' BY <1>1, NextDelivery
<1>3. HandInv' BY <1>1, NextHand DEF QueueInv
<1>4. ASSUME NEW m \in Messages, Webhook(m) PROVE RecordInv'
  <2>1. PICK k \in 1..sent[m], type \in EventTypes, at \in 1..now :
           ReceiveEvent(m, k, [type |-> type, at |-> at])
    BY <1>4 DEF Webhook
  <2>2. [type |-> type, at |-> at] \in Events
    BY <1>1, EmailAssumption DEF TypeInv, TypeOK, Events
  <2> QED BY <1>1, <1>2, <2>1, <2>2, EventRecord
<1>5. CASE ~\E m \in Messages : Webhook(m)
  <2>1. Unsaid
    BY <1>1, <1>5, ClaimUnsaid, AuthorizeUnsaid, RecordUnsaid, OthersUnsaid, EmailAssumption
    DEF Next, WorkerStep, RecordInv
  <2>2. RowInv' /\ EventInv' BY <1>1, <1>2, <2>1, UnsaidRows
  <2>3. SuppressionInv' BY <1>1, <1>5, <2>1, UnsaidSuppression
  <2>4. AcceptInv'
    <3>1. ASSUME NEW w \in Workers, Claim(w) \/ WorkerStep(w) \/ Crash(w) PROVE AcceptInv'
      BY <1>1, <1>2, <2>1, <3>1, WorkerAccept DEF RecordInv
    <3>2. ASSUME UNCHANGED <<pc, cur>> PROVE AcceptInv'
      BY <1>1, <1>2, <2>1, <3>2, KeepsAccept DEF RecordInv, Unsaid
    <3>3. CASE \/ \E m \in Messages : Enqueue(m)
               \/ \E r \in late : LateArrival(r)
               \/ PublishTerms \/ Tick \/ UNCHANGED vars
      BY <3>2, <3>3 DEF Enqueue, LateArrival, PublishTerms, Tick, vars, workerVars
    <3>4. ASSUME NEW u \in Restless, Member(u) PROVE AcceptInv'
      BY <3>2, <3>4 DEF Member, OptIn, OptOut, ChangeAddress, AcceptTerms, Withdraw,
         DeleteUser, workerVars
    <3> QED BY <1>5, <3>1, <3>3, <3>4 DEF Next
  <2> QED BY <1>2, <1>3, <2>2, <2>3, <2>4 DEF QueueInv, RecordInv
<1> QED BY <1>2, <1>3, <1>4, <1>5 DEF QueueInv

LEMMA InitQueue == Init => QueueInv
<1> SUFFICES ASSUME Init PROVE QueueInv
  OBVIOUS
<1>1. HandInv BY EmailAssumption DEF Init, HandInv, InHand
<1>2. AcceptInv /\ RowInv /\ EventInv BY DEF Init, AcceptInv, RowInv, EventInv, Null
<1>3. SuppressionInv BY DEF Init, SuppressionInv, DisablingEvents, NoReason
<1> QED BY <1>1, <1>2, <1>3, InitDelivery DEF QueueInv, RecordInv

LEMMA QueueInvariant == Spec => []QueueInv
BY InitQueue, NextQueue, PTL DEF Spec

\* Two invocations never hold a live lease on the same message: what one claimed
\* the other claimed at another time, and locked_until is the later one's.
THEOREM LeasesFence == Spec => []OneLeaseHolder
<1>1. QueueInv => OneLeaseHolder
  BY DEF QueueInv, HandInv, InHand, OneLeaseHolder, Handles, HoldsLease
<1> QED BY <1>1, QueueInvariant, PTL

\* The webhook finds the message of every email the provider took.
THEOREM EventsFindMessages == Spec => []FeedbackCorrelates
<1>1. ASSUME QueueInv PROVE FeedbackCorrelates
  <2> SUFFICES ASSUME NEW m \in Messages, NEW k \in 1..sent[m] PROVE Correlates(m, k)
    BY DEF FeedbackCorrelates
  <2>1. /\ providerId[m] \in Nat /\ sent[m] \in Nat /\ providerId[m] <= sent[m]
        /\ sent[m] = (IF keyAt[m] = Null THEN 0 ELSE 1)
        /\ keyAt[m] # Null => firstAt[m] # Null
    BY <1>1 DEF QueueInv, DeliveryInv, TypeInv, TypeOK, QueueTypeOK, ProviderTypeOK, KeyInv,
       RecordInv, RowInv
  <2> QED BY <2>1 DEF Correlates, Null
<1> QED BY <1>1, QueueInvariant, PTL

\* What the provider reported decides a message's status, in whatever order the
\* events came.
THEOREM StatusIsTheEvents == Spec => []StatusFollowsEvents
<1>1. ASSUME QueueInv PROVE StatusFollowsEvents
  <2> SUFFICES ASSUME NEW m \in Messages, NEW e \in events[m], status[m] # "deleted",
                      IsNewest(e, events[m])
               PROVE  status[m] = StatusOf(e.type)
    BY DEF StatusFollowsEvents
  <2>1. PICK d \in events[m] : IsNewest(d, events[m]) /\ status[m] = StatusOf(d.type)
    BY <1>1 DEF QueueInv, RecordInv, EventInv
  <2>2. events[m] \in SUBSET Events
    BY <1>1 DEF QueueInv, DeliveryInv, TypeInv, TypeOK, QueueTypeOK
  <2>3. d.type = e.type BY <2>1, <2>2, NewestIsOne
  <2> QED BY <2>1, <2>3
<1> QED BY <1>1, QueueInvariant, PTL

\* And the newest disabling event of all a member's messages decides the
\* suppression.
THEOREM SuppressionIsTheEvents == Spec => []SuppressionFollowsEvents
<1>1. ASSUME QueueInv, NEW u \in Users
      PROVE  /\ reason[u] # NoReason => DisablingEvents(u) # {}
             /\ \A e \in DisablingEvents(u) : IsNewest(e, DisablingEvents(u)) =>
                   ~enabled[u] /\ reason[u] = e.type /\ suppressedAt[u] = e.at
  <2>1. IF reason[u] = NoReason THEN DisablingEvents(u) = {}
        ELSE /\ ~enabled[u]
             /\ \E d \in DisablingEvents(u) :
                   /\ IsNewest(d, DisablingEvents(u))
                   /\ reason[u] = d.type /\ suppressedAt[u] = d.at
    BY <1>1 DEF QueueInv, RecordInv, SuppressionInv
  <2>2. DisablingEvents(u) \in SUBSET Events
    BY <1>1 DEF QueueInv, DeliveryInv, TypeInv, TypeOK, QueueTypeOK, DisablingEvents
  <2> QED BY <2>1, <2>2, NewestIsOne
<1>2. QueueInv => SuppressionFollowsEvents BY <1>1 DEF SuppressionFollowsEvents
<1> QED BY <1>2, QueueInvariant, PTL

(***************************************************************************)
(* The queue is an Outbox.  Each step is one of the Outbox's or none of    *)
(* them; what makes Confirm, Deliver and Correct possible where the queue  *)
(* takes them are the invariants above.                                    *)
(***************************************************************************)

\* What was settled stays so, and only the provider's word changes how.
THEOREM SettledStays == Spec => SettledIsFinal
<1> DEFINE Final == \A m \in Messages : status[m] \in Settled =>
                       \/ status'[m] \in {status[m], "deleted"}
                       \/ status'[m] \in Settled /\ events'[m] # events[m]
<1>1. ASSUME QueueInv, [Next]_vars PROVE Final
  <2>0. TypeInv /\ RecordInv BY <1>1 DEF QueueInv, DeliveryInv
  <2>1. CASE Unsaid BY <2>1 DEF Unsaid, Moves, Open, Settled
  <2>2. ASSUME NEW n \in Messages, Webhook(n) PROVE Final
    <3>1. PICK k \in 1..sent[n], type \in EventTypes, at \in 1..now :
             ReceiveEvent(n, k, [type |-> type, at |-> at])
      BY <2>2 DEF Webhook
    <3> DEFINE e == [type |-> type, at |-> at]
    <3>2. e \in Events BY <2>0, EmailAssumption DEF TypeInv, TypeOK, Events
    <3> HIDE DEF e
    <3>3. /\ status \in [Messages -> Statuses] /\ events \in [Messages -> SUBSET Events]
      BY <2>0 DEF TypeInv, TypeOK, QueueTypeOK
    <3>4. e \notin events[n] /\ events'[n] = events[n] \cup {e}
      BY <3>1, <3>3 DEF ReceiveEvent, e
    <3>5. PICK newest \in events'[n] : Settle(n, StatusOf(newest.type), ErrorOf(newest.type))
      BY <3>1 DEF ReceiveEvent
    <3>6. StatusOf(newest.type) \in Settled
      BY <3>2, <3>3, <3>4, <3>5, StatusOfSettles DEF Events
    <3> QED BY <3>3, <3>4, <3>5, <3>6 DEF Settle
  <2> QED
    BY <1>1, <2>0, <2>1, <2>2, ClaimUnsaid, AuthorizeUnsaid, RecordUnsaid, OthersUnsaid,
       EmailAssumption
    DEF Next, WorkerStep, RecordInv
<1> QED BY <1>1, QueueInvariant, PTL DEF Spec, SettledIsFinal

LEMMA SamePhases ==
  ASSUME UNCHANGED <<status, firstAt, sent>>
  PROVE  UNCHANGED Box!vars
BY DEF Box!vars, Phase

\* Rows of S are dropped; a claim or a retry moves others between open statuses.
LEMMA DropRows ==
  ASSUME NEW S \in SUBSET Messages, UNCHANGED <<firstAt, sent>>,
         \A m \in S : status[m] \in Open /\ status'[m] \in {"cancelled", "failed_permanent"},
         \A m \in Messages \ S :
            status'[m] = status[m] \/ (status[m] \in Open /\ status'[m] \in Open)
  PROVE  Box!Drop(S)
<1>1. \A m \in Messages : Phase(m)' = IF m \in S THEN "dropped" ELSE Phase(m)
  BY DEF Phase, Open
<1>2. \A m \in S : Phase(m) = "open" BY DEF Phase, Open
<1> QED BY <1>1, <1>2 DEF Box!Drop

LEMMA ClaimBox ==
  ASSUME NEW w \in Workers, Claim(w)
  PROVE  Box!Next
<1>1. PICK C \in Batches(Cancellable), X \in Batches(Exhausted),
           G \in Batches(Claimable) : ClaimRows(C, X, G)
  BY DEF Claim
<1>2. C \subseteq Cancellable /\ X \subseteq Exhausted /\ G \subseteq Claimable
  BY BatchesAreSubsets
<1>3. \A m \in C \cup X \cup G : m \in Messages /\ status[m] \in Open
  BY <1>2 DEF Cancellable, Exhausted, Claimable, Released, Open
<1>4. UNCHANGED <<firstAt, sent>> BY DEF Claim, providerVars
<1>5. Box!Drop(C \cup X) BY <1>1, <1>3, <1>4, DropRows DEF ClaimRows, Open
<1>6. C \cup X \in SUBSET Messages BY <1>3
<1> QED BY <1>5, <1>6 DEF Box!Next

\* A row in processing is settled by its worker, or waits again.
LEMMA GiveUpBox ==
  ASSUME TypeInv, NEW m \in Messages, status[m] \in Open, NEW error,
         NEW s \in Open \cup {"cancelled", "failed_permanent"}, Settle(m, s, error),
         UNCHANGED <<firstAt, sent>>
  PROVE  Box!Next
<1> DEFINE S == IF s \in Open THEN {} ELSE {m}
<1>1. \A n \in Messages : status'[n] = IF n = m THEN s ELSE status[n]
  BY DEF Settle, TypeInv, TypeOK, QueueTypeOK
<1>2. S \in SUBSET Messages OBVIOUS
<1>3. Box!Drop(S) BY <1>1, <1>2, DropRows
<1> QED BY <1>2, <1>3 DEF Box!Next

LEMMA AuthorizeBox ==
  ASSUME TypeInv, NEW w \in Workers, Authorize(w)
  PROVE  Box!Next \/ UNCHANGED Box!vars
<1>1. cur[w] \in Messages /\ sent' = sent
  BY DEF Authorize, TypeInv, CurrentKnown, providerVars
<1>2. CASE AuthorizeStale(w)
  BY <1>1, <1>2, SamePhases DEF AuthorizeStale, queueVars, deliveryVars
<1>3. CASE AuthorizeCancelled(w) \/ AuthorizeFailed(w)
  <2>1. /\ firstAt' = firstAt /\ status[cur[w]] \in Open
        /\ \E s \in {"cancelled", "failed_permanent"} : \E error : Settle(cur[w], s, error)
    BY <1>3 DEF AuthorizeCancelled, AuthorizeFailed, Entitled, HoldsLease, Open, deliveryVars
  <2> QED BY <1>1, <2>1, GiveUpBox
<1>4. CASE AuthorizeGranted(w)
  <2>1. PICK m \in Messages : m = cur[w] BY <1>1
  <2>2. /\ firstAt' = [firstAt EXCEPT ![m] = FirstAttempt(m)]
        /\ status' = status /\ status[m] = "processing"
    BY <1>4, <2>1 DEF AuthorizeGranted, Entitled, HoldsLease
  <2>3. FirstAttempt(m) # Null /\ firstAt \in [Messages -> Nat]
    BY DEF FirstAttempt, TypeInv, TypeOK, QueueTypeOK, Null
  <2>4. {n \in Messages : firstAt'[n] # Null} = {n \in Messages : firstAt[n] # Null} \cup {m}
    BY <2>2, <2>3
  <2>5. Phase(m) = "open" /\ \A n : Phase(n)' = Phase(n) BY <2>2 DEF Phase, Open
  <2>6. Box!Clear(m) BY <1>1, <2>4, <2>5 DEF Box!Clear, Null
  <2> QED BY <2>6 DEF Box!Next
<1> QED BY <1>2, <1>3, <1>4 DEF Authorize

\* The provider mails a message that was cleared, and for the first time.
LEMMA TakeBox ==
  ASSUME DeliveryInv, NEW m \in Messages, NEW p, Take(m, p), firstAt[m] # Null,
         UNCHANGED <<status, firstAt>>, DeliveryInv'
  PROVE  Box!Next \/ UNCHANGED Box!vars
<1>1. sent \in [Messages -> Nat] BY DEF DeliveryInv, TypeInv, TypeOK, ProviderTypeOK
<1>2. CASE KeyKnown(m)
  <2>1. sent' = sent BY <1>1, <1>2 DEF Take
  <2> QED BY <2>1, SamePhases
<1>3. CASE ~KeyKnown(m)
  <2>1. sent' = [sent EXCEPT ![m] = sent[m] + 1] BY <1>3 DEF Take
  <2>2. sent[m] = 0
    <3>1. sent'[m] \in {0, 1} BY DEF DeliveryInv, KeyInv
    <3> QED BY <1>1, <2>1, <3>1
  <2>3. \A n : Phase(n)' = Phase(n) BY DEF Phase
  <2>4. Box!Deliver(m) BY <2>1, <2>2, <2>3 DEF Box!Deliver, Null
  <2> QED BY <2>4 DEF Box!Next
<1> QED BY <1>2, <1>3

LEMMA RecordBox ==
  ASSUME TypeInv, AcceptInv, NEW w \in Workers, RecordAccepted(w) \/ RecordFailure(w)
  PROVE  Box!Next \/ UNCHANGED Box!vars
<1> DEFINE m == cur[w]
<1>1. m \in Messages /\ UNCHANGED <<firstAt, sent>>
  BY DEF RecordAccepted, RecordFailure, TypeInv, CurrentKnown, deliveryVars, providerVars
<1>2. CASE RecordAccepted(w)
  <2>1. CASE Acceptable(w) /\ Settle(m, "accepted", "none")
    <3>1. sent[m] = 1 /\ status[m] = "processing"
      BY <1>2, <2>1 DEF RecordAccepted, Acceptable, HoldsLease, AcceptInv
    <3>2. \A n \in Messages : status'[n] = IF n = m THEN "accepted" ELSE status[n]
      BY <2>1 DEF Settle, TypeInv, TypeOK, QueueTypeOK
    <3>3. \A n \in Messages : Phase(n)' = IF n = m THEN "confirmed" ELSE Phase(n)
      BY <3>2 DEF Phase, Open
    <3>4. Phase(m) = "open" BY <3>1 DEF Phase, Open
    <3>5. Box!Confirm(m) BY <1>1, <3>1, <3>3, <3>4 DEF Box!Confirm
    <3> QED BY <1>1, <3>5 DEF Box!Next
  <2>2. CASE UNCHANGED status BY <1>1, <2>2, SamePhases
  <2> QED BY <1>2, <2>1, <2>2 DEF RecordAccepted
<1>3. CASE RecordFailure(w)
  <2>1. \/ status' = status
        \/ /\ status[m] \in Open
           /\ \E s \in {"retry_wait", "failed_permanent"} : \E error : Settle(m, s, error)
    BY <1>3 DEF RecordFailure, RetryLater, GiveUp, HoldsLease, Open
  <2>2. ASSUME status[m] \in Open, NEW s \in {"retry_wait", "failed_permanent"}, NEW error,
               Settle(m, s, error)
        PROVE  Box!Next
    BY <1>1, <2>2, GiveUpBox DEF Open
  <2> QED BY <1>1, <2>1, <2>2, SamePhases
<1> QED BY <1>2, <1>3

\* The provider's first word on an open message confirms or drops it; a later
\* one corrects it.
LEMMA EventBox ==
  ASSUME DeliveryInv, RecordInv, NEW m \in Messages, NEW k \in 1..sent[m],
         NEW e \in Events, ReceiveEvent(m, k, e)
  PROVE  Box!Next \/ UNCHANGED Box!vars
<1>1. /\ status \in [Messages -> Statuses] /\ events \in [Messages -> SUBSET Events]
      /\ sent \in [Messages -> Nat]
  BY DEF DeliveryInv, TypeInv, TypeOK, QueueTypeOK, ProviderTypeOK
<1>2. PICK newest \in events'[m] : Settle(m, StatusOf(newest.type), ErrorOf(newest.type))
  BY DEF ReceiveEvent
<1> DEFINE s == StatusOf(newest.type)
<1>3. s \in Settled
  <2>1. events'[m] \subseteq Events BY <1>1 DEF ReceiveEvent
  <2> QED BY <1>2, <2>1, StatusOfSettles DEF Events
<1>4. status' = [status EXCEPT ![m] = s] /\ UNCHANGED <<firstAt, sent>>
  BY <1>2 DEF Settle, ReceiveEvent, deliveryVars, providerVars
<1> HIDE DEF s
<1>5. sent[m] = 1 /\ firstAt[m] # Null
  BY <1>1 DEF DeliveryInv, KeyInv, Null
<1>6. status[m] # "deleted" /\ status[m] # "absent"
  BY <1>5 DEF ReceiveEvent, RecordInv, RowInv
<1> DEFINE q == IF s \in {"failed_permanent", "cancelled"} THEN "dropped" ELSE "confirmed"
<1>7. \A n \in Messages : Phase(n)' = IF n = m THEN q ELSE Phase(n)
  BY <1>1, <1>3, <1>4 DEF Phase, Open, Settled
<1>8. CASE status[m] \in Open
  <2>1. Phase(m) = "open" BY <1>8 DEF Phase, Open
  <2>2. CASE q = "confirmed"
    <3>1. Box!Confirm(m) BY <1>4, <1>5, <1>7, <2>1, <2>2 DEF Box!Confirm
    <3> QED BY <3>1 DEF Box!Next
  <2>3. CASE q = "dropped"
    <3>1. Box!Drop({m}) BY <1>4, <1>7, <2>1, <2>3 DEF Box!Drop
    <3> QED BY <3>1 DEF Box!Next
  <2> QED BY <2>2, <2>3
<1>9. CASE status[m] \notin Open
  <2>1. Phase(m) \in {"confirmed", "dropped"} BY <1>6, <1>9 DEF Phase
  <2>2. Box!Correct(m) BY <1>4, <1>5, <1>7, <2>1 DEF Box!Correct
  <2> QED BY <2>2 DEF Box!Next
<1> QED BY <1>8, <1>9

\* The queue's rows come with an enqueue and go with their member.
LEMMA RowsBox ==
  ASSUME TypeInv, (\E m \in Messages : Enqueue(m)) \/ (\E u \in Users : Member(u))
  PROVE  Box!Next \/ UNCHANGED Box!vars
<1>1. status \in [Messages -> Statuses] BY DEF TypeInv, TypeOK, QueueTypeOK
<1>2. ASSUME NEW m \in Messages, Enqueue(m) PROVE Box!Next
  <2>1. /\ UNCHANGED <<firstAt, sent>> /\ status[m] = "absent"
        /\ \A n \in Messages : status'[n] = IF n = m THEN "pending" ELSE status[n]
    BY <1>1, <1>2 DEF Enqueue, providerVars
  <2>2. /\ Phase(m) = "none"
        /\ \A n \in Messages : Phase(n)' = IF n = m THEN "open" ELSE Phase(n)
    BY <2>1 DEF Phase, Open
  <2>3. Box!Queue(m) BY <2>1, <2>2 DEF Box!Queue
  <2> QED BY <2>3 DEF Box!Next
<1>3. ASSUME NEW u \in Users, DeleteUser(u) PROVE Box!Next
  <2> DEFINE S == {m \in Messages : Owner[m] = u}
  <2>1. /\ UNCHANGED <<firstAt, sent>>
        /\ \A n \in Messages : status'[n] = IF n \in S THEN "deleted" ELSE status[n]
    BY <1>3 DEF DeleteUser, deliveryVars, providerVars
  <2>2. \A n \in Messages : Phase(n)' = IF n \in S THEN "gone" ELSE Phase(n)
    BY <2>1 DEF Phase, Open
  <2>3. Box!Remove(S) BY <2>1, <2>2 DEF Box!Remove
  <2> QED BY <2>3 DEF Box!Next
<1>4. ASSUME NEW u \in Users, Member(u), ~DeleteUser(u) PROVE UNCHANGED Box!vars
  BY <1>4, SamePhases DEF Member, OptIn, OptOut, ChangeAddress, AcceptTerms, Withdraw,
     queueVars, deliveryVars, providerVars
<1> QED BY <1>2, <1>3, <1>4

LEMMA NextBox == QueueInv /\ QueueInv' /\ [Next]_vars => [Box!Next]_(Box!vars)
<1> SUFFICES ASSUME QueueInv, QueueInv', [Next]_vars
             PROVE  Box!Next \/ UNCHANGED Box!vars
  OBVIOUS
<1>0. TypeInv /\ DeliveryInv /\ DeliveryInv' /\ RecordInv /\ AcceptInv
  BY DEF QueueInv, DeliveryInv, RecordInv
<1>1. ASSUME NEW m \in Messages, Webhook(m) PROVE Box!Next \/ UNCHANGED Box!vars
  <2>1. PICK k \in 1..sent[m], type \in EventTypes, at \in 1..now :
           ReceiveEvent(m, k, [type |-> type, at |-> at])
    BY <1>1 DEF Webhook
  <2>2. [type |-> type, at |-> at] \in Events
    BY <1>0, EmailAssumption DEF TypeInv, TypeOK, Events
  <2> QED BY <1>0, <2>1, <2>2, EventBox
<1>2. ASSUME NEW w \in Workers, SendAnswered(w) PROVE Box!Next \/ UNCHANGED Box!vars
  <2>1. /\ cur[w] \in Messages /\ firstAt[cur[w]] # Null
    BY <1>0, <1>2 DEF SendAnswered, DeliveryInv, FlightInv, Flies, TypeInv, CurrentKnown
  <2>2. UNCHANGED <<status, firstAt>> BY <1>2 DEF SendAnswered, queueVars, deliveryVars
  <2>3. CASE Take(cur[w], payload[w]) BY <1>0, <2>1, <2>2, <2>3, TakeBox
  <2>4. CASE UNCHANGED sent BY <2>2, <2>4, SamePhases
  <2> QED BY <1>2, <2>3, <2>4 DEF SendAnswered
<1>3. ASSUME NEW r \in late, LateArrival(r) PROVE Box!Next \/ UNCHANGED Box!vars
  <2>1. r.msg \in Messages /\ firstAt[r.msg] # Null
    BY <1>0 DEF DeliveryInv, FlightInv, Flies, TypeInv, TypeOK, ProviderTypeOK, Requests
  <2> QED BY <1>0, <1>3, <2>1, TakeBox DEF LateArrival, queueVars, deliveryVars
<1>4. ASSUME NEW w \in Workers,
             \/ \E m \in Messages : FetchToken(w, m)
             \/ FetchRecipient(w) \/ SendLost(w) \/ Throw(w) \/ Drop(w) \/ Crash(w)
      PROVE  UNCHANGED Box!vars
  <2>1. UNCHANGED <<queueVars, sent>>
    BY <1>4 DEF FetchToken, FetchRecipient, SendLost, Throw, Drop, Crash, providerVars
  <2> QED BY <2>1, SamePhases DEF queueVars, deliveryVars
<1>5. CASE PublishTerms \/ Tick \/ UNCHANGED vars
  BY <1>5, SamePhases DEF PublishTerms, Tick, vars, queueVars, deliveryVars, providerVars
<1> QED
  BY <1>0, <1>1, <1>2, <1>3, <1>4, <1>5, ClaimBox, AuthorizeBox, RecordBox, RowsBox,
     EmailAssumption
  DEF Next, WorkerStep

LEMMA InitBox == Init => Box!Init
<1> SUFFICES ASSUME Init PROVE Box!Init
  OBVIOUS
<1>1. \A m \in Messages : Phase(m) = "none" BY DEF Init, Phase, Open
<1>2. {m \in Messages : firstAt[m] # Null} = {} BY DEF Init, Null
<1>3. sent = [m \in Messages |-> 0] BY DEF Init
<1> QED BY <1>1, <1>2, <1>3 DEF Box!Init, Null

\* The email queue with its workers, the provider and its webhook delivers each
\* message at most once, only when cleared, and confirms only what was delivered.
THEOREM EmailIsAnOutbox == Spec => DeliversOnce
<1>1. Spec => []QueueInv BY QueueInvariant
<1> QED BY <1>1, InitBox, NextBox, PTL DEF Spec, DeliversOnce, Box!Spec

(***************************************************************************)
(* What the email queue has from being an Outbox: a message that is said   *)
(* to be accepted, delivered, bounced and so on is one the provider took.  *)
(***************************************************************************)

Confirmed(m) == Phase(m) = "confirmed"

ConfirmedIsSent == \A m \in Messages : Confirmed(m) => sent[m] = 1

\* Each step of an Outbox, as one message m sees it.
LEMMA BoxStep ==
  ASSUME sent \in [Messages -> Nat], NEW m \in Messages, Box!Next
  PROVE  /\ sent'[m] = sent[m] \/ (sent[m] = 0 /\ sent'[m] = 1)
         /\ Confirmed(m)' => Confirmed(m) \/ sent[m] = 1
<1>1. ASSUME NEW n \in Messages, Box!Queue(n) \/ Box!Clear(n)
      PROVE  sent' = sent /\ (Confirmed(m)' => Confirmed(m))
  BY <1>1 DEF Box!Queue, Box!Clear, Confirmed
<1>2. ASSUME NEW n \in Messages, Box!Deliver(n)
      PROVE  /\ sent[n] = 0 /\ sent' = [sent EXCEPT ![n] = 1]
             /\ Confirmed(m)' => Confirmed(m)
  BY <1>2 DEF Box!Deliver, Confirmed
<1>3. ASSUME NEW n \in Messages, Box!Confirm(n) \/ Box!Correct(n)
      PROVE  sent' = sent /\ sent[n] = 1 /\ (Confirmed(m)' => Confirmed(m) \/ m = n)
  BY <1>3 DEF Box!Confirm, Box!Correct, Confirmed
<1>4. ASSUME NEW S \in SUBSET Messages, Box!Drop(S) \/ Box!Remove(S)
      PROVE  sent' = sent /\ (Confirmed(m)' => Confirmed(m))
  BY <1>4 DEF Box!Drop, Box!Remove, Confirmed
<1> QED BY <1>1, <1>2, <1>3, <1>4 DEF Box!Next

LEMMA SamePhase ==
  ASSUME UNCHANGED Box!vars, NEW m \in Messages
  PROVE  sent' = sent /\ (Confirmed(m)' => Confirmed(m))
<1> DEFINE f == [n \in Messages |-> Phase(n)]
           g == [n \in Messages |-> Phase(n)']
<1>1. f = g /\ sent' = sent BY DEF Box!vars
<1>2. f[m] = Phase(m) /\ g[m] = Phase(m)' OBVIOUS
<1> HIDE DEF f, g
<1> QED BY <1>1, <1>2 DEF Confirmed

\* No message is recorded as accepted, delivered or bounced, by the worker or by an
\* event of the provider, unless the provider took it, and it took it once.
THEOREM ConfirmedWasSent == Spec => []ConfirmedIsSent
<1>1. Init => ConfirmedIsSent
  BY DEF Init, ConfirmedIsSent, Confirmed, Phase, Open
<1>2. ASSUME QueueInv, QueueInv', [Next]_vars, ConfirmedIsSent PROVE ConfirmedIsSent'
  <2> SUFFICES ASSUME NEW m \in Messages, Confirmed(m)' PROVE sent'[m] = 1
    BY DEF ConfirmedIsSent
  <2>1. sent \in [Messages -> Nat]
    BY <1>2 DEF QueueInv, DeliveryInv, TypeInv, TypeOK, ProviderTypeOK
  <2>2. CASE Box!Next BY <1>2, <2>1, <2>2, BoxStep DEF ConfirmedIsSent
  <2>3. CASE UNCHANGED Box!vars BY <1>2, <2>3, SamePhase DEF ConfirmedIsSent
  <2> QED BY <1>2, <2>2, <2>3, NextBox
<1> QED BY <1>1, <1>2, QueueInvariant, PTL DEF Spec

=============================================================================
