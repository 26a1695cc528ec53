-------------------------- MODULE LineDeliveryProofs --------------------------
(***************************************************************************)
(* Proofs about LineDelivery for every finite set of members, every set of *)
(* messages, accounts and overlapping invocations, every choice of rollout *)
(* modes and every value of the timing constants that LineAssumption       *)
(* allows.                                                                 *)
(***************************************************************************)
EXTENDS LineDelivery, FiniteSetTheorems, TLAPS

(***************************************************************************)
(* The inductive invariant: the types, and with them what an invocation    *)
(* carries from one call to the next; the allowlist; and the flights of    *)
(* pushes, as for email.                                                   *)
(***************************************************************************)

Carrying == {"authorize", "push", "accept", "fail"}

\* An invocation past its gates has a mode; past its claim, a message.
WellFormed(v) ==
    /\ v \in Invocations
    /\ v.pc # "idle" => v.mode \in Modes
    /\ v.pc \in Carrying => v.msg \in Messages /\ v.to \in Accounts

QueueInv ==
    /\ status \in [Messages -> Statuses]
    /\ attempts \in [Messages -> 0..MaxAttempts]
    /\ nextAt \in [Messages -> Nat] /\ lockedUntil \in [Messages -> Nat]
    /\ firstAt \in [Messages -> Nat]
    /\ recipient \in [Messages -> Accounts \cup {Nobody}]
    /\ \A m \in Messages : status[m] = "processing" => attempts[m] > 0

MemberInv ==
    /\ member \in [Users -> {"active", "inactive", "deleted"}]
    /\ link \in [Users -> Accounts \cup {Nobody}]
    /\ allowlist \subseteq Users /\ Cardinality(allowlist) <= MaxListed
    /\ leftAt \in [Users -> Nat]

InvocationInv ==
    /\ worker \in [Workers -> Invocations]
    /\ \A w \in Workers : WellFormed(worker[w])

LineInv ==
    /\ key \in [Messages -> [at : Nat, to : Accounts \cup {Nobody},
                             mode : Modes \cup {"none"}]]
    /\ pushed \in [Messages -> Nat] /\ used \in Nat
    /\ late \subseteq PushRequests

TypeInv ==
    now \in Nat \ {0} /\ QueueInv /\ MemberInv /\ InvocationInv /\ LineInv

\* LINE's keys: a message has been pushed once when its key is known or was.
KeyInv ==
    \A m \in Messages :
        /\ firstAt[m] <= now
        /\ pushed[m] = IF key[m].at = Null THEN 0 ELSE 1
        /\ key[m].at # Null =>
              firstAt[m] # Null /\ firstAt[m] <= key[m].at /\ key[m].at <= now

\* A push request r that can still land: before the window of its message's
\* first attempt closes, plus Flight; and to whom the last check let it.
Flies(r) ==
    /\ firstAt[r.msg] # Null
    /\ now <= r.by /\ r.by <= now + Flight /\ r.by < firstAt[r.msg] + Window + Flight
    /\ \/ Reach(Owner[r.msg]) = r.to /\ InScope(r.mode, Owner[r.msg])
       \/ r.by <= leftAt[Owner[r.msg]] + Flight

FlightInv ==
    /\ \A w \in Workers : worker[w].pc = "push" => Flies(Request(worker[w]))
    /\ \A r \in late : Flies(r)

\* An invocation that records a push as accepted has had it taken.
AcceptInv ==
    \A w \in Workers : worker[w].pc = "accept" => pushed[worker[w].msg] = 1

PushInv == TypeInv /\ KeyInv /\ FlightInv /\ AcceptInv

(***************************************************************************)
(* Steps of an invocation.                                                 *)
(***************************************************************************)

LEMMA IdleWellFormed == WellFormed(Idle) /\ Idle.pc = "idle"
BY LineAssumption DEF WellFormed, Invocations, Idle, Codes, Null, Carrying

\* The invocation w becomes one that is neither pushing nor about to record a
\* push; most steps are of this kind.
Aside(w) ==
    \E v : /\ worker' = [worker EXCEPT ![w] = v]
           /\ WellFormed(v) /\ v.pc \notin {"push", "accept"}

LEMMA AsideKeeps ==
  ASSUME InvocationInv, NEW w \in Workers, Aside(w)
  PROVE  /\ InvocationInv'
         /\ \A x \in Workers : worker'[x].pc \in {"push", "accept"} => worker'[x] = worker[x]
<1>1. PICK v : /\ worker' = [worker EXCEPT ![w] = v]
               /\ WellFormed(v) /\ v.pc \notin {"push", "accept"}
  BY DEF Aside
<1>2. worker'[w] = v /\ \A x \in Workers \ {w} : worker'[x] = worker[x]
  BY <1>1 DEF InvocationInv
<1>3. v \in Invocations BY <1>1 DEF WellFormed
<1>4. worker' \in [Workers -> Invocations] BY <1>1, <1>3 DEF InvocationInv
<1>5. \A x \in Workers : WellFormed(worker'[x]) BY <1>1, <1>2 DEF InvocationInv
<1>6. InvocationInv' BY <1>4, <1>5 DEF InvocationInv, WellFormed
<1> QED BY <1>1, <1>2, <1>6

LEMMA QuitAside ==
  ASSUME NEW w \in Workers, Quit(w)
  PROVE  Aside(w)
BY IdleWellFormed DEF Quit, Aside

LEMMA InvokeAside ==
  ASSUME TypeInv, NEW w \in Workers, Invoke(w)
  PROVE  Aside(w)
<1>1. PICK mode \in Modes :
         worker' = [worker EXCEPT ![w] =
            [Idle EXCEPT !.pc = "claim", !.mode = mode, !.room = QuotaLimit - used]]
  BY DEF Invoke
<1> DEFINE v == [Idle EXCEPT !.pc = "claim", !.mode = mode, !.room = QuotaLimit - used]
<1>2. QuotaLimit - used \in 0..QuotaLimit
  BY LineAssumption DEF Invoke, TypeInv, LineInv
<1>3. Idle \in Invocations BY IdleWellFormed DEF WellFormed
<1>4. v \in Invocations /\ v.pc = "claim" /\ v.mode = mode
  BY <1>2, <1>3 DEF Invocations
<1>5. WellFormed(v) BY <1>4 DEF WellFormed, Carrying
<1> QED BY <1>1, <1>4, <1>5 DEF Aside

LEMMA OnwardAside ==
  ASSUME InvocationInv, NEW w \in Workers, Onward(w), worker[w].pc # "idle"
  PROVE  Aside(w)
<1>1. CASE worker[w].todo = {}
  BY <1>1, IdleWellFormed DEF Onward, Aside
<1>2. CASE worker[w].todo # {}
  <2> DEFINE v == [worker[w] EXCEPT !.pc = "ready", !.msg = NoMessage, !.to = Nobody,
                                    !.by = Null, !.code = "none"]
  <2>1. worker' = [worker EXCEPT ![w] = v] BY <1>2 DEF Onward
  <2>2. worker[w] \in Invocations /\ worker[w].mode \in Modes
    BY DEF InvocationInv, WellFormed
  <2>3. v \in Invocations /\ v.pc = "ready" /\ v.mode \in Modes
    BY <2>2 DEF Invocations, Codes, Null
  <2>4. WellFormed(v) BY <2>3 DEF WellFormed, Carrying
  <2> QED BY <2>1, <2>3, <2>4 DEF Aside
<1> QED BY <1>1, <1>2

LEMMA PrepareAside ==
  ASSUME InvocationInv, NEW w \in Workers, NEW c \in worker[w].todo, Prepare(w, c)
  PROVE  Aside(w)
<1>1. PICK p \in {"authorize", "fail"} :
         worker' = [worker EXCEPT ![w] =
            [@ EXCEPT !.pc = p, !.todo = worker[w].todo \ {c},
                      !.msg = c.msg, !.to = c.to,
                      !.code = IF p = "fail" THEN "worker_internal_error" ELSE "none"]]
  BY DEF Prepare
<1> DEFINE v == [worker[w] EXCEPT !.pc = p, !.todo = worker[w].todo \ {c},
                    !.msg = c.msg, !.to = c.to,
                    !.code = IF p = "fail" THEN "worker_internal_error" ELSE "none"]
<1>2. worker[w] \in Invocations /\ worker[w].mode \in Modes
  BY DEF InvocationInv, WellFormed, Prepare
<1>3. c.msg \in Messages /\ c.to \in Accounts BY <1>2 DEF Invocations, Claims
<1>4. /\ v \in Invocations /\ v.pc = p /\ v.mode \in Modes
      /\ v.msg \in Messages /\ v.to \in Accounts
  BY <1>2, <1>3 DEF Invocations, Codes
<1>5. WellFormed(v) BY <1>4 DEF WellFormed
<1>6. worker' = [worker EXCEPT ![w] = v] BY <1>1
<1> QED BY <1>4, <1>5, <1>6 DEF Aside

\* What LINE's answer leaves of an invocation that was pushing.
LEMMA ReportKeeps ==
  ASSUME InvocationInv, NEW w \in Workers, worker[w].pc = "push",
         NEW p \in {"accept", "fail"}, NEW code \in Codes, Report(w, p, code)
  PROVE  \E v : /\ worker' = [worker EXCEPT ![w] = v] /\ WellFormed(v)
                /\ v.pc = p /\ v.msg = worker[w].msg
<1> DEFINE v == [worker[w] EXCEPT !.pc = p, !.by = Null, !.code = code]
<1>1. /\ worker[w] \in Invocations /\ worker[w].mode \in Modes
      /\ worker[w].msg \in Messages /\ worker[w].to \in Accounts
  BY DEF InvocationInv, WellFormed, Carrying
<1>2. /\ v \in Invocations /\ v.pc = p /\ v.mode = worker[w].mode
      /\ v.msg = worker[w].msg /\ v.to = worker[w].to
  BY <1>1 DEF Invocations, Null
<1>3. WellFormed(v) BY <1>1, <1>2 DEF WellFormed
<1> QED BY <1>2, <1>3 DEF Report

LEMMA KnownCodes ==
  /\ "none" \in Codes /\ "line_unexpected_response" \in Codes
  /\ \A a \in Refusals \cup {"timeout"} : Classify[a] \in Codes
BY DEF Codes, Classify, Refusals

LEMMA FailAside ==
  ASSUME InvocationInv, NEW w \in Workers, worker[w].pc = "push",
         NEW code \in Codes, Report(w, "fail", code)
  PROVE  Aside(w)
BY ReportKeeps DEF Aside

(***************************************************************************)
(* Type correctness.                                                       *)
(***************************************************************************)

LEMMA BatchesAreSubsets ==
  ASSUME NEW S, NEW n, NEW B \in Batches(S, n)
  PROVE  B \subseteq S
BY DEF Batches

\* A claim takes and settles rows of the queue; what it takes is not spent and
\* has somewhere to go.
LEMMA ClaimStep ==
  ASSUME TypeInv, NEW w \in Workers, Claim(w)
  PROVE  /\ QueueInv' /\ Aside(w)
         /\ \E S \in SUBSET Messages :
               /\ \A m \in S : status[m] \in Open
                               /\ status'[m] \in {"cancelled", "failed_permanent"}
               /\ \A m \in Messages \ S :
                     status'[m] = status[m] \/ (status[m] \in Open /\ status'[m] \in Open)
<1> DEFINE n == ClaimSize(w)
           mode == worker[w].mode
<1>1. PICK C \in Batches(Cancellable(mode), n), X \in Batches(Exhausted(mode), n),
           G \in Batches(Claimable(mode), n) :
        /\ status' = [m \in Messages |->
              IF m \in C THEN "cancelled" ELSE IF m \in X THEN "failed_permanent"
              ELSE IF m \in G THEN "processing" ELSE status[m]]
        /\ attempts' = [m \in Messages |->
              IF m \in G THEN attempts[m] + 1 ELSE attempts[m]]
        /\ lockedUntil' = [m \in Messages |->
              IF m \in G THEN now + Lease
              ELSE IF m \in C \cup X THEN Null ELSE lockedUntil[m]]
        /\ worker' = [worker EXCEPT ![w] =
              [@ EXCEPT !.pc = "ready", !.lease = now + Lease,
                        !.todo = {[msg |-> m, to |-> Reach(Owner[m])] : m \in G}]]
  BY DEF Claim
<1>2. C \subseteq Cancellable(mode) /\ X \subseteq Exhausted(mode) /\ G \subseteq Claimable(mode)
  BY BatchesAreSubsets
<1>3. /\ \A m \in C \cup X \cup G : m \in Messages /\ status[m] \in Open
      /\ \A m \in G : ~(attempts[m] >= MaxAttempts) /\ Reach(Owner[m]) # Nobody
  BY <1>2 DEF Cancellable, Exhausted, Claimable, Serviceable, Spent, Released, Open
<1>4. UNCHANGED <<nextAt, firstAt, recipient>> BY DEF Claim
<1>5. QueueInv'
  <2> QueueInv /\ now + Lease \in Nat BY LineAssumption DEF TypeInv
  <2>1. status' \in [Messages -> Statuses] BY <1>1 DEF QueueInv, Statuses, Open
  <2>2. attempts' \in [Messages -> 0..MaxAttempts]
    BY <1>1, <1>3, LineAssumption DEF QueueInv
  <2>3. lockedUntil' \in [Messages -> Nat] BY <1>1 DEF QueueInv, Null
  <2>4. \A m \in Messages : status'[m] = "processing" => attempts'[m] > 0
    BY <1>1 DEF QueueInv
  <2> QED BY <1>4, <2>1, <2>2, <2>3, <2>4 DEF QueueInv
<1> DEFINE todo == {[msg |-> m, to |-> Reach(Owner[m])] : m \in G}
           v == [worker[w] EXCEPT !.pc = "ready", !.lease = now + Lease, !.todo = todo]
<1>6. \A m \in G : m \in Messages /\ Reach(Owner[m]) \in Accounts
  BY <1>3, LineAssumption DEF Reach, TypeInv, MemberInv
<1>7. todo \in SUBSET Claims BY <1>6 DEF Claims
<1>8. worker' = [worker EXCEPT ![w] = v] BY <1>1
<1> HIDE DEF todo
<1>9. worker[w] \in Invocations /\ worker[w].mode \in Modes /\ now + Lease \in Nat
  BY LineAssumption DEF TypeInv, InvocationInv, WellFormed, Claim
<1>10. v \in Invocations /\ v.pc = "ready" /\ v.mode \in Modes
  BY <1>7, <1>9 DEF Invocations
<1>11. WellFormed(v) BY <1>10 DEF WellFormed, Carrying
<1>12. Aside(w) BY <1>8, <1>10, <1>11 DEF Aside
<1>13. /\ C \cup X \in SUBSET Messages
       /\ \A m \in C \cup X : status[m] \in Open
                              /\ status'[m] \in {"cancelled", "failed_permanent"}
       /\ \A m \in Messages \ (C \cup X) :
             status'[m] = status[m] \/ (status[m] \in Open /\ status'[m] \in Open)
  BY <1>1, <1>3 DEF Open
<1> QED BY <1>5, <1>12, <1>13

\* A row that is settled, or put back to wait, stays well typed.
LEMMA SettleType ==
  ASSUME QueueInv, NEW m \in Messages, Settle(m, "accepted") \/ Settle(m, "cancelled")
                                 \/ Settle(m, "failed_permanent") \/ Settle(m, "retry_wait")
  PROVE  /\ status' \in [Messages -> Statuses]
         /\ lockedUntil' \in [Messages -> Nat]
         /\ \A n \in Messages : status'[n] = "processing" => status[n] = "processing"
BY DEF Settle, QueueInv, Statuses, Open, Null

LEMMA CancelType ==
  ASSUME QueueInv, NEW S \in SUBSET Messages, CancelRows(S), UNCHANGED rowVars
  PROVE  QueueInv'
BY DEF CancelRows, QueueInv, Statuses, Null, rowVars

\* Both writers of the queue insert a row.
LEMMA Inserted ==
  ASSUME NEW m \in Messages, Enqueue(m) \/ EnqueueCanaryTest(m)
  PROVE  Insert(m)
BY DEF Enqueue, EnqueueCanaryTest

\* Rows of the queue come, are cancelled and go.
LEMMA RowsType ==
  ASSUME TypeInv, \/ \E m \in Messages : Insert(m)
                  \/ \E S \in SUBSET Restless : Replace(S)
                  \/ CancelBacklog \/ \E u \in Users : DeleteMember(u)
  PROVE  QueueInv'
<1> QueueInv /\ now \in Nat BY DEF TypeInv
<1>1. CASE \E m \in Messages : Insert(m)
  BY <1>1 DEF Insert, QueueInv, Statuses, Open
<1>2. CASE CancelBacklog BY <1>2, CancelType DEF CancelBacklog
<1>3. CASE \E S \in SUBSET Restless : Replace(S) BY <1>3, CancelType DEF Replace
<1>4. CASE \E u \in Users : DeleteMember(u)
  BY <1>4 DEF DeleteMember, QueueInv, Statuses, rowVars
<1> QED BY <1>1, <1>2, <1>3, <1>4

\* Members and the operator.
LEMMA MemberType ==
  ASSUME TypeInv, \/ \E u \in Restless : ChangeLink(u) \/ ChangeMembership(u) \/ DeleteMember(u)
                  \/ \E S \in SUBSET Restless : Replace(S)
  PROVE  MemberInv'
<1> USE DEF MemberInv
<1> MemberInv /\ now \in Nat /\ Restless \subseteq Users
  BY LineAssumption DEF TypeInv
<1>1. ASSUME NEW u \in Users, ChangeLink(u) \/ ChangeMembership(u) PROVE MemberInv'
  <2>1. allowlist' = allowlist /\ leftAt' = [leftAt EXCEPT ![u] = now]
    BY <1>1 DEF ChangeLink, ChangeMembership
  <2>2. link' \in [Users -> Accounts \cup {Nobody}]
    BY <1>1 DEF ChangeLink, ChangeMembership
  <2>3. member' \in [Users -> {"active", "inactive", "deleted"}]
    BY <1>1 DEF ChangeLink, ChangeMembership
  <2> QED BY <2>1, <2>2, <2>3
<1>2. ASSUME NEW u \in Users, DeleteMember(u) PROVE MemberInv'
  <2>1. Cardinality(allowlist \ {u}) <= Cardinality(allowlist)
    BY LineAssumption, FS_Subset, allowlist \ {u} \in SUBSET allowlist
  <2>2. Cardinality(allowlist) \in Nat /\ Cardinality(allowlist \ {u}) \in Nat
    BY LineAssumption, FS_Subset, FS_CardinalityType, allowlist \ {u} \in SUBSET Users
  <2>3. Cardinality(allowlist') <= MaxListed BY <1>2, <2>1, <2>2, LineAssumption DEF DeleteMember
  <2> QED BY <1>2, <2>3 DEF DeleteMember
<1>3. ASSUME NEW S \in SUBSET Restless, Replace(S) PROVE MemberInv'
  BY <1>3 DEF Replace, Replaceable
<1> QED BY <1>1, <1>2, <1>3

\* The authorization lets w push its message.
Granted(w, m) ==
    /\ HoldsLease(w, m) /\ Permitted(w, m) /\ ~Hopeless(w, m)
    /\ firstAt' = [firstAt EXCEPT ![m] = IF @ = Null THEN now ELSE @]
    /\ recipient' = [recipient EXCEPT ![m] = worker[w].to]
    /\ worker' = [worker EXCEPT ![w] = [@ EXCEPT !.pc = "push", !.by = now + Flight]]
    /\ UNCHANGED <<status, lockedUntil>>

\* A row in processing is settled, or put back to wait.
Closes(m) ==
    /\ status[m] = "processing"
    /\ Settle(m, "cancelled") \/ Settle(m, "failed_permanent") \/ Settle(m, "retry_wait")

LEMMA AuthorizeStep ==
  ASSUME InvocationInv, NEW w \in Workers, Authorize(w)
  PROVE  LET m == worker[w].msg IN
         /\ m \in Messages /\ worker[w].to \in Accounts /\ worker[w].mode \in Modes
         /\ UNCHANGED <<now, attempts, nextAt, memberVars, lineVars>>
         /\ \/ /\ Aside(w) /\ UNCHANGED <<firstAt, recipient>>
               /\ UNCHANGED <<status, lockedUntil>> \/ Closes(m)
            \/ Granted(w, m)
<1> DEFINE m == worker[w].msg
<1>1. /\ m \in Messages /\ worker[w].to \in Accounts /\ worker[w].mode \in Modes
      /\ UNCHANGED <<now, attempts, nextAt, memberVars, lineVars>>
      /\ worker[w].pc = "authorize"
  BY DEF Authorize, InvocationInv, WellFormed, Carrying
<1>2. CASE ~HoldsLease(w, m) /\ Onward(w)
           /\ UNCHANGED <<status, lockedUntil, firstAt, recipient>>
  BY <1>1, <1>2, OnwardAside
<1>3. CASE /\ HoldsLease(w, m)
           /\ \/ ~Permitted(w, m) /\ Settle(m, "cancelled")
              \/ Permitted(w, m) /\ Hopeless(w, m) /\ Settle(m, "failed_permanent")
           /\ Onward(w) /\ UNCHANGED <<firstAt, recipient>>
  BY <1>1, <1>3, OnwardAside DEF HoldsLease, Closes
<1>4. CASE Granted(w, m) BY <1>1, <1>4
<1> QED BY <1>1, <1>2, <1>3, <1>4 DEF Authorize, Granted

\* What a granted invocation is afterwards.
LEMMA GrantedPushes ==
  ASSUME InvocationInv, now \in Nat, NEW w \in Workers, NEW m \in Messages, m = worker[w].msg,
         worker[w].pc = "authorize", Granted(w, m)
  PROVE  /\ InvocationInv'
         /\ worker'[w].pc = "push"
         /\ Request(worker'[w]) = [msg |-> m, to |-> worker[w].to,
                                   mode |-> worker[w].mode, by |-> now + Flight]
         /\ \A x \in Workers \ {w} : worker'[x] = worker[x]
<1> DEFINE v == [worker[w] EXCEPT !.pc = "push", !.by = now + Flight]
<1>1. worker' = [worker EXCEPT ![w] = v] BY DEF Granted
<1>2. /\ worker[w] \in Invocations /\ worker[w].mode \in Modes
      /\ worker[w].to \in Accounts /\ now + Flight \in Nat
  BY LineAssumption DEF InvocationInv, WellFormed, Carrying
<1>3. /\ v \in Invocations /\ v.pc = "push" /\ v.by = now + Flight
      /\ v.msg = m /\ v.to = worker[w].to /\ v.mode = worker[w].mode
  BY <1>2 DEF Invocations
<1>4. WellFormed(v) BY <1>2, <1>3 DEF WellFormed
<1> HIDE DEF v
<1>5. worker'[w] = v /\ \A x \in Workers \ {w} : worker'[x] = worker[x]
  BY <1>1 DEF InvocationInv
<1>6. worker' \in [Workers -> Invocations] BY <1>1, <1>3 DEF InvocationInv
<1>7. \A x \in Workers : WellFormed(worker'[x]) BY <1>4, <1>5 DEF InvocationInv
<1>8. InvocationInv' BY <1>6, <1>7 DEF InvocationInv, WellFormed
<1> QED BY <1>3, <1>5, <1>8 DEF Request

\* An invocation that records what happened settles its message if it still
\* holds the lease.
LEMMA RecordStep ==
  ASSUME InvocationInv, NEW w \in Workers, RecordAccepted(w) \/ RecordFailure(w) \/ RecordLost(w)
  PROVE  LET m == worker[w].msg IN
         /\ m \in Messages /\ Aside(w)
         /\ UNCHANGED <<now, attempts, firstAt, recipient, memberVars, lineVars>>
         /\ \/ UNCHANGED <<status, lockedUntil, nextAt>>
            \/ /\ worker[w].pc = "accept" /\ status[m] = "processing" /\ Settle(m, "accepted")
               /\ UNCHANGED nextAt
            \/ /\ Closes(m)
               /\ UNCHANGED nextAt \/ (MayRetry(w, m) /\ nextAt' = [nextAt EXCEPT ![m] = RetryAt(m)])
<1>1. worker[w].msg \in Messages /\ Aside(w)
  BY OnwardAside DEF RecordAccepted, RecordFailure, RecordLost, InvocationInv, WellFormed,
     Carrying
<1>2. CASE RecordAccepted(w)
  BY <1>1, <1>2 DEF RecordAccepted, HoldsLease, rowVars
<1>3. CASE RecordFailure(w)
  BY <1>1, <1>3 DEF RecordFailure, HoldsLease, Closes
<1>4. CASE RecordLost(w)
  BY <1>1, <1>4 DEF RecordLost, queueVars, rowVars
<1> QED BY <1>2, <1>3, <1>4

\* LINE answers, or the request is given up: the queue and the members stay.
LEMMA PushStep ==
  ASSUME InvocationInv, NEW w \in Workers, PushAnswered(w) \/ PushLost(w)
  PROVE  /\ InvocationInv' /\ worker[w].pc = "push"
         /\ Request(worker[w]) \in PushRequests
         /\ UNCHANGED <<now, queueVars, memberVars>>
         /\ \A x \in Workers : x # w => worker'[x] = worker[x]
         /\ \/ /\ Aside(w) /\ UNCHANGED <<key, pushed, used>>
               /\ late' = late \/ late' = late \cup {Request(worker[w])}
            \/ /\ Take(worker[w].msg, worker[w].to, worker[w].mode) /\ UNCHANGED late
               /\ \/ Aside(w)
                  \/ worker'[w].pc = "accept" /\ worker'[w].msg = worker[w].msg
<1>1. /\ worker[w].pc = "push" /\ UNCHANGED <<now, queueVars, memberVars>>
  BY DEF PushAnswered, PushLost
<1>2. Request(worker[w]) \in PushRequests
  BY <1>1 DEF InvocationInv, WellFormed, Carrying, Request, PushRequests, Invocations
<1>3. CASE Aside(w) /\ (\/ /\ UNCHANGED <<key, pushed, used>>
                           /\ late' = late \/ late' = late \cup {Request(worker[w])}
                        \/ /\ Take(worker[w].msg, worker[w].to, worker[w].mode)
                           /\ UNCHANGED late)
  <2>1. \A x \in Workers : x # w => worker'[x] = worker[x]
    BY <1>3 DEF Aside, InvocationInv
  <2> QED BY <1>1, <1>2, <1>3, <2>1, AsideKeeps
<1>4. CASE /\ Take(worker[w].msg, worker[w].to, worker[w].mode) /\ UNCHANGED late
           /\ Report(w, "accept", "none")
  <2>1. PICK v : /\ worker' = [worker EXCEPT ![w] = v] /\ WellFormed(v)
                 /\ v.pc = "accept" /\ v.msg = worker[w].msg
    BY <1>1, <1>4, ReportKeeps, KnownCodes
  <2>2. worker'[w] = v /\ \A x \in Workers : x # w => worker'[x] = worker[x]
    BY <2>1 DEF InvocationInv
  <2>3. worker' \in [Workers -> Invocations] BY <2>1 DEF InvocationInv, WellFormed
  <2>4. \A x \in Workers : WellFormed(worker'[x]) BY <2>1, <2>2 DEF InvocationInv
  <2>5. InvocationInv' BY <2>3, <2>4 DEF InvocationInv, WellFormed
  <2> QED BY <1>1, <1>2, <1>4, <2>1, <2>2, <2>5
<1>5. CASE PushAnswered(w)
  <2>1. CASE \E a \in Refusals : Refused(w, a) /\ UNCHANGED <<key, pushed, used>>
    <3>1. Aside(w) BY <1>1, <2>1, FailAside, KnownCodes DEF Refused
    <3> QED BY <1>3, <1>5, <2>1, <3>1 DEF PushAnswered
  <2>2. CASE /\ Take(worker[w].msg, worker[w].to, worker[w].mode)
             /\ Report(w, "fail", "line_unexpected_response")
    <3>1. Aside(w) BY <1>1, <2>2, FailAside, KnownCodes
    <3> QED BY <1>3, <1>5, <2>2, <3>1 DEF PushAnswered
  <2> QED BY <1>4, <1>5, <2>1, <2>2 DEF PushAnswered
<1>6. CASE PushLost(w)
  <2>1. Aside(w) BY <1>1, <1>6, FailAside, KnownCodes DEF PushLost
  <2> QED BY <1>3, <1>6, <2>1 DEF PushLost
<1> QED BY <1>5, <1>6

\* Work that touches neither rows nor pushes.
LEMMA AsideSteps ==
  ASSUME TypeInv, NEW w \in Workers,
         Invoke(w) \/ Quit(w) \/ \E c \in worker[w].todo : Prepare(w, c)
  PROVE  Aside(w) /\ UNCHANGED <<now, queueVars, memberVars, lineVars>>
<1>1. CASE Invoke(w) BY <1>1, InvokeAside DEF Invoke
<1>2. CASE Quit(w) BY <1>2, QuitAside DEF Quit
<1>3. ASSUME NEW c \in worker[w].todo, Prepare(w, c)
      PROVE  Aside(w) /\ UNCHANGED <<now, queueVars, memberVars, lineVars>>
  BY <1>3, PrepareAside DEF Prepare, TypeInv
<1> QED BY <1>1, <1>2, <1>3

LEMMA TakeType ==
  ASSUME TypeInv, NEW r \in PushRequests, Take(r.msg, r.to, r.mode),
         late' \subseteq late
  PROVE  LineInv'
<1>1. r.msg \in Messages /\ r.to \in Accounts /\ r.mode \in Modes BY DEF PushRequests
<1>2. now \in Nat /\ LineInv BY DEF TypeInv
<1>3. CASE UNCHANGED <<key, pushed, used>> BY <1>2, <1>3 DEF LineInv
<1>4. CASE /\ key' = [key EXCEPT ![r.msg] = [at |-> now, to |-> r.to, mode |-> r.mode]]
           /\ pushed' = [pushed EXCEPT ![r.msg] = @ + 1] /\ used' = used + 1
  BY <1>1, <1>2, <1>4 DEF LineInv
<1> QED BY <1>3, <1>4 DEF Take

LEMMA ClosesType ==
  ASSUME QueueInv, NEW m \in Messages, Closes(m) \/ Settle(m, "accepted"),
         UNCHANGED <<attempts, firstAt, recipient>>, nextAt' \in [Messages -> Nat]
  PROVE  QueueInv'
BY SettleType DEF Closes, QueueInv

LEMMA WorkerType ==
  ASSUME TypeInv, NEW w \in Workers, WorkerStep(w)
  PROVE  TypeInv'
<1>0. /\ now \in Nat \ {0} /\ QueueInv /\ MemberInv /\ InvocationInv /\ LineInv
  BY DEF TypeInv
<1> USE DEF TypeInv
<1>1. CASE Invoke(w) \/ Quit(w) \/ \E c \in worker[w].todo : Prepare(w, c)
  <2>1. InvocationInv' BY <1>0, <1>1, AsideSteps, AsideKeeps
  <2> QED
    BY <1>0, <1>1, <2>1, AsideSteps DEF QueueInv, MemberInv, LineInv, queueVars, rowVars,
       memberVars, lineVars
<1>2. CASE Claim(w)
  <2>1. QueueInv' /\ InvocationInv' BY <1>0, <1>2, ClaimStep, AsideKeeps
  <2>2. UNCHANGED <<now, memberVars, lineVars>> BY <1>2 DEF Claim
  <2> QED BY <1>0, <2>1, <2>2 DEF MemberInv, LineInv, memberVars, lineVars
<1>3. CASE Authorize(w)
  <2> DEFINE m == worker[w].msg
  <2>1. /\ m \in Messages /\ worker[w].to \in Accounts
        /\ UNCHANGED <<now, attempts, nextAt, memberVars, lineVars>>
        /\ \/ /\ Aside(w) /\ UNCHANGED <<firstAt, recipient>>
              /\ UNCHANGED <<status, lockedUntil>> \/ Closes(m)
           \/ Granted(w, m)
    BY <1>0, <1>3, AuthorizeStep
  <2>2. CASE Granted(w, m)
    <3>1. InvocationInv' BY <1>0, <1>3, <2>1, <2>2, GrantedPushes DEF Authorize
    <3>2. QueueInv' BY <1>0, <2>1, <2>2 DEF Granted, QueueInv
    <3> QED BY <1>0, <2>1, <3>1, <3>2 DEF MemberInv, LineInv, memberVars, lineVars
  <2>3. CASE /\ Aside(w) /\ UNCHANGED <<firstAt, recipient>>
             /\ UNCHANGED <<status, lockedUntil>> \/ Closes(m)
    <3>1. InvocationInv' BY <1>0, <2>3, AsideKeeps
    <3>2. nextAt' \in [Messages -> Nat] BY <1>0, <2>1 DEF QueueInv
    <3>3. CASE Closes(m)
      <4>1. QueueInv' BY <1>0, <2>1, <2>3, <3>2, <3>3, ClosesType
      <4> QED BY <1>0, <2>1, <3>1, <4>1 DEF MemberInv, LineInv, memberVars, lineVars
    <3>4. CASE UNCHANGED <<status, lockedUntil>>
      <4>1. QueueInv' BY <1>0, <2>1, <2>3, <3>4 DEF QueueInv
      <4> QED BY <1>0, <2>1, <3>1, <4>1 DEF MemberInv, LineInv, memberVars, lineVars
    <3> QED BY <2>3, <3>3, <3>4
  <2> QED BY <2>1, <2>2, <2>3
<1>4. CASE RecordAccepted(w) \/ RecordFailure(w) \/ RecordLost(w)
  <2> DEFINE m == worker[w].msg
  <2>1. /\ m \in Messages /\ Aside(w)
        /\ UNCHANGED <<now, attempts, firstAt, recipient, memberVars, lineVars>>
        /\ \/ UNCHANGED <<status, lockedUntil, nextAt>>
           \/ Settle(m, "accepted") /\ UNCHANGED nextAt
           \/ /\ Closes(m)
              /\ UNCHANGED nextAt \/ (MayRetry(w, m) /\ nextAt' = [nextAt EXCEPT ![m] = RetryAt(m)])
    BY <1>0, <1>4, RecordStep
  <2>2. InvocationInv' BY <1>0, <2>1, AsideKeeps
  <2>3. CASE UNCHANGED <<status, lockedUntil, nextAt>>
    BY <1>0, <2>1, <2>2, <2>3 DEF QueueInv, MemberInv, LineInv, memberVars, lineVars
  <2>4. CASE Settle(m, "accepted") \/ Closes(m)
    <3>1. nextAt' \in [Messages -> Nat]
      <4>1. CASE UNCHANGED nextAt BY <1>0, <4>1 DEF QueueInv
      <4>2. CASE /\ Closes(m) /\ MayRetry(w, m)
                 /\ nextAt' = [nextAt EXCEPT ![m] = RetryAt(m)]
        <5>1. attempts[m] \in 1..MaxAttempts
          BY <1>0, <2>1, <4>2, LineAssumption DEF Closes, QueueInv
        <5>2. RetryAt(m) \in Nat BY <1>0, <5>1, LineAssumption DEF RetryAt
        <5> QED BY <1>0, <4>2, <5>2 DEF QueueInv
      <4>3. CASE UNCHANGED <<status, lockedUntil, nextAt>> BY <1>0, <4>3 DEF QueueInv
      <4> QED BY <2>1, <4>1, <4>2, <4>3
    <3>2. QueueInv' BY <1>0, <2>1, <2>4, <3>1, ClosesType
    <3> QED BY <1>0, <2>1, <2>2, <3>2 DEF MemberInv, LineInv, memberVars, lineVars
  <2> QED BY <2>1, <2>3, <2>4
<1>5. CASE PushAnswered(w) \/ PushLost(w)
  <2> DEFINE r == Request(worker[w])
  <2>1. /\ InvocationInv' /\ r \in PushRequests /\ UNCHANGED <<now, queueVars, memberVars>>
        /\ \/ UNCHANGED <<key, pushed, used>> /\ (late' = late \/ late' = late \cup {r})
           \/ Take(worker[w].msg, worker[w].to, worker[w].mode) /\ UNCHANGED late
    BY <1>0, <1>5, PushStep
  <2>2. LineInv'
    <3>1. CASE UNCHANGED <<key, pushed, used>> /\ (late' = late \/ late' = late \cup {r})
      BY <1>0, <2>1, <3>1 DEF LineInv
    <3>2. CASE Take(worker[w].msg, worker[w].to, worker[w].mode) /\ UNCHANGED late
      <4>1. r.msg = worker[w].msg /\ r.to = worker[w].to /\ r.mode = worker[w].mode
        BY DEF Request
      <4> QED BY <2>1, <3>2, <4>1, TakeType
    <3> QED BY <2>1, <3>1, <3>2
  <2> QED BY <1>0, <2>1, <2>2 DEF QueueInv, MemberInv, queueVars, rowVars, memberVars
<1> QED BY <1>1, <1>2, <1>3, <1>4, <1>5 DEF WorkerStep

LEMMA NextTypeInv == TypeInv /\ [Next]_vars => TypeInv'
<1> SUFFICES ASSUME TypeInv, [Next]_vars PROVE TypeInv'
  OBVIOUS
<1>0. /\ now \in Nat \ {0} /\ QueueInv /\ MemberInv /\ InvocationInv /\ LineInv
  BY DEF TypeInv
<1>1. CASE \/ \E m \in Messages : Insert(m)
           \/ CancelBacklog
  <2>1. QueueInv' BY <1>1, RowsType
  <2>2. UNCHANGED <<now, memberVars, worker, lineVars>> BY <1>1 DEF Insert, CancelBacklog
  <2> QED
    BY <1>0, <2>1, <2>2 DEF TypeInv, MemberInv, InvocationInv, WellFormed, LineInv,
       memberVars, lineVars
<1>2. CASE \/ \E S \in SUBSET Restless : Replace(S)
           \/ \E u \in Restless : DeleteMember(u)
  <2>1. QueueInv' /\ MemberInv' BY <1>2, RowsType, MemberType, LineAssumption
  <2>2. UNCHANGED <<now, worker, lineVars>> BY <1>2 DEF Replace, DeleteMember
  <2> QED BY <1>0, <2>1, <2>2 DEF TypeInv, InvocationInv, WellFormed, LineInv, lineVars
<1>3. CASE \E u \in Restless : ChangeLink(u) \/ ChangeMembership(u)
  <2>1. MemberInv' BY <1>3, MemberType
  <2>2. UNCHANGED <<now, queueVars, worker, lineVars>>
    BY <1>3 DEF ChangeLink, ChangeMembership
  <2> QED
    BY <1>0, <2>1, <2>2 DEF TypeInv, QueueInv, InvocationInv, WellFormed, LineInv,
       queueVars, rowVars, lineVars
<1>4. ASSUME NEW r \in late, LateArrival(r) \/ LateLoss(r) PROVE TypeInv'
  <2>1. r \in PushRequests /\ late' \subseteq late
    BY <1>0, <1>4 DEF LineInv, LateArrival, LateLoss
  <2>2. LineInv' BY <1>0, <1>4, <2>1, TakeType DEF LateArrival, LateLoss, LineInv
  <2>3. UNCHANGED <<now, queueVars, memberVars, worker>>
    BY <1>4 DEF LateArrival, LateLoss
  <2> QED
    BY <1>0, <2>2, <2>3 DEF TypeInv, QueueInv, MemberInv, InvocationInv, WellFormed,
       queueVars, rowVars, memberVars
<1>5. CASE Tick \/ UNCHANGED vars
  BY <1>0, <1>5 DEF Tick, vars, TypeInv, QueueInv, MemberInv, InvocationInv, WellFormed,
     LineInv, queueVars, rowVars, memberVars, lineVars
<1> QED BY <1>1, <1>2, <1>3, <1>4, <1>5, WorkerType, Inserted DEF Next

LEMMA InitTypeInv == Init => TypeInv
<1> SUFFICES ASSUME Init PROVE TypeInv
  OBVIOUS
<1>1. QueueInv BY LineAssumption DEF Init, QueueInv, Statuses, Null
<1>2. MemberInv
  <2>1. Cardinality({}) = 0 BY FS_EmptySet
  <2> QED BY <2>1, LineAssumption DEF Init, MemberInv, Null
<1>3. InvocationInv
  BY IdleWellFormed DEF Init, InvocationInv, WellFormed
<1>4. LineInv BY DEF Init, LineInv, NoKey, Null
<1> QED BY <1>1, <1>2, <1>3, <1>4 DEF Init, TypeInv

\* A message is a test if it was inserted as one.
LEMMA TestsCome ==
  ASSUME [Next]_vars
  PROVE  tests' = tests \/ \E m \in Messages : EnqueueCanaryTest(m)
<1>1. ASSUME NEW w \in Workers, WorkerStep(w) PROVE tests' = tests
  BY <1>1 DEF WorkerStep, Invoke, Claim, Quit, Prepare, Authorize, PushAnswered, PushLost,
     RecordAccepted, RecordFailure, RecordLost, queueVars, rowVars
<1>2. ASSUME \/ \E m \in Messages : Enqueue(m)
             \/ \E S \in SUBSET Restless : Replace(S)
             \/ \E u \in Restless : ChangeLink(u) \/ ChangeMembership(u) \/ DeleteMember(u)
             \/ \E r \in late : LateArrival(r) \/ LateLoss(r)
             \/ CancelBacklog \/ Tick \/ UNCHANGED vars
      PROVE  tests' = tests
  BY <1>2 DEF Enqueue, Replace, ChangeLink, ChangeMembership, DeleteMember, LateArrival,
     LateLoss, CancelBacklog, Tick, vars, queueVars, rowVars
<1> QED BY <1>1, <1>2 DEF Next

\* Every variable keeps its type, the allowlist and the attempts their limits,
\* and the room an invocation counts on is within the month's.
THEOREM TypeCorrect == Spec => []TypeOK
<1>1. Spec => []TypeInv BY InitTypeInv, NextTypeInv, PTL DEF Spec
<1>2. Spec => [](tests \subseteq Messages)
  <2>1. Init => tests \subseteq Messages BY DEF Init
  <2>2. tests \subseteq Messages /\ [Next]_vars => (tests \subseteq Messages)'
    BY TestsCome DEF EnqueueCanaryTest
  <2> QED BY <2>1, <2>2, PTL DEF Spec
<1>3. TypeInv /\ tests \subseteq Messages => TypeOK
  BY DEF TypeInv, TypeOK, QueueInv, MemberInv, InvocationInv, LineInv
<1> QED BY <1>1, <1>2, <1>3, PTL

(***************************************************************************)
(* One push per message.  LINE remembers a retry key for ProviderWindow; a *)
(* push lands before the window of its message's first attempt closes,     *)
(* plus Flight, so it finds the key its message has left there.            *)
(***************************************************************************)

\* What KeyInv and FlightInv speak of besides the invocations.
flightVars == <<now, firstAt, memberVars, key, pushed, late>>

\* A push in the hands of an invocation, or one about to be recorded, is one it
\* had already.
HandsKeep ==
    \A x \in Workers : worker'[x].pc \in {"push", "accept"} => worker'[x] = worker[x]

LEMMA KeepsPush ==
  ASSUME PushInv, TypeInv', UNCHANGED flightVars, HandsKeep
  PROVE  PushInv'
<1>1. KeyInv' BY DEF PushInv, KeyInv, flightVars, Null
<1>2. \A r : Flies(r)' <=> Flies(r)
  BY DEF Flies, Reach, InScope, flightVars, memberVars
<1>3. \A x \in Workers : worker'[x].pc = "push" => Flies(Request(worker'[x]))
  BY DEF PushInv, FlightInv, HandsKeep
<1>4. \A x \in Workers : worker'[x].pc = "push" => Flies(Request(worker[x]))'
  BY <1>2, <1>3 DEF Request, Flies, Reach, InScope, flightVars, memberVars
<1>5. FlightInv' BY <1>2, <1>4 DEF PushInv, FlightInv, flightVars
<1>6. AcceptInv' BY DEF PushInv, AcceptInv, HandsKeep, flightVars
<1> QED BY <1>1, <1>5, <1>6 DEF PushInv

\* A push in flight finds its key, or is the first.
LEMMA TakeOnce ==
  ASSUME PushInv, NEW r \in PushRequests, Flies(r), Take(r.msg, r.to, r.mode),
         UNCHANGED <<now, firstAt>>
  PROVE  /\ KeyInv'
         /\ pushed'[r.msg] = 1
         /\ \A m \in Messages : m # r.msg => pushed'[m] = pushed[m] /\ key'[m] = key[m]
         /\ \/ UNCHANGED <<key, pushed>>
            \/ /\ pushed[r.msg] = 0 /\ pushed' = [pushed EXCEPT ![r.msg] = 1]
               /\ key'[r.msg].to = r.to /\ key'[r.msg].mode = r.mode
<1>1. /\ r.msg \in Messages /\ now \in Nat \ {0} /\ r.by \in Nat
      /\ firstAt \in [Messages -> Nat] /\ pushed \in [Messages -> Nat]
      /\ key \in [Messages -> [at : Nat, to : Accounts \cup {Nobody},
                               mode : Modes \cup {"none"}]]
  BY DEF PushInv, TypeInv, QueueInv, LineInv, PushRequests
<1>2. KeyInv BY DEF PushInv
<1>3. CASE KeyKnown(r.msg)
  <2>1. UNCHANGED <<key, pushed>> BY <1>3 DEF Take
  <2>2. pushed[r.msg] = 1 BY <1>1, <1>2, <1>3 DEF KeyInv, KeyKnown
  <2> QED BY <1>2, <2>1, <2>2 DEF KeyInv
<1>4. CASE ~KeyKnown(r.msg)
  <2>1. key[r.msg].at = Null
    BY <1>1, <1>2, <1>4, LineAssumption DEF KeyInv, Flies, KeyKnown, Null
  <2>2. pushed[r.msg] = 0 BY <1>1, <1>2, <2>1 DEF KeyInv
  <2>3. /\ key' = [key EXCEPT ![r.msg] = [at |-> now, to |-> r.to, mode |-> r.mode]]
        /\ pushed' = [pushed EXCEPT ![r.msg] = @ + 1]
    BY <1>4 DEF Take
  <2>4. /\ key'[r.msg] = [at |-> now, to |-> r.to, mode |-> r.mode]
        /\ pushed' = [pushed EXCEPT ![r.msg] = 1] /\ pushed'[r.msg] = 1
        /\ \A m \in Messages : m # r.msg => pushed'[m] = pushed[m] /\ key'[m] = key[m]
    BY <1>1, <2>2, <2>3
  <2>5. firstAt[r.msg] # Null /\ firstAt[r.msg] <= now BY <1>1, <1>2 DEF Flies, KeyInv
  <2>6. KeyInv'
    BY <1>1, <1>2, <2>4, <2>5 DEF KeyInv, Null
  <2> QED BY <2>2, <2>4, <2>6
<1> QED BY <1>3, <1>4

\* LINE takes a push in flight: no other flight is disturbed, and no invocation
\* that is about to record an earlier one.
LEMMA TakePush ==
  ASSUME PushInv, TypeInv', NEW r \in PushRequests, Flies(r), Take(r.msg, r.to, r.mode),
         UNCHANGED <<now, firstAt, memberVars>>, late' \subseteq late,
         \A x \in Workers : \/ worker'[x] = worker[x]
                            \/ worker'[x].pc \notin {"push", "accept"}
                            \/ worker'[x].pc = "accept" /\ worker'[x].msg = r.msg
  PROVE  PushInv'
<1>1. /\ KeyInv' /\ pushed'[r.msg] = 1
      /\ \A m \in Messages : m # r.msg => pushed'[m] = pushed[m]
  BY TakeOnce
<1>2. \A q : Flies(q)' <=> Flies(q) BY DEF Flies, Reach, InScope, memberVars
<1>3. \A x \in Workers : worker'[x].pc = "push" => Flies(Request(worker[x]))'
  <2> SUFFICES ASSUME NEW x \in Workers, worker'[x].pc = "push"
               PROVE  Flies(Request(worker[x]))'
    OBVIOUS
  <2>1. worker'[x] = worker[x] /\ worker[x].pc = "push" OBVIOUS
  <2>2. Flies(Request(worker[x])) BY <2>1 DEF PushInv, FlightInv
  <2> QED BY <2>1, <2>2 DEF Flies, Request, Reach, InScope, memberVars
<1>4. FlightInv' BY <1>2, <1>3 DEF PushInv, FlightInv
<1>5. AcceptInv'
  <2> SUFFICES ASSUME NEW x \in Workers, worker'[x].pc = "accept"
               PROVE  pushed'[worker'[x].msg] = 1
    BY DEF AcceptInv
  <2>1. CASE worker'[x].msg = r.msg BY <1>1, <2>1
  <2>2. CASE worker'[x].msg # r.msg
    <3>1. worker'[x] = worker[x] BY <2>2
    <3>2. worker[x].msg \in Messages
      BY <3>1 DEF PushInv, TypeInv, InvocationInv, WellFormed, Carrying
    <3> QED BY <1>1, <2>2, <3>1, <3>2 DEF PushInv, AcceptInv
  <2> QED BY <2>1, <2>2
<1> QED BY <1>1, <1>4, <1>5 DEF PushInv

\* The last check starts a flight inside the window, to whom it allows.
LEMMA GrantPush ==
  ASSUME PushInv, TypeInv', NEW w \in Workers, NEW m \in Messages, m = worker[w].msg,
         worker[w].pc = "authorize", Granted(w, m), UNCHANGED <<now, memberVars, lineVars>>
  PROVE  PushInv'
<1>r. PICK r : r = [msg |-> m, to |-> worker[w].to, mode |-> worker[w].mode,
                    by |-> now + Flight]
  OBVIOUS
<1>0. /\ InvocationInv /\ now \in Nat \ {0} /\ firstAt \in [Messages -> Nat] /\ KeyInv
      /\ Flight \in Nat /\ Window \in Nat \ {0}
  BY LineAssumption DEF PushInv, TypeInv, QueueInv
<1>1. /\ worker'[w].pc = "push" /\ Request(worker'[w]) = r
      /\ \A x \in Workers \ {w} : worker'[x] = worker[x]
  BY <1>0, <1>r, GrantedPushes
<1>2. /\ firstAt' = [firstAt EXCEPT ![m] = IF firstAt[m] = Null THEN now ELSE firstAt[m]]
      /\ Permitted(w, m) /\ ~WindowOver(m)
  BY <1>0 DEF Granted, Hopeless
<1>3. \A n \in Messages : firstAt[n] # Null => firstAt'[n] = firstAt[n]
  BY <1>0, <1>2
<1>4. KeyInv'
  BY <1>0, <1>2, <1>3 DEF KeyInv, lineVars, Null
<1>5. \A q : q.msg \in Messages /\ Flies(q) => Flies(q)'
  BY <1>3 DEF Flies, Reach, InScope, memberVars
<1>6. Flies(r)'
  <2>1. r.msg = m /\ r.by = now + Flight /\ Reach(Owner[m]) = r.to /\ InScope(r.mode, Owner[m])
    BY <1>r, <1>2 DEF Permitted
  <2>2. firstAt'[m] # Null /\ now + Flight < firstAt'[m] + Window + Flight
    BY <1>0, <1>2 DEF WindowOver, Null
  <2> QED BY <1>0, <2>1, <2>2 DEF Flies, Reach, InScope, memberVars
<1>7. \A x \in Workers : worker'[x].pc = "push" => Flies(Request(worker[x]))'
  <2> SUFFICES ASSUME NEW x \in Workers, worker'[x].pc = "push"
               PROVE  Flies(Request(worker[x]))'
    OBVIOUS
  <2>1. CASE x = w BY <1>1, <1>6, <2>1 DEF Flies, Request, Reach, InScope, memberVars
  <2>2. CASE x # w
    <3>1. worker'[x] = worker[x] /\ worker[x].pc = "push" BY <1>1, <2>2
    <3>2. Flies(Request(worker[x])) BY <3>1 DEF PushInv, FlightInv
    <3>3. worker[x].msg \in Messages
      BY <1>0, <3>1 DEF InvocationInv, WellFormed, Carrying
    <3> QED BY <1>3, <3>1, <3>2, <3>3 DEF Flies, Request, Reach, InScope, memberVars
  <2> QED BY <2>1, <2>2
<1>8. \A q \in late' : Flies(q)'
  <2>1. late \subseteq PushRequests /\ late' = late
    BY DEF PushInv, TypeInv, LineInv, lineVars
  <2> QED BY <1>5, <2>1 DEF PushInv, FlightInv, PushRequests
<1>9. FlightInv' BY <1>7, <1>8 DEF FlightInv
<1>10. AcceptInv'
  <2> SUFFICES ASSUME NEW x \in Workers, worker'[x].pc = "accept"
               PROVE  pushed'[worker'[x].msg] = 1
    BY DEF AcceptInv
  <2>1. worker'[x] = worker[x] BY <1>1
  <2> QED BY <2>1 DEF PushInv, AcceptInv, lineVars
<1> QED BY <1>4, <1>9, <1>10 DEF PushInv

\* Whoever stops being someone to push to is noted, with the instant.
LEMMA LeavePush ==
  ASSUME PushInv, TypeInv', UNCHANGED <<now, firstAt, key, pushed, late, worker>>,
         \A u \in Users :
            \/ leftAt'[u] = now
            \/ /\ leftAt'[u] = leftAt[u] /\ Reach(u)' = Reach(u)
               /\ \A mode \in Modes : InScope(mode, u) => InScope(mode, u)'
  PROVE  PushInv'
<1>0. now \in Nat /\ late \subseteq PushRequests /\ InvocationInv
  BY DEF PushInv, TypeInv, LineInv
<1>1. \A q \in PushRequests : Flies(q) => Flies(q)'
  <2> SUFFICES ASSUME NEW q \in PushRequests, Flies(q) PROVE Flies(q)'
    OBVIOUS
  <2>1. q.msg \in Messages /\ q.mode \in Modes /\ q.by \in Nat BY DEF PushRequests
  <2>2. PICK u \in Users : u = Owner[q.msg] BY <2>1, LineAssumption
  <2>3. CASE leftAt'[u] = now BY <2>2, <2>3 DEF Flies
  <2>4. CASE /\ leftAt'[u] = leftAt[u] /\ Reach(u)' = Reach(u)
             /\ \A mode \in Modes : InScope(mode, u) => InScope(mode, u)'
    BY <2>1, <2>2, <2>4 DEF Flies
  <2> QED BY <2>3, <2>4
<1>2. \A x \in Workers : worker'[x].pc = "push" => Flies(Request(worker[x]))'
  <2> SUFFICES ASSUME NEW x \in Workers, worker[x].pc = "push"
               PROVE  Flies(Request(worker[x]))'
    OBVIOUS
  <2>1. PICK q : q = Request(worker[x]) OBVIOUS
  <2>2. q \in PushRequests
    BY <1>0, <2>1 DEF InvocationInv, WellFormed, Carrying, Request, PushRequests, Invocations
  <2>3. Flies(q)' BY <1>1, <2>1, <2>2 DEF PushInv, FlightInv
  <2> QED BY <2>1, <2>3 DEF Flies, Request, Reach, InScope
<1>3. FlightInv' BY <1>0, <1>1, <1>2 DEF PushInv, FlightInv
<1>4. KeyInv' /\ AcceptInv' BY DEF PushInv, KeyInv, AcceptInv, Null
<1> QED BY <1>3, <1>4 DEF PushInv

LEMMA MemberPush ==
  ASSUME PushInv, TypeInv',
         \/ \E u \in Users : ChangeLink(u) \/ ChangeMembership(u) \/ DeleteMember(u)
         \/ \E S \in SUBSET Restless : Replace(S)
  PROVE  PushInv'
<1>0. leftAt \in [Users -> Nat] BY DEF PushInv, TypeInv, MemberInv
<1>1. ASSUME NEW u \in Users, ChangeLink(u) \/ ChangeMembership(u) \/ DeleteMember(u)
      PROVE  PushInv'
  <2>1. /\ UNCHANGED <<now, firstAt, key, pushed, late, worker>>
        /\ leftAt' = [leftAt EXCEPT ![u] = now]
    BY <1>1 DEF ChangeLink, ChangeMembership, DeleteMember, queueVars, rowVars, lineVars
  <2>2. ASSUME NEW v \in Users, v # u
        PROVE  /\ Reach(v)' = Reach(v)
               /\ \A mode \in Modes : InScope(mode, v) => InScope(mode, v)'
    <3>1. CASE ChangeLink(u)
      BY <2>2, <3>1 DEF ChangeLink, Reach, InScope, PushInv, TypeInv, MemberInv
    <3>2. CASE ChangeMembership(u)
      BY <2>2, <3>2 DEF ChangeMembership, Reach, InScope, PushInv, TypeInv, MemberInv
    <3>3. CASE DeleteMember(u)
      BY <2>2, <3>3 DEF DeleteMember, Reach, InScope, PushInv, TypeInv, MemberInv
    <3> QED BY <1>1, <3>1, <3>2, <3>3
  <2> QED BY <1>0, <2>1, <2>2, LeavePush
<1>2. ASSUME NEW S \in SUBSET Restless, Replace(S) PROVE PushInv'
  <2>1. /\ UNCHANGED <<now, firstAt, key, pushed, late, worker, member, link>>
        /\ allowlist' = S
        /\ leftAt' = [u \in Users |-> IF u \in allowlist \ S THEN now ELSE leftAt[u]]
    BY <1>2 DEF Replace, rowVars, lineVars
  <2> QED BY <2>1, LeavePush DEF Reach, InScope
<1> QED BY <1>1, <1>2

\* A tick passes no deadline of a push.
LEMMA TickPush ==
  ASSUME PushInv, TypeInv', Tick
  PROVE  PushInv'
<1>0. /\ now \in Nat \ {0} /\ firstAt \in [Messages -> Nat] /\ late \subseteq PushRequests
      /\ InvocationInv /\ LineInv
  BY DEF PushInv, TypeInv, QueueInv, LineInv
<1>1. KeyInv'
  BY <1>0 DEF Tick, PushInv, KeyInv, queueVars, rowVars, lineVars, LineInv
<1>2. \A q \in PushRequests : Flies(q) /\ now < q.by => Flies(q)'
  <2> SUFFICES ASSUME NEW q \in PushRequests, Flies(q), now < q.by PROVE Flies(q)'
    OBVIOUS
  <2>1. q.by \in Nat BY DEF PushRequests
  <2>2. now' = now + 1 /\ UNCHANGED <<firstAt, memberVars>>
    BY DEF Tick, queueVars, rowVars
  <2>3. now' <= q.by /\ q.by <= now' + Flight
    BY <1>0, <2>1, <2>2, LineAssumption DEF Flies
  <2> QED BY <2>2, <2>3 DEF Flies, Reach, InScope, memberVars
<1>3. \A x \in Workers : worker'[x].pc = "push" => Flies(Request(worker[x]))'
  <2> SUFFICES ASSUME NEW x \in Workers, worker'[x].pc = "push"
               PROVE  Flies(Request(worker[x]))'
    OBVIOUS
  <2>1. PICK q : q = Request(worker[x]) OBVIOUS
  <2>2. worker' = worker BY DEF Tick
  <2>3. q \in PushRequests
    BY <1>0, <2>1, <2>2 DEF InvocationInv, WellFormed, Carrying, Request, PushRequests,
       Invocations
  <2>4. Flies(q) BY <2>1, <2>2 DEF PushInv, FlightInv
  <2>5. worker[x].by = q.by /\ q.by # Null
    BY <1>0, <2>1, <2>4 DEF Request, Flies, Null
  <2>6. now < q.by BY <2>5 DEF Tick
  <2>7. Flies(q)' BY <1>2, <2>3, <2>4, <2>6
  <2> QED BY <2>1, <2>2, <2>7 DEF Flies, Request, Reach, InScope
<1>4. FlightInv' BY <1>0, <1>2, <1>3 DEF Tick, PushInv, FlightInv, lineVars
<1>5. AcceptInv' BY DEF Tick, PushInv, AcceptInv, lineVars
<1> QED BY <1>1, <1>4, <1>5 DEF PushInv

\* The part of a step in which LINE takes a push, whoever it comes from.
Takes(r) ==
    /\ r \in PushRequests /\ Flies(r)
    /\ Take(r.msg, r.to, r.mode)
    /\ UNCHANGED <<now, queueVars, memberVars>> /\ late' \subseteq late

\* A worker's steps: one has its push taken, the last check lets one push, and
\* the others leave the pushes alone.
LEMMA WorkerPush ==
  ASSUME PushInv, TypeInv', NEW w \in Workers, WorkerStep(w)
  PROVE  PushInv' /\ (UNCHANGED <<key, pushed>> \/ \E r : Takes(r))
<1>0. InvocationInv /\ TypeInv BY DEF PushInv, TypeInv
<1>1. ASSUME Aside(w), UNCHANGED flightVars
      PROVE  PushInv' /\ UNCHANGED <<key, pushed>>
  BY <1>0, <1>1, AsideKeeps, KeepsPush DEF HandsKeep, flightVars
<1>2. CASE \/ Invoke(w) \/ Quit(w) \/ \E c \in worker[w].todo : Prepare(w, c)
           \/ RecordAccepted(w) \/ RecordFailure(w) \/ RecordLost(w)
  BY <1>0, <1>1, <1>2, AsideSteps, RecordStep DEF flightVars, queueVars, rowVars, lineVars
<1>3. CASE Claim(w)
  BY <1>0, <1>1, <1>3, ClaimStep DEF Claim, flightVars, lineVars
<1>4. CASE Authorize(w)
  <2>1. /\ worker[w].msg \in Messages /\ UNCHANGED <<now, memberVars, lineVars>>
        /\ (Aside(w) /\ UNCHANGED firstAt) \/ Granted(w, worker[w].msg)
    BY <1>0, <1>4, AuthorizeStep
  <2>2. worker[w].pc = "authorize" BY <1>4 DEF Authorize
  <2> QED BY <1>1, <2>1, <2>2, GrantPush DEF flightVars, lineVars
<1>5. CASE PushAnswered(w) \/ PushLost(w)
  <2>1. PICK r : r = Request(worker[w]) OBVIOUS
  <2>2. /\ worker[w].pc = "push" /\ r \in PushRequests
        /\ UNCHANGED <<now, queueVars, memberVars>>
        /\ \A x \in Workers : x # w => worker'[x] = worker[x]
        /\ \/ /\ Aside(w) /\ UNCHANGED <<key, pushed, used>>
              /\ late' = late \/ late' = late \cup {r}
           \/ /\ Take(r.msg, r.to, r.mode) /\ UNCHANGED late
              /\ \/ Aside(w)
                 \/ worker'[w].pc = "accept" /\ worker'[w].msg = r.msg
    <3>1. r.msg = worker[w].msg /\ r.to = worker[w].to /\ r.mode = worker[w].mode
      BY <2>1 DEF Request
    <3> QED BY <1>0, <1>5, <2>1, <3>1, PushStep
  <2>3. Flies(r) BY <2>1, <2>2 DEF PushInv, FlightInv
  <2>4. CASE Take(r.msg, r.to, r.mode) /\ UNCHANGED late
             /\ (Aside(w) \/ (worker'[w].pc = "accept" /\ worker'[w].msg = r.msg))
    <3>1. Takes(r) BY <2>2, <2>3, <2>4 DEF Takes
    <3>2. \A x \in Workers : \/ worker'[x] = worker[x]
                             \/ worker'[x].pc \notin {"push", "accept"}
                             \/ worker'[x].pc = "accept" /\ worker'[x].msg = r.msg
      BY <1>0, <2>2, <2>4, AsideKeeps
    <3>3. PushInv' BY <2>2, <2>3, <2>4, <3>2, TakePush DEF queueVars, rowVars
    <3> QED BY <3>1, <3>3
  <2>5. CASE Aside(w) /\ UNCHANGED <<key, pushed, used>> /\ late' = late
    BY <1>1, <2>2, <2>5 DEF flightVars, queueVars, rowVars
  <2>6. CASE Aside(w) /\ UNCHANGED <<key, pushed, used>> /\ late' = late \cup {r}
    <3>1. \A x \in Workers : worker'[x].pc \in {"push", "accept"} => worker'[x] = worker[x]
      BY <1>0, <2>6, AsideKeeps
    <3>2. UNCHANGED <<now, firstAt, memberVars, key, pushed>>
      BY <2>2, <2>6 DEF queueVars, rowVars
    <3>3. \A q : Flies(q)' <=> Flies(q)
      BY <3>2 DEF Flies, Reach, InScope, memberVars
    <3>4. \A x \in Workers : worker'[x].pc = "push" => Flies(Request(worker[x]))'
      <4> SUFFICES ASSUME NEW x \in Workers, worker'[x].pc = "push"
                   PROVE  Flies(Request(worker[x]))'
        OBVIOUS
      <4>1. worker'[x] = worker[x] /\ Flies(Request(worker[x]))
        BY <3>1 DEF PushInv, FlightInv
      <4> QED BY <3>2, <4>1 DEF Flies, Request, Reach, InScope, memberVars
    <3>5. FlightInv' BY <2>3, <2>6, <3>3, <3>4 DEF PushInv, FlightInv
    <3>6. KeyInv' /\ AcceptInv' BY <3>1, <3>2 DEF PushInv, KeyInv, AcceptInv, Null
    <3> QED BY <2>6, <3>5, <3>6 DEF PushInv
  <2> QED BY <2>2, <2>4, <2>5, <2>6
<1> QED BY <1>2, <1>3, <1>4, <1>5 DEF WorkerStep

LEMMA NextPush ==
  ASSUME PushInv, [Next]_vars
  PROVE  PushInv' /\ (UNCHANGED <<key, pushed>> \/ \E r : Takes(r))
<1>0. TypeInv /\ TypeInv' BY NextTypeInv DEF PushInv
<1>1. CASE (\E m \in Messages : Insert(m)) \/ CancelBacklog \/ UNCHANGED vars
  BY <1>0, <1>1, KeepsPush DEF Insert, CancelBacklog, vars, HandsKeep, flightVars, rowVars,
     queueVars, lineVars
<1>2. CASE \/ \E u \in Restless : ChangeLink(u) \/ ChangeMembership(u) \/ DeleteMember(u)
           \/ \E S \in SUBSET Restless : Replace(S)
  BY <1>0, <1>2, MemberPush, LineAssumption
     DEF ChangeLink, ChangeMembership, DeleteMember, Replace, lineVars
<1>3. ASSUME NEW r \in late, LateArrival(r) \/ LateLoss(r)
      PROVE  PushInv' /\ (UNCHANGED <<key, pushed>> \/ \E q : Takes(q))
  <2>1. r \in PushRequests /\ Flies(r) /\ late' \subseteq late
    BY <1>0, <1>3 DEF PushInv, FlightInv, TypeInv, LineInv, LateArrival, LateLoss
  <2>2. UNCHANGED <<now, queueVars, memberVars, worker>> BY <1>3 DEF LateArrival, LateLoss
  <2>3. CASE LateArrival(r)
    <3>1. Take(r.msg, r.to, r.mode) BY <2>3 DEF LateArrival
    <3>2. Takes(r) BY <2>1, <2>2, <3>1 DEF Takes
    <3>3. PushInv' BY <1>0, <2>1, <2>2, <3>1, TakePush DEF queueVars, rowVars
    <3> QED BY <3>2, <3>3
  <2>4. CASE LateLoss(r)
    <3>1. UNCHANGED <<key, pushed>> BY <2>4 DEF LateLoss
    <3>2. UNCHANGED <<now, firstAt, memberVars>> BY <2>2 DEF queueVars, rowVars
    <3>3. \A q : Flies(q)' <=> Flies(q)
      BY <3>2 DEF Flies, Reach, InScope, memberVars
    <3>4. \A x \in Workers : Flies(Request(worker[x]))' <=> Flies(Request(worker[x]))
      BY <2>2, <3>2 DEF Flies, Request, Reach, InScope, memberVars
    <3>5. FlightInv' BY <2>1, <2>2, <3>3, <3>4 DEF PushInv, FlightInv
    <3>6. KeyInv' /\ AcceptInv'
      BY <2>2, <3>1, <3>2 DEF PushInv, KeyInv, AcceptInv, Null
    <3> QED BY <1>0, <3>1, <3>5, <3>6 DEF PushInv
  <2> QED BY <1>3, <2>3, <2>4
<1>4. CASE Tick BY <1>0, <1>4, TickPush DEF Tick, lineVars
<1> QED BY <1>0, <1>1, <1>2, <1>3, <1>4, WorkerPush, Inserted DEF Next

LEMMA PushInvariant == Spec => []PushInv
<1>1. Init => PushInv
  BY InitTypeInv, IdleWellFormed DEF Init, PushInv, KeyInv, FlightInv, AcceptInv, NoKey, Null
<1>2. PushInv /\ [Next]_vars => PushInv' BY NextPush
<1> QED BY <1>1, <1>2, PTL DEF Spec

\* A push goes where the last check allowed, or was let go at most Flight before.
THEOREM PushesStayInScope == Spec => PushInScope
<1> DEFINE InReach == \A m \in Messages : pushed'[m] > pushed[m] =>
              \/ /\ Reach(Owner[m]) = key'[m].to
                 /\ InScope(key'[m].mode, Owner[m])
              \/ now <= leftAt[Owner[m]] + Flight
<1>1. ASSUME PushInv, [Next]_vars PROVE InReach
  <2>0. pushed \in [Messages -> Nat] BY <1>1 DEF PushInv, TypeInv, LineInv
  <2>1. CASE UNCHANGED <<key, pushed>> BY <2>0, <2>1
  <2>2. ASSUME NEW r, Takes(r) PROVE InReach
    <3>1. /\ \A m \in Messages : m # r.msg => pushed'[m] = pushed[m]
          /\ \/ UNCHANGED <<key, pushed>>
             \/ key'[r.msg].to = r.to /\ key'[r.msg].mode = r.mode
      BY <1>1, <2>2, TakeOnce DEF Takes, queueVars, rowVars
    <3>2. CASE UNCHANGED <<key, pushed>> BY <2>0, <3>2
    <3>3. CASE key'[r.msg].to = r.to /\ key'[r.msg].mode = r.mode
      <4>1. \/ Reach(Owner[r.msg]) = r.to /\ InScope(r.mode, Owner[r.msg])
            \/ r.by <= leftAt[Owner[r.msg]] + Flight
        BY <2>2 DEF Takes, Flies
      <4>2. r.by <= leftAt[Owner[r.msg]] + Flight => now <= leftAt[Owner[r.msg]] + Flight
        <5>1. r.msg \in Messages /\ r.by \in Nat /\ now <= r.by
          BY <2>2 DEF Takes, PushRequests, Flies
        <5>2. leftAt[Owner[r.msg]] \in Nat /\ now \in Nat /\ Flight \in Nat
          BY <1>1, <5>1, LineAssumption DEF PushInv, TypeInv, MemberInv
        <5> QED BY <5>1, <5>2
      <4> QED BY <2>0, <3>1, <3>3, <4>1, <4>2
    <3> QED BY <3>1, <3>2, <3>3
  <2> QED BY <1>1, <2>1, <2>2, NextPush
<1> QED BY <1>1, PushInvariant, PTL DEF Spec, PushInScope

(***************************************************************************)
(* The queue keeps to the allowlist.                                       *)
(***************************************************************************)

\* What an invocation does to rows: one closes, or is accepted, or a claim moves
\* and settles some.  A row that waits moves only with a claim that covers it.
LEMMA WorkerRows ==
  ASSUME TypeInv, NEW w \in Workers, WorkerStep(w)
  PROVE  /\ UNCHANGED allowlist
         /\ \A m \in Messages : status'[m] \in Open => status[m] \in Open
         /\ \A m \in Messages :
               \/ status[m] # "pending"
               \/ InScope(worker[w].mode, Owner[m])
               \/ status'[m] = status[m] /\ attempts'[m] = attempts[m]
<1>0. InvocationInv /\ QueueInv BY DEF TypeInv
<1>1. ASSUME NEW m \in Messages, Closes(m) \/ (status[m] = "processing" /\ Settle(m, "accepted"))
      PROVE  /\ \A n \in Messages : status'[n] \in Open => status[n] \in Open
             /\ \A n \in Messages : status[n] = "pending" => status'[n] = status[n]
  BY <1>0, <1>1 DEF Closes, Settle, Open, QueueInv
<1>2. CASE Invoke(w) \/ Quit(w) \/ \E c \in worker[w].todo : Prepare(w, c)
  BY <1>2, AsideSteps DEF queueVars, rowVars, memberVars
<1>3. CASE Claim(w)
  <2>1. ASSUME NEW m \in Messages, ~InScope(worker[w].mode, Owner[m])
        PROVE  status'[m] = status[m] /\ attempts'[m] = attempts[m]
    <3>1. m \notin Cancellable(worker[w].mode) /\ m \notin Serviceable(worker[w].mode)
      BY <2>1 DEF Cancellable, Serviceable
    <3>2. m \notin Exhausted(worker[w].mode) /\ m \notin Claimable(worker[w].mode)
      BY <3>1 DEF Exhausted, Claimable
    <3> QED BY <1>3, <3>1, <3>2, BatchesAreSubsets DEF Claim
  <2> QED BY <1>3, <2>1, ClaimStep DEF Claim, memberVars, Open
<1>4. CASE Authorize(w)
  BY <1>0, <1>1, <1>4, AuthorizeStep DEF Granted, memberVars
<1>5. CASE RecordAccepted(w) \/ RecordFailure(w) \/ RecordLost(w)
  BY <1>0, <1>1, <1>5, RecordStep DEF memberVars
<1>6. CASE PushAnswered(w) \/ PushLost(w)
  BY <1>0, <1>6, PushStep DEF queueVars, rowVars, memberVars
<1> QED BY <1>2, <1>3, <1>4, <1>5, <1>6 DEF WorkerStep

\* A message that no invocation has had in hand, of the operator's.
IdleTest(m) == m \in tests /\ status[m] = "pending" /\ attempts[m] = 0

\* A row that stays as it is keeps to the allowlist while the list does not shrink.
LEMMA StaysListed ==
  ASSUME TypeInv, QueueKeepsToAllowlist, Modes = {"allowlist"}, NEW m \in Messages,
         status'[m] \in Open, status'[m] = status[m], attempts'[m] = attempts[m],
         tests \subseteq tests', allowlist' = allowlist, Owner[m] \notin allowlist'
  PROVE  IdleTest(m)'
BY DEF QueueKeepsToAllowlist, IdleTest

\* A row that was never inserted was never attempted.
FreshInv == \A m \in Messages : status[m] = "absent" => attempts[m] = 0

LEMMA NextFresh ==
  ASSUME TypeInv, [Next]_vars, FreshInv
  PROVE  FreshInv'
<1> SUFFICES ASSUME NEW m \in Messages, status'[m] = "absent" PROVE attempts'[m] = 0
  BY DEF FreshInv
<1>0. status \in [Messages -> Statuses] /\ InvocationInv /\ QueueInv
  BY DEF TypeInv, QueueInv
<1>1. CASE \/ \E n \in Messages : Insert(n)
           \/ \E S \in SUBSET Restless : Replace(S)
           \/ \E u \in Restless : ChangeLink(u) \/ ChangeMembership(u) \/ DeleteMember(u)
           \/ \E r \in late : LateArrival(r) \/ LateLoss(r)
           \/ CancelBacklog \/ Tick \/ UNCHANGED vars
  <2>1. status[m] = "absent"
    BY <1>0, <1>1 DEF Insert, Replace, CancelRows, ChangeLink, ChangeMembership,
       DeleteMember, LateArrival, LateLoss, CancelBacklog, Tick, vars, queueVars
  <2>2. attempts' = attempts
    BY <1>1 DEF Insert, Replace, ChangeLink, ChangeMembership, DeleteMember, LateArrival,
       LateLoss, CancelBacklog, Tick, vars, queueVars, rowVars
  <2> QED BY <2>1, <2>2 DEF FreshInv
<1>2. ASSUME NEW w \in Workers, WorkerStep(w) PROVE attempts'[m] = 0
  <2>1. ASSUME NEW n \in Messages, \/ Closes(n)
                                    \/ Settle(n, "accepted")
        PROVE  status[m] = "absent"
    BY <1>0, <2>1 DEF Closes, Settle
  <2>2. CASE Claim(w)
    <3>1. status[m] = "absent" /\ m \notin Claimable(worker[w].mode)
      <4>1. status[m] = "absent" BY <2>2, ClaimStep DEF Open
      <4> QED BY <4>1 DEF Claimable, Serviceable, Released
    <3>2. attempts'[m] = attempts[m] BY <2>2, <3>1, BatchesAreSubsets DEF Claim
    <3> QED BY <3>1, <3>2 DEF FreshInv
  <2>3. CASE Invoke(w) \/ Quit(w) \/ \E c \in worker[w].todo : Prepare(w, c)
    BY <2>3, AsideSteps DEF queueVars, rowVars, FreshInv
  <2>4. CASE Authorize(w) BY <1>0, <2>1, <2>4, AuthorizeStep DEF Granted, FreshInv
  <2>5. CASE RecordAccepted(w) \/ RecordFailure(w) \/ RecordLost(w)
    BY <1>0, <2>1, <2>5, RecordStep DEF FreshInv
  <2>6. CASE PushAnswered(w) \/ PushLost(w)
    BY <1>0, <2>6, PushStep DEF queueVars, rowVars, FreshInv
  <2> QED BY <1>2, <2>2, <2>3, <2>4, <2>5, <2>6 DEF WorkerStep
<1> QED BY <1>1, <1>2, Inserted DEF Next

LEMMA NextListed ==
  ASSUME TypeInv, [Next]_vars, FreshInv, QueueKeepsToAllowlist
  PROVE  QueueKeepsToAllowlist'
<1> SUFFICES ASSUME Modes = {"allowlist"}, NEW m \in Messages, status'[m] \in Open,
                    Owner[m] \notin allowlist'
             PROVE  IdleTest(m)'
  BY DEF QueueKeepsToAllowlist, IdleTest
<1>0. /\ status \in [Messages -> Statuses] /\ lockedUntil \in [Messages -> Nat] /\ now \in Nat
      /\ attempts \in [Messages -> 0..MaxAttempts]
      /\ status[m] \in Open => Owner[m] \in allowlist \/ IdleTest(m)
      /\ tests \subseteq tests'
  BY TestsCome DEF TypeInv, QueueInv, QueueKeepsToAllowlist, EnqueueCanaryTest, IdleTest
<1>1. ASSUME NEW n \in Messages, Enqueue(n) \/ EnqueueCanaryTest(n) PROVE IdleTest(m)'
  <2>1. allowlist' = allowlist /\ attempts' = attempts /\ Insert(n)
    BY <1>1, Inserted DEF Insert, memberVars
  <2>2. CASE m # n
    <3>1. status'[m] = status[m] BY <1>0, <2>1, <2>2 DEF Insert
    <3> QED BY <1>0, <2>1, <3>1, StaysListed
  <2>3. CASE m = n
    <3>1. ~Enqueue(n) BY <2>1, <2>3 DEF Enqueue, InScope
    <3>2. m \in tests' /\ status'[m] = "pending" /\ attempts[m] = 0
      BY <1>0, <1>1, <2>1, <2>3, <3>1 DEF EnqueueCanaryTest, Insert, FreshInv
    <3> QED BY <2>1, <3>2 DEF IdleTest
  <2> QED BY <2>2, <2>3
<1>2. ASSUME NEW S \in SUBSET Restless, Replace(S) PROVE IdleTest(m)'
  <2>1. status[m] \in Open BY <1>0, <1>2 DEF Replace, CancelRows, Open
  <2>2. Released(m)
    BY <1>0, <1>2, <2>1 DEF Replace, Replaceable, Released, Leased, Open
  <2>3. Owner[m] \in S BY <1>2, <2>2 DEF Replace, CancelRows, Open
  <2> QED BY <1>2, <2>3 DEF Replace
<1>3. ASSUME NEW u \in Users, DeleteMember(u) PROVE IdleTest(m)'
  <2>1. Owner[m] # u /\ status[m] \in Open /\ status'[m] = status[m]
    BY <1>0, <1>3 DEF DeleteMember, Open
  <2>2. IdleTest(m) /\ attempts' = attempts
    BY <1>0, <1>3, <2>1 DEF DeleteMember, rowVars
  <2> QED BY <1>0, <2>1, <2>2 DEF IdleTest
<1>4. CASE \/ CancelBacklog \/ Tick \/ UNCHANGED vars
           \/ \E u \in Restless : ChangeLink(u) \/ ChangeMembership(u)
           \/ \E r \in late : LateArrival(r) \/ LateLoss(r)
  <2>1. UNCHANGED <<allowlist, attempts>>
    BY <1>4 DEF CancelBacklog, Tick, vars, ChangeLink, ChangeMembership, LateArrival,
       LateLoss, memberVars, queueVars, rowVars
  <2>2. status'[m] = status[m]
    <3>1. CASE CancelBacklog BY <3>1 DEF CancelBacklog, CancelRows, Open
    <3>2. CASE UNCHANGED status BY <3>2
    <3> QED
      BY <1>4, <3>1, <3>2 DEF Tick, vars, ChangeLink, ChangeMembership, LateArrival,
         LateLoss, queueVars
  <2> QED BY <1>0, <2>1, <2>2, StaysListed
<1>5. ASSUME NEW w \in Workers, WorkerStep(w) PROVE IdleTest(m)'
  <2>1. /\ allowlist' = allowlist /\ status[m] \in Open
        /\ \/ status[m] # "pending"
           \/ InScope(worker[w].mode, Owner[m])
           \/ status'[m] = status[m] /\ attempts'[m] = attempts[m]
    BY <1>5, WorkerRows
  <2>2. IdleTest(m) BY <1>0, <2>1
  <2>3. ~InScope(worker[w].mode, Owner[m])
    <3>1. worker[w].mode \in {"allowlist", "none"}
      BY DEF TypeInv, InvocationInv, Invocations
    <3> QED BY <2>1, <3>1 DEF InScope
  <2> QED BY <1>0, <2>1, <2>2, <2>3 DEF IdleTest
<1> QED BY <1>1, <1>2, <1>3, <1>4, <1>5, LineAssumption DEF Next

\* Under the allowlist, an open message of a member who is not on it is a test
\* text that no invocation has had in hand.
THEOREM QueueStaysListed == Spec => []QueueKeepsToAllowlist
<1>1. Init => FreshInv /\ QueueKeepsToAllowlist
  BY DEF Init, FreshInv, QueueKeepsToAllowlist, Open
<1>2. Spec => []TypeInv BY InitTypeInv, NextTypeInv, PTL DEF Spec
<1>3. TypeInv /\ [Next]_vars /\ FreshInv /\ QueueKeepsToAllowlist
        => FreshInv' /\ QueueKeepsToAllowlist'
  BY NextFresh, NextListed
<1> QED BY <1>1, <1>2, <1>3, PTL DEF Spec

(***************************************************************************)
(* The queue is an Outbox: each step is one of the Outbox's, or none.      *)
(***************************************************************************)

LEMMA SamePhases ==
  ASSUME UNCHANGED <<status, firstAt, pushed>>
  PROVE  UNCHANGED Box!vars
BY DEF Box!vars, Phase

\* Rows of S are dropped; a claim or a retry moves others between open statuses.
LEMMA DropRows ==
  ASSUME NEW S \in SUBSET Messages, UNCHANGED <<firstAt, pushed>>,
         \A m \in S : status[m] \in Open /\ status'[m] \in {"cancelled", "failed_permanent"},
         \A m \in Messages \ S :
            status'[m] = status[m] \/ (status[m] \in Open /\ status'[m] \in Open)
  PROVE  Box!Next
<1>1. \A m \in Messages : Phase(m)' = IF m \in S THEN "dropped" ELSE Phase(m)
  BY DEF Phase, Open
<1>2. \A m \in S : Phase(m) = "open" BY DEF Phase, Open
<1>3. Box!Drop(S) BY <1>1, <1>2 DEF Box!Drop
<1> QED BY <1>3 DEF Box!Next

LEMMA CloseBox ==
  ASSUME QueueInv, NEW m \in Messages, Closes(m), UNCHANGED <<firstAt, pushed>>
  PROVE  Box!Next
<1>1. PICK s \in {"cancelled", "failed_permanent", "retry_wait"} :
         \A n \in Messages : status'[n] = IF n = m THEN s ELSE status[n]
  BY DEF Closes, Settle, QueueInv
<1>2. status[m] \in Open BY DEF Closes, Open
<1> DEFINE S == IF s = "retry_wait" THEN {} ELSE {m}
<1>3. S \in SUBSET Messages OBVIOUS
<1>4. \A n \in S : status[n] \in Open /\ status'[n] \in {"cancelled", "failed_permanent"}
  BY <1>1, <1>2
<1>5. \A n \in Messages \ S :
         status'[n] = status[n] \/ (status[n] \in Open /\ status'[n] \in Open)
  BY <1>1, <1>2 DEF Open
<1> HIDE DEF S
<1> QED BY <1>3, <1>4, <1>5, DropRows

\* The last check clears a message of the queue.
LEMMA GrantBox ==
  ASSUME TypeInv, NEW w \in Workers, NEW m \in Messages, Granted(w, m), UNCHANGED pushed
  PROVE  Box!Next
<1>1. /\ firstAt' = [firstAt EXCEPT ![m] = IF firstAt[m] = Null THEN now ELSE firstAt[m]]
      /\ status' = status /\ status[m] = "processing"
  BY DEF Granted, HoldsLease
<1>2. now # Null /\ firstAt \in [Messages -> Nat] BY DEF TypeInv, QueueInv, Null
<1>3. {n \in Messages : firstAt'[n] # Null} = {n \in Messages : firstAt[n] # Null} \cup {m}
  BY <1>1, <1>2
<1>4. Phase(m) = "open" /\ \A n : Phase(n)' = Phase(n) BY <1>1 DEF Phase, Open
<1>5. Box!Clear(m) BY <1>3, <1>4 DEF Box!Clear
<1> QED BY <1>5 DEF Box!Next

LEMMA TakeBox ==
  ASSUME PushInv, NEW r, Takes(r)
  PROVE  Box!Next \/ UNCHANGED Box!vars
<1>1. r.msg \in Messages /\ firstAt[r.msg] # Null /\ UNCHANGED <<status, firstAt>>
  BY DEF Takes, Flies, PushRequests, queueVars, rowVars
<1>2. \/ UNCHANGED pushed
      \/ pushed[r.msg] = 0 /\ pushed' = [pushed EXCEPT ![r.msg] = 1]
  BY <1>1, TakeOnce DEF Takes
<1>3. CASE pushed[r.msg] = 0 /\ pushed' = [pushed EXCEPT ![r.msg] = 1]
  <2>1. PICK m \in Messages : m = r.msg BY <1>1
  <2>2. \A n : Phase(n)' = Phase(n) BY <1>1 DEF Phase
  <2>3. Box!Deliver(m) BY <1>1, <1>3, <2>1, <2>2 DEF Box!Deliver
  <2> QED BY <2>3 DEF Box!Next
<1> QED BY <1>1, <1>2, <1>3, SamePhases

\* Only what LINE took is recorded as accepted.
LEMMA AcceptBox ==
  ASSUME PushInv, NEW w \in Workers, worker[w].pc = "accept", NEW m \in Messages,
         m = worker[w].msg, status[m] = "processing", Settle(m, "accepted"),
         UNCHANGED <<firstAt, pushed>>
  PROVE  Box!Next
<1>1. pushed[m] = 1 BY DEF PushInv, AcceptInv
<1>2. \A n \in Messages : status'[n] = IF n = m THEN "accepted" ELSE status[n]
  BY DEF Settle, PushInv, TypeInv, QueueInv
<1>3. \A n \in Messages : Phase(n)' = IF n = m THEN "confirmed" ELSE Phase(n)
  BY <1>2 DEF Phase, Open
<1>4. Phase(m) = "open" BY DEF Phase, Open
<1>5. Box!Confirm(m) BY <1>1, <1>3, <1>4 DEF Box!Confirm
<1> QED BY <1>5 DEF Box!Next

LEMMA WorkerBox ==
  ASSUME PushInv, [Next]_vars, NEW w \in Workers, WorkerStep(w)
  PROVE  Box!Next \/ UNCHANGED Box!vars
<1>0. TypeInv /\ TypeInv' /\ InvocationInv /\ QueueInv BY NextTypeInv DEF PushInv, TypeInv
<1>1. CASE Invoke(w) \/ Quit(w) \/ \E c \in worker[w].todo : Prepare(w, c)
  BY <1>0, <1>1, AsideSteps, SamePhases DEF queueVars, rowVars, lineVars
<1>2. CASE Claim(w)
  BY <1>0, <1>2, ClaimStep, DropRows DEF Claim, lineVars
<1>3. CASE Authorize(w)
  <2>1. /\ worker[w].msg \in Messages /\ UNCHANGED pushed
        /\ \/ UNCHANGED firstAt /\ (UNCHANGED status \/ Closes(worker[w].msg))
           \/ Granted(w, worker[w].msg)
    BY <1>0, <1>3, AuthorizeStep DEF lineVars
  <2>2. PICK m \in Messages : m = worker[w].msg BY <2>1
  <2> QED BY <1>0, <2>1, <2>2, CloseBox, GrantBox, SamePhases
<1>4. CASE RecordAccepted(w) \/ RecordFailure(w) \/ RecordLost(w)
  <2>1. /\ worker[w].msg \in Messages /\ UNCHANGED <<firstAt, pushed>>
        /\ \/ UNCHANGED status
           \/ /\ worker[w].pc = "accept" /\ status[worker[w].msg] = "processing"
              /\ Settle(worker[w].msg, "accepted")
           \/ Closes(worker[w].msg)
    BY <1>0, <1>4, RecordStep DEF lineVars
  <2>2. PICK m \in Messages : m = worker[w].msg BY <2>1
  <2> QED BY <1>0, <2>1, <2>2, CloseBox, AcceptBox, SamePhases
<1>5. CASE PushAnswered(w) \/ PushLost(w)
  <2>1. UNCHANGED <<status, firstAt>>
    BY <1>0, <1>5, PushStep DEF queueVars, rowVars
  <2>2. UNCHANGED <<key, pushed>> \/ \E r : Takes(r) BY <1>0, <1>5, WorkerPush
  <2> QED BY <2>1, <2>2, SamePhases, TakeBox
<1> QED BY <1>1, <1>2, <1>3, <1>4, <1>5 DEF WorkerStep

\* The queue's rows come with an enqueue, are cancelled, and go with their member.
LEMMA RowsBox ==
  ASSUME TypeInv, \/ \E m \in Messages : Insert(m)
                  \/ \E S \in SUBSET Restless : Replace(S)
                  \/ CancelBacklog \/ \E u \in Users : DeleteMember(u)
  PROVE  Box!Next
<1>0. status \in [Messages -> Statuses] BY DEF TypeInv, QueueInv
<1>1. ASSUME NEW m \in Messages, Insert(m) PROVE Box!Next
  <2>1. /\ UNCHANGED <<firstAt, pushed>> /\ status[m] = "absent"
        /\ \A n \in Messages : status'[n] = IF n = m THEN "pending" ELSE status[n]
    BY <1>0, <1>1 DEF Insert, lineVars
  <2>2. /\ Phase(m) = "none"
        /\ \A n \in Messages : Phase(n)' = IF n = m THEN "open" ELSE Phase(n)
    BY <2>1 DEF Phase, Open
  <2>3. Box!Queue(m) BY <2>1, <2>2 DEF Box!Queue
  <2> QED BY <2>3 DEF Box!Next
<1>2. ASSUME NEW S \in SUBSET {m \in Messages : Released(m)}, CancelRows(S),
             UNCHANGED <<firstAt, pushed>>
      PROVE  Box!Next
  <2>1. \A m \in S : status[m] \in Open /\ status'[m] = "cancelled"
    BY <1>2 DEF CancelRows, Released, Open
  <2>2. \A m \in Messages \ S : status'[m] = status[m] BY <1>2 DEF CancelRows
  <2>3. S \in SUBSET Messages OBVIOUS
  <2> QED BY <1>2, <2>1, <2>2, <2>3, DropRows
<1>3. CASE CancelBacklog BY <1>2, <1>3 DEF CancelBacklog, rowVars, lineVars
<1>4. ASSUME NEW S \in SUBSET Restless, Replace(S) PROVE Box!Next
  <2>1. {m \in Messages : Released(m) /\ Owner[m] \notin S}
           \in SUBSET {m \in Messages : Released(m)}
    OBVIOUS
  <2> QED BY <1>2, <1>4, <2>1 DEF Replace, rowVars, lineVars
<1>5. ASSUME NEW u \in Users, DeleteMember(u) PROVE Box!Next
  <2> DEFINE S == {m \in Messages : Owner[m] = u /\ status[m] # "absent"}
  <2>1. /\ UNCHANGED <<firstAt, pushed>>
        /\ \A n \in Messages : status'[n] = IF n \in S THEN "deleted" ELSE status[n]
    BY <1>5 DEF DeleteMember, rowVars, lineVars
  <2>2. \A n \in Messages : Phase(n)' = IF n \in S THEN "gone" ELSE Phase(n)
    BY <2>1 DEF Phase, Open
  <2>3. Box!Remove(S) BY <2>1, <2>2 DEF Box!Remove
  <2> QED BY <2>3 DEF Box!Next
<1> QED BY <1>1, <1>3, <1>4, <1>5

LEMMA NextBox == PushInv /\ [Next]_vars => [Box!Next]_(Box!vars)
<1> SUFFICES ASSUME PushInv, [Next]_vars PROVE Box!Next \/ UNCHANGED Box!vars
  OBVIOUS
<1>0. TypeInv BY DEF PushInv
<1>1. CASE \/ \E m \in Messages : Insert(m)
           \/ \E S \in SUBSET Restless : Replace(S)
           \/ CancelBacklog \/ \E u \in Restless : DeleteMember(u)
  BY <1>0, <1>1, RowsBox, LineAssumption
<1>2. CASE \/ \E u \in Restless : ChangeLink(u) \/ ChangeMembership(u)
           \/ Tick \/ UNCHANGED vars
  BY <1>2, SamePhases DEF ChangeLink, ChangeMembership, Tick, vars, queueVars, rowVars, lineVars
<1>3. CASE \E r \in late : LateArrival(r) \/ LateLoss(r)
  <2>1. UNCHANGED <<status, firstAt>> BY <1>3 DEF LateArrival, LateLoss, queueVars, rowVars
  <2> QED BY <2>1, NextPush, SamePhases, TakeBox
<1> QED BY <1>1, <1>2, <1>3, WorkerBox, Inserted DEF Next

LEMMA InitBox == Init => Box!Init
<1> SUFFICES ASSUME Init PROVE Box!Init
  OBVIOUS
<1>1. \A m \in Messages : Phase(m) = "none" BY DEF Init, Phase, Open
<1>2. {m \in Messages : firstAt[m] # Null} = {} BY DEF Init
<1>3. pushed = [m \in Messages |-> 0] BY DEF Init
<1> QED BY <1>1, <1>2, <1>3 DEF Box!Init

\* The LINE queue, with its invocations, LINE and the requests still under way,
\* pushes a message at most once, only after the last check let it, and says it
\* was accepted only if LINE took it.
THEOREM LineIsAnOutbox == Spec => DeliversOnce
BY PushInvariant, InitBox, NextBox, PTL DEF Spec, DeliversOnce, Box!Spec

(***************************************************************************)
(* What the LINE queue has from being an Outbox.                           *)
(***************************************************************************)

\* One copy at most, let go by the last check, and behind every confirmation.
Kept(m) ==
    /\ pushed[m] \in {0, 1}
    /\ pushed[m] = 1 => firstAt[m] # Null
    /\ status[m] = "accepted" => pushed[m] = 1

OverWith(m) == status[m] \notin Open \cup {"absent"}

PushedOnce == \A m \in Messages : Kept(m)

SettledIsOver == [][\A m \in Messages : OverWith(m) => OverWith(m)']_vars

LEMMA PhaseTells ==
  ASSUME NEW m
  PROVE  /\ Phase(m) = "confirmed" <=> status[m] = "accepted"
         /\ Phase(m) \in {"none", "open"} <=> ~OverWith(m)
BY DEF Phase, OverWith, Open

\* Each step of an Outbox, as one message m sees it.
LEMMA BoxStep ==
  ASSUME pushed \in [Messages -> Nat], NEW m \in Messages, Box!Next
  PROVE  /\ pushed'[m] = pushed[m] \/ (pushed[m] = 0 /\ pushed'[m] = 1 /\ firstAt[m] # Null)
         /\ firstAt[m] # Null => firstAt'[m] # Null
         /\ \/ Phase(m)' = Phase(m)
            \/ Phase(m) = "none" /\ Phase(m)' = "open"
            \/ Phase(m)' = "confirmed" /\ pushed[m] = 1 /\ Phase(m) # "none"
            \/ Phase(m)' \in {"dropped", "gone"}
<1> DEFINE cl == {n \in Messages : firstAt[n] # Null}
<1>1. ASSUME NEW n \in Messages, Box!Queue(n)
      PROVE  /\ UNCHANGED <<cl, pushed>> /\ Phase(n) = "none"
             /\ Phase(m)' = IF m = n THEN "open" ELSE Phase(m)
  BY <1>1 DEF Box!Queue
<1>2. ASSUME NEW n \in Messages, Box!Clear(n)
      PROVE  cl' = cl \cup {n} /\ pushed' = pushed /\ Phase(m)' = Phase(m)
  BY <1>2 DEF Box!Clear
<1>3. ASSUME NEW n \in Messages, Box!Deliver(n)
      PROVE  /\ cl' = cl /\ n \in cl /\ pushed[n] = 0
             /\ pushed' = [pushed EXCEPT ![n] = 1] /\ Phase(m)' = Phase(m)
  BY <1>3 DEF Box!Deliver
<1>4. ASSUME NEW n \in Messages, Box!Confirm(n)
      PROVE  /\ UNCHANGED <<cl, pushed>> /\ Phase(n) = "open" /\ pushed[n] = 1
             /\ Phase(m)' = IF m = n THEN "confirmed" ELSE Phase(m)
  BY <1>4 DEF Box!Confirm
<1>5. ASSUME NEW n \in Messages, Box!Correct(n)
      PROVE  /\ UNCHANGED <<cl, pushed>> /\ Phase(n) \in {"confirmed", "dropped"}
             /\ pushed[n] = 1
             /\ Phase(m)' = Phase(m) \/ (m = n /\ Phase(m)' \in {"confirmed", "dropped"})
  BY <1>5 DEF Box!Correct
<1>6. ASSUME NEW S \in SUBSET Messages, Box!Drop(S) \/ Box!Remove(S)
      PROVE  /\ UNCHANGED <<cl, pushed>>
             /\ Phase(m)' \in {Phase(m), "dropped", "gone"}
  BY <1>6 DEF Box!Drop, Box!Remove
<1>7. /\ firstAt[m] # Null <=> m \in cl
      /\ firstAt'[m] # Null <=> m \in cl'
  OBVIOUS
<1> HIDE DEF cl
<1> QED
  BY <1>1, <1>2, <1>3, <1>4, <1>5, <1>6, <1>7 DEF Box!Next

LEMMA NextKept ==
  ASSUME PushInv, [Next]_vars, NEW m \in Messages
  PROVE  /\ Kept(m) => Kept(m)'
         /\ OverWith(m) => OverWith(m)'
<1>1. pushed \in [Messages -> Nat] BY DEF PushInv, TypeInv, LineInv
<1>2. CASE Box!Next
  <2>1. /\ pushed'[m] = pushed[m] \/ (pushed[m] = 0 /\ pushed'[m] = 1 /\ firstAt[m] # Null)
        /\ firstAt[m] # Null => firstAt'[m] # Null
        /\ \/ Phase(m)' = Phase(m)
           \/ Phase(m) = "none" /\ Phase(m)' = "open"
           \/ Phase(m)' = "confirmed" /\ pushed[m] = 1 /\ Phase(m) # "none"
           \/ Phase(m)' \in {"dropped", "gone"}
    BY <1>1, <1>2, BoxStep
  <2>2. /\ Phase(m)' = "confirmed" <=> status'[m] = "accepted"
        /\ Phase(m)' \in {"none", "open"} <=> ~OverWith(m)'
    BY DEF Phase, OverWith, Open
  <2> QED BY <2>1, <2>2, PhaseTells DEF Kept
<1>3. CASE UNCHANGED Box!vars
  <2>1. /\ \A n \in Messages : Phase(n)' = Phase(n)
        /\ {n \in Messages : firstAt'[n] # Null} = {n \in Messages : firstAt[n] # Null}
        /\ pushed' = pushed
    <3> DEFINE f == [n \in Messages |-> Phase(n)]
               g == [n \in Messages |-> Phase(n)']
    <3>1. f = g BY <1>3 DEF Box!vars
    <3>2. \A n \in Messages : f[n] = Phase(n) /\ g[n] = Phase(n)' OBVIOUS
    <3> HIDE DEF f, g
    <3>3. \A n \in Messages : Phase(n)' = Phase(n) BY <3>1, <3>2
    <3> QED BY <1>3, <3>3 DEF Box!vars
  <2>2. firstAt[m] # Null => firstAt'[m] # Null BY <2>1
  <2>3. /\ Phase(m)' = "confirmed" <=> status'[m] = "accepted"
        /\ Phase(m)' \in {"none", "open"} <=> ~OverWith(m)'
    BY DEF Phase, OverWith, Open
  <2> QED BY <2>1, <2>2, <2>3, PhaseTells DEF Kept
<1> QED BY <1>2, <1>3, NextBox

\* A member is pushed one message at most once, whatever was lost, retried or
\* recorded late, and dispatch-line-notifications records an acceptance only of
\* a push that LINE made.
THEOREM OnePush == Spec => []PushedOnce
<1>1. Init => PushedOnce BY DEF Init, PushedOnce, Kept
<1>2. PushInv /\ [Next]_vars /\ PushedOnce => PushedOnce'
  BY NextKept DEF PushedOnce
<1> QED BY <1>1, <1>2, PushInvariant, PTL DEF Spec

\* A LINE message that was accepted, failed, cancelled or deleted is never in the
\* queue again: no late record, claim or retry of the worker reopens it.
THEOREM SettledStays == Spec => SettledIsOver
<1>1. PushInv /\ [Next]_vars => [\A m \in Messages : OverWith(m) => OverWith(m)']_vars
  BY NextKept
<1> QED BY <1>1, PushInvariant, PTL DEF Spec, SettledIsOver

(***************************************************************************)
(* Leases, as for email: a claim's lease ends Lease ticks later, and what  *)
(* it takes cannot be taken again within the same tick, so two invocations *)
(* that have the same message in hand claimed it at different times.       *)
(***************************************************************************)

Has(v, m) == (\E c \in v.todo : c.msg = m) \/ (v.pc \in Carrying /\ v.msg = m)
InHand(w, m) == Has(worker[w], m)

\* What no claim of this tick takes.
Taken(m) ==
    \/ status[m] = "processing" /\ lockedUntil[m] = now + Lease
    \/ status[m] = "retry_wait" /\ nextAt[m] > now
    \/ OverWith(m)

HandInv ==
    /\ \A w \in Workers : \A m \in Messages : InHand(w, m) =>
          /\ worker[w].lease <= now + Lease
          /\ worker[w].lease = now + Lease => Taken(m)
    /\ \A v, w \in Workers : \A m \in Messages :
          InHand(v, m) /\ InHand(w, m) /\ worker[v].lease = worker[w].lease => v = w

\* No two invocations that have the same message in hand both hold its lease.
OneInvocationHolds ==
    \A v, w \in Workers : \A m \in Messages :
        InHand(v, m) /\ HoldsLease(v, m) /\ InHand(w, m) /\ HoldsLease(w, m) => v = w

\* A step after which w has nothing new in hand.
KeepsHand(w) ==
    \A m \in Messages : InHand(w, m)' => InHand(w, m) /\ worker'[w].lease = worker[w].lease

LEMMA KeepsHandInv ==
  ASSUME HandInv, now' = now, \A w \in Workers : KeepsHand(w),
         \A m \in Messages : Taken(m) => Taken(m)'
  PROVE  HandInv'
<1>1. ASSUME NEW w \in Workers, NEW m \in Messages, InHand(w, m)'
      PROVE  /\ worker'[w].lease <= now' + Lease
             /\ worker'[w].lease = now' + Lease => Taken(m)'
  BY <1>1 DEF KeepsHand, HandInv
<1>2. ASSUME NEW v \in Workers, NEW w \in Workers, NEW m \in Messages,
             InHand(v, m)', InHand(w, m)', worker'[v].lease = worker'[w].lease
      PROVE  v = w
  BY <1>2 DEF KeepsHand, HandInv
<1> QED BY <1>1, <1>2 DEF HandInv

\* The invocation w becomes v, which has nothing that w had not.
LEMMA BecomesLess ==
  ASSUME InvocationInv, NEW w \in Workers, NEW v, worker' = [worker EXCEPT ![w] = v],
         \A m \in Messages : Has(v, m) => Has(worker[w], m) /\ v.lease = worker[w].lease
  PROVE  \A x \in Workers : KeepsHand(x)
<1>1. worker'[w] = v /\ \A x \in Workers : x # w => worker'[x] = worker[x]
  BY DEF InvocationInv
<1>2. KeepsHand(w) BY <1>1 DEF KeepsHand, InHand
<1>3. ASSUME NEW x \in Workers, x # w PROVE KeepsHand(x)
  <2>1. worker'[x] = worker[x] BY <1>1, <1>3
  <2> QED BY <2>1 DEF KeepsHand, InHand
<1> QED BY <1>2, <1>3

LEMMA IdleHasNothing == \A m : ~Has(Idle, m)
BY DEF Has, Idle, Carrying

LEMMA OnwardHand ==
  ASSUME InvocationInv, NEW w \in Workers, Onward(w)
  PROVE  \A x \in Workers : KeepsHand(x)
<1>1. CASE worker[w].todo = {}
  <2>1. worker' = [worker EXCEPT ![w] = Idle] BY <1>1 DEF Onward
  <2> QED BY <2>1, BecomesLess, IdleHasNothing
<1>2. CASE worker[w].todo # {}
  <2> DEFINE v == [worker[w] EXCEPT !.pc = "ready", !.msg = NoMessage, !.to = Nobody,
                                    !.by = Null, !.code = "none"]
  <2>1. worker' = [worker EXCEPT ![w] = v] BY <1>2 DEF Onward
  <2>2. worker[w] \in Invocations BY DEF InvocationInv
  <2>3. v.pc = "ready" /\ v.todo = worker[w].todo /\ v.lease = worker[w].lease
    BY <2>2 DEF Invocations
  <2> HIDE DEF v
  <2>4. \A m \in Messages : Has(v, m) => Has(worker[w], m) /\ v.lease = worker[w].lease
    BY <2>3 DEF Has, Carrying
  <2> QED BY <2>1, <2>4, BecomesLess
<1> QED BY <1>1, <1>2

LEMMA PrepareHand ==
  ASSUME InvocationInv, NEW w \in Workers, NEW c \in worker[w].todo, Prepare(w, c)
  PROVE  \A x \in Workers : KeepsHand(x)
<1>1. PICK p \in {"authorize", "fail"} :
         worker' = [worker EXCEPT ![w] =
            [@ EXCEPT !.pc = p, !.todo = worker[w].todo \ {c},
                      !.msg = c.msg, !.to = c.to,
                      !.code = IF p = "fail" THEN "worker_internal_error" ELSE "none"]]
  BY DEF Prepare
<1> DEFINE v == [worker[w] EXCEPT !.pc = p, !.todo = worker[w].todo \ {c},
                    !.msg = c.msg, !.to = c.to,
                    !.code = IF p = "fail" THEN "worker_internal_error" ELSE "none"]
<1>2. worker[w] \in Invocations BY DEF InvocationInv
<1>3. v.msg = c.msg /\ v.todo \subseteq worker[w].todo /\ v.lease = worker[w].lease
  BY <1>2 DEF Invocations
<1>4. worker' = [worker EXCEPT ![w] = v] BY <1>1
<1> HIDE DEF v
<1>5. \A m \in Messages : Has(v, m) => Has(worker[w], m) /\ v.lease = worker[w].lease
  BY <1>3 DEF Has
<1> QED BY <1>4, <1>5, BecomesLess

\* A push under way or answered is of the message in hand.
LEMMA ReportHand ==
  ASSUME InvocationInv, NEW w \in Workers, worker[w].pc = "push",
         NEW p, NEW code, Report(w, p, code)
  PROVE  \A x \in Workers : KeepsHand(x)
<1> DEFINE v == [worker[w] EXCEPT !.pc = p, !.by = Null, !.code = code]
<1>1. worker' = [worker EXCEPT ![w] = v] BY DEF Report
<1>2. worker[w] \in Invocations BY DEF InvocationInv
<1>3. v.msg = worker[w].msg /\ v.todo = worker[w].todo /\ v.lease = worker[w].lease
  BY <1>2 DEF Invocations
<1> HIDE DEF v
<1>4. \A m \in Messages : Has(v, m) => Has(worker[w], m) /\ v.lease = worker[w].lease
  BY <1>3 DEF Has, Carrying
<1> QED BY <1>1, <1>4, BecomesLess

LEMMA GrantedHand ==
  ASSUME InvocationInv, NEW w \in Workers, worker[w].pc = "authorize",
         Granted(w, worker[w].msg)
  PROVE  \A x \in Workers : KeepsHand(x)
<1> DEFINE v == [worker[w] EXCEPT !.pc = "push", !.by = now + Flight]
<1>1. worker' = [worker EXCEPT ![w] = v] BY DEF Granted
<1>2. worker[w] \in Invocations BY DEF InvocationInv
<1>3. v.msg = worker[w].msg /\ v.todo = worker[w].todo /\ v.lease = worker[w].lease
  BY <1>2 DEF Invocations
<1> HIDE DEF v
<1>4. \A m \in Messages : Has(v, m) => Has(worker[w], m) /\ v.lease = worker[w].lease
  BY <1>3 DEF Has, Carrying
<1> QED BY <1>1, <1>4, BecomesLess

\* A row that is settled is taken for good.
LEMMA SettleTakes ==
  ASSUME QueueInv, NEW m \in Messages,
         NEW s \in {"accepted", "cancelled", "failed_permanent"}, Settle(m, s),
         UNCHANGED <<now, nextAt>>
  PROVE  \A n \in Messages : Taken(n) => Taken(n)'
BY DEF Settle, Taken, OverWith, Open, QueueInv

LEMMA ClaimHand ==
  ASSUME TypeInv, HandInv, NEW w \in Workers, Claim(w)
  PROVE  HandInv'
<1> DEFINE n == ClaimSize(w)
           mode == worker[w].mode
<1>1. PICK C \in Batches(Cancellable(mode), n), X \in Batches(Exhausted(mode), n),
           G \in Batches(Claimable(mode), n) :
        /\ status' = [m \in Messages |->
              IF m \in C THEN "cancelled" ELSE IF m \in X THEN "failed_permanent"
              ELSE IF m \in G THEN "processing" ELSE status[m]]
        /\ attempts' = [m \in Messages |->
              IF m \in G THEN attempts[m] + 1 ELSE attempts[m]]
        /\ lockedUntil' = [m \in Messages |->
              IF m \in G THEN now + Lease
              ELSE IF m \in C \cup X THEN Null ELSE lockedUntil[m]]
        /\ worker' = [worker EXCEPT ![w] =
              [@ EXCEPT !.pc = "ready", !.lease = now + Lease,
                        !.todo = {[msg |-> m, to |-> Reach(Owner[m])] : m \in G}]]
  BY DEF Claim
<1>2. C \subseteq Cancellable(mode) /\ X \subseteq Exhausted(mode) /\ G \subseteq Claimable(mode)
  BY BatchesAreSubsets
<1>3. /\ now \in Nat /\ Lease \in Nat \ {0} /\ now' = now /\ nextAt' = nextAt
      /\ status \in [Messages -> Statuses] /\ lockedUntil \in [Messages -> Nat]
      /\ nextAt \in [Messages -> Nat]
  BY LineAssumption DEF Claim, TypeInv, QueueInv
<1>4. \A m \in G : \/ status[m] \in {"pending", "retry_wait"} /\ nextAt[m] <= now
                   \/ status[m] = "processing" /\ lockedUntil[m] <= now
  BY <1>2 DEF Claimable, Serviceable, Released
<1>5. \A m \in C \cup X \cup G : m \in Messages
  BY <1>2 DEF Cancellable, Exhausted, Claimable, Serviceable
<1>6. ASSUME NEW m \in Messages, Taken(m) PROVE m \notin G /\ Taken(m)'
  <2>1. m \notin G
    BY <1>3, <1>4, <1>6 DEF Taken, OverWith, Open
  <2>2. m \in C \cup X => OverWith(m)' BY <1>1, <1>3 DEF OverWith, Open
  <2>3. m \notin C \cup X => status'[m] = status[m] /\ lockedUntil'[m] = lockedUntil[m]
    BY <1>1, <2>1
  <2> QED BY <1>3, <1>6, <2>1, <2>2, <2>3 DEF Taken, OverWith
<1>7. ASSUME NEW m \in G PROVE Taken(m)'
  <2>1. m \in C \cup X => OverWith(m)' BY <1>1, <1>5 DEF OverWith, Open
  <2>2. m \notin C \cup X => status'[m] = "processing" /\ lockedUntil'[m] = now + Lease
    BY <1>1, <1>5
  <2> QED BY <1>3, <2>1, <2>2 DEF Taken
<1> DEFINE todo == {[msg |-> m, to |-> Reach(Owner[m])] : m \in G}
           v == [worker[w] EXCEPT !.pc = "ready", !.lease = now + Lease, !.todo = todo]
<1>8. /\ v.pc = "ready" /\ v.todo = todo /\ v.lease = now + Lease
      /\ worker'[w] = v /\ \A x \in Workers : x # w => worker'[x] = worker[x]
  BY <1>1 DEF TypeInv, InvocationInv, Invocations
<1>9. \A c \in todo : c.msg \in G OBVIOUS
<1> HIDE DEF todo, v
<1>10. ASSUME NEW m \in Messages, InHand(w, m)'
       PROVE  m \in G /\ worker'[w].lease = now + Lease
  BY <1>8, <1>9, <1>10 DEF InHand, Has, Carrying
<1>11. ASSUME NEW x \in Workers, x # w, NEW m \in Messages, InHand(x, m)'
       PROVE  InHand(x, m) /\ worker'[x].lease = worker[x].lease
  BY <1>8, <1>11 DEF InHand
<1>12. ASSUME NEW x \in Workers, NEW m \in Messages, InHand(x, m)'
       PROVE  /\ worker'[x].lease <= now' + Lease
              /\ worker'[x].lease = now' + Lease => Taken(m)'
  <2>1. CASE x = w BY <1>3, <1>7, <1>10, <1>12, <2>1
  <2>2. CASE x # w BY <1>3, <1>6, <1>11, <1>12, <2>2 DEF HandInv
  <2> QED BY <2>1, <2>2
<1>13. ASSUME NEW x \in Workers, NEW y \in Workers, NEW m \in Messages,
              InHand(x, m)', InHand(y, m)', worker'[x].lease = worker'[y].lease
       PROVE  x = y
  <2>1. ASSUME NEW z \in Workers, z # w, InHand(z, m), worker[z].lease = now + Lease
        PROVE  m \notin G
    BY <1>6, <2>1 DEF HandInv
  <2> QED BY <1>10, <1>11, <1>13, <2>1 DEF HandInv
<1> QED BY <1>12, <1>13 DEF HandInv

\* A failure that is to be retried waits at least one tick.
LEMMA RecordTakes ==
  ASSUME TypeInv, NEW w \in Workers, RecordAccepted(w) \/ RecordFailure(w) \/ RecordLost(w)
  PROVE  \A m \in Messages : Taken(m) => Taken(m)'
<1>1. PICK m : m = worker[w].msg OBVIOUS
<1>2. m \in Messages /\ QueueInv /\ now \in Nat /\ now' = now
  BY <1>1, RecordStep DEF TypeInv
<1>3. CASE UNCHANGED <<status, lockedUntil, nextAt>>
  BY <1>2, <1>3 DEF Taken, OverWith
<1>4. CASE /\ Settle(m, "accepted") \/ Settle(m, "failed_permanent")
           /\ UNCHANGED nextAt
  BY <1>2, <1>4, SettleTakes
<1>5. CASE /\ HoldsLease(w, m) /\ MayRetry(w, m) /\ Settle(m, "retry_wait")
           /\ nextAt' = [nextAt EXCEPT ![m] = RetryAt(m)]
  <2>1. attempts[m] \in 1..MaxAttempts
    BY <1>2, <1>5, LineAssumption DEF HoldsLease, QueueInv
  <2>2. RetryAt(m) > now BY <1>2, <2>1, LineAssumption DEF RetryAt
  <2> QED BY <1>2, <1>5, <2>2 DEF Settle, Taken, OverWith, Open, QueueInv
<1>6. CASE RecordAccepted(w)
  BY <1>1, <1>3, <1>4, <1>6 DEF RecordAccepted, rowVars
<1>7. CASE RecordFailure(w)
  BY <1>1, <1>3, <1>4, <1>5, <1>7 DEF RecordFailure
<1>8. CASE RecordLost(w)
  BY <1>3, <1>8 DEF RecordLost, queueVars, rowVars
<1> QED BY <1>6, <1>7, <1>8

LEMMA AuthorizeHand ==
  ASSUME TypeInv, HandInv, NEW w \in Workers, Authorize(w)
  PROVE  HandInv'
<1>0. InvocationInv /\ QueueInv BY DEF TypeInv
<1>1. PICK m : m = worker[w].msg OBVIOUS
<1>2. m \in Messages /\ worker[w].pc = "authorize" /\ UNCHANGED <<now, nextAt>>
  BY <1>0, <1>1, AuthorizeStep DEF Authorize
<1>3. \/ Onward(w) /\ UNCHANGED <<status, lockedUntil>>
      \/ Onward(w) /\ (Settle(m, "cancelled") \/ Settle(m, "failed_permanent"))
      \/ Granted(w, m)
  BY <1>1 DEF Authorize, Granted
<1>4. \A x \in Workers : KeepsHand(x)
  BY <1>0, <1>1, <1>2, <1>3, OnwardHand, GrantedHand
<1>5. \A n \in Messages : Taken(n) => Taken(n)'
  <2>1. CASE UNCHANGED <<status, lockedUntil>> BY <1>2, <2>1 DEF Taken, OverWith
  <2>2. CASE Settle(m, "cancelled") \/ Settle(m, "failed_permanent")
    BY <1>0, <1>2, <2>2, SettleTakes
  <2> QED BY <1>3, <2>1, <2>2 DEF Granted
<1> QED BY <1>2, <1>4, <1>5, KeepsHandInv

LEMMA WorkerHand ==
  ASSUME TypeInv, HandInv, NEW w \in Workers, WorkerStep(w)
  PROVE  HandInv'
<1>0. InvocationInv BY DEF TypeInv
<1>1. CASE Claim(w) BY <1>1, ClaimHand
<1>2. CASE Authorize(w) BY <1>2, AuthorizeHand
<1>3. CASE RecordAccepted(w) \/ RecordFailure(w) \/ RecordLost(w)
  <2>1. Onward(w) /\ now' = now
    BY <1>3 DEF RecordAccepted, RecordFailure, RecordLost
  <2> QED BY <1>0, <1>3, <2>1, OnwardHand, RecordTakes, KeepsHandInv
<1>4. CASE Invoke(w) \/ Quit(w) \/ \E c \in worker[w].todo : Prepare(w, c)
  <2>1. \A x \in Workers : KeepsHand(x)
    <3>1. CASE Invoke(w)
      <4>1. PICK mode \in Modes :
               worker' = [worker EXCEPT ![w] =
                  [Idle EXCEPT !.pc = "claim", !.mode = mode, !.room = QuotaLimit - used]]
        BY <3>1 DEF Invoke
      <4> DEFINE v == [Idle EXCEPT !.pc = "claim", !.mode = mode, !.room = QuotaLimit - used]
      <4>2. v.pc = "claim" /\ v.todo = {} BY DEF Idle
      <4> HIDE DEF v
      <4>3. \A m \in Messages : ~Has(v, m) BY <4>2 DEF Has, Carrying
      <4> QED BY <1>0, <4>1, <4>3, BecomesLess DEF v
    <3>2. CASE Quit(w) BY <1>0, <3>2, BecomesLess, IdleHasNothing DEF Quit
    <3>3. CASE \E c \in worker[w].todo : Prepare(w, c) BY <1>0, <3>3, PrepareHand
    <3> QED BY <1>4, <3>1, <3>2, <3>3
  <2>2. UNCHANGED <<now, queueVars>> BY <1>4, AsideSteps
  <2>3. \A m \in Messages : Taken(m) => Taken(m)'
    BY <2>2 DEF Taken, OverWith, queueVars, rowVars
  <2> QED BY <2>1, <2>2, <2>3, KeepsHandInv
<1>5. CASE PushAnswered(w) \/ PushLost(w)
  <2>1. worker[w].pc = "push" /\ UNCHANGED <<now, queueVars>>
        /\ \E p, code : Report(w, p, code)
    BY <1>5 DEF PushAnswered, PushLost, Refused
  <2>2. \A x \in Workers : KeepsHand(x) BY <1>0, <2>1, ReportHand
  <2>3. \A m \in Messages : Taken(m) => Taken(m)'
    BY <2>1 DEF Taken, OverWith, queueVars, rowVars
  <2> QED BY <2>1, <2>2, <2>3, KeepsHandInv
<1> QED BY <1>1, <1>2, <1>3, <1>4, <1>5 DEF WorkerStep

LEMMA NextHand ==
  ASSUME TypeInv, HandInv, [Next]_vars
  PROVE  HandInv'
<1>0. QueueInv /\ now \in Nat BY DEF TypeInv
<1>1. worker' = worker => \A w \in Workers : KeepsHand(w) BY DEF KeepsHand, InHand
<1>2. ASSUME NEW w \in Workers, WorkerStep(w) PROVE HandInv'
  BY <1>2, WorkerHand
<1>3. CASE Tick
  <2>1. now' = now + 1 /\ worker' = worker BY <1>3 DEF Tick
  <2>2. \A w \in Workers : worker[w].lease \in Nat
    BY DEF TypeInv, InvocationInv, Invocations
  <2>3. \A w \in Workers : \A m \in Messages : InHand(w, m)' <=> InHand(w, m)
    BY <2>1 DEF InHand
  <2> QED BY <1>0, <2>1, <2>2, <2>3, LineAssumption DEF HandInv
<1>4. CASE \/ \E u \in Restless : ChangeLink(u) \/ ChangeMembership(u)
           \/ \E r \in late : LateArrival(r) \/ LateLoss(r)
           \/ UNCHANGED vars
  <2>1. UNCHANGED <<now, status, lockedUntil, nextAt, worker>>
    BY <1>4 DEF ChangeLink, ChangeMembership, LateArrival, LateLoss, vars, queueVars, rowVars
  <2>2. \A m \in Messages : Taken(m) => Taken(m)' BY <2>1 DEF Taken, OverWith
  <2> QED BY <1>1, <2>1, <2>2, KeepsHandInv
<1>5. CASE \/ \E m \in Messages : Insert(m)
           \/ \E S \in SUBSET Restless : Replace(S)
           \/ CancelBacklog
           \/ \E u \in Restless : DeleteMember(u)
  <2>1. UNCHANGED <<now, worker>>
    BY <1>5 DEF Insert, Replace, CancelBacklog, DeleteMember
  <2>2. ASSUME NEW m \in Messages, Taken(m) PROVE Taken(m)'
    <3>1. CASE \E n \in Messages : Insert(n)
      BY <1>0, <2>2, <3>1 DEF Insert, Taken, OverWith, Open, QueueInv
    <3>2. ASSUME NEW S, CancelRows(S), UNCHANGED rowVars PROVE Taken(m)'
      BY <2>1, <2>2, <3>2 DEF CancelRows, Taken, OverWith, Open, rowVars
    <3>3. CASE (\E S \in SUBSET Restless : Replace(S)) \/ CancelBacklog
      BY <3>2, <3>3 DEF Replace, CancelBacklog
    <3>4. CASE \E u \in Restless : DeleteMember(u)
      BY <2>1, <2>2, <3>4 DEF DeleteMember, Taken, OverWith, Open, rowVars
    <3> QED BY <1>5, <3>1, <3>3, <3>4
  <2> QED BY <1>1, <2>1, <2>2, KeepsHandInv
<1> QED BY <1>2, <1>3, <1>4, <1>5, Inserted DEF Next

\* However many invocations overlap, stall and die, no two of them that have the
\* same LINE message in hand both pass the lease check of authorize_line_message_send
\* and of the functions that record: a reclaimed message is its new owner's alone.
THEOREM LeasesFence == Spec => []OneInvocationHolds
<1>1. Init => HandInv
  BY IdleHasNothing DEF Init, HandInv, InHand
<1>2. Spec => []TypeInv BY InitTypeInv, NextTypeInv, PTL DEF Spec
<1>3. TypeInv /\ HandInv /\ [Next]_vars => HandInv' BY NextHand
<1>4. HandInv => OneInvocationHolds
  BY DEF HandInv, OneInvocationHolds, HoldsLease
<1> QED BY <1>1, <1>2, <1>3, <1>4, PTL DEF Spec

-----------------------------------------------------------------------------
(***************************************************************************)
(* The members beside the queue are those of MemberLinks, which linking    *)
(* implements (LineLinkProofs): what LineDelivery lets a link do is just   *)
(* what LineLink can do to it.                                             *)
(***************************************************************************)

Links == INSTANCE MemberLinks

\* What the queue sees of a change that is not its own.
OutsideChange(u) ==
    /\ leftAt' = [leftAt EXCEPT ![u] = now]
    /\ UNCHANGED <<now, queueVars, allowlist, worker, lineVars>>

\* Whatever MemberLinks lets a link or a membership do, it does here.
LEMMA LinksMoveFreely ==
  ASSUME NEW u \in Users
  PROVE  ChangeLink(u) <=>
            OutsideChange(u) /\ \E a \in Accounts \cup {NoAccount} : Links!Relink(u, a)
BY DEF ChangeLink, OutsideChange, Links!Relink, Nobody

LEMMA MembersMoveFreely ==
  ASSUME NEW u \in Users
  PROVE  ChangeMembership(u) <=> OutsideChange(u) /\ (Links!Suspend(u) \/ Links!Resume(u))
BY DEF ChangeMembership, OutsideChange, Links!Suspend, Links!Resume

\* No step of the queue changes a member's link or membership, and no change from
\* outside is one that linking cannot make: the queue implements MemberLinks.
THEOREM QueueIsMemberLinks == Spec => Links!Spec
<1>1. Init => Links!Init
  BY DEF Init, Links!Init, Nobody
<1>2. ASSUME [Next]_vars PROVE [Links!Next]_Links!vars
  <2>1. ASSUME NEW u \in Restless, ChangeLink(u) \/ ChangeMembership(u) \/ DeleteMember(u)
        PROVE  Links!Next
    <3>1. u \in Users
      BY LineAssumption
    <3>2. CASE ChangeLink(u)
      BY <3>1, <3>2, LinksMoveFreely DEF Links!Next
    <3>3. CASE ChangeMembership(u)
      BY <3>1, <3>3, MembersMoveFreely DEF Links!Next
    <3>4. CASE DeleteMember(u)
      BY <3>1, <3>4 DEF DeleteMember, Links!Delete, Links!Next, Nobody
    <3>5. QED
      BY <2>1, <3>2, <3>3, <3>4
  <2>2. ASSUME \/ \E m \in Messages : Insert(m)
               \/ \E S \in SUBSET Restless : Replace(S)
               \/ CancelBacklog
               \/ \E r \in late : LateArrival(r) \/ LateLoss(r)
               \/ Tick \/ UNCHANGED vars
        PROVE  UNCHANGED Links!vars
    BY <2>2 DEF Insert, Replace, CancelBacklog, LateArrival, LateLoss, Tick, vars,
                memberVars, Links!vars
  <2>3. ASSUME NEW w \in Workers, WorkerStep(w) PROVE UNCHANGED Links!vars
    BY <2>3 DEF WorkerStep, Invoke, Claim, Quit, Prepare, Authorize, PushAnswered,
                PushLost, RecordAccepted, RecordFailure, RecordLost, memberVars, Links!vars
  <2>4. QED
    BY <1>2, <2>1, <2>2, <2>3, Inserted DEF Next
<1>3. QED
  BY <1>1, <1>2, PTL DEF Spec, Links!Spec

-----------------------------------------------------------------------------
(***************************************************************************)
(* The month's limit.  An invocation reads the consumption once, so only   *)
(* one that has the month to itself while it works keeps to the limit.     *)
(***************************************************************************)

\* No invocation begins while another works or a push may still land.
Alone ==
    \A w \in Workers : worker[w].pc = "idle" /\ worker'[w].pc # "idle" =>
        late = {} /\ \A v \in Workers \ {w} : worker[v].pc = "idle"

StartsAlone == [][Alone]_vars

\* The pushes an invocation may still make.
Owed(v) ==
    CASE v.pc = "idle" -> 0
      [] v.pc = "claim" -> v.room
      [] v.pc \in {"authorize", "push"} -> Cardinality(v.todo) + 1
      [] OTHER -> Cardinality(v.todo)

Drawn == used + Cardinality(late)

QuotaInv ==
    /\ IsFiniteSet(late) /\ \A w \in Workers : IsFiniteSet(worker[w].todo)
    /\ Drawn <= QuotaLimit
    /\ \A w \in Workers : Drawn + Owed(worker[w]) <= QuotaLimit
    /\ \A v, w \in Workers : worker[v].pc # "idle" /\ worker[w].pc # "idle" => v = w

LEMMA OwedCounts ==
  ASSUME NEW v, IsFiniteSet(v.todo), v.pc = "claim" => v.room \in Nat
  PROVE  /\ Owed(v) \in Nat /\ Cardinality(v.todo) \in Nat
         /\ v.pc = "idle" => Owed(v) = 0
         /\ v.pc = "claim" => Owed(v) = v.room
         /\ v.pc \in {"authorize", "push"} => Owed(v) = Cardinality(v.todo) + 1
         /\ v.pc \in {"ready", "accept", "fail"} => Owed(v) = Cardinality(v.todo)
<1>1. Cardinality(v.todo) \in Nat
  BY FS_CardinalityType
<1>2. QED
  BY <1>1 DEF Owed

LEMMA IdleOwesNothing == Idle.pc = "idle" /\ Idle.todo = {} /\ Owed(Idle) = 0
BY DEF Idle, Owed

LEMMA InvocationCounts ==
  ASSUME TypeInv, QuotaInv, NEW w \in Workers
  PROVE  /\ QuotaLimit \in Nat /\ used \in Nat /\ Cardinality(late) \in Nat
         /\ IsFiniteSet(worker[w].todo)
         /\ worker[w].pc = "claim" => worker[w].room \in Nat
         /\ worker[w] \in Invocations
<1>1. worker[w] \in Invocations
  BY DEF TypeInv, InvocationInv
<1>2. QuotaLimit \in Nat /\ used \in Nat /\ IsFiniteSet(late) /\ IsFiniteSet(worker[w].todo)
  BY LineAssumption DEF TypeInv, LineInv, QuotaInv
<1>3. worker[w].room \in Nat
  BY <1>1, <1>2 DEF Invocations
<1>4. QED
  BY <1>1, <1>2, <1>3, FS_CardinalityType

\* A step of the invocation that works: it owes no more than it may spend.
LEMMA InvocationSpends ==
  ASSUME TypeInv, QuotaInv, NEW w \in Workers, worker[w].pc # "idle",
         NEW v, worker' = [worker EXCEPT ![w] = v],
         IsFiniteSet(v.todo), v.pc = "claim" => v.room \in Nat,
         used' \in Nat, IsFiniteSet(late'),
         used' + Cardinality(late') + Owed(v) <= QuotaLimit
  PROVE  QuotaInv'
<1>1. /\ worker'[w] = v
      /\ \A x \in Workers : x # w => worker'[x] = worker[x] /\ worker[x].pc = "idle"
  BY DEF TypeInv, InvocationInv, QuotaInv
<1>2. /\ Owed(v) \in Nat /\ Cardinality(late') \in Nat /\ QuotaLimit \in Nat
      /\ Drawn' = used' + Cardinality(late')
  BY OwedCounts, FS_CardinalityType, LineAssumption DEF Drawn
<1>3. Drawn' <= QuotaLimit /\ Drawn' + Owed(v) <= QuotaLimit /\ Drawn' \in Nat
  BY <1>2
<1>4. ASSUME NEW x \in Workers
      PROVE  Drawn' + Owed(worker'[x]) <= QuotaLimit /\ IsFiniteSet(worker'[x].todo)
  <2>1. CASE x = w
    BY <1>1, <1>3, <2>1
  <2>2. CASE x # w
    <3>1. Owed(worker'[x]) = 0
      BY <1>1, <2>2 DEF Owed
    <3>2. QED
      BY <1>1, <1>3, <2>2, <3>1 DEF QuotaInv
  <2>3. QED
    BY <2>1, <2>2
<1>5. QED
  BY <1>1, <1>3, <1>4 DEF QuotaInv

\* Going on to the next message, or returning, costs nothing.
LEMMA OnwardSpends ==
  ASSUME TypeInv, QuotaInv, NEW w \in Workers, worker[w].pc \in Carrying,
         Onward(w), UNCHANGED <<used, late>>
  PROVE  QuotaInv'
<1>1. PICK v : /\ worker' = [worker EXCEPT ![w] = v]
               /\ \/ v = Idle
                  \/ v.pc = "ready" /\ v.todo = worker[w].todo
  <2>1. CASE worker[w].todo = {}
    BY <2>1 DEF Onward
  <2>2. CASE worker[w].todo # {}
    <3> DEFINE v == [worker[w] EXCEPT !.pc = "ready", !.msg = NoMessage, !.to = Nobody,
                                      !.by = Null, !.code = "none"]
    <3>1. worker' = [worker EXCEPT ![w] = v]
      BY <2>2 DEF Onward
    <3>2. v.pc = "ready" /\ v.todo = worker[w].todo
      BY InvocationCounts DEF Invocations
    <3> HIDE DEF v
    <3>3. QED
      BY <3>1, <3>2
  <2>3. QED
    BY <2>1, <2>2
<1>2. IsFiniteSet(v.todo) /\ (v.pc = "claim" => v.room \in Nat)
  BY <1>1, FS_EmptySet, InvocationCounts, IdleOwesNothing
<1>3. Owed(v) <= Owed(worker[w]) /\ Owed(v) \in Nat /\ Owed(worker[w]) \in Nat
  <2>1. Owed(Idle) = 0
    BY IdleOwesNothing
  <2>2. /\ Owed(worker[w]) \in Nat /\ Cardinality(worker[w].todo) \in Nat
        /\ Cardinality(worker[w].todo) <= Owed(worker[w])
    BY OwedCounts, InvocationCounts DEF Carrying
  <2>3. CASE v = Idle
    BY <2>1, <2>2, <2>3
  <2>4. CASE v.pc = "ready" /\ v.todo = worker[w].todo
    <3>1. Owed(v) = Cardinality(worker[w].todo)
      BY <1>2, <2>4, OwedCounts
    <3>2. QED
      BY <2>2, <3>1
  <2>5. QED
    BY <1>1, <2>3, <2>4
<1>4. used' + Cardinality(late') + Owed(v) <= QuotaLimit
  <2>1. used + Cardinality(late) + Owed(worker[w]) <= QuotaLimit
    BY DEF QuotaInv, Drawn
  <2>2. QED
    BY <1>3, <2>1, InvocationCounts
<1>5. worker[w].pc # "idle" /\ used' \in Nat /\ IsFiniteSet(late')
  BY InvocationCounts DEF Carrying, QuotaInv
<1>6. QED
  BY <1>1, <1>2, <1>4, <1>5, InvocationSpends

LEMMA ReportSpends ==
  ASSUME TypeInv, QuotaInv, NEW w \in Workers, worker[w].pc = "push",
         NEW p \in {"accept", "fail"}, NEW code, Report(w, p, code),
         used' \in Nat, IsFiniteSet(late'),
         used' + Cardinality(late') <= used + Cardinality(late) + 1
  PROVE  QuotaInv'
<1> DEFINE v == [worker[w] EXCEPT !.pc = p, !.by = Null, !.code = code]
<1>1. worker' = [worker EXCEPT ![w] = v]
  BY DEF Report
<1>2. v.pc = p /\ v.todo = worker[w].todo
  BY InvocationCounts DEF Invocations
<1> HIDE DEF v
<1>3. IsFiniteSet(v.todo)
  BY <1>2, InvocationCounts
<1>4. /\ Owed(v) = Cardinality(worker[w].todo) /\ Cardinality(worker[w].todo) \in Nat
      /\ Owed(worker[w]) = Cardinality(worker[w].todo) + 1
  BY <1>2, <1>3, OwedCounts, InvocationCounts
<1>5. used + Cardinality(late) + Owed(worker[w]) <= QuotaLimit
  BY DEF QuotaInv, Drawn
<1>6. Cardinality(late') \in Nat
  BY FS_CardinalityType
<1>7. used' + Cardinality(late') + Owed(v) <= QuotaLimit
  BY <1>4, <1>5, <1>6, InvocationCounts
<1>8. QED
  BY <1>1, <1>2, <1>3, <1>7, InvocationSpends

LEMMA TakeSpends ==
  ASSUME TypeInv, NEW m, NEW to, NEW mode, Take(m, to, mode)
  PROVE  used' \in Nat /\ used' <= used + 1
BY DEF Take, TypeInv, LineInv

LEMMA PushSpends ==
  ASSUME TypeInv, QuotaInv, NEW w \in Workers, PushAnswered(w) \/ PushLost(w)
  PROVE  QuotaInv'
<1>1. /\ worker[w].pc = "push" /\ used \in Nat /\ Cardinality(late) \in Nat
      /\ IsFiniteSet(late)
  BY InvocationCounts DEF PushAnswered, PushLost, QuotaInv
<1>2. CASE PushAnswered(w)
  <2>1. \E p \in {"accept", "fail"} : \E code : Report(w, p, code)
    BY <1>2 DEF PushAnswered, Refused
  <2>2. late' = late /\ used' \in Nat /\ used' <= used + 1
    BY <1>1, <1>2, TakeSpends DEF PushAnswered
  <2>3. QED
    BY <1>1, <2>1, <2>2, ReportSpends
<1>3. CASE PushLost(w)
  <2>1. PICK r, code : /\ Report(w, "fail", code) /\ late' = late \cup {r}
                       /\ used' = used
    BY <1>3 DEF PushLost
  <2>2. IsFiniteSet(late') /\ Cardinality(late') \in {Cardinality(late), Cardinality(late) + 1}
    BY <1>1, <2>1, FS_AddElement
  <2>3. used' + Cardinality(late') <= used + Cardinality(late) + 1 /\ used' \in Nat
    BY <1>1, <2>1, <2>2
  <2>4. QED
    BY <1>1, <2>1, <2>2, <2>3, ReportSpends
<1>4. QED
  BY <1>2, <1>3

\* What lands late was counted when its invocation gave it up.
LEMMA LateSpends ==
  ASSUME TypeInv, QuotaInv, NEW r \in late, LateArrival(r) \/ LateLoss(r)
  PROVE  QuotaInv'
<1>1. /\ worker' = worker /\ late' = late \ {r}
      /\ used \in Nat /\ used' \in Nat /\ used' <= used + 1
  BY TakeSpends DEF LateArrival, LateLoss, TypeInv, LineInv
<1>2. /\ IsFiniteSet(late') /\ Cardinality(late') = Cardinality(late) - 1
      /\ Cardinality(late) \in Nat /\ Cardinality(late') \in Nat
  BY <1>1, FS_RemoveElement, FS_CardinalityType DEF QuotaInv
<1>3. Drawn' <= Drawn /\ Drawn \in Nat /\ Drawn' \in Nat
  BY <1>1, <1>2 DEF Drawn
<1>4. QuotaLimit \in Nat
  BY LineAssumption
<1>5. ASSUME NEW w \in Workers PROVE Drawn' + Owed(worker[w]) <= QuotaLimit
  <2>1. Owed(worker[w]) \in Nat
    BY OwedCounts, InvocationCounts
  <2>2. QED
    BY <1>3, <1>4, <2>1 DEF QuotaInv
<1>6. QED
  BY <1>1, <1>2, <1>3, <1>4, <1>5 DEF QuotaInv

\* A claim makes one entry of the batch for each message it takes.
LEMMA BatchCounts ==
  ASSUME NEW G, IsFiniteSet(G), NEW T, T = {[msg |-> m, to |-> Reach(Owner[m])] : m \in G}
  PROVE  IsFiniteSet(T) /\ Cardinality(T) <= Cardinality(G)
<1> DEFINE f == [m \in G |-> [msg |-> m, to |-> Reach(Owner[m])]]
<1>1. f \in Surjection(G, T)
  BY DEF Surjection
<1> HIDE DEF f
<1>2. QED
  BY <1>1, FS_Surjection

\* An invocation claims no more than the room it was told of.
LEMMA ClaimSpends ==
  ASSUME TypeInv, QuotaInv, IsFiniteSet(Messages), NEW w \in Workers, Claim(w)
  PROVE  QuotaInv'
<1>1. worker[w].pc = "claim" /\ used' = used /\ late' = late
  BY DEF Claim, lineVars
<1>2. PICK G \in Batches(Claimable(worker[w].mode), ClaimSize(w)) :
         worker' = [worker EXCEPT ![w] = [@ EXCEPT !.pc = "ready", !.lease = now + Lease,
                        !.todo = {[msg |-> m, to |-> Reach(Owner[m])] : m \in G}]]
  BY DEF Claim
<1>3. PICK T : T = {[msg |-> m, to |-> Reach(Owner[m])] : m \in G}
  OBVIOUS
<1> DEFINE v == [worker[w] EXCEPT !.pc = "ready", !.lease = now + Lease, !.todo = T]
<1>4. worker' = [worker EXCEPT ![w] = v]
  BY <1>2, <1>3
<1>5. v.pc = "ready" /\ v.todo = T
  BY InvocationCounts DEF Invocations
<1> HIDE DEF v
<1>6. G \in SUBSET Messages /\ Cardinality(G) <= ClaimSize(w)
  BY DEF Batches, Claimable, Serviceable
<1>7. IsFiniteSet(G) /\ Cardinality(G) \in Nat
  BY <1>6, FS_Subset, FS_CardinalityType
<1>8. IsFiniteSet(T) /\ Cardinality(T) <= Cardinality(G)
  BY <1>3, <1>7, BatchCounts
<1>9. ClaimSize(w) <= worker[w].room /\ ClaimSize(w) \in Nat /\ worker[w].room \in Nat
  BY <1>1, LineAssumption, InvocationCounts DEF ClaimSize
<1>10. Owed(v) = Cardinality(T) /\ Cardinality(T) \in Nat /\ Owed(worker[w]) = worker[w].room
  BY <1>1, <1>5, <1>8, OwedCounts, InvocationCounts
<1>11. used + Cardinality(late) + Owed(worker[w]) <= QuotaLimit
  BY DEF QuotaInv, Drawn
<1>12. used' + Cardinality(late') + Owed(v) <= QuotaLimit
  BY <1>1, <1>6, <1>7, <1>8, <1>9, <1>10, <1>11, InvocationCounts
<1>13. used' \in Nat /\ IsFiniteSet(late') /\ IsFiniteSet(v.todo)
  BY <1>1, <1>5, <1>8, InvocationCounts DEF QuotaInv
<1>14. QED
  BY <1>1, <1>4, <1>5, <1>12, <1>13, InvocationSpends

LEMMA PrepareSpends ==
  ASSUME TypeInv, QuotaInv, NEW w \in Workers, NEW c \in worker[w].todo, Prepare(w, c)
  PROVE  QuotaInv'
<1>1. worker[w].pc = "ready" /\ used' = used /\ late' = late
  BY DEF Prepare, lineVars
<1>2. PICK p \in {"authorize", "fail"} :
         worker' = [worker EXCEPT ![w] =
              [@ EXCEPT !.pc = p, !.todo = worker[w].todo \ {c}, !.msg = c.msg, !.to = c.to,
                        !.code = IF p = "fail" THEN "worker_internal_error" ELSE "none"]]
  BY DEF Prepare
<1> DEFINE v == [worker[w] EXCEPT !.pc = p, !.todo = worker[w].todo \ {c}, !.msg = c.msg,
                        !.to = c.to,
                        !.code = IF p = "fail" THEN "worker_internal_error" ELSE "none"]
<1>3. worker' = [worker EXCEPT ![w] = v]
  BY <1>2
<1>4. v.pc = p /\ v.todo = worker[w].todo \ {c}
  BY InvocationCounts DEF Invocations
<1> HIDE DEF v
<1>5. /\ IsFiniteSet(v.todo) /\ Cardinality(v.todo) = Cardinality(worker[w].todo) - 1
      /\ Cardinality(worker[w].todo) \in Nat /\ Cardinality(v.todo) \in Nat
  BY <1>4, FS_RemoveElement, FS_CardinalityType, InvocationCounts
<1>6. Owed(worker[w]) = Cardinality(worker[w].todo)
  BY <1>1, OwedCounts, InvocationCounts
<1>7. Owed(v) \in Nat /\ Owed(v) <= Cardinality(v.todo) + 1
  <2>1. v.pc \in {"authorize", "fail"}
    BY <1>4
  <2>2. Owed(v) \in {Cardinality(v.todo), Cardinality(v.todo) + 1}
    BY <1>5, <2>1, OwedCounts
  <2>3. QED
    BY <1>5, <2>2
<1>8. used + Cardinality(late) + Owed(worker[w]) <= QuotaLimit
  BY DEF QuotaInv, Drawn
<1>9. used' + Cardinality(late') + Owed(v) <= QuotaLimit
  BY <1>1, <1>5, <1>6, <1>7, <1>8, InvocationCounts
<1>10. used' \in Nat /\ IsFiniteSet(late') /\ (v.pc = "claim" => v.room \in Nat)
  BY <1>1, <1>4, InvocationCounts DEF QuotaInv
<1>11. QED
  BY <1>1, <1>3, <1>5, <1>9, <1>10, InvocationSpends

LEMMA QuitSpends ==
  ASSUME TypeInv, QuotaInv, NEW w \in Workers, Quit(w)
  PROVE  QuotaInv'
<1>1. /\ worker[w].pc # "idle" /\ worker' = [worker EXCEPT ![w] = Idle]
      /\ used' = used /\ late' = late
  BY DEF Quit, lineVars
<1>2. used + Cardinality(late) <= QuotaLimit
  BY DEF QuotaInv, Drawn
<1>3. used' + Cardinality(late') + Owed(Idle) <= QuotaLimit
  BY <1>1, <1>2, IdleOwesNothing, InvocationCounts
<1>4. used' \in Nat /\ IsFiniteSet(late') /\ IsFiniteSet(Idle.todo)
  BY <1>1, IdleOwesNothing, FS_EmptySet, InvocationCounts DEF QuotaInv
<1>5. QED
  BY <1>1, <1>3, <1>4, IdleOwesNothing, InvocationSpends

LEMMA AuthorizeSpends ==
  ASSUME TypeInv, QuotaInv, NEW w \in Workers,
         Authorize(w) \/ RecordAccepted(w) \/ RecordFailure(w) \/ RecordLost(w)
  PROVE  QuotaInv'
<1>1. worker[w].pc \in Carrying /\ used' = used /\ late' = late
  BY DEF Authorize, RecordAccepted, RecordFailure, RecordLost, Carrying, lineVars
<1>2. CASE Onward(w)
  BY <1>1, <1>2, OnwardSpends
<1>3. CASE ~Onward(w)
  <2>1. Authorize(w)
    BY <1>3 DEF RecordAccepted, RecordFailure, RecordLost
  <2>2. /\ worker[w].pc = "authorize"
        /\ worker' = [worker EXCEPT ![w] = [@ EXCEPT !.pc = "push", !.by = now + Flight]]
    BY <1>3, <2>1 DEF Authorize
  <2> DEFINE v == [worker[w] EXCEPT !.pc = "push", !.by = now + Flight]
  <2>3. worker' = [worker EXCEPT ![w] = v]
    BY <2>2
  <2>4. v.pc = "push" /\ v.todo = worker[w].todo
    BY InvocationCounts DEF Invocations
  <2> HIDE DEF v
  <2>5. IsFiniteSet(v.todo) /\ used' \in Nat /\ IsFiniteSet(late')
    BY <1>1, <2>4, InvocationCounts DEF QuotaInv
  <2>6. Owed(v) = Owed(worker[w])
    BY <2>2, <2>4, <2>5, OwedCounts, InvocationCounts
  <2>7. used' + Cardinality(late') + Owed(v) <= QuotaLimit
    BY <1>1, <2>6 DEF QuotaInv, Drawn
  <2>8. QED
    BY <2>2, <2>3, <2>4, <2>5, <2>7, InvocationSpends
<1>4. QED
  BY <1>2, <1>3

\* An invocation that begins alone is told the room that there is.
LEMMA InvokeSpends ==
  ASSUME TypeInv, QuotaInv, Alone, NEW w \in Workers, Invoke(w)
  PROVE  QuotaInv'
<1>1. /\ worker[w].pc = "idle" /\ used < QuotaLimit /\ used' = used /\ late' = late
  BY DEF Invoke, lineVars
<1>2. PICK mode \in Modes : worker' = [worker EXCEPT ![w] =
              [Idle EXCEPT !.pc = "claim", !.mode = mode, !.room = QuotaLimit - used]]
  BY DEF Invoke
<1> DEFINE v == [Idle EXCEPT !.pc = "claim", !.mode = mode, !.room = QuotaLimit - used]
<1>3. worker' = [worker EXCEPT ![w] = v]
  BY <1>2
<1>4. v.pc = "claim" /\ v.todo = {} /\ v.room = QuotaLimit - used
  BY DEF Idle
<1> HIDE DEF v
<1>5. worker'[w] = v /\ \A x \in Workers : x # w => worker'[x] = worker[x]
  BY <1>3 DEF TypeInv, InvocationInv
<1>6. late = {} /\ \A x \in Workers : x # w => worker[x].pc = "idle"
  BY <1>1, <1>4, <1>5 DEF Alone
<1>7. used \in Nat /\ QuotaLimit \in Nat /\ Cardinality(late) = 0
  BY <1>6, InvocationCounts, FS_EmptySet
<1>8. Owed(v) = QuotaLimit - used
  BY <1>4 DEF Owed
<1>9. Drawn' = used /\ Drawn = used
  BY <1>1, <1>7 DEF Drawn
<1>10. ASSUME NEW x \in Workers
       PROVE  Drawn' + Owed(worker'[x]) <= QuotaLimit /\ IsFiniteSet(worker'[x].todo)
  <2>1. CASE x = w
    BY <1>4, <1>5, <1>7, <1>8, <1>9, <2>1, FS_EmptySet
  <2>2. CASE x # w
    BY <1>5, <1>9, <2>2 DEF QuotaInv
  <2>3. QED
    BY <2>1, <2>2
<1>11. QED
  BY <1>1, <1>5, <1>6, <1>9, <1>10 DEF QuotaInv

LEMMA StepSpends ==
  ASSUME TypeInv, QuotaInv, IsFiniteSet(Messages), [Next /\ Alone]_vars
  PROVE  QuotaInv'
<1>1. ASSUME UNCHANGED <<worker, used, late>> PROVE QuotaInv'
  BY <1>1 DEF QuotaInv, Drawn, Owed
<1>2. ASSUME \/ \E m \in Messages : Insert(m)
             \/ \E S \in SUBSET Restless : Replace(S)
             \/ CancelBacklog
             \/ \E u \in Restless : ChangeLink(u) \/ ChangeMembership(u) \/ DeleteMember(u)
             \/ Tick \/ UNCHANGED vars
      PROVE  UNCHANGED <<worker, used, late>>
  BY <1>2 DEF Insert, Replace, CancelBacklog, ChangeLink, ChangeMembership, DeleteMember,
              Tick, vars, lineVars
<1>3. ASSUME NEW w \in Workers, WorkerStep(w), Alone PROVE QuotaInv'
  BY <1>3, InvokeSpends, ClaimSpends, QuitSpends, PrepareSpends, AuthorizeSpends,
     PushSpends DEF WorkerStep
<1>4. QED
  BY <1>1, <1>2, <1>3, LateSpends, Inserted DEF Next

\* The month's limit holds if no invocation of dispatch-line-notifications begins
\* while another works or a push of one may still land, as the workflow's
\* concurrency group means it to be: what an invocation was told of the month's
\* consumption is then true until its batch is done.
THEOREM QuotaHoldsAlone ==
  ASSUME IsFiniteSet(Messages)
  PROVE  Spec /\ StartsAlone => []QuotaKept
<1>1. Init => QuotaInv
  <2> SUFFICES ASSUME Init PROVE QuotaInv
    OBVIOUS
  <2>1. used = 0 /\ late = {} /\ \A w \in Workers : worker[w] = Idle
    BY DEF Init
  <2>2. IsFiniteSet(late) /\ Cardinality(late) = 0 /\ QuotaLimit \in Nat
    BY <2>1, FS_EmptySet, LineAssumption
  <2>3. QED
    BY <2>1, <2>2, IdleOwesNothing, FS_EmptySet DEF QuotaInv, Drawn
<1>2. TypeInv /\ QuotaInv /\ [Next]_vars /\ [Alone]_vars => QuotaInv'
  BY StepSpends
<1>3. TypeInv /\ QuotaInv => QuotaKept
  <2> SUFFICES ASSUME TypeInv, QuotaInv PROVE QuotaKept
    OBVIOUS
  <2>1. used \in Nat /\ QuotaLimit \in Nat /\ Cardinality(late) \in Nat
    BY LineAssumption, FS_CardinalityType DEF TypeInv, LineInv, QuotaInv
  <2>2. QED
    BY <2>1 DEF QuotaInv, Drawn, QuotaKept
<1>4. Spec => []TypeInv
  BY InitTypeInv, NextTypeInv, PTL DEF Spec
<1>5. QED
  BY <1>1, <1>2, <1>3, <1>4, PTL DEF Spec, StartsAlone

=============================================================================
