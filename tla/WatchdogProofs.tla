--------------------------- MODULE WatchdogProofs ---------------------------
(***************************************************************************)
(* Proofs about Watchdog, for any number of invocations and every value of *)
(* the timing constants that satisfies WatchdogAssumption.                 *)
(*                                                                         *)
(* The claim excludes because a claim outlives its invocation              *)
(* (Deadline < Lease); the cooldown separates dispatches because an        *)
(* invocation that has confirmed has at most Deadline left for its POST.   *)
(***************************************************************************)
EXTENDS Watchdog, FiniteSetTheorems, WellFoundedInduction, TLAPS

Alive(i) == pc[i] \notin {"new", "done"}

TimeTypeOK ==
    /\ now \in Nat /\ claimant \in Invocations \cup {Nobody}
    /\ claimedAt \in Nat /\ claimExpiresAt \in Nat
    /\ cooldownUntil \in Nat
    /\ pc \in [Invocations -> {"new", "observe", "record", "correct", "claim",
                               "confirm", "dispatch", "finish", "done"}]
    /\ round \in [Invocations -> {1, 2}]
    /\ startedAt \in [Invocations -> Nat]
    /\ postAt \in [Invocations -> Nat]

\* Where an invocation can be in its round, and how long it has been alive.
RoundInv ==
    \A i \in Invocations :
        /\ pc[i] \in {"confirm", "dispatch", "finish"} => round[i] = 2
        /\ pc[i] = "claim" => round[i] = 1
        /\ Alive(i) => startedAt[i] <= now /\ now <= startedAt[i] + Deadline
        /\ pc[i] = "new" => round[i] = 1

ClaimInv ==
    \A i \in Invocations : Holds(i) =>
        claimant = i /\ startedAt[i] + Lease <= claimExpiresAt

\* cooldownUntil - Cooldown is when the last confirmation was.
PostInv ==
    \A i \in Invocations :
        /\ postAt[i] # Null =>
              /\ pc[i] \in {"finish", "done"}
              /\ postAt[i] <= now
              /\ postAt[i] + Cooldown <= cooldownUntil + Deadline
        /\ pc[i] = "dispatch" =>
              /\ startedAt[i] + Cooldown <= cooldownUntil
              /\ cooldownUntil <= now + Cooldown
              /\ \A j \in Invocations : postAt[j] # Null =>
                    postAt[j] + Cooldown + Cooldown <= cooldownUntil + Deadline

WatchdogInv == TimeTypeOK /\ RoundInv /\ ClaimInv /\ PostInv /\ CooldownHolds

LEMMA InitWatchdog == Init => WatchdogInv
  BY WatchdogAssumption
     DEF Init, WatchdogInv, TimeTypeOK, RoundInv, ClaimInv, PostInv, CooldownHolds,
     Alive, Holds, Null

\* A claim is never taken over from an invocation that lives.
LEMMA HolderKeepsClaim ==
  ASSUME WatchdogInv, NEW i \in Invocations, Holds(i)
  PROVE  claimant = i /\ now < claimExpiresAt
<1>1. Alive(i)
  BY DEF Holds, Alive
<1>2. QED
  BY <1>1, WatchdogAssumption DEF WatchdogInv, TimeTypeOK, RoundInv, ClaimInv

LEMMA ClaimExcludes == WatchdogInv => OneClaimHolder
  BY DEF WatchdogInv, ClaimInv, OneClaimHolder

\* A step of one invocation that neither claims, confirms nor posts, and neither
\* holds the claim afterwards unless it did before.
Passes(i) ==
    /\ UNCHANGED <<now, claimVars, cooldownUntil, postAt>>
    /\ \A j \in Invocations \ {i} :
          pc'[j] = pc[j] /\ round'[j] = round[j] /\ startedAt'[j] = startedAt[j]
    /\ pc'[i] # "dispatch" /\ pc'[i] # "new"
    /\ Holds(i)' => Holds(i)
    /\ pc'[i] \in {"confirm", "finish"} => round'[i] = 2
    /\ pc'[i] = "claim" => round'[i] = 1
    /\ Alive(i)' => startedAt'[i] <= now /\ now <= startedAt'[i] + Deadline
    /\ Holds(i) => startedAt'[i] = startedAt[i]
    /\ postAt[i] # Null => pc'[i] \in {"finish", "done"}

LEMMA PassesInv ==
  ASSUME WatchdogInv, TimeTypeOK', NEW i \in Invocations, Passes(i)
  PROVE  WatchdogInv'
<1>1. RoundInv'
  BY DEF WatchdogInv, RoundInv, Passes, Alive
<1>2. ClaimInv'
  <2>1. ASSUME NEW j \in Invocations, Holds(j)'
        PROVE  Holds(j) /\ startedAt'[j] = startedAt[j]
    BY <2>1 DEF Passes, Holds
  <2>2. QED
    BY <2>1 DEF WatchdogInv, ClaimInv, Passes, claimVars
<1>3. PostInv'
  BY DEF WatchdogInv, PostInv, Passes, Null
<1>4. CooldownHolds'
  BY DEF WatchdogInv, CooldownHolds, Passes, Null
<1>5. QED BY <1>1, <1>2, <1>3, <1>4 DEF WatchdogInv

LEMMA StepType ==
  ASSUME WatchdogInv, NEW i \in Invocations, Step(i)
  PROVE  TimeTypeOK'
<1> USE WatchdogAssumption DEF Goto, End, WatchdogInv, TimeTypeOK
<1>1. CASE Start(i) \/ Observe(i) \/ RecheckFails(i) \/ Stop(i)
  BY <1>1 DEF Start, Observe, RecheckFails, Stop, claimVars, dispatchVars
<1>2. CASE Record(i) \/ Correct(i)
  BY <1>2 DEF Record, Correct, Decide, claimVars, dispatchVars
<1>3. CASE Claim(i)
  BY <1>3 DEF Claim, claimVars, dispatchVars
<1>4. CASE Confirm(i)
  BY <1>4 DEF Confirm, claimVars, dispatchVars, invocationVars
<1>5. CASE Dispatch(i)
  BY <1>5 DEF Dispatch, claimVars, dispatchVars
<1>6. CASE Finish(i)
  BY <1>6 DEF Finish, FreeClaim, claimVars, dispatchVars, Null
<1>7. QED
  BY <1>1, <1>2, <1>3, <1>4, <1>5, <1>6 DEF Step

LEMMA QuietStep ==
  ASSUME WatchdogInv, NEW i \in Invocations,
         \/ Start(i) \/ Observe(i) \/ Record(i) \/ Correct(i)
         \/ RecheckFails(i) \/ Stop(i)
  PROVE  WatchdogInv'
<1>1. TimeTypeOK'
  BY StepType DEF Step
<1> USE DEF WatchdogInv, TimeTypeOK, RoundInv, PostInv, Alive, Holds, Passes, Goto, End
<1>2. CASE Start(i)
  <2>1. Passes(i)
    BY <1>2, WatchdogAssumption DEF Start, dispatchVars
  <2>2. QED BY <1>1, <2>1, PassesInv
<1>3. CASE Observe(i)
  <2>1. Passes(i)
    BY <1>3 DEF Observe, dispatchVars
  <2>2. QED BY <1>1, <2>1, PassesInv
<1>4. CASE Record(i) \/ Correct(i)
  <2>1. Passes(i)
    BY <1>4 DEF Record, Correct, Decide, dispatchVars
  <2>2. QED BY <1>1, <2>1, PassesInv
<1>5. CASE RecheckFails(i) \/ Stop(i)
  <2>1. Passes(i)
    BY <1>5 DEF RecheckFails, Stop, dispatchVars
  <2>2. QED BY <1>1, <2>1, PassesInv
<1>6. QED BY <1>2, <1>3, <1>4, <1>5

\* A claim is granted only when no living invocation holds one.
LEMMA ClaimStep ==
  ASSUME WatchdogInv, NEW i \in Invocations, Claim(i)
  PROVE  WatchdogInv'
<1>1. TimeTypeOK'
  BY StepType DEF Step
<1>2. CASE UNCHANGED claimVars /\ End(i)
  <2>1. Passes(i)
    BY <1>2 DEF Claim, End, Goto, Passes, Holds, Alive, WatchdogInv, TimeTypeOK,
       PostInv, dispatchVars
  <2>2. QED BY <1>1, <2>1, PassesInv
<1>3. CASE /\ Unclaimed /\ claimant' = i /\ claimExpiresAt' = now + Lease
           /\ Goto(i, "observe") /\ round' = [round EXCEPT ![i] = 2]
  <2>1. \A j \in Invocations : ~Holds(j)
    BY <1>3, HolderKeepsClaim, WatchdogAssumption
       DEF Unclaimed, WatchdogInv, TimeTypeOK
  <2>2. UNCHANGED <<now, cooldownUntil, startedAt, postAt>>
    BY DEF Claim, dispatchVars
  <2>3. pc[i] = "claim" /\ pc' = [pc EXCEPT ![i] = "observe"]
    BY <1>3 DEF Claim, Goto
  <2>4. RoundInv'
    BY <1>3, <2>2, <2>3 DEF WatchdogInv, TimeTypeOK, RoundInv, Alive
  <2>5. ClaimInv'
    <3>1. \A j \in Invocations \ {i} : ~Holds(j)'
      BY <1>3, <2>1, <2>3 DEF Holds, WatchdogInv, TimeTypeOK
    <3>2. startedAt[i] <= now
      BY <2>3 DEF WatchdogInv, RoundInv, Alive
    <3>3. QED
      BY <1>3, <2>2, <3>1, <3>2, WatchdogAssumption
         DEF ClaimInv, WatchdogInv, TimeTypeOK
  <2>6. PostInv' /\ CooldownHolds'
    BY <2>2, <2>3 DEF WatchdogInv, TimeTypeOK, PostInv, CooldownHolds, Null
  <2>7. QED BY <1>1, <2>4, <2>5, <2>6 DEF WatchdogInv
<1>4. QED BY <1>2, <1>3 DEF Claim

\* A confirmation waits for the cooldown of every dispatch before it.
LEMMA ConfirmStep ==
  ASSUME WatchdogInv, NEW i \in Invocations, Confirm(i)
  PROVE  WatchdogInv'
<1>1. TimeTypeOK'
  BY StepType DEF Step
<1>2. CASE End(i) /\ UNCHANGED <<dispatchVars, startedAt>>
  <2>1. Passes(i)
    BY <1>2 DEF Confirm, End, Goto, Passes, Holds, Alive, WatchdogInv, TimeTypeOK,
       PostInv, dispatchVars
  <2>2. QED BY <1>1, <2>1, PassesInv
<1>3. CASE /\ Cool /\ cooldownUntil' = now + Cooldown /\ Goto(i, "dispatch")
           /\ UNCHANGED invocationVars
  <2>1. pc[i] = "confirm" /\ pc' = [pc EXCEPT ![i] = "dispatch"]
    BY <1>3 DEF Confirm, Goto
  <2>2. UNCHANGED <<now, claimVars, round, startedAt, postAt>>
    BY <1>3 DEF Confirm, invocationVars
  <2>3. RoundInv'
    BY <2>1, <2>2 DEF WatchdogInv, TimeTypeOK, RoundInv, Alive
  <2>4. ClaimInv'
    <3>1. \A j \in Invocations : Holds(j)' => Holds(j)
      BY <2>1, <2>2 DEF Holds, WatchdogInv, TimeTypeOK, RoundInv
    <3>2. QED BY <2>2, <3>1 DEF WatchdogInv, ClaimInv, claimVars
  <2>5. PostInv'
    <3>1. startedAt[i] <= now
      BY <2>1 DEF WatchdogInv, RoundInv, Alive
    <3>2. \A j \in Invocations : postAt[j] # Null => postAt[j] + Cooldown <= now + Deadline
      BY <1>3, WatchdogAssumption DEF Cool, WatchdogInv, TimeTypeOK, PostInv
    <3>3. \A j \in Invocations \ {i} : pc[j] # "dispatch"
      BY <2>1, ClaimExcludes DEF OneClaimHolder, Holds, WatchdogInv, RoundInv
    <3>4. \A j \in Invocations : postAt[j] # Null => j # i
      BY <2>1 DEF WatchdogInv, PostInv
    <3>5. QED
      BY <1>3, <2>1, <2>2, <3>1, <3>2, <3>3, <3>4, WatchdogAssumption
         DEF WatchdogInv, TimeTypeOK, PostInv, Cool, Null
  <2>6. CooldownHolds'
    BY <2>2 DEF WatchdogInv, CooldownHolds, Null
  <2>7. QED BY <1>1, <2>3, <2>4, <2>5, <2>6 DEF WatchdogInv
<1>4. QED BY <1>2, <1>3 DEF Confirm, Confirmable

LEMMA DispatchStep ==
  ASSUME WatchdogInv, NEW i \in Invocations, Dispatch(i)
  PROVE  WatchdogInv'
<1>1. TimeTypeOK'
  BY StepType DEF Step
<1>2. /\ pc[i] = "dispatch" /\ pc' = [pc EXCEPT ![i] = "finish"]
      /\ postAt' = [postAt EXCEPT ![i] = now]
      /\ UNCHANGED <<now, claimVars, cooldownUntil, round, startedAt>>
  BY DEF Dispatch, Goto, dispatchVars
<1>3. startedAt[i] <= now /\ now <= startedAt[i] + Deadline /\ round[i] = 2
  BY <1>2 DEF WatchdogInv, RoundInv, Alive
<1>4. RoundInv'
  BY <1>2 DEF WatchdogInv, TimeTypeOK, RoundInv, Alive
<1>5. ClaimInv'
  <2>1. \A j \in Invocations : Holds(j)' => Holds(j)
    BY <1>2, <1>3 DEF Holds, WatchdogInv, TimeTypeOK
  <2>2. QED BY <1>2, <2>1 DEF WatchdogInv, ClaimInv, claimVars
<1>6. \A j \in Invocations \ {i} : pc[j] # "dispatch"
  BY <1>2, ClaimExcludes DEF OneClaimHolder, Holds, WatchdogInv, RoundInv
<1>7. now + Cooldown <= cooldownUntil + Deadline
  BY <1>2, <1>3, WatchdogAssumption DEF WatchdogInv, TimeTypeOK, PostInv
<1>8. PostInv'
  BY <1>2, <1>6, <1>7, WatchdogAssumption DEF WatchdogInv, TimeTypeOK, PostInv, Null
<1>9. CooldownHolds'
  <2>1. \A j \in Invocations : postAt[j] # Null =>
          postAt[j] + Cooldown <= now + Deadline /\ postAt[j] <= now
    BY <1>2, WatchdogAssumption DEF WatchdogInv, TimeTypeOK, PostInv
  <2>2. QED
    BY <1>2, <2>1, WatchdogAssumption DEF WatchdogInv, TimeTypeOK, CooldownHolds, Null
<1>10. QED BY <1>1, <1>4, <1>5, <1>8, <1>9 DEF WatchdogInv

LEMMA FinishStep ==
  ASSUME WatchdogInv, NEW i \in Invocations, Finish(i)
  PROVE  WatchdogInv'
<1>1. TimeTypeOK'
  BY StepType DEF Step
<1>2. /\ pc[i] = "finish" /\ pc' = [pc EXCEPT ![i] = "done"]
      /\ round' = [round EXCEPT ![i] = 1]
      /\ UNCHANGED <<now, cooldownUntil, startedAt, postAt>>
      /\ UNCHANGED claimVars \/ claimant = i
  BY DEF Finish, Finishable, End, Goto, dispatchVars
<1>3. RoundInv'
  BY <1>2 DEF WatchdogInv, TimeTypeOK, RoundInv, Alive
<1>4. ClaimInv'
  <2>1. ASSUME NEW j \in Invocations, Holds(j)'
        PROVE  Holds(j) /\ j # i
    BY <1>2, <2>1 DEF Holds, WatchdogInv, TimeTypeOK
  <2>2. ASSUME NEW j \in Invocations, Holds(j)'
        PROVE  UNCHANGED claimVars
    BY <1>2, <2>1, <2>2 DEF WatchdogInv, ClaimInv
  <2>3. QED BY <1>2, <2>1, <2>2 DEF WatchdogInv, ClaimInv, claimVars
<1>5. PostInv' /\ CooldownHolds'
  BY <1>2 DEF WatchdogInv, TimeTypeOK, PostInv, CooldownHolds, Null
<1>6. QED BY <1>1, <1>3, <1>4, <1>5 DEF WatchdogInv

LEMMA TickStep ==
  ASSUME WatchdogInv, Tick
  PROVE  WatchdogInv'
<1> USE DEF Tick, claimVars, dispatchVars, invocationVars
<1>1. TimeTypeOK'
  BY DEF WatchdogInv, TimeTypeOK
<1>2. RoundInv'
  BY WatchdogAssumption DEF WatchdogInv, TimeTypeOK, RoundInv, Alive
<1>3. ClaimInv'
  BY DEF WatchdogInv, ClaimInv, Holds
<1>4. PostInv'
  BY WatchdogAssumption DEF WatchdogInv, TimeTypeOK, PostInv, Null
<1>5. CooldownHolds'
  BY DEF WatchdogInv, CooldownHolds, Null
<1>6. QED BY <1>1, <1>2, <1>3, <1>4, <1>5 DEF WatchdogInv

LEMMA NextWatchdog == WatchdogInv /\ [Next]_vars => WatchdogInv'
<1> SUFFICES ASSUME WatchdogInv, [Next]_vars PROVE WatchdogInv'
  OBVIOUS
<1>1. ASSUME NEW i \in Invocations, Step(i) PROVE WatchdogInv'
  BY <1>1, QuietStep, ClaimStep, ConfirmStep, DispatchStep, FinishStep DEF Step
<1>2. CASE Tick
  BY <1>2, TickStep
<1>3. CASE \/ \E marked \in BOOLEAN : StartRun(marked)
           \/ \E r \in runs : EndRun(r)
           \/ UNCHANGED vars
  <2>1. UNCHANGED <<now, claimVars, dispatchVars, pc, invocationVars, postAt>>
    BY <1>3 DEF StartRun, EndRun, vars
  <2>2. QED
    BY <2>1 DEF WatchdogInv, TimeTypeOK, RoundInv, ClaimInv, PostInv, CooldownHolds,
       Alive, Holds, claimVars, dispatchVars, invocationVars, Null
<1>4. QED BY <1>1, <1>2, <1>3 DEF Next

LEMMA WatchdogInvariant == Spec => []WatchdogInv
  BY InitWatchdog, NextWatchdog, PTL DEF Spec

\* Two POSTs to GitHub are a cooldown apart, less the life of an invocation.
THEOREM CooldownSeparates == Spec => []CooldownHolds
<1>1. WatchdogInv => CooldownHolds
  BY DEF WatchdogInv
<1>2. QED BY <1>1, WatchdogInvariant, PTL

\* At most one invocation is between a granted claim and its finish.
THEOREM OneClaim == Spec => []OneClaimHolder
  BY ClaimExcludes, WatchdogInvariant, PTL

-----------------------------------------------------------------------------
(* What an invocation saw.  A run's creation is never later than the clock, *)
(* so the latest live run of a view exists and is a natural number.         *)

LEMMA GreatestOf ==
  ASSUME NEW S \in SUBSET Nat, S # {}, NEW n \in Nat, \A s \in S : s <= n
  PROVE  \E t \in S : \A s \in S : s <= t
<1> DEFINE U == {m \in Nat : \A s \in S : s <= m}
           R == OpToRel(<, Nat)
<1>1. IsWellFoundedOn(R, Nat) BY NatLessThanWellFounded
<1>2. U # {} /\ U \in SUBSET Nat OBVIOUS
<1> HIDE DEF R
<1>3. PICK u \in U : \A y \in U : ~ (<<y, u>> \in R)
  <2> HIDE DEF U
  <2> QED BY <1>1, <1>2, WFMin
<1>4. \A y \in U : ~(y < u) BY <1>3 DEF R, OpToRel
<1>5. u \in S
  <2> SUFFICES ASSUME u \notin S PROVE FALSE OBVIOUS
  <2>1. \A s \in S : s \in Nat /\ u \in Nat /\ s <= u /\ s # u OBVIOUS
  <2>2. u > 0
    <3>1. PICK s \in S : TRUE OBVIOUS
    <3>2. s \in Nat /\ u \in Nat /\ s <= u /\ s # u BY <2>1, <3>1
    <3> QED BY <3>2
  <2>3. u - 1 \in Nat /\ \A s \in S : s <= u - 1
    <3>1. u \in Nat BY <1>2
    <3> QED BY <2>1, <2>2, <3>1
  <2>4. u - 1 \in U /\ u \in Nat BY <2>3
  <2> QED BY <1>4, <2>4
<1> QED BY <1>5

LEMMA LatestBounds ==
  ASSUME NEW R \in SUBSET Runs, NEW n \in Nat, \A r \in R : r.at <= n, NEW id
  PROVE  /\ Latest(R, id) \in Nat
         /\ \A r \in R : Qualifies(r, id) => r.at <= Latest(R, id)
<1> DEFINE ats == {r.at : r \in {q \in R : Qualifies(q, id)}}
<1>1. ats \in SUBSET Nat /\ \A s \in ats : s <= n BY DEF Runs
<1>2. \A r \in R : Qualifies(r, id) => r.at \in ats OBVIOUS
<1>3. Latest(R, id) =
        IF ats = {} THEN Null ELSE CHOOSE t \in ats : \A s \in ats : s <= t
  BY DEF Latest
<1> HIDE DEF ats
<1>4. CASE ats = {} BY <1>2, <1>3, <1>4 DEF Null
<1>5. CASE ats # {}
  <2>1. \E t \in ats : \A s \in ats : s <= t BY <1>1, <1>5, GreatestOf
  <2>2. Latest(R, id) \in ats /\ \A s \in ats : s <= Latest(R, id) BY <1>3, <1>5, <2>1
  <2> QED BY <1>1, <1>2, <2>2
<1> QED BY <1>4, <1>5

\* A view that is stale holds no young run that is live or active.
LEMMA StaleMeans ==
  ASSUME NEW R \in SUBSET Runs, NEW at \in Nat, \A r \in R : r.at <= at, NEW id,
         Classify(R, at, id) = "stale",
         NEW q \in R, Qualifies(q, id) \/ q.active
  PROVE  q.at + StaleAfter <= at
<1>1. ~ (q.active /\ Young(q, at)) BY DEF Classify
<1>2. Latest(R, id) + StaleAfter <= at
  <2>1. Latest(R, id) \in Nat BY LatestBounds
  <2>2. ~ (at < Latest(R, id) + StaleAfter) BY DEF Classify
  <2> QED BY <2>1, <2>2, WatchdogAssumption
<1>3. q.at \in Nat BY DEF Runs
<1>4. CASE q.active BY <1>1, <1>3, <1>4, WatchdogAssumption DEF Young
<1>5. CASE Qualifies(q, id)
  <2>1. Latest(R, id) \in Nat /\ q.at <= Latest(R, id) BY <1>5, LatestBounds
  <2> QED BY <1>2, <1>3, <2>1, WatchdogAssumption
<1> QED BY <1>4, <1>5

-----------------------------------------------------------------------------
(* Types.                                                                   *)

GitHubInv ==
    /\ runs \subseteq Runs /\ IsFiniteSet(runs)
    /\ \A r \in runs : r.at <= now

RowInv ==
    /\ observer \in Tokens /\ outcome \in Outcomes
    /\ snapshotAt \in Nat /\ latestLive \in Nat
    /\ IF claimant = Nobody THEN claimedAt = Null /\ claimExpiresAt = Null
       ELSE claimedAt < claimExpiresAt
    /\ confirmedAt \in Nat /\ lastRun \in Nat

MemoryInv ==
    /\ view \in [Invocations -> SUBSET Runs]
    /\ viewAt \in [Invocations -> Nat]
    /\ context \in [Invocations -> Nat]
    /\ result \in [Invocations -> Results \X Nat]
    /\ \A i \in Invocations : viewAt[i] <= now /\ \A r \in view[i] : r.at <= viewAt[i]

TypeInv == WatchdogInv /\ GitHubInv /\ RowInv /\ MemoryInv

LEMMA InitTypes == Init => TypeInv
<1> SUFFICES ASSUME Init PROVE TypeInv OBVIOUS
<1>1. WatchdogInv BY InitWatchdog
<1>2. GitHubInv
  <2>1. PICK marked \in BOOLEAN :
          runs = {[id |-> 1, at |-> 1, marked |-> marked, active |-> FALSE]}
    BY DEF Init
  <2>2. IsFiniteSet(runs) BY <2>1, FS_Singleton
  <2> QED BY <2>1, <2>2, WatchdogAssumption DEF Init, GitHubInv, Runs
<1>3. RowInv BY DEF Init, RowInv, Tokens, NoToken, Outcomes, Null
<1>4. MemoryInv BY WatchdogAssumption DEF Init, MemoryInv, Results, Null
<1> QED BY <1>1, <1>2, <1>3, <1>4 DEF TypeInv

LEMMA TypesHold == TypeInv => TypeOK
  BY DEF TypeInv, WatchdogInv, TimeTypeOK, GitHubInv, RowInv, MemoryInv, TypeOK

\* What a view gives to the snapshot and to the verdict.
LEMMA ViewTypes ==
  ASSUME TypeInv, NEW i \in Invocations, NEW id
  PROVE  /\ Latest(view[i], id) \in Nat
         /\ Classify(view[i], viewAt[i], id) \in Outcomes
<1>1. view[i] \in SUBSET Runs /\ viewAt[i] \in Nat /\ \A r \in view[i] : r.at <= viewAt[i]
  BY DEF TypeInv, MemoryInv
<1>2. Latest(view[i], id) \in Nat BY <1>1, LatestBounds
<1>3. Classify(view[i], viewAt[i], id) \in Outcomes BY DEF Classify, Outcomes
<1> QED BY <1>2, <1>3

LEMMA EndMemory ==
  ASSUME TypeInv, NEW i \in Invocations, End(i), now' = now
  PROVE  MemoryInv'
<1> QED BY WatchdogAssumption
    DEF TypeInv, WatchdogInv, TimeTypeOK, MemoryInv, End, Goto, Null, Results

LEMMA DecideMemory ==
  ASSUME TypeInv, NEW i \in Invocations, NEW verdict \in Outcomes, NEW d \in Nat,
         Decide(i, verdict, d), now' = now
  PROVE  MemoryInv'
<1>1. CASE End(i) BY <1>1, EndMemory
<1>2. CASE /\ context' = [context EXCEPT ![i] = d]
           /\ UNCHANGED <<round, view, viewAt, result>>
  BY <1>2 DEF TypeInv, MemoryInv
<1>3. CASE /\ verdict # "stale"
           /\ result' = [result EXCEPT ![i] = <<Recheck[verdict], Null>>]
           /\ context' = [context EXCEPT ![i] = d]
           /\ UNCHANGED <<round, view, viewAt>>
  <2>1. <<Recheck[verdict], Null>> \in Results \X Nat
    BY <1>3 DEF Outcomes, Recheck, Results, Null
  <2> QED BY <1>3, <2>1 DEF TypeInv, MemoryInv
<1> QED BY <1>1, <1>2, <1>3 DEF Decide

LEMMA SnapshotRow ==
  ASSUME TypeInv, NEW i \in Invocations, NEW id, WriteSnapshot(i, id),
         UNCHANGED <<claimVars, dispatchVars, lastRun>>
  PROVE  RowInv'
<1>1. Token(i) \in Tokens
  BY DEF Token, Tokens, TypeInv, WatchdogInv, TimeTypeOK
<1>2. now \in Nat BY DEF TypeInv, WatchdogInv, TimeTypeOK
<1>3. Latest(view[i], id) \in Nat /\ Classify(view[i], viewAt[i], id) \in Outcomes
  BY ViewTypes
<1> QED BY <1>1, <1>2, <1>3
    DEF TypeInv, RowInv, WriteSnapshot, claimVars, dispatchVars

\* A new run of GitHub.
LEMMA NewRunTypes ==
  ASSUME TypeInv, NEW marked \in BOOLEAN
  PROVE  /\ NewRun(marked) \in Runs /\ NewRun(marked).at = now
         /\ IsFiniteSet(runs \cup {NewRun(marked)})
<1>1. Cardinality(runs) \in Nat BY FS_CardinalityType DEF TypeInv, GitHubInv
<1>2. now \in Nat BY DEF TypeInv, WatchdogInv, TimeTypeOK
<1>3. NewRun(marked) \in Runs /\ NewRun(marked).at = now BY <1>1, <1>2 DEF NewRun, Runs
<1>4. IsFiniteSet(runs \cup {NewRun(marked)}) BY FS_AddElement DEF TypeInv, GitHubInv
<1> QED BY <1>3, <1>4

LEMMA GitHubTypes ==
  ASSUME TypeInv, now' = now,
         \/ runs' = runs
         \/ \E marked \in BOOLEAN : runs' = runs \cup {NewRun(marked)}
         \/ \E r \in runs : EndRun(r)
  PROVE  GitHubInv'
<1> USE DEF TypeInv, GitHubInv
<1>1. CASE runs' = runs BY <1>1
<1>2. CASE \E marked \in BOOLEAN : runs' = runs \cup {NewRun(marked)}
  <2>1. PICK marked \in BOOLEAN : runs' = runs \cup {NewRun(marked)} BY <1>2
  <2>2. PICK n : n = NewRun(marked) OBVIOUS
  <2>3. n \in Runs /\ n.at = now /\ IsFiniteSet(runs \cup {n}) BY <2>2, NewRunTypes
  <2>4. now <= now BY DEF WatchdogInv, TimeTypeOK
  <2> QED BY <2>1, <2>2, <2>3, <2>4
<1>3. CASE \E r \in runs : EndRun(r)
  <2>1. PICK r \in runs : runs' = (runs \ {r}) \cup {[r EXCEPT !.active = FALSE]}
    BY <1>3 DEF EndRun
  <2>2. PICK e : e = [r EXCEPT !.active = FALSE] OBVIOUS
  <2>3. e \in Runs /\ e.at = r.at BY <2>2 DEF Runs
  <2>4. IsFiniteSet((runs \ {r}) \cup {e}) BY FS_RemoveElement, FS_AddElement
  <2> QED BY <2>1, <2>2, <2>3, <2>4
<1> QED BY <1>1, <1>2, <1>3

\* Steps of the invocation i, one lemma for each part of the state.
LEMMA StepRow ==
  ASSUME TypeInv, NEW i \in Invocations, Step(i)
  PROVE  RowInv'
<1>1. CASE Start(i) \/ Observe(i) \/ RecheckFails(i) \/ Stop(i) \/ Dispatch(i)
  BY <1>1 DEF TypeInv, RowInv, Start, Observe, RecheckFails, Stop, Dispatch,
     snapshotVars, claimVars, dispatchVars
<1>2. CASE Record(i)
  <2>1. /\ WriteSnapshot(i, Null)
        /\ UNCHANGED <<claimVars, dispatchVars, lastRun>>
    BY <1>2 DEF Record
  <2> QED BY <2>1, SnapshotRow
<1>3. CASE Correct(i)
  <2>1. PICK id : id = context[i] OBVIOUS
  <2>2. /\ WriteSnapshot(i, id)
        /\ UNCHANGED <<claimVars, dispatchVars, lastRun>>
    BY <1>3, <2>1 DEF Correct
  <2> QED BY <2>2, SnapshotRow
<1>4. CASE Claim(i)
  <2>1. now < now + Lease /\ now \in Nat
    BY WatchdogAssumption DEF TypeInv, WatchdogInv, TimeTypeOK
  <2>2. i # Nobody BY WatchdogAssumption
  <2> QED BY <1>4, <2>1, <2>2 DEF TypeInv, RowInv, Claim, snapshotVars, claimVars, dispatchVars
<1>5. CASE Confirm(i)
  BY <1>5 DEF TypeInv, WatchdogInv, TimeTypeOK, RowInv, Confirm,
     snapshotVars, claimVars, dispatchVars
<1>6. CASE Finish(i)
  <2>1. lastRun' \in Nat
    BY <1>6 DEF TypeInv, RowInv, MemoryInv, Finish
  <2>2. \/ claimant' = Nobody /\ claimedAt' = Null /\ claimExpiresAt' = Null
        \/ UNCHANGED claimVars
    BY <1>6 DEF Finish, FreeClaim
  <2> QED BY <1>6, <2>1, <2>2 DEF TypeInv, RowInv, Finish, snapshotVars, claimVars, dispatchVars
<1> QED BY <1>1, <1>2, <1>3, <1>4, <1>5, <1>6 DEF Step

LEMMA StepMemory ==
  ASSUME TypeInv, NEW i \in Invocations, Step(i)
  PROVE  MemoryInv'
<1>0. now' = now
  BY DEF Step, Start, Observe, Record, Correct, RecheckFails, Claim, Confirm, Dispatch,
     Finish, Stop
<1>1. CASE Start(i)
  BY <1>0, <1>1 DEF TypeInv, MemoryInv, Start
<1>2. CASE Observe(i)
  <2>1. PICK R \in {runs, {}} : view' = [view EXCEPT ![i] = R] BY <1>2 DEF Observe
  <2>2. R \in SUBSET Runs /\ \A r \in R : r.at <= now BY <2>1 DEF TypeInv, GitHubInv
  <2>3. now \in Nat BY DEF TypeInv, WatchdogInv, TimeTypeOK
  <2>4. UNCHANGED <<context, result>> /\ viewAt' = [viewAt EXCEPT ![i] = now]
    BY <1>2 DEF Observe
  <2> QED BY <1>0, <2>1, <2>2, <2>3, <2>4 DEF TypeInv, MemoryInv
<1>3. CASE Record(i)
  <2>1. CASE Decide(i, Classify(view[i], viewAt[i], Null), lastRun)
    <3>1. PICK verdict : verdict = Classify(view[i], viewAt[i], Null) OBVIOUS
    <3>2. PICK d : d = lastRun OBVIOUS
    <3>3. verdict \in Outcomes /\ d \in Nat BY <3>1, <3>2, ViewTypes DEF TypeInv, RowInv
    <3> QED BY <1>0, <2>1, <3>1, <3>2, <3>3, DecideMemory
  <2>2. CASE context' = [context EXCEPT ![i] = lastRun] /\ UNCHANGED <<round, view, viewAt, result>>
    BY <1>0, <2>2 DEF TypeInv, RowInv, MemoryInv
  <2> QED BY <1>3, <2>1, <2>2 DEF Record
<1>4. CASE Correct(i)
  <2>1. PICK verdict : verdict = Classify(view[i], viewAt[i], context[i]) OBVIOUS
  <2>2. PICK d : d = context[i] OBVIOUS
  <2>3. verdict \in Outcomes /\ d \in Nat
    <3>1. PICK id : id = context[i] OBVIOUS
    <3> QED BY <2>1, <2>2, <3>1, ViewTypes DEF TypeInv, MemoryInv
  <2>4. Decide(i, verdict, d) BY <1>4, <2>1, <2>2 DEF Correct
  <2> QED BY <1>0, <2>3, <2>4, DecideMemory
<1>5. CASE RecheckFails(i)
  BY <1>0, <1>5 DEF TypeInv, MemoryInv, RecheckFails, Results, Null
<1>6. CASE Claim(i)
  <2>1. CASE End(i) BY <1>0, <2>1, EndMemory
  <2>2. CASE UNCHANGED <<view, viewAt, context, result>>
    BY <1>0, <2>2 DEF TypeInv, MemoryInv
  <2> QED BY <1>6, <2>1, <2>2 DEF Claim
<1>7. CASE Confirm(i)
  <2>1. CASE End(i) BY <1>0, <2>1, EndMemory
  <2>2. CASE UNCHANGED invocationVars
    BY <1>0, <2>2 DEF TypeInv, MemoryInv, invocationVars
  <2> QED BY <1>7, <2>1, <2>2 DEF Confirm
<1>8. CASE Dispatch(i)
  <2>1. \E answer \in Results \X Nat : result' = [result EXCEPT ![i] = answer]
    <3>1. CASE \E marked \in FallbackMarks :
                 \E answer \in {<<"dispatch_accepted", NewRun(marked).id>>,
                                <<"dispatch_unknown", Null>>} :
                    result' = [result EXCEPT ![i] = answer]
      <4>1. PICK marked \in FallbackMarks :
              \E answer \in {<<"dispatch_accepted", NewRun(marked).id>>,
                             <<"dispatch_unknown", Null>>} :
                 result' = [result EXCEPT ![i] = answer]
        BY <3>1
      <4>2. marked \in BOOLEAN BY WatchdogAssumption
      <4>3. NewRun(marked).id \in Nat BY <4>2, NewRunTypes DEF Runs
      <4> QED BY <4>1, <4>3 DEF Results, Null
    <3>2. CASE \E answer \in {"dispatch_failed", "dispatch_unknown"} :
                 result' = [result EXCEPT ![i] = <<answer, Null>>]
      BY <3>2 DEF Results, Null
    <3> QED BY <1>8, <3>1, <3>2 DEF Dispatch
  <2>2. UNCHANGED <<view, viewAt, context>> BY <1>8 DEF Dispatch
  <2> QED BY <1>0, <2>1, <2>2 DEF TypeInv, MemoryInv
<1>9. CASE Finish(i) \/ Stop(i)
  BY <1>0, <1>9, EndMemory DEF Finish, Stop
<1> QED BY <1>1, <1>2, <1>3, <1>4, <1>5, <1>6, <1>7, <1>8, <1>9 DEF Step

LEMMA StepGitHub ==
  ASSUME TypeInv, NEW i \in Invocations, Step(i)
  PROVE  GitHubInv'
<1>1. now' = now
  BY DEF Step, Start, Observe, Record, Correct, RecheckFails, Claim, Confirm, Dispatch,
     Finish, Stop
<1>2. CASE Dispatch(i)
  <2>1. runs' = runs \/ \E marked \in FallbackMarks : runs' = runs \cup {NewRun(marked)}
    BY <1>2 DEF Dispatch
  <2>2. runs' = runs \/ \E marked \in BOOLEAN : runs' = runs \cup {NewRun(marked)}
    BY <2>1, WatchdogAssumption
  <2> QED BY <1>1, <2>2, GitHubTypes
<1>3. CASE UNCHANGED runs BY <1>1, <1>3, GitHubTypes
<1> QED BY <1>2, <1>3 DEF Step, Start, Observe, Record, Correct, RecheckFails, Claim,
       Confirm, Finish, Stop

LEMMA NextTypes == TypeInv /\ [Next]_vars => TypeInv'
<1> SUFFICES ASSUME TypeInv, [Next]_vars PROVE TypeInv' OBVIOUS
<1>1. WatchdogInv' BY NextWatchdog DEF TypeInv
<1> SUFFICES GitHubInv' /\ RowInv' /\ MemoryInv' BY <1>1 DEF TypeInv
<1>2. ASSUME NEW i \in Invocations, Step(i) PROVE GitHubInv' /\ RowInv' /\ MemoryInv'
  BY <1>2, StepGitHub, StepRow, StepMemory
<1>3. CASE Tick
  <2>1. now' = now + 1 /\ now \in Nat BY <1>3 DEF Tick, TypeInv, WatchdogInv, TimeTypeOK
  <2>2. GitHubInv' /\ MemoryInv'
    BY <1>3, <2>1 DEF Tick, TypeInv, GitHubInv, MemoryInv, Runs, invocationVars
  <2>3. RowInv'
    BY <1>3 DEF Tick, TypeInv, RowInv, snapshotVars, claimVars, dispatchVars
  <2> QED BY <2>2, <2>3
<1>4. CASE \/ \E marked \in BOOLEAN : StartRun(marked)
           \/ \E r \in runs : EndRun(r)
           \/ UNCHANGED vars
  <2>1. UNCHANGED <<now, snapshotVars, claimVars, dispatchVars, lastRun, pc,
                    invocationVars, postAt>>
    BY <1>4 DEF StartRun, EndRun, vars
  <2>2. GitHubInv'
    <3>1. \/ runs' = runs
          \/ \E marked \in BOOLEAN : runs' = runs \cup {NewRun(marked)}
          \/ \E r \in runs : EndRun(r)
      BY <1>4 DEF StartRun, vars
    <3> QED BY <2>1, <3>1, GitHubTypes
  <2>3. RowInv' /\ MemoryInv'
    BY <2>1 DEF TypeInv, RowInv, MemoryInv, snapshotVars, claimVars, dispatchVars,
       invocationVars
  <2> QED BY <2>2, <2>3
<1> QED BY <1>2, <1>3, <1>4 DEF Next

LEMMA TypeInvariant == Spec => []TypeInv
  BY InitTypes, NextTypes, PTL DEF Spec

\* Every variable keeps its type; the row keeps the table's check that a claim has
\* its two instants, in order, or none of the three.
THEOREM TypeCorrect == Spec => []TypeOK
  BY TypeInvariant, TypesHold, PTL

-----------------------------------------------------------------------------
(* A dispatch is needed.  The verdict an invocation acts on was taken from  *)
(* an older view of the runs, and from the last dispatched run as the       *)
(* database knew it then.  Both are still good at the POST: a run created   *)
(* before the invocation began is in its view, at least as active as it is  *)
(* now, and nobody but the claim's holder changes the last dispatched run.  *)

Seen(i) ==
    pc[i] \in {"record", "correct", "confirm", "dispatch"} =>
        \/ view[i] = {}
        \/ \A r \in runs : r.at < startedAt[i] =>
              \E q \in view[i] : /\ q.id = r.id /\ q.at = r.at /\ q.marked = r.marked
                                 /\ r.active => q.active

Judged(i) ==
    /\ pc[i] = "correct" /\ round[i] = 2 => context[i] = lastRun
    /\ pc[i] \in {"confirm", "dispatch"} => Classify(view[i], viewAt[i], lastRun) = "stale"

SightInv == TypeInv /\ \A i \in Invocations : Seen(i) /\ Judged(i)

\* The part of an invocation's memory that Seen and Judged read.
Remembers(i) ==
    /\ pc'[i] = pc[i] /\ round'[i] = round[i] /\ startedAt'[i] = startedAt[i]
    /\ view'[i] = view[i] /\ viewAt'[i] = viewAt[i] /\ context'[i] = context[i]

RunsStep ==
    \/ runs' = runs
    \/ \E marked \in BOOLEAN : runs' = runs \cup {NewRun(marked)}
    \/ \E r \in runs : EndRun(r)

LEMMA OthersRemember ==
  ASSUME TypeInv, NEW j \in Invocations, Step(j), NEW i \in Invocations \ {j}
  PROVE  Remembers(i)
<1> USE DEF Remembers, Goto, End, TypeInv, WatchdogInv, TimeTypeOK, MemoryInv
<1>1. CASE Start(j) \/ Observe(j) \/ RecheckFails(j) \/ Stop(j)
  BY <1>1 DEF Start, Observe, RecheckFails, Stop
<1>2. CASE Record(j)
  <2>1. UNCHANGED startedAt BY <1>2 DEF Record
  <2>2. PICK verdict, d : Decide(j, verdict, d)
                          \/ (/\ Goto(j, "correct") /\ context' = [context EXCEPT ![j] = d]
                              /\ UNCHANGED <<round, view, viewAt, result>>)
    BY <1>2 DEF Record
  <2> QED BY <2>1, <2>2 DEF Decide
<1>3. CASE Correct(j)
  <2>1. UNCHANGED startedAt BY <1>3 DEF Correct
  <2>2. PICK verdict, d : Decide(j, verdict, d) BY <1>3 DEF Correct
  <2> QED BY <2>1, <2>2 DEF Decide
<1>4. CASE Claim(j) BY <1>4 DEF Claim
<1>5. CASE Confirm(j) BY <1>5 DEF Confirm, invocationVars
<1>6. CASE Dispatch(j) BY <1>6 DEF Dispatch
<1>7. CASE Finish(j) BY <1>7 DEF Finish
<1> QED BY <1>1, <1>2, <1>3, <1>4, <1>5, <1>6, <1>7 DEF Step

LEMMA StepRuns ==
  ASSUME NEW i \in Invocations, Step(i)
  PROVE  now' = now /\ RunsStep
<1>1. CASE Dispatch(i)
  <2>1. runs' = runs \/ \E marked \in FallbackMarks : runs' = runs \cup {NewRun(marked)}
    BY <1>1 DEF Dispatch
  <2>2. now' = now BY <1>1 DEF Dispatch
  <2> QED BY <2>1, <2>2, WatchdogAssumption DEF RunsStep
<1> QED BY <1>1 DEF Step, Start, Observe, Record, Correct, RecheckFails, Claim, Confirm,
       Finish, Stop, RunsStep

\* A run that begins later is not older than the invocation; one that ends stays in
\* the view.
LEMMA SeenKept ==
  ASSUME TypeInv, NEW i \in Invocations, Seen(i), Remembers(i), RunsStep
  PROVE  Seen(i)'
<1> SUFFICES ASSUME pc[i] \in {"record", "correct", "confirm", "dispatch"}, view[i] # {},
                    NEW r \in runs', r.at < startedAt[i]
             PROVE  \E q \in view[i] : /\ q.id = r.id /\ q.at = r.at /\ q.marked = r.marked
                                       /\ r.active => q.active
  BY DEF Seen, Remembers
<1>1. startedAt[i] <= now /\ startedAt[i] \in Nat /\ now \in Nat
  BY DEF TypeInv, WatchdogInv, TimeTypeOK, RoundInv, Alive
<1>2. \E p \in runs : /\ p.id = r.id /\ p.at = r.at /\ p.marked = r.marked
                      /\ r.active => p.active
  <2>1. CASE r \in runs BY <2>1
  <2>2. CASE r \notin runs /\ \E marked \in BOOLEAN : runs' = runs \cup {NewRun(marked)}
    <3>1. PICK marked \in BOOLEAN : r = NewRun(marked) BY <2>2
    <3>2. r.at = now BY <3>1, NewRunTypes
    <3> QED BY <1>1, <3>2
  <2>3. CASE r \notin runs /\ \E p \in runs : EndRun(p)
    <3>1. PICK p \in runs : r = [p EXCEPT !.active = FALSE] BY <2>3 DEF EndRun
    <3>2. p \in Runs BY DEF TypeInv, GitHubInv
    <3>3. r.id = p.id /\ r.at = p.at /\ r.marked = p.marked /\ ~r.active
      BY <3>1, <3>2 DEF Runs
    <3> QED BY <3>3
  <2> QED BY <2>1, <2>2, <2>3 DEF RunsStep
<1>3. PICK p \in runs : /\ p.id = r.id /\ p.at = r.at /\ p.marked = r.marked
                        /\ r.active => p.active
  BY <1>2
<1>4. p.at < startedAt[i] BY <1>3
<1>5. PICK q \in view[i] : /\ q.id = p.id /\ q.at = p.at /\ q.marked = p.marked
                           /\ p.active => q.active
  BY <1>4 DEF Seen
<1> QED BY <1>3, <1>5

LEMMA JudgedKept ==
  ASSUME NEW i \in Invocations, Judged(i), Remembers(i), lastRun' = lastRun
  PROVE  Judged(i)'
  BY DEF Judged, Remembers

\* Only the holder of the claim records the run it dispatched.
LEMMA OthersLeaveLastRun ==
  ASSUME TypeInv, NEW j \in Invocations, Step(j),
         NEW i \in Invocations \ {j}, Holds(i)
  PROVE  lastRun' = lastRun
<1>1. claimant = i BY HolderKeepsClaim DEF TypeInv
<1>2. CASE Finish(j) BY <1>1, <1>2 DEF Finish, Finishable
<1> QED BY <1>2 DEF Step, Start, Observe, Record, Correct, RecheckFails, Claim, Confirm,
       Dispatch, Stop

LEMMA OthersJudged ==
  ASSUME TypeInv, NEW j \in Invocations, Step(j),
         NEW i \in Invocations \ {j}, Judged(i)
  PROVE  Judged(i)'
<1>1. Remembers(i) BY OthersRemember
<1>2. CASE Holds(i) BY <1>1, <1>2, OthersLeaveLastRun, JudgedKept
<1>3. CASE ~Holds(i)
  <2>1. ~(pc[i] = "correct" /\ round[i] = 2) /\ pc[i] \notin {"confirm", "dispatch"}
    BY <1>3 DEF Holds, TypeInv, WatchdogInv, RoundInv
  <2> QED BY <1>1, <2>1 DEF Judged, Remembers
<1> QED BY <1>2, <1>3

\* The invocation's own step.
LEMMA OwnSeen ==
  ASSUME SightInv, NEW i \in Invocations, Step(i)
  PROVE  Seen(i)'
<1>0. /\ TypeInv /\ Seen(i) /\ now' = now /\ RunsStep
      /\ pc \in [Invocations -> {"new", "observe", "record", "correct", "claim",
                                 "confirm", "dispatch", "finish", "done"}]
      /\ view \in [Invocations -> SUBSET Runs]
  BY StepRuns DEF SightInv, TypeInv, WatchdogInv, TimeTypeOK, MemoryInv
<1>1. CASE pc'[i] \notin {"record", "correct", "confirm", "dispatch"}
  BY <1>1 DEF Seen
<1>2. CASE Observe(i)
  <2>1. view'[i] \in {runs, {}} /\ runs' = runs BY <1>0, <1>2 DEF Observe
  <2> QED BY <2>1 DEF Seen
<1>3. CASE /\ pc'[i] \in {"record", "correct", "confirm", "dispatch"}
           /\ Record(i) \/ Correct(i) \/ Confirm(i)
  <2>1. /\ pc[i] \in {"record", "correct", "confirm", "dispatch"}
        /\ UNCHANGED <<runs, startedAt, view>>
    <3>1. ~End(i) BY <1>0, <1>3 DEF End, Goto
    <3>2. CASE Record(i) BY <3>1, <3>2 DEF Record, Decide
    <3>3. CASE Correct(i) BY <3>1, <3>3 DEF Correct, Decide
    <3>4. CASE Confirm(i) BY <3>1, <3>4 DEF Confirm, invocationVars
    <3> QED BY <1>3, <3>2, <3>3, <3>4
  <2> QED BY <1>0, <2>1 DEF Seen
<1>4. ASSUME Start(i) \/ RecheckFails(i) \/ Claim(i) \/ Dispatch(i) \/ Finish(i) \/ Stop(i)
      PROVE  pc'[i] \notin {"record", "correct", "confirm", "dispatch"}
  BY <1>0, <1>4 DEF Start, RecheckFails, Claim, Dispatch, Finish, Stop, End, Goto
<1> QED BY <1>1, <1>2, <1>3, <1>4 DEF Step

\* The verdict is taken with the last dispatched run: the first record's stands only
\* when that run does not change it.
LEMMA OwnJudged ==
  ASSUME SightInv, NEW i \in Invocations, Step(i)
  PROVE  Judged(i)'
<1>0. /\ TypeInv /\ Judged(i)
      /\ pc \in [Invocations -> {"new", "observe", "record", "correct", "claim",
                                 "confirm", "dispatch", "finish", "done"}]
      /\ round \in [Invocations -> {1, 2}]
      /\ context \in [Invocations -> Nat]
  BY DEF SightInv, TypeInv, WatchdogInv, TimeTypeOK, MemoryInv
<1>1. CASE pc'[i] \notin {"correct", "confirm", "dispatch"}
  BY <1>1 DEF Judged
<1>2. CASE Record(i) /\ pc'[i] \in {"correct", "confirm", "dispatch"}
  <2>1. UNCHANGED <<lastRun, view, viewAt>>
    <3>1. ~End(i) BY <1>0, <1>2 DEF End, Goto
    <3> QED BY <1>2, <3>1 DEF Record, Decide
  <2>2. CASE SameView(i, lastRun) /\ Decide(i, Classify(view[i], viewAt[i], Null), lastRun)
    <3>1. pc'[i] # "correct" /\ Classify(view[i], viewAt[i], Null) = "stale"
      BY <1>0, <1>2, <2>2 DEF Decide, Goto, End
    <3>2. Classify(view[i], viewAt[i], lastRun) = "stale" BY <2>2, <3>1 DEF SameView
    <3> QED BY <2>1, <3>1, <3>2 DEF Judged
  <2>3. CASE Goto(i, "correct") /\ context' = [context EXCEPT ![i] = lastRun]
    BY <1>0, <2>1, <2>3 DEF Judged, Goto
  <2> QED BY <1>2, <2>2, <2>3 DEF Record
<1>3. CASE Correct(i) /\ pc'[i] \in {"correct", "confirm", "dispatch"}
  <2>1. /\ UNCHANGED <<lastRun, view, viewAt>> /\ pc[i] = "correct"
        /\ pc'[i] = "confirm" /\ round[i] = 2
        /\ Classify(view[i], viewAt[i], context[i]) = "stale"
    BY <1>0, <1>3 DEF Correct, Decide, Goto, End
  <2>2. context[i] = lastRun BY <1>0, <2>1 DEF Judged
  <2> QED BY <2>1, <2>2 DEF Judged
<1>4. CASE Confirm(i) /\ pc'[i] \in {"correct", "confirm", "dispatch"}
  <2>1. ~End(i) BY <1>0, <1>4 DEF End, Goto
  <2>2. /\ UNCHANGED <<lastRun, view, viewAt>>
        /\ pc[i] = "confirm" /\ pc'[i] = "dispatch"
    BY <1>0, <1>4, <2>1 DEF Confirm, invocationVars, Goto
  <2> QED BY <1>0, <2>2 DEF Judged
<1>5. ASSUME \/ Start(i) \/ Observe(i) \/ RecheckFails(i) \/ Claim(i) \/ Dispatch(i)
             \/ Finish(i) \/ Stop(i)
      PROVE  pc'[i] \notin {"correct", "confirm", "dispatch"}
  BY <1>0, <1>5 DEF Start, Observe, RecheckFails, Claim, Dispatch, Finish, Stop, End, Goto
<1> QED BY <1>1, <1>2, <1>3, <1>4, <1>5 DEF Step

LEMMA NextSight == SightInv /\ [Next]_vars => SightInv'
<1> SUFFICES ASSUME SightInv, [Next]_vars PROVE SightInv' OBVIOUS
<1>1. TypeInv /\ TypeInv' BY NextTypes DEF SightInv
<1> SUFFICES ASSUME NEW i \in Invocations PROVE Seen(i)' /\ Judged(i)'
  BY <1>1 DEF SightInv
<1>2. Seen(i) /\ Judged(i) BY DEF SightInv
<1>3. ASSUME NEW j \in Invocations, Step(j) PROVE Seen(i)' /\ Judged(i)'
  <2>1. CASE i = j BY <1>3, <2>1, OwnSeen, OwnJudged
  <2>2. CASE i # j
    <3>1. Remembers(i) BY <1>1, <1>3, <2>2, OthersRemember
    <3>2. RunsStep BY <1>3, StepRuns
    <3> QED BY <1>1, <1>2, <1>3, <2>2, <3>1, <3>2, SeenKept, OthersJudged
  <2> QED BY <2>1, <2>2
<1>4. CASE ~\E j \in Invocations : Step(j)
  <2>1. Remembers(i) /\ lastRun' = lastRun /\ RunsStep
    BY <1>4 DEF Next, Tick, StartRun, EndRun, vars, invocationVars, Remembers, RunsStep
  <2> QED BY <1>1, <1>2, <2>1, SeenKept, JudgedKept
<1> QED BY <1>3, <1>4

LEMMA SightInvariant == Spec => []SightInv
<1>1. Init => SightInv
  <2> SUFFICES ASSUME Init PROVE SightInv OBVIOUS
  <2>1. TypeInv BY InitTypes
  <2> QED BY <2>1 DEF Init, SightInv, Seen, Judged
<1> QED BY <1>1, NextSight, PTL DEF Spec

LEMMA PostIsNeeded ==
  ASSUME SightInv, [Next]_vars, NEW i \in Invocations, postAt'[i] # postAt[i],
         NEW r \in runs, Young(r, now), Qualifies(r, lastRun) \/ r.active
  PROVE  startedAt[i] <= r.at
<1>1. pc[i] = "dispatch"
  <2>1. PICK j \in Invocations : Dispatch(j)
    BY DEF Next, Step, Start, Observe, Record, Correct, RecheckFails, Claim, Confirm,
       Finish, Stop, Tick, StartRun, EndRun, vars
  <2>2. i = j BY <2>1 DEF Dispatch, SightInv, TypeInv, WatchdogInv, TimeTypeOK
  <2> QED BY <2>1, <2>2 DEF Dispatch
<1>2. /\ Seen(i) /\ Classify(view[i], viewAt[i], lastRun) = "stale"
      /\ view[i] \in SUBSET Runs /\ viewAt[i] \in Nat /\ viewAt[i] <= now
      /\ \A q \in view[i] : q.at <= viewAt[i]
      /\ now \in Nat /\ startedAt[i] \in Nat /\ r.at \in Nat
  BY <1>1 DEF SightInv, Judged, TypeInv, WatchdogInv, TimeTypeOK, MemoryInv, GitHubInv, Runs
<1>3. view[i] # {}
  BY <1>2 DEF Classify, Latest, Null
<1> SUFFICES ASSUME r.at < startedAt[i] PROVE FALSE BY <1>2
<1>4. PICK q \in view[i] : /\ q.id = r.id /\ q.at = r.at /\ q.marked = r.marked
                           /\ r.active => q.active
  BY <1>1, <1>2, <1>3 DEF Seen
<1>5. Qualifies(q, lastRun) \/ q.active BY <1>4 DEF Qualifies
<1>6. q.at + StaleAfter <= viewAt[i]
  <2>1. PICK R, at, id : R = view[i] /\ at = viewAt[i] /\ id = lastRun OBVIOUS
  <2> QED BY <1>2, <1>5, <2>1, StaleMeans
<1> QED BY <1>2, <1>4, <1>6, WatchdogAssumption DEF Young

\* The watchdog posts only when every run it could know of, live, active or its own
\* last one, is StaleAfter old at the moment of the POST.
THEOREM DispatchOnlyWhenNeeded == Spec => DispatchIsNeeded
<1>1. SightInv /\ [Next]_vars =>
        [\A i \in Invocations : postAt'[i] # postAt[i] =>
          \A r \in runs :
             Young(r, now) /\ (Qualifies(r, lastRun) \/ r.active)
                => startedAt[i] <= r.at]_vars
  BY PostIsNeeded
<1> QED BY <1>1, SightInvariant, PTL DEF Spec, DispatchIsNeeded

=============================================================================
