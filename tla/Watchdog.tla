------------------------------ MODULE Watchdog ------------------------------
(***************************************************************************)
(* The scheduler watchdog.  GitHub's own schedule starts the availability  *)
(* workflow; when no live run has been created for StaleAfter, an edge     *)
(* function started by cron dispatches one itself.  Invocations overlap    *)
(* (cron, manual calls), lose answers and die; one row of the database     *)
(* keeps the last observation, a short claim and the dispatch cooldown.    *)
(*                                                                         *)
(* One action per transaction of the database, per call to GitHub and per  *)
(* run that GitHub creates or ends.  0 stands for a null timestamp or id.  *)
(***************************************************************************)
EXTENDS Naturals, FiniteSets

CONSTANTS
    Invocations,   \* calls of the edge function, each used once
    StaleAfter,    \* STALE_AFTER_MS, and the 45 minutes of the SQL (45 min)
    SnapshotAge,   \* how old an observation a claim or confirmation takes (2 min)
    Lease,         \* claim_expires_at - claimed_at (5 min)
    Cooldown,      \* dispatch_cooldown_until - dispatch_confirmed_at (30 min)
    Deadline,      \* FUNCTION_DEADLINE_MS (17.8 s)
    Service,       \* the instants of the service window, 07:20-00:30 in Tokyo
    FallbackMarks, \* may a dispatched run carry, or lack, the [manual-live] title
    Nobody,        \* claim_token is null
    MaxRuns,       \* bound: workflow runs ever created
    MaxTime        \* bound: the clock

ASSUME WatchdogAssumption ==
    /\ StaleAfter \in Nat \ {0} /\ SnapshotAge \in Nat
    /\ Lease \in Nat /\ Cooldown \in Nat /\ Deadline \in Nat \ {0}
    /\ Deadline < Lease /\ Deadline <= Cooldown
    /\ Service \subseteq Nat /\ FallbackMarks \subseteq BOOLEAN
    /\ Nobody \notin Invocations
    /\ MaxRuns \in Nat /\ MaxTime \in Nat

Null == 0

VARIABLES
    now,
    runs,           \* GitHub: the workflow's runs on main, newest id last
    \* update_availability_watchdog_state
    observer,       \* observation_token: the invocation and its round
    snapshotAt, outcome, latestLive,
    claimant, claimedAt, claimExpiresAt,
    cooldownUntil, confirmedAt, lastRun,
    \* invocations
    pc, round, startedAt, view, viewAt, context, result,
    \* history: when an invocation made its POST
    postAt

snapshotVars == <<observer, snapshotAt, outcome, latestLive>>
claimVars == <<claimant, claimedAt, claimExpiresAt>>
dispatchVars == <<cooldownUntil, confirmedAt>>
invocationVars == <<round, startedAt, view, viewAt, context, result>>
vars == <<now, runs, snapshotVars, claimVars, dispatchVars, lastRun, pc,
          invocationVars, postAt>>

Outcomes == {"fresh", "stale", "active", "unknown"}
Results == {"none", "recheck_fresh", "recheck_active", "recheck_unknown",
            "dispatch_accepted", "dispatch_failed", "dispatch_unknown"}
Runs == [id : Nat, at : Nat, marked : BOOLEAN, active : BOOLEAN]
NoToken == <<Nobody, 0>>
Tokens == (Invocations \X {1, 2}) \cup {NoToken}

TypeOK ==
    /\ now \in Nat /\ runs \subseteq Runs
    /\ observer \in Tokens /\ outcome \in Outcomes
    /\ snapshotAt \in Nat /\ latestLive \in Nat
    /\ claimant \in Invocations \cup {Nobody}
    /\ claimedAt \in Nat /\ claimExpiresAt \in Nat
    /\ IF claimant = Nobody THEN claimedAt = Null /\ claimExpiresAt = Null
       ELSE claimedAt < claimExpiresAt          \* the table's claim_triplet check
    /\ cooldownUntil \in Nat /\ confirmedAt \in Nat /\ lastRun \in Nat
    /\ pc \in [Invocations -> {"new", "observe", "record", "correct", "claim",
                               "confirm", "dispatch", "finish", "done"}]
    /\ round \in [Invocations -> {1, 2}]
    /\ startedAt \in [Invocations -> Nat]
    /\ view \in [Invocations -> SUBSET Runs]
    /\ viewAt \in [Invocations -> Nat]
    /\ context \in [Invocations -> Nat]
    /\ result \in [Invocations -> Results \X Nat]
    /\ postAt \in [Invocations -> Nat]

\* The workflow has run before, StaleAfter ago, or has never run live.
Init ==
    /\ now = StaleAfter + 1
    /\ \E marked \in BOOLEAN :
          runs = {[id |-> 1, at |-> 1, marked |-> marked, active |-> FALSE]}
    /\ observer = NoToken /\ outcome = "unknown"
    /\ snapshotAt = Null /\ latestLive = Null
    /\ claimant = Nobody /\ claimedAt = Null /\ claimExpiresAt = Null
    /\ cooldownUntil = Null /\ confirmedAt = Null /\ lastRun = Null
    /\ pc = [i \in Invocations |-> "new"]
    /\ round = [i \in Invocations |-> 1]
    /\ startedAt = [i \in Invocations |-> Null]
    /\ view = [i \in Invocations |-> {}]
    /\ viewAt = [i \in Invocations |-> Null]
    /\ context = [i \in Invocations |-> Null]
    /\ result = [i \in Invocations |-> <<"none", Null>>]
    /\ postAt = [i \in Invocations |-> Null]

-----------------------------------------------------------------------------
(* GitHub (external).                                                       *)

NewRun(marked) ==
    [id |-> 1 + Cardinality(runs), at |-> now, marked |-> marked, active |-> TRUE]

\* The schedule, or a member of the team, starts a run: live, or a dry run.
StartRun(marked) ==
    /\ Cardinality(runs) < MaxRuns
    /\ runs' = runs \cup {NewRun(marked)}
    /\ UNCHANGED <<now, snapshotVars, claimVars, dispatchVars, lastRun, pc,
                   invocationVars, postAt>>

EndRun(r) ==
    /\ r.active
    /\ runs' = (runs \ {r}) \cup {[r EXCEPT !.active = FALSE]}
    /\ UNCHANGED <<now, snapshotVars, claimVars, dispatchVars, lastRun, pc,
                   invocationVars, postAt>>

-----------------------------------------------------------------------------
(* What a list of runs means (classifyWorkflowRuns).  An empty list stands  *)
(* for every failure to fetch a complete one: both are unknown.             *)

Qualifies(r, id) == r.marked \/ r.id = id

Young(r, at) == at < r.at + StaleAfter

Latest(R, id) ==
    LET ats == {r.at : r \in {q \in R : Qualifies(q, id)}} IN
    IF ats = {} THEN Null ELSE CHOOSE t \in ats : \A s \in ats : s <= t

\* Faulty variants of a definition stand before it; the project file says which
\* property each of them breaks.
ClassifyLive(R, at, id) ==
    IF Latest(R, id) = Null THEN "unknown"
    ELSE IF at < Latest(R, id) + StaleAfter THEN "fresh" ELSE "stale"

Classify(R, at, id) ==
    IF \E r \in R : r.active /\ Young(r, at) THEN "active"
    ELSE IF Latest(R, id) = Null THEN "unknown"
    ELSE IF at < Latest(R, id) + StaleAfter THEN "fresh"
    ELSE "stale"

-----------------------------------------------------------------------------
(* The invocation.                                                          *)

Goto(i, label) == pc' = [pc EXCEPT ![i] = label]

\* The invocation returns, or dies, and its memory with it.
End(i) ==
    /\ Goto(i, "done")
    /\ round' = [round EXCEPT ![i] = 1]
    /\ view' = [view EXCEPT ![i] = {}]
    /\ viewAt' = [viewAt EXCEPT ![i] = Null]
    /\ context' = [context EXCEPT ![i] = Null]
    /\ result' = [result EXCEPT ![i] = <<"none", Null>>]
Token(i) == <<i, round[i]>>

Start(i) ==
    /\ pc[i] = "new" /\ now \in Service
    /\ Goto(i, "observe")
    /\ startedAt' = [startedAt EXCEPT ![i] = now]
    /\ UNCHANGED <<now, runs, snapshotVars, claimVars, dispatchVars, lastRun,
                   round, view, viewAt, context, result, postAt>>

\* GET the runs, all of them, or fail.
Observe(i) ==
    /\ pc[i] = "observe"
    /\ \E R \in {runs, {}} : view' = [view EXCEPT ![i] = R]
    /\ viewAt' = [viewAt EXCEPT ![i] = now]
    /\ Goto(i, "record")
    /\ UNCHANGED <<now, runs, snapshotVars, claimVars, dispatchVars, lastRun,
                   round, startedAt, context, result, postAt>>

\* What an invocation does once its observation is on record.  In observe mode
\* it stops after its first one, like one that dies there: see Stop.
Recheck == [fresh |-> "recheck_fresh", active |-> "recheck_active",
            unknown |-> "recheck_unknown"]

Decide(i, verdict, lastDispatched) ==
    \/ /\ verdict = "stale"
       /\ Goto(i, IF round[i] = 1 THEN "claim" ELSE "confirm")
       /\ context' = [context EXCEPT ![i] = lastDispatched]
       /\ UNCHANGED <<round, view, viewAt, result>>
    \/ round[i] = 1 /\ verdict # "stale" /\ End(i)
    \/ /\ round[i] = 2 /\ verdict # "stale" /\ Goto(i, "finish")
       /\ result' = [result EXCEPT ![i] = <<Recheck[verdict], Null>>]
       /\ context' = [context EXCEPT ![i] = lastDispatched]
       /\ UNCHANGED <<round, view, viewAt>>

WriteSnapshot(i, id) ==
    /\ observer' = Token(i) /\ snapshotAt' = now
    /\ outcome' = Classify(view[i], viewAt[i], id)
    /\ latestLive' = Latest(view[i], id)

SameView(i, id) ==
    /\ Classify(view[i], viewAt[i], id) = Classify(view[i], viewAt[i], Null)
    /\ Latest(view[i], id) = Latest(view[i], Null)

\* The first record returns the last run the watchdog dispatched; when that run
\* changes the verdict the observation is recorded again.
Record(i) ==
    /\ pc[i] = "record"
    /\ WriteSnapshot(i, Null)
    /\ \/ /\ SameView(i, lastRun)
          /\ Decide(i, Classify(view[i], viewAt[i], Null), lastRun)
       \/ /\ ~SameView(i, lastRun)
          /\ Goto(i, "correct")
          /\ context' = [context EXCEPT ![i] = lastRun]
          /\ UNCHANGED <<round, view, viewAt, result>>
    /\ UNCHANGED <<now, runs, claimVars, dispatchVars, lastRun, startedAt, postAt>>

Correct(i) ==
    /\ pc[i] = "correct"
    /\ WriteSnapshot(i, context[i])
    /\ Decide(i, Classify(view[i], viewAt[i], context[i]), context[i])
    /\ UNCHANGED <<now, runs, claimVars, dispatchVars, lastRun, startedAt, postAt>>

\* The second observation could not be recorded: give the claim back.
RecheckFails(i) ==
    /\ pc[i] \in {"record", "correct"} /\ round[i] = 2
    /\ Goto(i, "finish")
    /\ result' = [result EXCEPT ![i] = <<"recheck_unknown", Null>>]
    /\ UNCHANGED <<now, runs, snapshotVars, claimVars, dispatchVars, lastRun, round,
                   startedAt, view, viewAt, context, postAt>>

\* The conditions of both conditional UPDATEs.
StaleOnRecord(i) ==
    /\ observer = Token(i) /\ outcome = "stale"
    /\ snapshotAt # Null /\ now <= snapshotAt + SnapshotAge
    /\ latestLive # Null /\ latestLive + StaleAfter <= now
    /\ now \in Service

CoolAlways == TRUE
Cool == cooldownUntil <= now

UnclaimedAnyway == TRUE
Unclaimed == claimant = Nobody \/ claimExpiresAt <= now

Claim(i) ==
    /\ pc[i] = "claim"
    /\ \/ /\ StaleOnRecord(i) /\ Unclaimed /\ Cool
          /\ claimant' = i /\ claimedAt' = now /\ claimExpiresAt' = now + Lease
          /\ Goto(i, "observe")
          /\ round' = [round EXCEPT ![i] = 2]
          /\ UNCHANGED <<view, viewAt, context, result>>
       \/ /\ ~(StaleOnRecord(i) /\ Unclaimed /\ Cool)
          /\ End(i)
          /\ UNCHANGED claimVars
    /\ UNCHANGED <<now, runs, snapshotVars, dispatchVars, lastRun, startedAt, postAt>>

Confirmable(i) ==
    StaleOnRecord(i) /\ claimant = i /\ now < claimExpiresAt /\ Cool

Confirm(i) ==
    /\ pc[i] = "confirm"
    /\ \/ /\ Confirmable(i)
          /\ cooldownUntil' = now + Cooldown /\ confirmedAt' = now
          /\ Goto(i, "dispatch")
          /\ UNCHANGED invocationVars
       \/ /\ ~Confirmable(i)
          /\ End(i)
          /\ UNCHANGED <<dispatchVars, startedAt>>
    /\ UNCHANGED <<now, runs, snapshotVars, claimVars, lastRun, postAt>>

\* The one POST: a run with its id, a run whose id is lost, or no run.
Dispatch(i) ==
    /\ pc[i] = "dispatch"
    /\ postAt' = [postAt EXCEPT ![i] = now]
    /\ \/ \E marked \in FallbackMarks :
            /\ Cardinality(runs) < MaxRuns
            /\ runs' = runs \cup {NewRun(marked)}
            /\ \E answer \in {<<"dispatch_accepted", NewRun(marked).id>>,
                              <<"dispatch_unknown", Null>>} :
                  result' = [result EXCEPT ![i] = answer]
       \/ \E answer \in {"dispatch_failed", "dispatch_unknown"} :
            /\ result' = [result EXCEPT ![i] = <<answer, Null>>]
            /\ UNCHANGED runs
    /\ Goto(i, "finish")
    /\ UNCHANGED <<now, snapshotVars, claimVars, dispatchVars, lastRun, round,
                   startedAt, view, viewAt, context>>

IsDispatchResult(res) ==
    res \in {"dispatch_accepted", "dispatch_failed", "dispatch_unknown"}

Finishable(i) ==
    /\ claimant = i
    /\ \/ IsDispatchResult(result[i][1]) /\ confirmedAt # Null /\ confirmedAt >= claimedAt
       \/ /\ ~IsDispatchResult(result[i][1])
          /\ confirmedAt = Null \/ confirmedAt < claimedAt
          /\ now < claimExpiresAt

FreeToken == claimant' = Nobody /\ UNCHANGED <<claimedAt, claimExpiresAt>>
FreeClaim == claimant' = Nobody /\ claimedAt' = Null /\ claimExpiresAt' = Null

Finish(i) ==
    /\ pc[i] = "finish"
    /\ \/ /\ Finishable(i)
          /\ FreeClaim
          /\ lastRun' = IF result[i][1] = "dispatch_accepted" THEN result[i][2] ELSE lastRun
       \/ ~Finishable(i) /\ UNCHANGED <<claimVars, lastRun>>
    /\ End(i)
    /\ UNCHANGED <<now, runs, snapshotVars, dispatchVars, startedAt, postAt>>

\* The invocation dies, or a call throws: also after any of its effects.
Stop(i) ==
    /\ pc[i] \notin {"new", "done"}
    /\ End(i)
    /\ UNCHANGED <<now, runs, snapshotVars, claimVars, dispatchVars, lastRun,
                   startedAt, postAt>>

\* Time passes.  No invocation outlives its deadline.
Tick ==
    /\ now < MaxTime
    /\ \A i \in Invocations :
          pc[i] \notin {"new", "done"} => now < startedAt[i] + Deadline
    /\ now' = now + 1
    /\ UNCHANGED <<runs, snapshotVars, claimVars, dispatchVars, lastRun, pc,
                   invocationVars, postAt>>

Step(i) ==
    \/ Start(i) \/ Observe(i) \/ Record(i) \/ Correct(i) \/ RecheckFails(i)
    \/ Claim(i) \/ Confirm(i) \/ Dispatch(i) \/ Finish(i) \/ Stop(i)

Next ==
    \/ \E marked \in BOOLEAN : StartRun(marked)
    \/ \E r \in runs : EndRun(r)
    \/ \E i \in Invocations : Step(i)
    \/ Tick

Spec == Init /\ [][Next]_vars

-----------------------------------------------------------------------------
\* Two dispatches are a cooldown apart, but for the time an invocation may live
\* between its confirmation and its POST: whatever invocations overlap, die or
\* lose answers, no storm of workflow runs.
CooldownHolds ==
    \A i, j \in Invocations :
        i # j /\ postAt[i] # Null /\ postAt[j] # Null /\ postAt[i] <= postAt[j]
            => postAt[i] + Cooldown <= postAt[j] + Deadline

\* The claim excludes: at most one invocation is past it and not yet finished.
Holds(i) ==
    \/ round[i] = 2 /\ pc[i] \in {"observe", "record", "correct", "confirm", "dispatch"}
    \/ pc[i] = "finish"

OneClaimHolder == \A i, j \in Invocations : Holds(i) /\ Holds(j) => i = j

\* The watchdog dispatches only when the schedule has failed: every live run,
\* every active one and the one it dispatched last, if created before the
\* invocation began, is StaleAfter old.
DispatchIsNeeded ==
    [][\A i \in Invocations : postAt'[i] # postAt[i] =>
          \A r \in runs :
             Young(r, now) /\ (Qualifies(r, lastRun) \/ r.active)
                => startedAt[i] <= r.at]_vars

=============================================================================
