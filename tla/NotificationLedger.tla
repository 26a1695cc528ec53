------------------------- MODULE NotificationLedger -------------------------
(***************************************************************************)
(* From a free court to a queued email, and what is remembered of it.  The *)
(* half-hourly workflow scrapes the reservation sites, matches the slots   *)
(* with the members' rules and posts the candidates in batches to an       *)
(* enqueue transaction; delivery items are the ledger that keeps a member  *)
(* from being told of one slot twice; a daily cleanup erases old history.  *)
(*                                                                         *)
(* Time is counted in days of the service (Asia/Tokyo).  What happens to a *)
(* queued message is EmailDelivery's subject: here it is open, then        *)
(* settled.                                                                *)
(***************************************************************************)
EXTENDS Naturals, FiniteSets

CONSTANTS
    Users, Slots, Rules,
    RuleOwner,     \* the member a rule belongs to
    DateOf,        \* the day of a slot
    Unknown,       \* slots of a facility the database does not list as active
    Horizon,       \* WINDOW_DAYS: the days scraped, today included (15)
    Lateness,      \* how many days after its scrape a request can still land
    Retention,     \* days that history is kept (90)
    MaxBatch,      \* MAX_CANDIDATES_PER_REQUEST (500)
    CleanupBatch,  \* batch_size of the cleanup (1000)
    Restless,      \* bound: the members who do anything meanwhile
    MaxTime        \* bound: the clock

ASSUME LedgerAssumption ==
    /\ RuleOwner \in [Rules -> Users]
    /\ DateOf \in [Slots -> Nat]
    /\ Unknown \subseteq Slots
    /\ Horizon \in Nat \ {0} /\ Lateness \in Nat /\ Retention \in Nat
    /\ Lateness = 0 \/ Horizon + Lateness <= Retention
    /\ Restless \subseteq Users
    /\ MaxBatch \in Nat \ {0} /\ CleanupBatch \in Nat \ {0} /\ MaxTime \in Nat

VARIABLES
    now,
    \* the reservation sites, and data/availability.json as committed
    site, saved,
    \* members: profiles, email preferences, notification_rules
    account, enabled, ruleOn, criteria,
    \* the workflow run: its availability document and what is left to post
    pc, runDay, fresh, carried, candidates,
    \* enqueue requests whose client gave up before they landed
    late,
    \* notification_delivery_items (with their link to a message) and
    \* notification_messages; messages made for a member so far
    items, messages, made,
    \* how often a member was told of a slot; the last day a scrape saw it; the day
    \* an edit took it out of a rule that has not asked for it since
    notified, offered, dropped

memberVars == <<account, enabled, ruleOn, criteria>>
runVars == <<pc, runDay, fresh, carried, candidates>>
queueVars == <<items, messages, made, notified>>
history == <<offered, dropped>>
vars == <<now, site, saved, memberVars, runVars, late, queueVars, history>>

Unlinked == 0

Candidates == [user : Users, slot : Slots, rules : SUBSET Rules]
Items == [user : Users, slot : Slots, rules : SUBSET Rules, at : Nat, msg : Nat]
Messages == [user : Users, n : Nat \ {0}, at : Nat, touched : Nat, open : BOOLEAN]

TypeOK ==
    /\ now \in Nat
    /\ site \subseteq Slots /\ saved \subseteq Slots
    /\ account \in [Users -> {"active", "inactive", "deleted"}]
    /\ enabled \in [Users -> BOOLEAN]
    /\ ruleOn \in [Rules -> BOOLEAN]
    /\ criteria \in [Rules -> SUBSET Slots]
    /\ pc \in {"idle", "scraped", "post"} /\ runDay \in Nat
    /\ fresh \subseteq Slots /\ carried \subseteq Slots
    /\ candidates \subseteq Candidates
    /\ late \subseteq [batch : SUBSET Candidates, by : Nat]
    /\ items \subseteq Items /\ messages \subseteq Messages
    /\ made \in [Users -> Nat]
    /\ notified \in [Users -> [Slots -> Nat]]
    /\ offered \in [Slots -> Nat] /\ dropped \in [Rules -> [Slots -> Nat]]
    \* the foreign key of notification_message_items
    /\ \A i \in items : i.msg # Unlinked =>
          \E m \in messages : m.user = i.user /\ m.n = i.msg

Init ==
    /\ now = 1
    /\ site = {} /\ saved = {}
    /\ account = [u \in Users |-> "active"]
    /\ enabled = [u \in Users |-> TRUE]
    /\ ruleOn = [r \in Rules |-> TRUE]
    /\ criteria \in [Rules -> {Slots}]
    /\ pc = "idle" /\ runDay = 0
    /\ fresh = {} /\ carried = {} /\ candidates = {}
    /\ late = {}
    /\ items = {} /\ messages = {}
    /\ made = [u \in Users |-> 0]
    /\ notified = [u \in Users |-> [s \in Slots |-> 0]]
    /\ offered = [s \in Slots |-> 0]
    /\ dropped = [r \in Rules |-> [s \in Slots |-> 0]]

-----------------------------------------------------------------------------
(* The sites and the members.                                               *)

Appear(s) ==
    /\ s \notin site
    /\ site' = site \cup {s}
    /\ UNCHANGED <<now, saved, memberVars, runVars, late, queueVars, history>>

Vanish(s) ==
    /\ s \in site
    /\ site' = site \ {s}
    /\ UNCHANGED <<now, saved, memberVars, runVars, late, queueVars, history>>

\* Terms, withdrawal, opting in and out: see EmailDelivery for their guards.
Suspend(u) ==
    /\ \/ /\ account[u] = "active"
          /\ account' = [account EXCEPT ![u] = "inactive"] /\ UNCHANGED enabled
       \/ /\ enabled[u]
          /\ enabled' = [enabled EXCEPT ![u] = FALSE] /\ UNCHANGED account
    /\ UNCHANGED <<now, site, saved, ruleOn, criteria, runVars, late, queueVars,
                   history>>

Resume(u) ==
    /\ \/ /\ account[u] = "inactive"
          /\ account' = [account EXCEPT ![u] = "active"] /\ UNCHANGED enabled
       \/ /\ account[u] = "active" /\ ~enabled[u]
          /\ enabled' = [enabled EXCEPT ![u] = TRUE] /\ UNCHANGED account
    /\ UNCHANGED <<now, site, saved, ruleOn, criteria, runVars, late, queueVars,
                   history>>

\* The Auth user is deleted; its rows go by cascade.
Delete(u) ==
    /\ account[u] = "inactive"
    /\ account' = [account EXCEPT ![u] = "deleted"]
    /\ ruleOn' = [r \in Rules |-> ruleOn[r] /\ RuleOwner[r] # u]
    /\ items' = {i \in items : i.user # u}
    /\ messages' = {m \in messages : m.user # u}
    /\ UNCHANGED <<now, site, saved, enabled, criteria, runVars, late, made,
                   notified, history>>

\* A member edits, disables or enables a rule.
EditRule(r) ==
    /\ account[RuleOwner[r]] = "active"
    /\ \/ \E S \in SUBSET Slots :
            /\ criteria' = [criteria EXCEPT ![r] = S]
            /\ dropped' = [dropped EXCEPT ![r] =
                  [s \in Slots |-> IF s \in S THEN 0
                                   ELSE IF s \in criteria[r] THEN now ELSE @[s]]]
            /\ UNCHANGED ruleOn
       \/ ruleOn' = [ruleOn EXCEPT ![r] = ~@] /\ UNCHANGED <<criteria, dropped>>
    /\ UNCHANGED <<now, site, saved, account, enabled, runVars, late, queueVars,
                   offered>>

-----------------------------------------------------------------------------
(* The workflow run: scrape, match, post, commit.                           *)

Window == now .. now + Horizon - 1

\* For each day of the window the site answers, refuses with 403 (what is known
\* from before is carried over, marked as such), or fails in another way.
Scrape ==
    /\ pc = "idle"
    /\ \E answered, denied \in SUBSET Window :
        /\ answered \cap denied = {}
        /\ fresh' = {s \in site : DateOf[s] \in answered}
        /\ carried' = {s \in saved : DateOf[s] \in denied}
    /\ offered' = [s \in Slots |-> IF s \in fresh' THEN now ELSE offered[s]]
    /\ pc' = "scraped" /\ runDay' = now
    /\ UNCHANGED <<now, site, saved, memberVars, candidates, late, queueVars, dropped>>

\* list_notification_rules_for_matching: enabled rules of active members.
MatchedRules(u, s) ==
    {r \in Rules : RuleOwner[r] = u /\ ruleOn[r] /\ s \in criteria[r]}

\* Faulty variants of a definition stand before it; the project file says which
\* property each of them breaks.
MatchableCarried == fresh \cup carried
Matchable == fresh

Match ==
    /\ pc = "scraped"
    /\ candidates' =
          {c \in [user : Users, slot : Matchable, rules : SUBSET Rules] :
              /\ account[c.user] = "active"
              /\ c.rules = MatchedRules(c.user, c.slot) /\ c.rules # {}}
    /\ pc' = "post"
    /\ UNCHANGED <<now, site, saved, memberVars, runDay, fresh, carried, late,
                   queueVars, history>>

\* A request's candidates: MaxBatch of those left, or all.
Batch(B) ==
    /\ B \subseteq candidates /\ B # {}
    /\ Cardinality(B) <= MaxBatch
    /\ B # candidates => Cardinality(B) = MaxBatch

\* enqueue_email_notification_candidates.  One bad candidate fails the batch.
Valid(B) == \A c \in B : c.slot \notin Unknown

ListedOpen(u, s) ==
    \E i \in items, m \in messages :
        i.user = u /\ i.slot = s /\ m.user = u /\ m.n = i.msg /\ m.open
Listed(u, s) == \E i \in items : i.user = u /\ i.slot = s

CurrentAsMatched(c) == c.rules
Current(c) == {r \in c.rules : ruleOn[r]}

InsertableQuiet(B) ==
    {c \in B : /\ account[c.user] = "active" /\ enabled[c.user]
               /\ Current(c) # {}
               /\ ~Listed(c.user, c.slot)
               /\ ~\E m \in messages : m.user = c.user /\ m.open}
Insertable(B) ==
    {c \in B : /\ account[c.user] = "active" /\ enabled[c.user]
               /\ Current(c) # {}
               /\ ~Listed(c.user, c.slot)}

\* New items, and one message for each member who has any.
EnqueueRows(B) ==
    LET new == Insertable(B)
        told == {c.user : c \in new} IN
    /\ items' = items \cup
          {[user |-> c.user, slot |-> c.slot, rules |-> Current(c), at |-> now,
            msg |-> made[c.user] + 1] : c \in new}
    /\ messages' = messages \cup
          {[user |-> u, n |-> made[u] + 1, at |-> now, touched |-> now,
            open |-> TRUE] : u \in told}
    /\ made' = [u \in Users |-> IF u \in told THEN made[u] + 1 ELSE made[u]]
    /\ notified' = [u \in Users |-> [s \in Slots |->
          IF \E c \in new : c.user = u /\ c.slot = s
          THEN notified[u][s] + 1 ELSE notified[u][s]]]

\* The request is answered; a lost answer is this, followed by Abort.
Post(B) ==
    /\ pc = "post" /\ Batch(B) /\ Valid(B)
    /\ EnqueueRows(B)
    /\ candidates' = candidates \ B
    /\ UNCHANGED <<now, site, saved, memberVars, pc, runDay, fresh, carried, late,
                   history>>

\* What remains of the run once all is posted, or a step of matching or posting
\* has failed: the document is committed, unless its push fails.
Finish ==
    /\ pc' = "idle" /\ candidates' = {}
    /\ runDay' = 0 /\ fresh' = {} /\ carried' = {}
    /\ saved' \in {fresh \cup carried, saved}
    /\ UNCHANGED <<now, site, memberVars, queueVars, history>>

Complete == pc = "post" /\ candidates = {} /\ Finish /\ UNCHANGED late

\* The request times out and may land later, or fails, or the run dies.
Abort ==
    /\ pc \in {"scraped", "post"}
    /\ Finish
    /\ \/ UNCHANGED late
       \/ \E B \in SUBSET candidates :
            /\ pc = "post" /\ Batch(B)
            /\ late' = late \cup {[batch |-> B, by |-> runDay + Lateness]}

Land(q) ==
    /\ late' = late \ {q}
    /\ Valid(q.batch) /\ EnqueueRows(q.batch)
    /\ UNCHANGED <<now, site, saved, memberVars, runVars, history>>

-----------------------------------------------------------------------------
(* The queue's messages, and the cleanup.                                   *)

\* Delivery settles a message.
Settle(m) ==
    /\ m.open
    /\ messages' = (messages \ {m}) \cup {[m EXCEPT !.open = FALSE, !.touched = now]}
    /\ UNCHANGED <<now, site, saved, memberVars, runVars, late, items, made,
                   notified, history>>

\* A provider event about a settled message.
Feedback(m) ==
    /\ ~m.open
    /\ messages' = (messages \ {m}) \cup {[m EXCEPT !.touched = now]}
    /\ UNCHANGED <<now, site, saved, memberVars, runVars, late, items, made,
                   notified, history>>

Old(t) == t + Retention <= now

\* An event's arrival touches its message, so the check on events adds nothing.
Erasable == {m \in messages : ~m.open /\ Old(m.at) /\ Old(m.touched)}

UnlinkNone(X) == items
Unlink(X) ==
    {IF \E m \in X : m.user = i.user /\ m.n = i.msg
     THEN [i EXCEPT !.msg = Unlinked] ELSE i : i \in items}

ForgettableLinked(I) == {i \in I : Old(i.at) /\ DateOf[i.slot] < now}
Forgettable(I) == {i \in I : i.msg = Unlinked /\ Old(i.at) /\ DateOf[i.slot] < now}

\* Messages first, then the items no message refers to any more.  Rows that
\* others have locked are skipped: any batch of candidates may be erased.
Cleanup ==
    /\ \E X \in SUBSET Erasable :
        /\ Cardinality(X) <= CleanupBatch
        /\ messages' = messages \ X
        /\ \E Y \in SUBSET Forgettable(Unlink(X)) :
            /\ Cardinality(Y) <= CleanupBatch
            /\ X # {} \/ Y # {}
            /\ items' = Unlink(X) \ Y
    /\ UNCHANGED <<now, site, saved, memberVars, runVars, late, made, notified,
                   history>>

\* A day passes.  No run and no request lasts longer than Lateness.
Tick ==
    /\ now < MaxTime
    /\ pc # "idle" => now < runDay + Lateness
    /\ now' = now + 1
    /\ late' = {q \in late : now < q.by}
    /\ UNCHANGED <<site, saved, memberVars, runVars, queueVars, history>>

Member ==
    \/ \E u \in Restless : Suspend(u) \/ Resume(u) \/ Delete(u)
    \/ \E r \in Rules : RuleOwner[r] \in Restless /\ EditRule(r)

Run ==
    \/ Scrape \/ Match \/ Complete \/ Abort
    \/ \E B \in SUBSET candidates : Post(B)

Next ==
    \/ \E s \in Slots : Appear(s) \/ Vanish(s)
    \/ Member
    \/ Run
    \/ \E q \in late : Land(q)
    \/ \E m \in messages : Settle(m) \/ Feedback(m)
    \/ Cleanup
    \/ Tick

Spec == Init /\ [][Next]_vars

-----------------------------------------------------------------------------
\* A member is told of a slot at most once, whatever runs overlap midnight,
\* requests land late, slots vanish and come back, or history is erased.
SlotNotifiedOnce == \A u \in Users, s \in Slots : notified[u][s] <= 1

\* A member is told of a slot only if a scrape saw it on the site no longer ago
\* than a request can lag: what is carried over from before is shown, not sent.
NotifiedWhileOffered ==
    [][\A u \in Users, s \in Slots : notified'[u][s] > notified[u][s] =>
          offered[s] # 0 /\ now <= offered[s] + Lateness]_vars

\* Rules are read, matched and posted a batch at a time, and the enqueue looks at
\* a rule again but not at what it asks for.  A member is told of a slot only by a
\* rule that is enabled and asks for it still, or did until an edit no longer ago
\* than a request can lag.
NotifiedAsAsked ==
    [][\A u \in Users, s \in Slots : notified'[u][s] > notified[u][s] =>
          \E r \in Rules :
             /\ RuleOwner[r] = u /\ ruleOn[r]
             /\ \/ s \in criteria[r]
                \/ dropped[r][s] # 0 /\ now <= dropped[r][s] + Lateness]_vars

\* A message that may still be sent has something to say: the claim returns a
\* message through its items, and one without would be claimed and never sent.
OpenMessageHasItems ==
    \A m \in messages : m.open =>
        \E i \in items : i.user = m.user /\ i.msg = m.n

-----------------------------------------------------------------------------
(* Progress.  The schedule starts runs for ever and each goes on to its end,*)
(* if only by failing.  Infinitely often the site answers for every day and *)
(* the run goes on to match; a candidate posted again and again is answered.*)

SeenAll == \A s \in site : DateOf[s] \in Window => s \in fresh

PostFor(u, s) ==
    \E B \in SUBSET candidates :
        (\E c \in B : c.user = u /\ c.slot = s) /\ Post(B)

Fairness ==
    /\ SF_vars(Scrape /\ SeenAll')
    /\ SF_vars(Match /\ SeenAll)
    /\ \A u \in Users, s \in Slots : SF_vars(PostFor(u, s))
    /\ WF_vars(Run)

FairSpec == Spec /\ Fairness

Wanted(u, s) ==
    /\ s \in site \ Unknown /\ DateOf[s] \in Window
    /\ account[u] = "active" /\ enabled[u] /\ MatchedRules(u, s) # {}

\* A slot that stays free, wanted by a member who stays eligible, is queued in
\* the end, even if runs fail half way through their batches.
EveryMatchNotified ==
    \A u \in Users, s \in Slots : <>[]Wanted(u, s) => <>(notified[u][s] > 0)

=============================================================================
