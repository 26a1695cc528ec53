----------------------------- MODULE RulesPage -----------------------------
(***************************************************************************)
(* account/notifications.html in several tabs of one member: the rules as  *)
(* each tab shows them, its form, the calls it has outstanding, and the    *)
(* table they read and write.  A tab's script runs to its next await; the  *)
(* answer of a call may come late, be lost, or be an error.  (The email    *)
(* toggle of the same page is in EmailPreference.)                         *)
(***************************************************************************)
EXTENDS Naturals, FiniteSets

CONSTANTS
    Tabs, Ids,
    NoId,             \* editingRuleId = null
    MaxRules,         \* MAX_NOTIFICATION_RULES, v_max_notification_rules (5)
    Starts, Ends, Lengths,      \* the form's choices, in hours
    Opens, Closes,    \* MONITORING_START_MINUTES, MONITORING_END_MINUTES
    MinWindow,        \* MINIMUM_NOTIFICATION_WINDOW_MINUTES
    DefaultLength,    \* DEFAULT_MINIMUM_DURATION_MINUTES
    Lossy,            \* whether answers may be lost
    MaxStray,         \* bound: requests on their way that no page waits for
    MaxCommits        \* bound: changes of the rules

ASSUME RulesPageAssumption ==
    /\ IsFiniteSet(Ids) /\ NoId \notin Ids /\ MaxStray \in Nat
    /\ MaxRules \in Nat \ {0} /\ MaxCommits \in Nat
    /\ Opens \in Nat /\ Closes \in Nat
    /\ MinWindow \in Nat \ {0} /\ DefaultLength \in 1..MinWindow
    /\ Starts \subseteq Opens..(Closes - MinWindow) /\ Opens \in Starts
    /\ Ends \subseteq (Opens + MinWindow)..Closes /\ Closes \in Ends
    /\ Lengths \subseteq 1..(Closes - Opens) /\ DefaultLength \in Lengths
    /\ Lossy \in BOOLEAN

VARIABLES
    rules,            \* notification_rules
    commits,          \* changes made to the rules so far
    tab,              \* what each tab shows, and its flags
    calls             \* requests under way, and answers

vars == <<rules, commits, tab, calls>>

RuleStates == {"none", "on", "off", "gone"}
Live(r) == {i \in Ids : r[i] \in {"on", "off"}}

\* A tab before start().
Times == [start : Starts, end : Ends, length : Lengths]
FreshTimes == [start |-> Opens, end |-> Closes, length |-> DefaultLength]
Closed ==
    [view |-> "closed", listed |-> {}, enabled |-> {},
     seen |-> 0, confirmed |-> 0, mutationBusy |-> FALSE, formSubmitting |-> FALSE,
     formOpen |-> FALSE, editing |-> NoId, times |-> FreshTimes, refreshFailed |-> FALSE]

\* What a load has read.
Blank == [listed |-> {}, enabled |-> {}, seen |-> 0]

Changes == {"toggle", "delete", "save"}
Loads == {"start", "changed", "saved", "limited"}
Kinds == Changes \cup Loads

Call(t, kind, id, on) ==
    [tab |-> t, kind |-> kind, id |-> id, on |-> on, stage |-> "sent",
     awaited |-> TRUE, got |-> Blank]

TypeOK ==
    /\ rules \in [Ids -> RuleStates]
    /\ commits \in 0..MaxCommits
    /\ tab \in [Tabs ->
          [view : {"closed", "loading", "shown", "failed", "away"},
           listed : SUBSET Ids, enabled : SUBSET Ids,
           seen : 0..MaxCommits, confirmed : 0..MaxCommits,
           mutationBusy : BOOLEAN, formSubmitting : BOOLEAN, formOpen : BOOLEAN,
           editing : Ids \cup {NoId}, times : Times, refreshFailed : BOOLEAN]]
    /\ \A t \in Tabs : ~tab[t].formOpen => tab[t].editing = NoId
    /\ calls \subseteq
          [tab : Tabs, kind : Kinds, id : Ids \cup {NoId}, on : BOOLEAN,
           stage : {"sent", "counted", "done", "refused", "limit"},
           awaited : BOOLEAN,
           got : [listed : SUBSET Ids, enabled : SUBSET Ids, seen : 0..MaxCommits]]

Init ==
    /\ rules = [i \in Ids |-> "none"] /\ commits = 0
    /\ tab = [t \in Tabs |-> Closed]
    /\ calls = {}

Awaited(t, kinds) == {c \in calls : c.tab = t /\ c.awaited /\ c.kind \in kinds}
Issue(c) == calls' = calls \cup {c}
FewStray == Cardinality({c \in calls' : ~c.awaited}) <= MaxStray

-----------------------------------------------------------------------------
(* The form's times.                                                        *)

\* isSupportedTimeRange, on whole hours.
Supported(start, end) ==
    start >= Opens /\ end <= Closes /\ end - start >= MinWindow

EndChoices(start) == {e \in Ends : e >= start + MinWindow}
First(S) == CHOOSE e \in S : \A f \in S : e <= f

\* syncTimeChoices: an end or a length that the start no longer allows is
\* replaced by the first end that it allows, and by the default length.
SyncEndOnly(times) ==
    IF times.end \in EndChoices(times.start) \/ EndChoices(times.start) = {} THEN times
    ELSE [times EXCEPT !.end = First(EndChoices(times.start))]
Sync(times) ==
    LET synced == SyncEndOnly(times) IN
    IF synced.length <= synced.end - synced.start THEN synced
    ELSE [synced EXCEPT !.length = DefaultLength]

\* The table's constraints on the times of a rule.
Storable(times) ==
    /\ times.start >= Opens /\ times.end <= Closes
    /\ times.end - times.start >= MinWindow
    /\ times.length >= 1 /\ times.length <= times.end - times.start

\* validateRuleForm, as far as the times go.
Valid(times) ==
    Supported(times.start, times.end) /\ times.length <= times.end - times.start

-----------------------------------------------------------------------------
(* A tab opens, is left or is reloaded.                                     *)

ReachedLimit(t) == Cardinality(tab[t].listed) >= MaxRules
ListActionsOffWhenBusy(t) ==
    tab[t].mutationBusy \/ tab[t].formSubmitting \/ tab[t].refreshFailed
ListActionsOff(t) == ListActionsOffWhenBusy(t) \/ tab[t].formOpen
CanAct(t) == tab[t].view = "shown" /\ ~ListActionsOff(t)

\* start(): no session, no profile, or not an active member; or the first load.
Start(t) ==
    /\ tab[t].view = "closed"
    /\ \/ tab' = [tab EXCEPT ![t].view = "away"] /\ UNCHANGED calls
       \/ tab' = [tab EXCEPT ![t].view = "loading"] /\ Issue(Call(t, "start", NoId, FALSE))
    /\ UNCHANGED <<rules, commits>>

\* Requests outlive the page that made them; reads do no more.
Leave(t) ==
    /\ tab[t].view # "closed"
    /\ tab' = [tab EXCEPT ![t] = Closed]
    /\ calls' = {c \in calls : c.tab # t \/ ~c.awaited}
          \cup {[c EXCEPT !.awaited = FALSE] :
                   c \in {d \in Awaited(t, Changes) :
                             d.stage \in {"sent", "counted"}}}
    /\ FewStray
    /\ UNCHANGED <<rules, commits>>

-----------------------------------------------------------------------------
(* The member at the rules.                                                 *)

OpenForm(t, id, times) ==
    tab' = [tab EXCEPT ![t].formOpen = TRUE, ![t].editing = id, ![t].times = Sync(times)]

\* openRuleForm for a new rule, and for a rule with the times it has.
NewRule(t) ==
    /\ CanAct(t) /\ ~ReachedLimit(t)
    /\ OpenForm(t, NoId, FreshTimes)
    /\ UNCHANGED <<rules, commits, calls>>

EditRule(t, i) ==
    /\ CanAct(t) /\ i \in tab[t].listed
    /\ \E times \in {x \in Times : Storable(x)} : OpenForm(t, i, times)
    /\ UNCHANGED <<rules, commits, calls>>

\* The controls that syncTimeChoices has left enabled.
ChooseTimes(t) ==
    /\ tab[t].formOpen /\ ~tab[t].formSubmitting
    /\ \E times \in Times :
          /\ \/ times = [tab[t].times EXCEPT !.start = times.start]
             \/ /\ times = [tab[t].times EXCEPT !.end = times.end]
                /\ times.end \in EndChoices(times.start)
             \/ /\ times = [tab[t].times EXCEPT !.length = times.length]
                /\ times.length <= times.end - times.start
          /\ tab' = [tab EXCEPT ![t].times = Sync(times)]
    /\ UNCHANGED <<rules, commits, calls>>

ShutFormOnly(f) == [f EXCEPT !.formOpen = FALSE, !.times = FreshTimes]
ShutForm(f) == [f EXCEPT !.formOpen = FALSE, !.editing = NoId, !.times = FreshTimes]

CloseForm(t) ==
    /\ tab[t].formOpen /\ ~tab[t].formSubmitting
    /\ tab' = [tab EXCEPT ![t] = ShutForm(@)]
    /\ UNCHANGED <<rules, commits, calls>>

\* saveRule up to its first await: the count is looked at again, the form is
\* validated, its controls are disabled and the RPC is called.
Save(t) ==
    /\ tab[t].formOpen /\ ~tab[t].formSubmitting
    /\ tab[t].editing = NoId => ~ReachedLimit(t)
    /\ Valid(tab[t].times)
    /\ tab' = [tab EXCEPT ![t].formSubmitting = TRUE]
    /\ \E on \in BOOLEAN : Issue(Call(t, "save", tab[t].editing, on))
    /\ UNCHANGED <<rules, commits>>

Toggle(t, i) ==
    /\ CanAct(t) /\ i \in tab[t].listed
    /\ tab' = [tab EXCEPT ![t].mutationBusy = TRUE]
    /\ Issue(Call(t, "toggle", i, i \notin tab[t].enabled))
    /\ UNCHANGED <<rules, commits>>

Delete(t, i) ==
    /\ CanAct(t) /\ i \in tab[t].listed
    /\ tab' = [tab EXCEPT ![t].mutationBusy = TRUE]
    /\ Issue(Call(t, "delete", i, FALSE))
    /\ UNCHANGED <<rules, commits>>

-----------------------------------------------------------------------------
(* The database.                                                            *)

Advance(c, stage, got) ==
    calls' = (calls \ {c}) \cup {[c EXCEPT !.stage = stage, !.got = got]}

Done(c) == Advance(c, "done", [c.got EXCEPT !.seen = commits + 1])

State(on) == IF on THEN "on" ELSE "off"

\* update and delete of a row that is still there, and the save of an edit, whose
\* first statement locks the row.
ChangeRow(c) ==
    /\ c.stage = "sent" /\ c.kind \in Changes /\ c.id # NoId
    /\ c.id \in Live(rules) /\ commits < MaxCommits
    /\ rules' = [rules EXCEPT ![c.id] = IF c.kind = "delete" THEN "gone" ELSE State(c.on)]
    /\ commits' = commits + 1
    /\ Done(c)
    /\ UNCHANGED tab

\* enforce_notification_rule_limit: the count is taken under an advisory lock
\* that the insert's transaction keeps until it commits.
CountUnlocked == TRUE
CountLocked == \A c \in calls : c.stage # "counted"

CountRules(c) ==
    /\ c.stage = "sent" /\ c.kind = "save" /\ c.id = NoId
    /\ CountLocked
    /\ Advance(c, IF Cardinality(Live(rules)) < MaxRules THEN "counted" ELSE "limit", c.got)
    /\ UNCHANGED <<rules, commits, tab>>

InsertRule(c) ==
    /\ c.stage = "counted" /\ commits < MaxCommits
    /\ \E i \in Ids : rules[i] = "none" /\ rules' = [rules EXCEPT ![i] = State(c.on)]
    /\ commits' = commits + 1
    /\ Done(c)
    /\ UNCHANGED tab

\* No such row, an email in flight, no longer an active member, an error.
Refuse(c) ==
    /\ c.stage \in {"sent", "counted"} /\ c.kind \in Changes
    /\ Advance(c, "refused", c.got)
    /\ UNCHANGED <<rules, commits, tab>>

\* The SELECT of the rules.
Read(c) ==
    /\ c.kind \in Loads /\ c.stage = "sent"
    /\ Advance(c, "done",
          [listed |-> Live(rules), enabled |-> {i \in Ids : rules[i] = "on"}, seen |-> commits])
    /\ UNCHANGED <<rules, commits, tab>>

-----------------------------------------------------------------------------
(* Answers.                                                                 *)

Close(c) == calls \ {c}
Abandon(c) ==
    (calls \ {c}) \cup (IF c.stage \in {"sent", "counted"}
                        THEN {[c EXCEPT !.awaited = FALSE]} ELSE {})

\* The list is read again before the flag that keeps the list quiet is cleared.
ChangeAnswered(c) ==
    /\ c.awaited /\ c.kind \in Changes /\ c.stage = "done"
    /\ tab' = [tab EXCEPT ![c.tab] =
          [(IF c.kind = "save" THEN ShutForm(@) ELSE @) EXCEPT !.confirmed = c.got.seen]]
    /\ calls' = Close(c) \cup
          {Call(c.tab, IF c.kind = "save" THEN "saved" ELSE "changed", NoId, FALSE)}
    /\ UNCHANGED <<rules, commits>>

LimitAnswered(c) ==
    /\ c.awaited /\ c.stage = "limit"
    /\ tab' = [tab EXCEPT ![c.tab] = ShutForm(@)]
    /\ calls' = Close(c) \cup {Call(c.tab, "limited", NoId, FALSE)}
    /\ UNCHANGED <<rules, commits>>

\* The flag of the operation a call belongs to.
Release(f, kind) ==
    CASE kind \in {"toggle", "delete", "changed"} -> [f EXCEPT !.mutationBusy = FALSE]
      [] kind \in {"save", "saved", "limited"} ->
             [f EXCEPT !.formSubmitting = FALSE, !.times = Sync(@)]
      [] kind = "start" -> f

\* An error, or no answer at all: the page says that nothing was changed.
ChangeFailed(c) ==
    /\ c.awaited /\ c.kind \in Changes
    /\ c.stage = "refused" \/ Lossy
    /\ tab' = [tab EXCEPT ![c.tab] = Release(@, c.kind)]
    /\ calls' = Abandon(c) /\ FewStray
    /\ UNCHANGED <<rules, commits>>

\* loadNotificationData has all its answers.
Loaded(c) ==
    /\ c.kind \in Loads /\ c.stage = "done"
    /\ tab' = [tab EXCEPT ![c.tab] =
          [Release(@, c.kind) EXCEPT
              !.view = "shown", !.listed = c.got.listed, !.enabled = c.got.enabled,
              !.seen = c.got.seen,
              !.refreshFailed = FALSE]]
    /\ calls' = Close(c)
    /\ UNCHANGED <<rules, commits>>

KeepList(f) == f
DistrustList(f) == [f EXCEPT !.refreshFailed = TRUE]

LoadFailed(c) ==
    /\ c.kind \in Loads /\ Lossy
    /\ tab' = [tab EXCEPT ![c.tab] =
          IF c.kind = "start" THEN [@ EXCEPT !.view = "failed"]
          ELSE DistrustList(Release(@, c.kind))]
    /\ calls' = Close(c)
    /\ UNCHANGED <<rules, commits>>

-----------------------------------------------------------------------------

Member(t) ==
    \/ Start(t) \/ Leave(t)
    \/ NewRule(t) \/ ChooseTimes(t) \/ CloseForm(t) \/ Save(t)
    \/ \E i \in Ids : EditRule(t, i) \/ Toggle(t, i) \/ Delete(t, i)

Database(c) ==
    \/ ChangeRow(c) \/ CountRules(c) \/ InsertRule(c) \/ Refuse(c) \/ Read(c)

Answer(c) ==
    \/ ChangeAnswered(c) \/ LimitAnswered(c) \/ ChangeFailed(c)
    \/ Loaded(c) \/ LoadFailed(c)

Next ==
    \/ \E t \in Tabs : Member(t)
    \/ \E c \in calls : Database(c) \/ Answer(c)

Spec == Init /\ [][Next]_vars

-----------------------------------------------------------------------------
(* What the page and the tables promise.                                    *)

\* However many tabs save at once, and whatever each has last seen, a member has
\* five rules at most: the trigger counts under a lock kept until the commit.
RuleLimit == Cardinality(Live(rules)) <= MaxRules

\* A tab has one call about its rules outstanding at most, whichever of its
\* buttons and of Enter in its form was used, and none that would rewrite the
\* list and the form's facilities while the member fills the form in.
OneRuleCall ==
    \A t \in Tabs :
        /\ Cardinality(Awaited(t, Kinds)) <= 1
        /\ tab[t].formOpen => Awaited(t, Loads) = {}

\* A list the page lets the member act on shows everything this tab was told is
\* done.  After a list could not be read again nothing on the page acts on it
\* until the page is loaded anew: "do not repeat the operation".
ActsOnFreshList ==
    \A t \in Tabs :
        /\ CanAct(t) => tab[t].seen >= tab[t].confirmed
        /\ tab[t].refreshFailed =>
              Awaited(t, Kinds) = {} /\ ~tab[t].formOpen /\ ListActionsOff(t)

\* Whatever the member clicks, the times in the form are ones the table takes.
FormIsStorable ==
    \A t \in Tabs : tab[t].formOpen => Valid(tab[t].times) /\ Storable(tab[t].times)

=============================================================================
