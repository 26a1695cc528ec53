--------------------------- MODULE RulesPageProofs ---------------------------
(* For any number of tabs, rules and requests under way: the limit holds, a  *)
(* tab has one call at a time, acts on no list older than what it was told,  *)
(* and its form holds times that the table takes.                            *)
EXTENDS RulesPage, FiniteSetTheorems, WellFoundedInduction, TLAPS

-----------------------------------------------------------------------------
(* The form's times.                                                        *)

LEMMA LeastOf ==
    ASSUME NEW S \in SUBSET Nat, S # {}
    PROVE First(S) \in S /\ \A f \in S : First(S) <= f
<1> DEFINE R == OpToRel(<, Nat)
<1>1. IsWellFoundedOn(R, Nat) BY NatLessThanWellFounded
<1> HIDE DEF R
<1>2. PICK x \in S : \A y \in S : ~ (<<y, x>> \in R) BY <1>1, WFMin
<1>3. \A y \in S : ~(y < x) BY <1>2 DEF R, OpToRel
<1>4. \A y \in S : x <= y BY <1>3
<1> QED BY <1>4 DEF First

LEMMA SyncIsValid ==
    ASSUME NEW times \in Times
    PROVE Sync(times) \in Times /\ Valid(Sync(times)) /\ Storable(Sync(times))
<1> USE RulesPageAssumption
<1>1. /\ times.start \in Starts /\ times.start \in Opens..(Closes - MinWindow)
      /\ times.end \in Ends /\ times.length \in Lengths
      /\ Ends \subseteq Nat /\ Opens \in Nat /\ Closes \in Nat /\ MinWindow \in Nat
  <2>1. times.start \in Starts /\ times.end \in Ends /\ times.length \in Lengths BY DEF Times
  <2>2. Opens \in Nat /\ MinWindow \in Nat BY DEF RulesPageAssumption
  <2>3. Closes \in (Opens + MinWindow)..Closes BY DEF RulesPageAssumption
  <2>4. Closes \in Nat BY <2>2, <2>3
  <2>5. Ends \subseteq Nat
    <3>1. Ends \subseteq (Opens + MinWindow)..Closes BY DEF RulesPageAssumption
    <3> QED BY <2>2, <2>4, <3>1
  <2>6. times.start \in Opens..(Closes - MinWindow) BY <2>1 DEF RulesPageAssumption
  <2> QED BY <2>1, <2>2, <2>4, <2>5, <2>6
<1>2. Closes \in EndChoices(times.start) BY <1>1 DEF EndChoices, RulesPageAssumption
<1>3. First(EndChoices(times.start)) \in EndChoices(times.start)
  BY <1>1, <1>2, LeastOf DEF EndChoices
<1> DEFINE s == SyncEndOnly(times)
<1>4. s \in Times /\ s.start = times.start /\ s.end \in EndChoices(times.start)
  BY <1>1, <1>2, <1>3 DEF SyncEndOnly, Times, EndChoices
<1> HIDE DEF s
<1>5. Sync(times) = IF s.length <= s.end - s.start THEN s ELSE [s EXCEPT !.length = DefaultLength]
  BY DEF Sync, s
<1>6. /\ s.end - s.start >= MinWindow /\ s.start >= Opens /\ s.end <= Closes
      /\ s.start \in Nat /\ s.end \in Nat /\ s.length \in Nat \ {0}
      /\ DefaultLength \in 1..MinWindow
  <2>1. s.start \in Opens..(Closes - MinWindow) BY <1>1, <1>4
  <2>2. s.end \in (Opens + MinWindow)..Closes /\ s.end >= s.start + MinWindow
    BY <1>4 DEF EndChoices, RulesPageAssumption
  <2>3. s.length \in 1..(Closes - Opens) BY <1>4 DEF Times, RulesPageAssumption
  <2>4. DefaultLength \in 1..MinWindow BY DEF RulesPageAssumption
  <2> QED BY <1>1, <2>1, <2>2, <2>3, <2>4
<1>7. [s EXCEPT !.length = DefaultLength] \in Times
  BY <1>4 DEF Times, RulesPageAssumption
<1> DEFINE y == Sync(times)
<1>8. y \in Times /\ y.start = s.start /\ y.end = s.end /\ y.length \in Nat \ {0}
      /\ y.length <= y.end - y.start
  BY <1>4, <1>5, <1>6, <1>7 DEF Times
<1> QED BY <1>1, <1>6, <1>8 DEF Valid, Storable, Supported

LEMMA FreshIsTime == FreshTimes \in Times
BY RulesPageAssumption DEF RulesPageAssumption, FreshTimes, Times

-----------------------------------------------------------------------------
(* The invariant.                                                           *)

GotType == [listed : SUBSET Ids, enabled : SUBSET Ids, seen : 0..MaxCommits]
TabType ==
    [view : {"closed", "loading", "shown", "failed", "away"},
     listed : SUBSET Ids, enabled : SUBSET Ids,
     seen : 0..MaxCommits, confirmed : 0..MaxCommits,
     mutationBusy : BOOLEAN, formSubmitting : BOOLEAN, formOpen : BOOLEAN,
     editing : Ids \cup {NoId}, times : Times, refreshFailed : BOOLEAN]
CallType ==
    [tab : Tabs, kind : Kinds, id : Ids \cup {NoId}, on : BOOLEAN,
     stage : {"sent", "counted", "done", "refused", "limit"},
     awaited : BOOLEAN, got : GotType]

\* A tab when the rules have changed n times.  A form is open on a page that is
\* shown and idle or saving; a page that is neither busy nor distrusted shows
\* all it was told.
TabInv(f, n) ==
    /\ f \in TabType /\ f.confirmed <= n
    /\ ~f.formOpen => f.editing = NoId
    /\ f.formOpen => /\ f.view = "shown" /\ ~f.refreshFailed /\ ~f.mutationBusy
                     /\ Valid(f.times) /\ Storable(f.times)
    /\ f.view # "shown" => ~f.refreshFailed /\ ~f.mutationBusy /\ ~f.formSubmitting
    /\ f.view = "shown" /\ ~f.mutationBusy /\ ~f.formSubmitting /\ ~f.refreshFailed =>
          f.seen >= f.confirmed

\* A call of a tab f: the flag of its operation is set for as long as it is
\* awaited, and a list read for a tab is as new as what the tab was told.
Held(c, f) ==
    /\ ~f.refreshFailed
    /\ c.kind \in {"toggle", "delete", "changed"} => f.mutationBusy
    /\ c.kind \in {"save", "saved", "limited"} => f.formSubmitting
    /\ f.view = IF c.kind = "start" THEN "loading" ELSE "shown"
    /\ c.kind \in Loads => ~f.formOpen
    /\ c.kind \in Changes => f.seen >= f.confirmed
    /\ c.kind \in Loads /\ c.stage = "done" => c.got.seen >= f.confirmed

CallInv(c, f, n) ==
    /\ c \in CallType
    /\ c.kind \in Loads => c.stage \in {"sent", "done"} /\ c.awaited
    /\ c.stage \in {"counted", "limit"} => c.kind = "save"
    /\ c.kind \in Changes /\ c.stage = "done" => c.got.seen <= n
    /\ c.awaited => Held(c, f)

\* A count that is held is the only one, and there is room still.
RowInv ==
    /\ rules \in [Ids -> RuleStates] /\ commits \in 0..MaxCommits
    /\ Cardinality(Live(rules)) <= MaxRules
    /\ \A c \in calls : c.stage = "counted" =>
          /\ Cardinality(Live(rules)) < MaxRules
          /\ \A d \in calls : d.stage = "counted" => c = d

OneAwaited ==
    \A c, d \in calls : c.awaited /\ d.awaited /\ c.tab = d.tab => c = d

Inv ==
    /\ RowInv /\ OneAwaited
    /\ tab \in [Tabs -> TabType] /\ \A t \in Tabs : TabInv(tab[t], commits)
    /\ \A c \in calls : CallInv(c, tab[c.tab], commits)

-----------------------------------------------------------------------------
(* Steps in general.                                                        *)

\* Only tab t changes.
Alone(t) ==
    /\ tab' \in [Tabs -> TabType]
    /\ \A s \in Tabs \ {t} : tab'[s] = tab[s]
    /\ TabInv(tab'[t], commits')

LEMMA TabsKept ==
    ASSUME Inv, NEW t \in Tabs, Alone(t), commits' \in Nat, commits' >= commits
    PROVE \A s \in Tabs : TabInv(tab'[s], commits')
<1> SUFFICES ASSUME NEW s \in Tabs PROVE TabInv(tab'[s], commits') OBVIOUS
<1>1. CASE s = t BY <1>1 DEF Alone
<1>2. CASE s # t
  <2>1. tab'[s] = tab[s] /\ TabInv(tab[s], commits) BY <1>2 DEF Alone, Inv
  <2>2. tab[s].confirmed \in Nat /\ commits \in Nat
    BY <2>1, RulesPageAssumption DEF TabInv, TabType, Inv, RowInv, RulesPageAssumption
  <2> QED BY <2>1, <2>2 DEF TabInv
<1> QED BY <1>1, <1>2

\* A tab that is idle waits for nothing.
Waitless(t) == \A c \in calls : c.tab = t => ~c.awaited

LEMMA Quiet ==
    ASSUME Inv, NEW t \in Tabs,
           ~tab[t].mutationBusy, ~tab[t].formSubmitting, tab[t].view # "loading"
    PROVE Waitless(t)
<1> SUFFICES ASSUME NEW c \in calls, c.tab = t, c.awaited PROVE FALSE BY DEF Waitless
<1>1. c \in CallType /\ Held(c, tab[t]) BY DEF Inv, CallInv
<1>2. c.kind \in {"toggle", "delete", "changed", "save", "saved", "limited", "start"}
  BY <1>1 DEF CallType, Kinds, Changes, Loads
<1> QED BY <1>1, <1>2 DEF Held

LEMMA CallsKept ==
    ASSUME Inv, NEW c \in calls, commits' \in Nat, commits' >= commits,
           tab'[c.tab] = tab[c.tab] \/ ~c.awaited
    PROVE CallInv(c, tab'[c.tab], commits')
<1>1. CallInv(c, tab[c.tab], commits) BY DEF Inv
<1>2. c.got.seen \in Nat /\ commits \in Nat
  BY <1>1, RulesPageAssumption DEF CallInv, CallType, GotType, Inv, RowInv, RulesPageAssumption
<1>3. c.kind \in Changes /\ c.stage = "done" => c.got.seen <= commits'
  BY <1>1, <1>2 DEF CallInv
<1>4. c.awaited => Held(c, tab'[c.tab]) BY <1>1 DEF CallInv
<1> QED BY <1>1, <1>3, <1>4 DEF CallInv

\* A member acts on a tab that waits for nothing, and starts one call at most.
LEMMA MemberMoves ==
    ASSUME Inv, NEW t \in Tabs, Waitless(t), Alone(t), UNCHANGED <<rules, commits>>,
           NEW New, calls' = calls \cup New, \A c, d \in New : c = d,
           \A c \in New : c.tab = t /\ c.stage = "sent" /\ CallInv(c, tab'[t], commits)
    PROVE Inv'
<1>1. commits \in Nat BY RulesPageAssumption DEF Inv, RowInv, RulesPageAssumption
<1>2. \A s \in Tabs : TabInv(tab'[s], commits') BY <1>1, TabsKept
<1>3. RowInv' BY DEF Inv, RowInv
<1>4. OneAwaited' BY DEF Inv, OneAwaited, Waitless
<1>5. ASSUME NEW c \in calls' PROVE CallInv(c, tab'[c.tab], commits')
  <2>1. CASE c \in New BY <2>1
  <2>2. CASE c \in calls
    <3>1. c.tab \in Tabs BY <2>2 DEF Inv, CallInv, CallType
    <3>2. tab'[c.tab] = tab[c.tab] \/ ~c.awaited BY <2>2, <3>1 DEF Alone, Waitless
    <3> QED BY <1>1, <2>2, <3>2, CallsKept
  <2> QED BY <1>5, <2>1, <2>2
<1> QED BY <1>2, <1>3, <1>4, <1>5 DEF Inv, Alone

LEMMA StillMoves ==
    ASSUME Inv, NEW t \in Tabs, Waitless(t), Alone(t), UNCHANGED <<rules, commits, calls>>
    PROVE Inv'
<1> DEFINE New == {}
<1>1. calls' = calls \cup New /\ (\A c, d \in New : c = d)
      /\ \A c \in New : c.tab = t /\ c.stage = "sent" /\ CallInv(c, tab'[t], commits)
  OBVIOUS
<1> HIDE DEF New
<1> QED BY <1>1, MemberMoves

\* The database answers a call, or is half-way with it.
LEMMA DatabaseMoves ==
    ASSUME Inv, NEW c \in calls, NEW d, calls' = (calls \ {c}) \cup {d},
           d.tab = c.tab, d.awaited = c.awaited, CallInv(d, tab[c.tab], commits'),
           tab' = tab, commits' \in Nat, commits' >= commits, RowInv'
    PROVE Inv'
<1>1. c.tab \in Tabs BY DEF Inv, CallInv, CallType
<1>2. Alone(c.tab)
  <2>1. TabInv(tab[c.tab], commits) BY <1>1 DEF Inv
  <2>2. tab[c.tab].confirmed \in Nat /\ commits \in Nat
    BY <2>1, RulesPageAssumption DEF TabInv, TabType, Inv, RowInv, RulesPageAssumption
  <2> QED BY <2>1, <2>2 DEF Alone, TabInv, Inv
<1>3. \A s \in Tabs : TabInv(tab'[s], commits') BY <1>1, <1>2, TabsKept
<1>4. OneAwaited' BY DEF Inv, OneAwaited
<1>5. ASSUME NEW e \in calls' PROVE CallInv(e, tab'[e.tab], commits')
  <2>1. CASE e = d BY <2>1
  <2>2. CASE e \in calls BY <2>2, CallsKept
  <2> QED BY <1>5, <2>1, <2>2
<1> QED BY <1>3, <1>4, <1>5 DEF Inv

\* A tab has the answer to its call, or gives it up, and makes one more at most.
Answers(c, New) ==
    /\ c \in calls /\ c.awaited /\ Alone(c.tab) /\ UNCHANGED <<rules, commits>>
    /\ calls' = (calls \ {c}) \cup New /\ \A e, d \in New : e = d
    /\ \A e \in New : /\ e.tab = c.tab /\ CallInv(e, tab'[c.tab], commits)
                      /\ e.stage = "counted" => c.stage = "counted"

LEMMA AnswerMoves ==
    ASSUME Inv, NEW c, NEW New, Answers(c, New)
    PROVE Inv'
<1> USE DEF Answers
<1>0. c.tab \in Tabs BY DEF Inv, CallInv, CallType
<1>1. commits \in Nat BY RulesPageAssumption DEF Inv, RowInv, RulesPageAssumption
<1>2. \A s \in Tabs : TabInv(tab'[s], commits') BY <1>0, <1>1, TabsKept
<1>3. RowInv' BY DEF Inv, RowInv
<1>4. \A d \in calls \ {c} : d.tab = c.tab => ~d.awaited BY DEF Inv, OneAwaited
<1>5. OneAwaited' BY <1>4 DEF Inv, OneAwaited
<1>6. ASSUME NEW e \in calls' PROVE CallInv(e, tab'[e.tab], commits')
  <2>1. CASE e \in New BY <2>1
  <2>2. CASE e \in calls \ {c}
    <3>1. e.tab \in Tabs BY <2>2 DEF Inv, CallInv, CallType
    <3>2. tab'[e.tab] = tab[e.tab] \/ ~e.awaited BY <1>4, <2>2, <3>1 DEF Alone
    <3> QED BY <1>1, <2>2, <3>2, CallsKept
  <2> QED BY <1>6, <2>1, <2>2
<1> QED BY <1>2, <1>3, <1>5, <1>6 DEF Inv, Alone

-----------------------------------------------------------------------------
(* The member.                                                              *)

LEMMA CanActFacts ==
    ASSUME Inv, NEW t \in Tabs, CanAct(t)
    PROVE /\ Waitless(t) /\ tab[t].view = "shown" /\ ~tab[t].mutationBusy
          /\ ~tab[t].formSubmitting /\ ~tab[t].refreshFailed /\ ~tab[t].formOpen
          /\ tab[t].seen >= tab[t].confirmed
<1>1. /\ tab[t].view = "shown" /\ ~tab[t].mutationBusy /\ ~tab[t].formSubmitting
      /\ ~tab[t].refreshFailed /\ ~tab[t].formOpen
  BY DEF CanAct, ListActionsOff, ListActionsOffWhenBusy
<1>2. tab[t].seen >= tab[t].confirmed BY <1>1 DEF Inv, TabInv
<1> QED BY <1>1, <1>2, Quiet

LEMMA FormFacts ==
    ASSUME Inv, NEW t \in Tabs, tab[t].formOpen, ~tab[t].formSubmitting
    PROVE /\ Waitless(t) /\ tab[t].view = "shown" /\ ~tab[t].mutationBusy
          /\ ~tab[t].refreshFailed /\ tab[t].seen >= tab[t].confirmed
<1>1. tab[t].view = "shown" /\ ~tab[t].mutationBusy /\ ~tab[t].refreshFailed
  BY DEF Inv, TabInv
<1>2. tab[t].seen >= tab[t].confirmed BY <1>1 DEF Inv, TabInv
<1> QED BY <1>1, <1>2, Quiet

\* The form opens with times that the table takes.
LEMMA OpenSteps ==
    ASSUME Inv, NEW t \in Tabs, CanAct(t), NEW id \in Ids \cup {NoId}, NEW times \in Times,
           OpenForm(t, id, times), UNCHANGED <<rules, commits, calls>>
    PROVE Inv'
<1> DEFINE y == Sync(times)
<1>1. y \in Times /\ Valid(y) /\ Storable(y) BY SyncIsValid
<1> HIDE DEF y
<1>2. tab[t] \in TabType /\ TabInv(tab[t], commits) BY DEF Inv
<1>3. tab' = [tab EXCEPT ![t].formOpen = TRUE, ![t].editing = id, ![t].times = y]
  BY DEF OpenForm, y
<1>4. tab'[t] = [tab[t] EXCEPT !.formOpen = TRUE, !.editing = id, !.times = y]
  BY <1>3 DEF Inv
<1>5. tab'[t] \in TabType BY <1>1, <1>2, <1>4 DEF TabType
<1>6. /\ tab'[t].view = tab[t].view /\ tab'[t].mutationBusy = tab[t].mutationBusy
      /\ tab'[t].formSubmitting = tab[t].formSubmitting
      /\ tab'[t].refreshFailed = tab[t].refreshFailed
      /\ tab'[t].seen = tab[t].seen /\ tab'[t].confirmed = tab[t].confirmed
      /\ tab'[t].formOpen /\ tab'[t].times = y
  BY <1>2, <1>4 DEF TabType
<1>7. TabInv(tab'[t], commits') BY <1>1, <1>2, <1>5, <1>6, CanActFacts DEF TabInv
<1>8. tab' \in [Tabs -> TabType] /\ \A s \in Tabs \ {t} : tab'[s] = tab[s]
  BY <1>3, <1>5 DEF Inv
<1>9. Alone(t) BY <1>7, <1>8 DEF Alone
<1> QED BY <1>9, CanActFacts, StillMoves

LEMMA FormSteps ==
    ASSUME Inv, NEW t \in Tabs, NewRule(t) \/ (\E i \in Ids : EditRule(t, i))
    PROVE Inv'
<1>1. CASE NewRule(t)
  BY <1>1, FreshIsTime, OpenSteps DEF NewRule
<1>2. ASSUME NEW i \in Ids, EditRule(t, i) PROVE Inv'
  <2>1. PICK times \in {x \in Times : Storable(x)} : OpenForm(t, i, times)
    BY <1>2 DEF EditRule
  <2> QED BY <1>2, <2>1, OpenSteps DEF EditRule
<1> QED BY <1>1, <1>2

LEMMA ChooseSteps ==
    ASSUME Inv, NEW t \in Tabs, ChooseTimes(t)
    PROVE Inv'
<1>1. PICK times \in Times : tab' = [tab EXCEPT ![t].times = Sync(times)]
  BY DEF ChooseTimes
<1> DEFINE y == Sync(times)
<1>2. y \in Times /\ Valid(y) /\ Storable(y) BY SyncIsValid
<1>3. tab' = [tab EXCEPT ![t].times = y] BY <1>1
<1> HIDE DEF y
<1>4. tab[t].formOpen /\ ~tab[t].formSubmitting /\ UNCHANGED <<rules, commits, calls>>
  BY DEF ChooseTimes
<1>5. tab[t] \in TabType /\ TabInv(tab[t], commits) BY DEF Inv
<1>6. tab'[t] = [tab[t] EXCEPT !.times = y] BY <1>3 DEF Inv
<1>7. tab'[t] \in TabType BY <1>2, <1>5, <1>6 DEF TabType
<1>8. /\ tab'[t].view = tab[t].view /\ tab'[t].mutationBusy = tab[t].mutationBusy
      /\ tab'[t].formSubmitting = tab[t].formSubmitting
      /\ tab'[t].refreshFailed = tab[t].refreshFailed
      /\ tab'[t].seen = tab[t].seen /\ tab'[t].confirmed = tab[t].confirmed
      /\ tab'[t].formOpen /\ tab'[t].times = y
  BY <1>4, <1>5, <1>6 DEF TabType
<1>9. TabInv(tab'[t], commits') BY <1>2, <1>4, <1>5, <1>7, <1>8 DEF TabInv
<1>10. tab' \in [Tabs -> TabType] /\ \A s \in Tabs \ {t} : tab'[s] = tab[s]
  BY <1>3, <1>7 DEF Inv
<1>11. Alone(t) BY <1>9, <1>10 DEF Alone
<1> QED BY <1>4, <1>11, FormFacts, StillMoves

\* What shutting the form leaves of a tab.
LEMMA ShutFacts ==
    ASSUME NEW f \in TabType
    PROVE /\ ShutForm(f) \in TabType
          /\ ~ShutForm(f).formOpen /\ ShutForm(f).editing = NoId
          /\ ShutForm(f).view = f.view /\ ShutForm(f).mutationBusy = f.mutationBusy
          /\ ShutForm(f).formSubmitting = f.formSubmitting
          /\ ShutForm(f).refreshFailed = f.refreshFailed
          /\ ShutForm(f).seen = f.seen /\ ShutForm(f).confirmed = f.confirmed
BY FreshIsTime DEF ShutForm, TabType

LEMMA CloseSteps ==
    ASSUME Inv, NEW t \in Tabs, CloseForm(t)
    PROVE Inv'
<1>1. tab[t].formOpen /\ ~tab[t].formSubmitting /\ UNCHANGED <<rules, commits, calls>>
  BY DEF CloseForm
<1>2. tab' = [tab EXCEPT ![t] = ShutForm(tab[t])] BY DEF CloseForm
<1>3. tab[t] \in TabType /\ TabInv(tab[t], commits) BY DEF Inv
<1>4. tab'[t] = ShutForm(tab[t]) BY <1>2 DEF Inv
<1>5. TabInv(tab'[t], commits') BY <1>1, <1>3, <1>4, ShutFacts DEF TabInv
<1>6. tab' \in [Tabs -> TabType] /\ \A s \in Tabs \ {t} : tab'[s] = tab[s]
  BY <1>2, <1>3, ShutFacts DEF Inv
<1>7. Alone(t) BY <1>5, <1>6 DEF Alone
<1> QED BY <1>1, <1>7, FormFacts, StillMoves

\* A call that was just made.
LEMMA CallFacts ==
    ASSUME NEW t \in Tabs, NEW kind \in Kinds, NEW id \in Ids \cup {NoId}, NEW on \in BOOLEAN
    PROVE /\ Call(t, kind, id, on) \in CallType
          /\ Call(t, kind, id, on).tab = t /\ Call(t, kind, id, on).kind = kind
          /\ Call(t, kind, id, on).stage = "sent" /\ Call(t, kind, id, on).awaited
          /\ Call(t, kind, id, on).id = id
<1>1. Blank \in GotType BY RulesPageAssumption DEF Blank, GotType, RulesPageAssumption
<1> QED BY <1>1 DEF Call, CallType

\* A member's press that makes a call and sets the flag of its operation.
LEMMA AskMoves ==
    ASSUME Inv, NEW t \in Tabs, Waitless(t), Alone(t), UNCHANGED <<rules, commits>>,
           NEW kind \in Kinds, NEW id \in Ids \cup {NoId}, NEW on \in BOOLEAN,
           Issue(Call(t, kind, id, on)),
           Held(Call(t, kind, id, on), tab'[t])
    PROVE Inv'
<1> DEFINE c == Call(t, kind, id, on)
           New == {c}
<1>1. c \in CallType /\ c.tab = t /\ c.stage = "sent" /\ c.awaited BY CallFacts
<1>2. calls' = calls \cup {c} BY DEF Issue
<1>3. Held(c, tab'[t]) OBVIOUS
<1> HIDE DEF c
<1>4. CallInv(c, tab'[t], commits) BY <1>1, <1>3 DEF CallInv
<1>5. calls' = calls \cup New /\ (\A e, d \in New : e = d)
      /\ \A e \in New : e.tab = t /\ e.stage = "sent" /\ CallInv(e, tab'[t], commits)
  BY <1>1, <1>2, <1>4
<1> HIDE DEF New
<1> QED BY <1>5, MemberMoves

LEMMA ToggleSteps ==
    ASSUME Inv, NEW t \in Tabs, NEW i \in Ids, Toggle(t, i) \/ Delete(t, i)
    PROVE Inv'
<1>1. CanAct(t) /\ UNCHANGED <<rules, commits>>
      /\ tab' = [tab EXCEPT ![t].mutationBusy = TRUE]
  BY DEF Toggle, Delete
<1>2. PICK kind \in {"toggle", "delete"}, on \in BOOLEAN : Issue(Call(t, kind, i, on))
  BY DEF Toggle, Delete
<1>3. tab[t] \in TabType /\ TabInv(tab[t], commits) BY DEF Inv
<1>4. tab'[t] = [tab[t] EXCEPT !.mutationBusy = TRUE] BY <1>1 DEF Inv
<1>5. /\ tab'[t] \in TabType /\ tab'[t].mutationBusy
      /\ tab'[t].view = tab[t].view /\ tab'[t].formOpen = tab[t].formOpen
      /\ tab'[t].editing = tab[t].editing /\ tab'[t].refreshFailed = tab[t].refreshFailed
      /\ tab'[t].seen = tab[t].seen /\ tab'[t].confirmed = tab[t].confirmed
  BY <1>3, <1>4 DEF TabType
<1>6. TabInv(tab'[t], commits') BY <1>1, <1>3, <1>5, CanActFacts DEF TabInv
<1>7. tab' \in [Tabs -> TabType] /\ \A s \in Tabs \ {t} : tab'[s] = tab[s]
  BY <1>1, <1>5 DEF Inv
<1>8. Alone(t) BY <1>6, <1>7 DEF Alone
<1>9. kind \in Kinds /\ i \in Ids \cup {NoId} BY DEF Kinds, Changes
<1> DEFINE c == Call(t, kind, i, on)
<1>10. c.kind = kind BY <1>9, CallFacts
<1> HIDE DEF c
<1>11. Held(c, tab'[t]) BY <1>1, <1>5, <1>10, CanActFacts DEF Held, Loads
<1>12. Waitless(t) BY <1>1, CanActFacts
<1> QED BY <1>1, <1>2, <1>8, <1>9, <1>11, <1>12, AskMoves DEF c

LEMMA SaveSteps ==
    ASSUME Inv, NEW t \in Tabs, Save(t)
    PROVE Inv'
<1>1. /\ tab[t].formOpen /\ ~tab[t].formSubmitting /\ UNCHANGED <<rules, commits>>
      /\ tab' = [tab EXCEPT ![t].formSubmitting = TRUE]
  BY DEF Save
<1>2. PICK on \in BOOLEAN : Issue(Call(t, "save", tab[t].editing, on)) BY DEF Save
<1>3. tab[t] \in TabType /\ TabInv(tab[t], commits) BY DEF Inv
<1>4. tab'[t] = [tab[t] EXCEPT !.formSubmitting = TRUE] BY <1>1 DEF Inv
<1>5. /\ tab'[t] \in TabType /\ tab'[t].formSubmitting
      /\ tab'[t].view = tab[t].view /\ tab'[t].formOpen = tab[t].formOpen
      /\ tab'[t].editing = tab[t].editing /\ tab'[t].refreshFailed = tab[t].refreshFailed
      /\ tab'[t].mutationBusy = tab[t].mutationBusy /\ tab'[t].times = tab[t].times
      /\ tab'[t].seen = tab[t].seen /\ tab'[t].confirmed = tab[t].confirmed
  BY <1>3, <1>4 DEF TabType
<1>6. TabInv(tab'[t], commits') BY <1>1, <1>3, <1>5 DEF TabInv
<1>7. tab' \in [Tabs -> TabType] /\ \A s \in Tabs \ {t} : tab'[s] = tab[s]
  BY <1>1, <1>5 DEF Inv
<1>8. Alone(t) BY <1>6, <1>7 DEF Alone
<1>9. "save" \in Kinds /\ tab[t].editing \in Ids \cup {NoId} BY <1>3 DEF Kinds, Changes, TabType
<1> DEFINE c == Call(t, "save", tab[t].editing, on)
<1>10. c.kind = "save" BY <1>9, CallFacts
<1> HIDE DEF c
<1>11. Held(c, tab'[t]) BY <1>1, <1>5, <1>10, FormFacts DEF Held, Loads
<1>12. Waitless(t) BY <1>1, FormFacts
<1> QED BY <1>1, <1>2, <1>8, <1>9, <1>11, <1>12, AskMoves DEF c

LEMMA StartSteps ==
    ASSUME Inv, NEW t \in Tabs, Start(t)
    PROVE Inv'
<1>1. tab[t] \in TabType /\ TabInv(tab[t], commits) BY DEF Inv
<1>2. tab[t].view = "closed" /\ UNCHANGED <<rules, commits>> BY DEF Start
<1>3. /\ ~tab[t].mutationBusy /\ ~tab[t].formSubmitting /\ ~tab[t].refreshFailed
      /\ ~tab[t].formOpen
  BY <1>1, <1>2 DEF TabInv
<1>4. Waitless(t) BY <1>2, <1>3, Quiet
<1>5. ASSUME NEW v \in {"away", "loading"}, tab' = [tab EXCEPT ![t].view = v]
      PROVE Alone(t) /\ tab'[t].view = v /\ ~tab'[t].refreshFailed /\ ~tab'[t].formOpen
  <2>1. tab'[t] = [tab[t] EXCEPT !.view = v] BY <1>5 DEF Inv
  <2>2. /\ tab'[t] \in TabType /\ tab'[t].view = v
        /\ tab'[t].mutationBusy = tab[t].mutationBusy
        /\ tab'[t].formSubmitting = tab[t].formSubmitting
        /\ tab'[t].refreshFailed = tab[t].refreshFailed
        /\ tab'[t].formOpen = tab[t].formOpen /\ tab'[t].editing = tab[t].editing
        /\ tab'[t].seen = tab[t].seen /\ tab'[t].confirmed = tab[t].confirmed
    BY <1>1, <2>1 DEF TabType
  <2>3. TabInv(tab'[t], commits') BY <1>1, <1>2, <1>3, <2>2 DEF TabInv
  <2>4. tab' \in [Tabs -> TabType] /\ \A s \in Tabs \ {t} : tab'[s] = tab[s]
    BY <1>5, <2>2 DEF Inv
  <2> QED BY <1>3, <2>2, <2>3, <2>4 DEF Alone
<1>6. CASE tab' = [tab EXCEPT ![t].view = "away"] /\ UNCHANGED calls
  BY <1>2, <1>4, <1>5, <1>6, StillMoves
<1>7. CASE tab' = [tab EXCEPT ![t].view = "loading"] /\ Issue(Call(t, "start", NoId, FALSE))
  <2>1. Alone(t) /\ tab'[t].view = "loading" /\ ~tab'[t].refreshFailed /\ ~tab'[t].formOpen
    BY <1>5, <1>7
  <2>2. "start" \in Kinds BY DEF Kinds, Loads
  <2> DEFINE c == Call(t, "start", NoId, FALSE)
  <2>3. c.kind = "start" /\ c.stage = "sent" BY DEF Call
  <2> HIDE DEF c
  <2>4. Held(c, tab'[t]) BY <2>1, <2>3 DEF Held, Changes
  <2> QED BY <1>2, <1>4, <1>7, <2>1, <2>2, <2>4, AskMoves DEF c
<1> QED BY <1>6, <1>7 DEF Start

\* The page is left: what it awaited is awaited no more, and a count that is
\* held stays the only one.
LEMMA LeaveSteps ==
    ASSUME Inv, NEW t \in Tabs, Leave(t)
    PROVE Inv'
<1> DEFINE Left(c) == [c EXCEPT !.awaited = FALSE]
           Gone == {d \in Awaited(t, Changes) : d.stage \in {"sent", "counted"}}
<1>1. /\ tab' = [tab EXCEPT ![t] = Closed] /\ UNCHANGED <<rules, commits>>
      /\ calls' = {c \in calls : c.tab # t \/ ~c.awaited} \cup {Left(c) : c \in Gone}
  BY DEF Leave
<1>2. commits \in Nat BY RulesPageAssumption DEF Inv, RowInv, RulesPageAssumption
<1>3. Closed \in TabType /\ TabInv(Closed, commits)
  <2>1. Closed \in TabType
    BY FreshIsTime, RulesPageAssumption DEF Closed, TabType, RulesPageAssumption
  <2> QED BY <1>2, <2>1 DEF TabInv, Closed
<1>4. tab' \in [Tabs -> TabType] /\ tab'[t] = Closed /\ \A s \in Tabs \ {t} : tab'[s] = tab[s]
  BY <1>1, <1>3 DEF Inv
<1>5. Alone(t) BY <1>1, <1>3, <1>4 DEF Alone
<1>6. \A s \in Tabs : TabInv(tab'[s], commits') BY <1>1, <1>2, <1>5, TabsKept
<1>7. ASSUME NEW c \in Gone
      PROVE /\ c \in calls /\ c.tab = t /\ c.awaited /\ c.kind \in Changes
            /\ Left(c) \in CallType /\ ~Left(c).awaited /\ Left(c).tab = c.tab
            /\ Left(c).kind = c.kind /\ Left(c).stage = c.stage
            /\ c.stage \in {"sent", "counted"} /\ (c.stage = "counted" => c.kind = "save")
  <2>1. c \in calls /\ c.tab = t /\ c.awaited /\ c.kind \in Changes
        /\ c.stage \in {"sent", "counted"}
    BY <1>7 DEF Awaited
  <2>2. c \in CallType /\ (c.stage = "counted" => c.kind = "save") BY <2>1 DEF Inv, CallInv
  <2> QED BY <2>1, <2>2 DEF CallType
<1> HIDE DEF Left, Gone
<1>8. \A c, d \in Gone : c = d BY <1>7 DEF Inv, OneAwaited
<1>9. \A e \in calls' : \/ e \in calls /\ (e.tab # t \/ ~e.awaited)
                        \/ \E c \in Gone : e = Left(c)
  BY <1>1
<1>10. RowInv'
  <2>1. ASSUME NEW e \in calls', e.stage = "counted"
        PROVE /\ Cardinality(Live(rules)) < MaxRules
              /\ \A d \in calls' : d.stage = "counted" => e = d
    <3>1. PICK c \in calls : c.stage = "counted" /\ (e = c \/ (c \in Gone /\ e = Left(c)))
      BY <1>7, <1>9, <2>1
    <3>2. Cardinality(Live(rules)) < MaxRules
          /\ \A d \in calls : d.stage = "counted" => c = d
      BY <3>1 DEF Inv, RowInv
    <3>3. ASSUME NEW d \in calls', d.stage = "counted" PROVE e = d
      <4>1. PICK b \in calls : b.stage = "counted" /\ (d = b \/ (b \in Gone /\ d = Left(b)))
        BY <1>7, <1>9, <3>3
      <4>2. b = c BY <3>2, <4>1
      <4>3. e = c => e.tab # t \/ ~e.awaited BY <1>7, <1>9
      <4>4. d = b => d.tab # t \/ ~d.awaited BY <1>7, <1>9
      <4> QED BY <1>7, <3>1, <4>1, <4>2, <4>3, <4>4
    <3> QED BY <3>2, <3>3
  <2> QED BY <1>1, <2>1 DEF Inv, RowInv
<1>11. OneAwaited' BY <1>7, <1>9 DEF Inv, OneAwaited
<1>12. ASSUME NEW e \in calls' PROVE CallInv(e, tab'[e.tab], commits')
  <2>1. CASE e \in calls /\ (e.tab # t \/ ~e.awaited)
    <3>1. e.tab \in Tabs BY <2>1 DEF Inv, CallInv, CallType
    <3>2. tab'[e.tab] = tab[e.tab] \/ ~e.awaited BY <1>4, <2>1, <3>1
    <3> QED BY <1>1, <1>2, <2>1, <3>2, CallsKept
  <2>2. ASSUME NEW c \in Gone, e = Left(c) PROVE CallInv(e, tab'[e.tab], commits')
    BY <1>7, <2>2 DEF CallInv, Changes, Loads
  <2> QED BY <1>9, <2>1, <2>2
<1> QED BY <1>4, <1>6, <1>10, <1>11, <1>12 DEF Inv

-----------------------------------------------------------------------------
(* The database.                                                            *)

LEMMA LiveFinite ==
    ASSUME NEW r
    PROVE /\ IsFiniteSet(Live(r)) /\ Cardinality(Live(r)) \in Nat
          /\ \A S \in SUBSET Live(r) : Cardinality(S) <= Cardinality(Live(r))
<1>1. IsFiniteSet(Ids) BY RulesPageAssumption DEF RulesPageAssumption
<1>2. Live(r) \in SUBSET Ids BY DEF Live
<1>3. IsFiniteSet(Live(r)) BY <1>1, <1>2, FS_Subset
<1> QED BY <1>3, FS_Subset, FS_CardinalityType

LEMMA AdvanceMoves ==
    ASSUME Inv, NEW c \in calls, NEW g \in GotType,
           NEW stage \in {"sent", "counted", "done", "refused", "limit"},
           Advance(c, stage, g), tab' = tab, commits' \in 0..MaxCommits, commits' >= commits,
           rules' \in [Ids -> RuleStates], Cardinality(Live(rules')) <= MaxRules,
           stage \in {"counted", "limit"} => c.kind = "save",
           c.kind \in Loads => stage = "done",
           c.kind \in Changes /\ stage = "done" => g.seen <= commits',
           c.kind \in Loads /\ stage = "done" => g.seen >= tab[c.tab].confirmed,
           \A e \in calls : e.stage = "counted" /\ e # c =>
               Cardinality(Live(rules')) < MaxRules /\ stage # "counted",
           stage = "counted" => Cardinality(Live(rules')) < MaxRules
    PROVE Inv'
<1> DEFINE d == [c EXCEPT !.stage = stage, !.got = g]
<1>1. c \in CallType /\ CallInv(c, tab[c.tab], commits) BY DEF Inv, CallInv
<1>2. /\ d \in CallType /\ d.stage = stage /\ d.got = g /\ d.tab = c.tab
      /\ d.kind = c.kind /\ d.awaited = c.awaited
  BY <1>1 DEF CallType
<1>3. calls' = (calls \ {c}) \cup {d} BY DEF Advance
<1> HIDE DEF d
<1>4. c.kind \in Changes => c.kind \notin Loads BY DEF Changes, Loads
<1>5. d.awaited => Held(d, tab[c.tab]) BY <1>1, <1>2 DEF CallInv, Held
<1>6. CallInv(d, tab[c.tab], commits') BY <1>1, <1>2, <1>5 DEF CallInv
<1>7. ASSUME NEW e \in calls', e.stage = "counted"
      PROVE Cardinality(Live(rules')) < MaxRules /\ \A b \in calls' : b.stage = "counted" => e = b
  <2>1. CASE e = d BY <1>2, <1>3, <1>7, <2>1
  <2>2. CASE e \in calls /\ e # c /\ e # d
    <3>1. Cardinality(Live(rules')) < MaxRules /\ stage # "counted" BY <1>7, <2>2
    <3>2. \A b \in calls : b.stage = "counted" => e = b BY <1>7, <2>2 DEF Inv, RowInv
    <3> QED BY <1>2, <1>3, <3>1, <3>2
  <2> QED BY <1>3, <1>7, <2>1, <2>2
<1>8. RowInv' BY <1>7 DEF RowInv
<1>9. commits' \in Nat BY RulesPageAssumption DEF RulesPageAssumption
<1> QED BY <1>2, <1>3, <1>6, <1>8, <1>9, DatabaseMoves

LEMMA DatabaseSteps ==
    ASSUME Inv, NEW c \in calls, Database(c)
    PROVE Inv'
<1>1. /\ c \in CallType /\ c.got \in GotType /\ c.id \in Ids \cup {NoId}
      /\ CallInv(c, tab[c.tab], commits) /\ c.tab \in Tabs
  BY DEF Inv, CallInv, CallType
<1>2. /\ rules \in [Ids -> RuleStates] /\ commits \in 0..MaxCommits /\ MaxCommits \in Nat
      /\ commits \in Nat /\ MaxRules \in Nat
      /\ Cardinality(Live(rules)) \in Nat /\ Cardinality(Live(rules)) <= MaxRules
  BY RulesPageAssumption, LiveFinite DEF Inv, RowInv, RulesPageAssumption
<1>3. \A e \in calls : e.stage = "counted" =>
          Cardinality(Live(rules)) < MaxRules /\ \A d \in calls : d.stage = "counted" => e = d
  BY DEF Inv, RowInv
<1>4. c.kind \in Changes => c.kind \notin Loads BY DEF Changes, Loads
<1>5. "save" \in Changes BY DEF Changes
<1>6. CASE ChangeRow(c)
  <2> DEFINE g == [c.got EXCEPT !.seen = commits + 1]
  <2>1. /\ c.id \in Live(rules) /\ commits < MaxCommits /\ commits' = commits + 1
        /\ c.kind \in Changes /\ tab' = tab /\ Advance(c, "done", g)
        /\ rules' = [rules EXCEPT ![c.id] = IF c.kind = "delete" THEN "gone" ELSE State(c.on)]
    BY <1>6 DEF ChangeRow, Done
  <2>2. g \in GotType /\ g.seen = commits + 1 BY <1>1, <1>2, <2>1 DEF GotType
  <2> HIDE DEF g
  <2>3. rules' \in [Ids -> RuleStates] BY <1>2, <2>1 DEF RuleStates, State
  <2>4. Live(rules') \in SUBSET Live(rules) BY <1>2, <2>1 DEF Live
  <2>5. Cardinality(Live(rules')) <= Cardinality(Live(rules)) /\ Cardinality(Live(rules')) \in Nat
    BY <2>4, LiveFinite
  <2>6. commits' \in 0..MaxCommits /\ commits' >= commits /\ g.seen <= commits'
    BY <1>2, <2>1, <2>2
  <2>7. Cardinality(Live(rules')) <= MaxRules BY <1>2, <2>5
  <2>8. \A e \in calls : e.stage = "counted" => Cardinality(Live(rules')) < MaxRules
    BY <1>2, <1>3, <2>5
  <2> QED BY <1>4, <2>1, <2>2, <2>3, <2>6, <2>7, <2>8, AdvanceMoves
<1>7. CASE CountRules(c)
  <2>1. /\ c.kind = "save" /\ UNCHANGED <<rules, commits, tab>>
        /\ \A e \in calls : e.stage # "counted"
    BY <1>7 DEF CountRules, CountLocked
  <2>2. CASE Cardinality(Live(rules)) < MaxRules
    <3>1. Advance(c, "counted", c.got) BY <1>7, <2>2 DEF CountRules
    <3> QED BY <1>1, <1>2, <1>4, <1>5, <2>1, <2>2, <3>1, AdvanceMoves
  <2>3. CASE ~(Cardinality(Live(rules)) < MaxRules)
    <3>1. Advance(c, "limit", c.got) BY <1>7, <2>3 DEF CountRules
    <3> QED BY <1>1, <1>2, <1>4, <1>5, <2>1, <3>1, AdvanceMoves
  <2> QED BY <2>2, <2>3
<1>8. CASE InsertRule(c)
  <2> DEFINE g == [c.got EXCEPT !.seen = commits + 1]
  <2>1. /\ c.stage = "counted" /\ commits < MaxCommits /\ commits' = commits + 1
        /\ tab' = tab /\ Advance(c, "done", g)
    BY <1>8 DEF InsertRule, Done
  <2>2. g \in GotType /\ g.seen = commits + 1 BY <1>1, <1>2, <2>1 DEF GotType
  <2> HIDE DEF g
  <2>3. PICK i \in Ids : rules[i] = "none" /\ rules' = [rules EXCEPT ![i] = State(c.on)]
    BY <1>8 DEF InsertRule
  <2>4. rules' \in [Ids -> RuleStates] BY <1>2, <2>3 DEF RuleStates, State
  <2>5. Live(rules') = Live(rules) \cup {i} /\ i \notin Live(rules)
    BY <1>2, <2>3 DEF Live, State
  <2>6. Cardinality(Live(rules')) = Cardinality(Live(rules)) + 1
    BY <2>5, LiveFinite, FS_AddElement
  <2>7. c.kind = "save" BY <1>1, <2>1 DEF CallInv
  <2>8. Cardinality(Live(rules)) < MaxRules /\ \A e \in calls : e.stage = "counted" => e = c
    BY <1>3, <2>1
  <2>9. commits' \in 0..MaxCommits /\ commits' >= commits /\ g.seen <= commits'
    BY <1>2, <2>1, <2>2
  <2>10. Cardinality(Live(rules')) <= MaxRules BY <1>2, <2>6, <2>8
  <2> QED BY <1>4, <1>5, <2>1, <2>2, <2>4, <2>7, <2>8, <2>9, <2>10, AdvanceMoves
<1>9. CASE Refuse(c)
  <2>1. /\ c.kind \in Changes /\ UNCHANGED <<rules, commits, tab>>
        /\ Advance(c, "refused", c.got)
    BY <1>9 DEF Refuse
  <2> QED BY <1>1, <1>2, <1>3, <1>4, <2>1, AdvanceMoves
<1>10. CASE Read(c)
  <2> DEFINE g == [listed |-> Live(rules), enabled |-> {i \in Ids : rules[i] = "on"},
                   seen |-> commits]
  <2>1. /\ c.kind \in Loads /\ UNCHANGED <<rules, commits, tab>> /\ Advance(c, "done", g)
    BY <1>10 DEF Read
  <2>2. g \in GotType /\ g.seen = commits BY <1>2 DEF GotType, Live
  <2> HIDE DEF g
  <2>3. tab[c.tab].confirmed <= commits BY <1>1 DEF Inv, TabInv
  <2>4. tab[c.tab].confirmed \in Nat
    BY <1>1, RulesPageAssumption DEF Inv, TabInv, TabType, RulesPageAssumption
  <2> QED BY <1>1, <1>2, <1>3, <1>4, <2>1, <2>2, <2>3, <2>4, AdvanceMoves
<1> QED BY <1>6, <1>7, <1>8, <1>9, <1>10 DEF Database

-----------------------------------------------------------------------------
(* Answers.                                                                 *)

\* Releasing an operation clears its flag and leaves a storable form storable.
LEMMA ReleaseFacts ==
    ASSUME NEW f \in TabType, NEW kind \in Kinds
    PROVE LET g == Release(f, kind) IN
          /\ g \in TabType /\ g.view = f.view /\ g.formOpen = f.formOpen
          /\ g.editing = f.editing /\ g.refreshFailed = f.refreshFailed
          /\ g.seen = f.seen /\ g.confirmed = f.confirmed
          /\ kind \in {"toggle", "delete", "changed"} => ~g.mutationBusy
          /\ kind \in {"save", "saved", "limited"} => ~g.formSubmitting
          /\ g.mutationBusy => f.mutationBusy
          /\ g.formSubmitting => f.formSubmitting
          /\ Valid(f.times) /\ Storable(f.times) => Valid(g.times) /\ Storable(g.times)
<1> DEFINE y == Sync(f.times)
<1>1. y \in Times /\ Valid(y) /\ Storable(y) BY SyncIsValid DEF TabType
<1> HIDE DEF y
<1>2. CASE kind \in {"toggle", "delete", "changed"}
  <2>1. Release(f, kind) = [f EXCEPT !.mutationBusy = FALSE] BY <1>2 DEF Release
  <2> QED BY <1>2, <2>1 DEF TabType
<1>3. CASE kind \in {"save", "saved", "limited"}
  <2>1. Release(f, kind) = [f EXCEPT !.formSubmitting = FALSE, !.times = y]
    BY <1>3 DEF Release, y
  <2> QED BY <1>1, <1>3, <2>1 DEF TabType
<1>4. CASE kind = "start"
  <2>1. Release(f, kind) = f BY <1>4 DEF Release
  <2> QED BY <1>4, <2>1
<1> QED BY <1>2, <1>3, <1>4 DEF Kinds, Changes, Loads

\* What is known of a tab that awaits a call.
LEMMA AwaitedFacts ==
    ASSUME Inv, NEW c \in calls, c.awaited
    PROVE /\ c \in CallType /\ c.tab \in Tabs /\ CallInv(c, tab[c.tab], commits)
          /\ Held(c, tab[c.tab]) /\ tab[c.tab] \in TabType /\ TabInv(tab[c.tab], commits)
BY DEF Inv, CallInv, CallType

\* The answer that lets a tab read its list again.
LEMMA RereadMoves ==
    ASSUME Inv, NEW c \in calls, c.awaited, Alone(c.tab), UNCHANGED <<rules, commits>>,
           NEW kind \in Loads, calls' = (calls \ {c}) \cup {Call(c.tab, kind, NoId, FALSE)},
           Held(Call(c.tab, kind, NoId, FALSE), tab'[c.tab])
    PROVE Inv'
<1> DEFINE e == Call(c.tab, kind, NoId, FALSE)
           New == {e}
<1>1. kind \in Kinds /\ NoId \in Ids \cup {NoId} /\ FALSE \in BOOLEAN BY DEF Kinds
<1>2. c.tab \in Tabs BY AwaitedFacts
<1>3. e \in CallType /\ e.tab = c.tab /\ e.kind = kind /\ e.stage = "sent" /\ e.awaited
  <2>1. Blank \in GotType BY RulesPageAssumption DEF Blank, GotType, RulesPageAssumption
  <2> QED BY <1>1, <1>2, <2>1 DEF Call, CallType
<1>4. Held(e, tab'[c.tab]) /\ calls' = (calls \ {c}) \cup {e} OBVIOUS
<1> HIDE DEF e
<1>5. CallInv(e, tab'[c.tab], commits) BY <1>3, <1>4 DEF CallInv
<1>6. Answers(c, New) BY <1>3, <1>4, <1>5 DEF Answers
<1> HIDE DEF New
<1> QED BY <1>6, AnswerMoves

LEMMA AnsweredSteps ==
    ASSUME Inv, NEW c \in calls, ChangeAnswered(c) \/ LimitAnswered(c)
    PROVE Inv'
<1>1. c.awaited /\ UNCHANGED <<rules, commits>> BY DEF ChangeAnswered, LimitAnswered
<1> DEFINE t == c.tab
           f == tab[t]
<1>2. /\ c \in CallType /\ t \in Tabs /\ CallInv(c, f, commits) /\ Held(c, f)
      /\ f \in TabType /\ TabInv(f, commits)
  BY <1>1, AwaitedFacts
<1>3. tab \in [Tabs -> TabType] BY DEF Inv
<1> HIDE DEF t, f
<1>4. CASE ChangeAnswered(c) /\ c.kind # "save"
  <2>1. /\ c.kind \in {"toggle", "delete"} /\ c.stage = "done"
        /\ tab' = [tab EXCEPT ![t] = [f EXCEPT !.confirmed = c.got.seen]]
        /\ calls' = (calls \ {c}) \cup {Call(t, "changed", NoId, FALSE)}
    BY <1>4 DEF ChangeAnswered, Changes, Close, t, f
  <2>2. c.got.seen \in 0..MaxCommits /\ c.got.seen <= commits
    BY <1>2, <2>1 DEF CallInv, CallType, GotType, Changes
  <2>3. f.mutationBusy /\ ~f.formOpen /\ ~f.refreshFailed /\ f.view = "shown"
    BY <1>2, <2>1 DEF Held, TabInv
  <2>4. tab'[t] = [f EXCEPT !.confirmed = c.got.seen] BY <1>2, <1>3, <2>1
  <2>5. /\ tab'[t] \in TabType /\ tab'[t].confirmed = c.got.seen /\ tab'[t].mutationBusy
        /\ ~tab'[t].formOpen /\ ~tab'[t].refreshFailed /\ tab'[t].view = "shown"
        /\ tab'[t].editing = f.editing
    BY <1>2, <2>2, <2>3, <2>4 DEF TabType
  <2>6. TabInv(tab'[t], commits') BY <1>1, <1>2, <2>2, <2>3, <2>5 DEF TabInv
  <2>7. Alone(t) BY <1>2, <1>3, <2>1, <2>5, <2>6 DEF Alone
  <2> DEFINE e == Call(t, "changed", NoId, FALSE)
  <2>8. e.kind = "changed" /\ e.stage = "sent" BY DEF Call
  <2> HIDE DEF e
  <2>9. Held(e, tab'[t]) BY <2>5, <2>8 DEF Held, Changes
  <2>10. "changed" \in Loads BY DEF Loads
  <2> QED BY <1>1, <2>1, <2>7, <2>9, <2>10, RereadMoves DEF t, e
<1>5. CASE (ChangeAnswered(c) /\ c.kind = "save") \/ LimitAnswered(c)
  <2> DEFINE g == ShutForm(f)
  <2>1. /\ g \in TabType /\ ~g.formOpen /\ g.editing = NoId /\ g.view = f.view
        /\ g.formSubmitting = f.formSubmitting /\ g.refreshFailed = f.refreshFailed
        /\ g.confirmed = f.confirmed
    BY <1>2, ShutFacts
  <2>2. c.kind = "save" BY <1>2, <1>5 DEF LimitAnswered, CallInv
  <2>3. f.formSubmitting /\ ~f.refreshFailed /\ f.view = "shown"
    BY <1>2, <2>2 DEF Held
  <2>4. PICK kind \in {"saved", "limited"} :
            calls' = (calls \ {c}) \cup {Call(t, kind, NoId, FALSE)}
    BY <1>5 DEF ChangeAnswered, LimitAnswered, Close, t
  <2>5. tab' = [tab EXCEPT ![t] = [g EXCEPT !.confirmed = c.got.seen]]
        \/ tab' = [tab EXCEPT ![t] = g]
    BY <1>5 DEF ChangeAnswered, LimitAnswered, t, f
  <2>6. tab' = [tab EXCEPT ![t] = g] \/ c.stage = "done"
    BY <1>5 DEF ChangeAnswered, LimitAnswered, t, f
  <2> HIDE DEF g
  <2>7. c.stage = "done" => c.got.seen \in 0..MaxCommits /\ c.got.seen <= commits
    BY <1>2, <2>2 DEF CallInv, CallType, GotType, Changes
  <2>8. f.confirmed <= commits BY <1>2 DEF TabInv
  <2>9. tab'[t] = g \/ (c.stage = "done" /\ tab'[t] = [g EXCEPT !.confirmed = c.got.seen])
    BY <1>2, <1>3, <2>5, <2>6
  <2>10. /\ tab'[t] \in TabType /\ tab'[t].confirmed <= commits /\ tab'[t].formSubmitting
         /\ ~tab'[t].formOpen /\ ~tab'[t].refreshFailed /\ tab'[t].view = "shown"
         /\ tab'[t].editing = NoId
    BY <2>1, <2>3, <2>7, <2>8, <2>9 DEF TabType
  <2>11. TabInv(tab'[t], commits') BY <1>1, <2>10 DEF TabInv
  <2>12. tab' \in [Tabs -> TabType] /\ \A s \in Tabs \ {t} : tab'[s] = tab[s]
    BY <1>2, <1>3, <2>5, <2>10
  <2>13. Alone(t) BY <2>11, <2>12 DEF Alone
  <2> DEFINE e == Call(t, kind, NoId, FALSE)
  <2>14. e.kind = kind /\ e.stage = "sent" BY DEF Call
  <2> HIDE DEF e
  <2>15. Held(e, tab'[t]) BY <2>10, <2>14 DEF Held, Changes
  <2>16. kind \in Loads BY DEF Loads
  <2> QED BY <1>1, <2>4, <2>13, <2>15, <2>16, RereadMoves DEF t, e
<1> QED BY <1>4, <1>5

LEMMA FailedSteps ==
    ASSUME Inv, NEW c \in calls, ChangeFailed(c)
    PROVE Inv'
<1>1. /\ c.awaited /\ c.kind \in Changes /\ UNCHANGED <<rules, commits>>
      /\ calls' = Abandon(c)
  BY DEF ChangeFailed
<1> DEFINE t == c.tab
           f == tab[t]
           g == Release(f, c.kind)
<1>2. /\ c \in CallType /\ t \in Tabs /\ CallInv(c, f, commits) /\ Held(c, f)
      /\ f \in TabType /\ TabInv(f, commits)
  BY <1>1, AwaitedFacts
<1>3. tab \in [Tabs -> TabType] BY DEF Inv
<1>4. tab' = [tab EXCEPT ![t] = g] BY DEF ChangeFailed
<1>5. c.kind \in Kinds BY <1>2 DEF CallType
<1>6. /\ g \in TabType /\ g.view = f.view /\ g.formOpen = f.formOpen
      /\ g.editing = f.editing /\ g.refreshFailed = f.refreshFailed
      /\ g.seen = f.seen /\ g.confirmed = f.confirmed
      /\ g.mutationBusy => f.mutationBusy
      /\ g.formSubmitting => f.formSubmitting
      /\ Valid(f.times) /\ Storable(f.times) => Valid(g.times) /\ Storable(g.times)
  BY <1>2, <1>5, ReleaseFacts
<1> HIDE DEF t, f, g
<1>7. f.seen >= f.confirmed BY <1>1, <1>2 DEF Held
<1>8. TabInv(g, commits) BY <1>2, <1>6, <1>7 DEF TabInv
<1>9. tab'[t] = g /\ tab' \in [Tabs -> TabType] /\ \A s \in Tabs \ {t} : tab'[s] = tab[s]
  BY <1>2, <1>3, <1>4, <1>6
<1>10. Alone(t) BY <1>1, <1>8, <1>9 DEF Alone
<1>11. CASE c.stage \in {"sent", "counted"}
  <2> DEFINE e == [c EXCEPT !.awaited = FALSE]
             New == {e}
  <2>1. e \in CallType /\ e.tab = c.tab /\ e.stage = c.stage /\ e.kind = c.kind /\ ~e.awaited
    BY <1>2 DEF CallType
  <2>2. calls' = (calls \ {c}) \cup {e} BY <1>1, <1>11 DEF Abandon
  <2> HIDE DEF e
  <2>3. c.kind \notin Loads BY <1>1 DEF Changes, Loads
  <2>4. CallInv(e, tab'[c.tab], commits) BY <1>2, <1>11, <2>1, <2>3 DEF CallInv
  <2>5. Answers(c, New) BY <1>1, <1>10, <2>1, <2>2, <2>4 DEF Answers, t
  <2> HIDE DEF New
  <2> QED BY <2>5, AnswerMoves
<1>12. CASE c.stage \notin {"sent", "counted"}
  <2>1. Answers(c, {}) BY <1>1, <1>10, <1>12 DEF Answers, Abandon, t
  <2> QED BY <2>1, AnswerMoves
<1> QED BY <1>11, <1>12

LEMMA LoadSteps ==
    ASSUME Inv, NEW c \in calls, Loaded(c) \/ LoadFailed(c)
    PROVE Inv'
<1>1. c.kind \in Loads /\ UNCHANGED <<rules, commits>> /\ calls' = calls \ {c}
  BY DEF Loaded, LoadFailed, Close
<1>2. c.awaited BY <1>1 DEF Inv, CallInv
<1> DEFINE t == c.tab
           f == tab[t]
           g == Release(f, c.kind)
<1>3. /\ c \in CallType /\ t \in Tabs /\ CallInv(c, f, commits) /\ Held(c, f)
      /\ f \in TabType /\ TabInv(f, commits)
  BY <1>2, AwaitedFacts
<1>4. tab \in [Tabs -> TabType] BY DEF Inv
<1>5. c.kind \in Kinds BY <1>3 DEF CallType
<1>6. /\ g \in TabType /\ g.view = f.view /\ g.formOpen = f.formOpen
      /\ g.editing = f.editing /\ g.refreshFailed = f.refreshFailed
      /\ g.seen = f.seen /\ g.confirmed = f.confirmed
  BY <1>3, <1>5, ReleaseFacts
<1>7. ~f.formOpen /\ f.editing = NoId /\ f.confirmed <= commits
  BY <1>1, <1>3 DEF Held, TabInv
<1>8. ASSUME NEW h \in TabType, tab' = [tab EXCEPT ![t] = h], TabInv(h, commits) PROVE Inv'
  <2>1. tab'[t] = h /\ tab' \in [Tabs -> TabType] /\ \A s \in Tabs \ {t} : tab'[s] = tab[s]
    BY <1>3, <1>4, <1>8
  <2>2. Alone(t) BY <1>1, <1>8, <2>1 DEF Alone
  <2>3. Answers(c, {}) BY <1>1, <1>2, <2>2 DEF Answers
  <2> QED BY <2>3, AnswerMoves
<1>9. CASE Loaded(c)
  <2> DEFINE h == [g EXCEPT !.view = "shown", !.listed = c.got.listed,
                            !.enabled = c.got.enabled, !.seen = c.got.seen,
                            !.refreshFailed = FALSE]
  <2>1. tab' = [tab EXCEPT ![t] = h] /\ c.stage = "done" BY <1>9 DEF Loaded
  <2> HIDE DEF t, f, g
  <2>2. c.got \in GotType BY <1>3 DEF CallType
  <2>3. c.got.seen >= f.confirmed BY <1>1, <1>3, <2>1 DEF Held
  <2>4. /\ h \in TabType /\ h.view = "shown" /\ ~h.formOpen /\ h.editing = NoId
        /\ h.seen = c.got.seen /\ h.confirmed = f.confirmed
    BY <1>6, <1>7, <2>2 DEF TabType, GotType
  <2> HIDE DEF h
  <2>5. TabInv(h, commits) BY <1>7, <2>3, <2>4 DEF TabInv
  <2> QED BY <1>8, <2>1, <2>4, <2>5
<1>10. CASE LoadFailed(c) /\ c.kind = "start"
  <2> DEFINE h == [f EXCEPT !.view = "failed"]
  <2>1. tab' = [tab EXCEPT ![t] = h] BY <1>10 DEF LoadFailed
  <2> HIDE DEF t, f, g
  <2>2. f.view = "loading" BY <1>3, <1>10 DEF Held
  <2>3. ~f.refreshFailed /\ ~f.mutationBusy /\ ~f.formSubmitting BY <1>3, <2>2 DEF TabInv
  <2>4. /\ h \in TabType /\ h.view = "failed" /\ ~h.formOpen /\ h.editing = NoId
        /\ h.confirmed = f.confirmed
        /\ ~h.refreshFailed /\ ~h.mutationBusy /\ ~h.formSubmitting
    BY <1>3, <1>7, <2>3 DEF TabType
  <2> HIDE DEF h
  <2>5. TabInv(h, commits) BY <1>7, <2>4 DEF TabInv
  <2> QED BY <1>8, <2>1, <2>4, <2>5
<1>11. CASE LoadFailed(c) /\ c.kind # "start"
  <2> DEFINE h == [g EXCEPT !.refreshFailed = TRUE]
  <2>1. tab' = [tab EXCEPT ![t] = h] BY <1>11 DEF LoadFailed, DistrustList
  <2> HIDE DEF t, f, g
  <2>2. f.view = "shown" BY <1>3, <1>11 DEF Held
  <2>3. /\ h \in TabType /\ h.view = "shown" /\ ~h.formOpen /\ h.editing = NoId
        /\ h.confirmed = f.confirmed /\ h.refreshFailed
    BY <1>6, <1>7, <2>2 DEF TabType
  <2> HIDE DEF h
  <2>4. TabInv(h, commits) BY <1>7, <2>3 DEF TabInv
  <2> QED BY <1>8, <2>1, <2>3, <2>4
<1> QED BY <1>9, <1>10, <1>11

-----------------------------------------------------------------------------

LEMMA InitInv == Init => Inv
<1> SUFFICES ASSUME Init PROVE Inv OBVIOUS
<1>1. Closed \in TabType
  BY FreshIsTime, RulesPageAssumption DEF Closed, TabType, RulesPageAssumption
<1>2. commits = 0 /\ calls = {} BY DEF Init
<1>3. TabInv(Closed, commits) BY <1>1, <1>2 DEF TabInv, Closed
<1>4. Live(rules) = {} BY DEF Init, Live
<1>5. Cardinality(Live(rules)) <= MaxRules
  BY <1>4, FS_EmptySet, RulesPageAssumption DEF RulesPageAssumption
<1>6. RowInv
  BY <1>2, <1>5, RulesPageAssumption DEF RowInv, Init, RuleStates, RulesPageAssumption
<1> QED BY <1>1, <1>2, <1>3, <1>6 DEF Init, Inv, OneAwaited

LEMMA NextInv == Inv /\ [Next]_vars => Inv'
<1> SUFFICES ASSUME Inv, [Next]_vars PROVE Inv' OBVIOUS
<1>1. ASSUME NEW t \in Tabs, Member(t) PROVE Inv'
  BY <1>1, StartSteps, LeaveSteps, FormSteps, ChooseSteps, CloseSteps, SaveSteps, ToggleSteps
  DEF Member
<1>2. ASSUME NEW c \in calls, Answer(c) PROVE Inv'
  BY <1>2, AnsweredSteps, FailedSteps, LoadSteps DEF Answer
<1>3. CASE UNCHANGED vars
  <2>1. UNCHANGED <<rules, commits, tab, calls>> BY <1>3 DEF vars
  <2> QED BY <2>1 DEF Inv, RowInv, OneAwaited
<1> QED BY <1>1, <1>2, <1>3, DatabaseSteps DEF Next

LEMMA InvHolds == Spec => []Inv
BY InitInv, NextInv, PTL DEF Spec

\* Tabs, calls and rules keep their shape, and a form that is shut edits nothing.
THEOREM TypeCorrect == Spec => []TypeOK
<1>1. Inv => TypeOK
  BY DEF Inv, RowInv, TabInv, CallInv, TypeOK, TabType, CallType, GotType
<1> QED BY <1>1, InvHolds, PTL

\* A member never has more rules than allowed, however many tabs save at once
\* (enforce_notification_rule_limit and its advisory lock).
THEOREM LimitHolds == Spec => []RuleLimit
<1>1. Inv => RuleLimit BY DEF Inv, RowInv, RuleLimit
<1> QED BY <1>1, InvHolds, PTL

\* A tab waits for one call about its rules at most, and for no list while its
\* form is open (mutationBusy, formSubmitting).
THEOREM OneCallAtATime == Spec => []OneRuleCall
<1>1. ASSUME Inv, NEW t \in Tabs PROVE Cardinality(Awaited(t, Kinds)) <= 1
  <2>1. \A c, d \in Awaited(t, Kinds) : c = d BY <1>1 DEF Awaited, Inv, OneAwaited
  <2>2. ASSUME NEW A, \A c, d \in A : c = d PROVE Cardinality(A) <= 1
    <3>1. CASE A = {}
      <4>1. Cardinality(A) = 0 BY <3>1, FS_EmptySet, Zenon
      <4> QED BY <4>1
    <3>2. CASE A # {}
      <4>1. PICK c : A = {c} BY <2>2, <3>2
      <4>2. Cardinality(A) = 1 BY <4>1, FS_Singleton, Zenon
      <4> QED BY <4>2
    <3> QED BY <3>1, <3>2
  <2> QED BY <2>1, <2>2, Zenon
<1>2. ASSUME Inv, NEW t \in Tabs PROVE tab[t].formOpen => Awaited(t, Loads) = {}
  BY <1>2 DEF Awaited, Inv, CallInv, Held
<1>3. Inv => OneRuleCall BY <1>1, <1>2, Zenon DEF OneRuleCall
<1> QED BY <1>3, InvHolds, PTL

\* The list a member can act on is as new as the last change the tab was told
\* of, and a page whose list could not be read again acts on nothing
\* (refreshFailed).
THEOREM FreshListActs == Spec => []ActsOnFreshList
<1>1. Inv => ActsOnFreshList
  <2> SUFFICES ASSUME Inv, NEW t \in Tabs
               PROVE /\ CanAct(t) => tab[t].seen >= tab[t].confirmed
                     /\ tab[t].refreshFailed =>
                           Awaited(t, Kinds) = {} /\ ~tab[t].formOpen /\ ListActionsOff(t)
    BY DEF ActsOnFreshList
  <2>1. CanAct(t) => tab[t].seen >= tab[t].confirmed BY CanActFacts
  <2>2. tab[t].refreshFailed => Awaited(t, Kinds) = {} BY DEF Awaited, Inv, CallInv, Held
  <2>3. tab[t].refreshFailed => ~tab[t].formOpen BY DEF Inv, TabInv
  <2>4. tab[t].refreshFailed => ListActionsOff(t) BY DEF ListActionsOff, ListActionsOffWhenBusy
  <2> QED BY <2>1, <2>2, <2>3, <2>4
<1> QED BY <1>1, InvHolds, PTL

\* An open form has times that the table takes, for any choices of start, end
\* and length (syncTimeChoices).
THEOREM FormStaysStorable == Spec => []FormIsStorable
<1>1. Inv => FormIsStorable BY DEF Inv, TabInv, FormIsStorable
<1> QED BY <1>1, InvHolds, PTL

=============================================================================
