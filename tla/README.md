# Verification of the tennis court watcher

TLA+ models of the notification service in this repository: what they cover,
what TLC checks on small instances and what TLAPS proves for every instance.

## 1. The system

Every half hour a GitHub workflow scrapes the reservation sites of municipal
tennis courts, publishes what is free, matches it with the rules of the members
and queues notifications in Postgres (Supabase). Edge functions (Deno) drain the
queues into an email provider (Resend) and LINE, and take reports back by
webhook. A watchdog dispatches the workflow when GitHub's own schedule skips it.

| Component | State it keeps | Operations | Hard behaviour |
|---|---|---|---|
| Email queue and worker (`20260807140000`, `20260807150000`, `20260821095256`, `dispatch-email-notifications/`) | `notification_messages`: status, attempts, lease, first attempt, payload fingerprint | claim, authorize, send, record accepted or failed | overlapping workers, lost answers, crashes, lease and key windows |
| Provider feedback (`20260814000000`, `resend-email-webhook/`) | `notification_provider_events`, the message's status, the preference's suppression | `record_resend_email_event` | events out of order, repeated, before the worker's own record |
| Unsubscribe (`20260814100000`, the Cloudflare worker and the function behind it) | preference, token, pending messages | a link's request over two hops, opt out by token, rotate on re-enabling | a message in flight, a hop that fails, an old link |
| Membership (`20260804000000`, `20260820100000`, `delete-account/`) | `profiles.membership_status`, Auth users | accept terms, withdraw, delete | cascades under a worker's feet, a deletion that stops half-way |
| Workflow and scraper (`update-availability.yml`, `scrape.py`) | `data/availability.json`, the run's document | scrape, carry over after a 403, commit | partial failure, a lost commit |
| Matching and enqueue (`match_notification_rules.py`, `enqueue_email_notifications.py`, `20260807140000`) | candidates, `notification_delivery_items` | match, post a batch, the enqueue transaction | stale rules, lost answers, half-posted runs |
| Retention (`20260818100000`) | history older than 90 days | `cleanup_email_notification_history` | it erases what prevents duplicates |
| Watchdog (`20260813000000`, `update-availability-watchdog/`) | one row: observation, claim, cooldown | observe, record, claim, confirm, dispatch, finish | overlapping calls, a run starting meanwhile |
| Rules (`20260807000000`, `20260807100000`, `20260807130000`, `20260821022637`, `notification-rules.js`) | `notification_rules`; per tab the list, the form, busy flags | save, toggle, delete, load, the limit of five | tabs that save at once, answers that are lost, a list that could not be read again |
| LINE link (`20260821051500`, `20260821073000`, `20260821093000`, `20260828082431`, four functions) | `line_link_sessions`, `line_account_links`, `line_webhook_events` | start, complete, unlink, login identity, follow and unfollow | overlapping calls under row locks, events out of order, one-time sessions |
| LINE delivery (`20260821095256`, `20260828001723`, `dispatch-line-notifications/`) | a queue of its own, the allowlist | enqueue, canary test, claim, authorize, push, record | ambiguous pushes, quota, allowlist replaced meanwhile |
| Funnel counters (`20260901*`) | daily counters | one upsert | the limit |
| Account page (`auth-foundation.js`, `line-account-link.js`) | panels, flags and what the page last read | consent, sign out, leave, link and unlink LINE | calls that overlap or fail half-way |
| Other pages, usage report | none that outlives them | | |

How they interact: the workflow posts candidates to the enqueue RPC, then calls
the workers; the workers and the webhook share `notification_messages`; members
change `profiles`, preferences and rules at any time, each in a transaction of
its own; the watchdog sees the workflow only through GitHub's API.

`PROJECT.json` lists the components with their status, and the hazards, each at
the line where it bites.

## 2. The modules

### EmailDelivery

The message queue, the workers, the provider and the members in one module,
since every hard property is about two or more of them.

* Messages: `status`, `attempts`, `nextAt`, `lockedUntil`, `firstAt` (first send
  attempt), `fingerprint` (of the payload), `errorCode`, `providerId`, `events`.
* Members: `membership`, `enabled`, `reason`, `suppressedAt`, `token`, `address`.
* Workers: a program counter over the awaits of `processClaimedMessage`
  (`recipient`, `authorize`, `send`, `accept`, `fail`), the batch still `todo`,
  the lease timestamp the worker holds and the payload it rendered.
* Provider: `keyAt` and `keyPayload` remember an idempotency key, `late` holds
  requests whose worker has given up, `sent` counts the emails made.
* `revokedAt` is history: when a member last stopped being eligible.

One action per SQL transaction and per step between two awaits. A worker may
stop at any point (the platform kills it), an RPC's answer may be lost after its
commit, a request to the provider may land after its worker has timed out.

Data abstracted: a payload is the pair of address and token it is rendered from,
the items of a message being fixed once it is queued; an event is a type and an
instant, and events form a set, so a redelivered webhook is a stuttering step,
as the unique `provider_event_id` makes it. `now()` is one instant within a
transaction.

It implements `Outbox` (below) under `Box`.

### Outbox

What a delivery queue promises, whatever its channel: a message is queued once,
cleared before anything is delivered, delivered at most once, confirmed only if it
was, and never open again. `EmailDelivery` and `LineDelivery` each map their
status to `phase`, the first attempt to `cleared` and the provider's count to
`copies`, and have `Box!Spec` as the property `DeliversOnce`.

### LineDelivery

The LINE queue: the same table and life cycle as the email queue with other
rules. A worker reads the month's consumption before its claim (`room`), pushes
with the message's id as retry key, and retries only what the network or LINE's
servers failed at; LINE keeps a key for `ProviderWindow` and answers a repetition
as the first time. `recipient` and `firstAt` are set by the authorization. The
rollout's mode (canary, allowlist, all) is read per invocation; in shadow mode
nothing is queued. The queue has two writers: the workflow's candidates, in the
rollout's scope and under the lock the allowlist shares, and the operator's canary
test (`EnqueueCanaryTest`, remembered in `tests`), which takes no lock and any member
who can be reached. A test's id is the operator's choice: given again while its row is
there it changes nothing; given again after the retention erased the row, which is
left out here, it would be a new message. Replacing the allowlist is refused while a message is leased and
cancels the waiting messages of those it drops. A member's link is
`LineLink`'s subject; here it changes at will. `used` counts pushes of the month,
`leftAt` is history.

### EmailPreference

One member's preference between three parties: the toggle in several tabs
(which shows what was last answered, `shown`), the link in an email
(`link[r]` is a request at the worker, the function, the database, or an answer
on its way back), and the provider's webhook (`event[e]`). Each hop may refuse or
fail and each answer may be lost; `strays` are updates nobody waits for any more.
The retention may erase a message before an event about it arrives (`erased`): the
event is then answered 200 with nothing recorded (`ignored_unmatched`). The answer
`correlation_conflict` cannot be given to an event of this queue's emails, which is
what `FeedbackCorrelates` of `EmailDelivery` says; events of Auth's emails carry another
tag, match nothing and are left out. `recorded` is history.
Secrets and settings checked by each hop are choices, since each deployment has
its own. `told` is history: the holders of which tokens were told of success.

### RulesPage

The notifications page in several tabs and the table behind it. Per tab: what is
listed, the busy flags, the form with its times; `calls` are requests under way
and their answers, `awaited` unless the page that made them was left or gave up
on them. The insert of a rule is two steps, the trigger's count and the commit,
with the advisory lock between them as a guard of other counts. `commits` numbers
the changes so that a list has an age. Hours stand for the half hours of the
form; names, facilities and weekdays have no rule that relates them to anything.

### AccountPage

One member and one account page: what is loaded of them, the consent panel,
signing out, leaving (with `delete-account`, step by step) and the LINE panel.
Every call may fail or its answer be lost. `Elsewhere` is everything that other
pages, the callback, the webhook and migrations do to the member meanwhile. There
are no constants and nothing is bounded. Three answers send the browser away (to LINE,
and to the login page after signing out and after leaving). The page then stays as
they left it (stage `leaving` of the call), with its flags set and its buttons off,
until it is left or for good: the member may stop the loading, or come back to the
page out of the browser's cache, which is the page that was never left. The form that
adds a backup email address (`auth-foundation.js:454`) shares no flag or button with
the rest and is left out.

### NotificationLedger

From a free court to a queued message. Time is counted in days.

* `site` is what the sites offer, `saved` the committed document; a run has
  `pc`, `runDay`, `fresh`, `carried` (after a 403) and `candidates`.
* `items` are `notification_delivery_items` with the message they are linked to,
  `messages` are open or settled with the day they were last touched.
* `late` are enqueue requests whose client gave up and that land afterwards.
* `notified`, `offered` and `dropped` are history: how often a member was told of a
  slot, when a scrape last saw it, and when an edit took it out of a rule that has
  not asked for it since.

A rule is the set of slots it matches. The enqueue transaction is one action
with its validation, eligibility, conflict and inserts; it looks again at the member, the
preference and whether a rule is enabled, and not at what the rule asks for. A batch
fails as a whole if one candidate's facility is not listed as active. Posting order
within a run
is left open (any batch of the right size), which allows more than the code's
sorted order. Per day of the window the sites answer, refuse or fail; the code
decides it per facility and day. The cleanup skips locked rows: it may erase any
part of what is erasable. Touching a message stands for the check on recent
provider events too, since a recorded event updates its message.
`Lateness` bounds a run together with its requests. A run lasts 20 minutes at
most (`timeout-minutes`), so 1 covers the run across midnight.

### Watchdog

Overlapping invocations of `runWatchdog` against the state row and GitHub's
runs. `pc` follows the awaits; `view` is what an invocation last saw of the
runs; tokens tell whose observation the row holds. A dispatched run may carry
the live title or lack it. Observe mode is an invocation that stops after its
first record; an unreadable API answer is the empty view classified as unknown.
Metrics columns (counts of recoveries and failures) are left out.

### LineLink

How a member and a LINE account come to be linked. Transactions are READ
COMMITTED with several statements each, so the RPCs that race are split where
they read or lock rows that another call may write.

* Tables: `account`, `status`, `lastAt` are a member's row of
  `line_account_links`; `owner`, `expires`, `consumed` a session (`NoUser` when
  the row is gone); `recorded` the webhook events.
* `call[c]` is an invocation of one of the functions: where it stands and what it
  has read. `Holds` and `LocksLink` derive the row locks it has from that; other
  calls' steps have `SessionsFree`, `LinkFree` and `AccountFree` as guards.
* `select ... for update` waits for the lock of a row that is there; of a row that
  another call has inserted and not committed it sees nothing and waits for nothing,
  so two logins of one member can both find no link. The upsert of the second then
  waits for the first's commit and updates the row whatever account it has by then.
* A delete lists the rows its snapshot shows (`doomed`) in one step and removes
  them at the commit, once it has their locks. A session committed in between
  survives it, as in the code.
* `friend` and `net` are LINE: who follows the bot, which webhooks are under way.
* `born`, `uses`, `barred` and `heard` are history.

A deadlock needs no action of its own: either victim may `Rollback`. A profile
is active, inactive or deleted. Events are identified by account and instant. Errors of
LINE before the RPC change no table and are the callback that never comes.

### MemberLinks

The interface of the two LINE modules: a member is active, inactive or deleted, and
has the LINE account of an active link or none. `LineDelivery` lets this change as it
likes; `LineLink` is what changes it. Both implement `MemberLinks` (as `Links` in their
proof modules, with `LinkOf` as the link in `LineLink`); it is proved and no run is
spent on it.

### MC modules and faulty variants

Each module that is run has an `MC` module with nothing but the values of
constants and the symmetries for its configurations. Some definitions are preceded by a faulty
variant (`ReleasedAlways` before `Released`, and so on). Nothing uses them in the
specifications; substituted for the definition they make TLC find the property
violated, and `PROJECT.json` says which.

## 3. What the runs check

| Run | Question | Bounds |
|---|---|---|
| EmailWorkers | Can two workers, lost answers, late requests or an expired key make a second email; does opting out hold while mail is in flight; are status and suppression a function of the set of events, not of their order; is the email queue an `Outbox`? (`AtMostOneEmail`, `NeverMismatchedKey`, `OneLeaseHolder`, `UnsubscribeTakesEffect`, `StatusFollowsEvents`, `SuppressionFollowsEvents`, `FeedbackCorrelates`, `SettledIsFinal`, `DeliversOnce`) | 1 message, 2 workers, 2 attempts, 2 event types, 2 tokens, 2 addresses, 4 ticks: lease 2, window 2, provider 3, flight 1 |
| EmailLive | Is every queued message settled? (`EveryMessageSettles`) | 2 workers, 2 attempts, 6 ticks |
| LinePush | Is the LINE queue an `Outbox` although pushes time out; is a push meant for the member's present account and in the rollout's scope, or at most a flight late; does nothing but an unclaimed test wait for who is not on the allowlist? (`DeliversOnce`, `PushInScope`, `QueueKeepsToAllowlist`) | 1 message, 2 workers, 2 LINE accounts, 2 attempts, allowlist of 1, quota 3, 5 ticks |
| EmailPreference | Does "emails are stopped" hold once it was said, and a recorded bounce, whatever the toggle, late updates, other links and the cleanup do; which events does the provider stop repeating? (`StopHolds`, `FeedbackStands`) | 1 tab, 1 link at a time, a supported and an unsupported event, 1 rotation |
| Ledger | Can a member be told twice, of something nobody saw, long after they stopped asking for it, or of nothing? (`SlotNotifiedOnce`, `NotifiedWhileOffered`, `NotifiedAsAsked`, `OpenMessageHasItems`) | 1 member, 2 slots, one of an unlisted facility on the first day, batches of 1, 5 days: window 2, lateness 1, history 3 |
| LedgerLive | Is a wanted slot queued in the end although runs fail half way? (`EveryMatchNotified`) | 2 slots in batches of 1 |
| Watchdog | Can overlapping calls dispatch twice within the cooldown, hold a claim together, or dispatch what is not needed? (`CooldownHolds`, `OneClaimHolder`, `DispatchIsNeeded`) | 2 invocations, 3 runs, 9 ticks |
| LineLogins | Do a session, an ended login and the conflict check of a link that was found hold when calls overlap, two logins of one member among them? (`AcceptedOnce`, `EndedLoginsStayEnded`, `FoundLinksKept`) | 2 members, 2 accounts, 2 sessions, 2 calls, 2 ticks, no events |
| LineEvents | Does a link follow the newest event that met it? (`LinkFollowsNewestEvent`) | 1 member, 2 sessions, 3 events, 3 ticks |
| LineSwap | A documented promise: violated, see section 5 | 1 member, 1 call |
| RulesTabs | Can tabs that save at once exceed the limit; does a tab overlap its own calls, act on a list older than what it was told, or send times the table refuses? (`RuleLimit`, `OneRuleCall`, `ActsOnFreshList`, `FormIsStorable`) | 2 tabs, 2 rules, a limit of 1, 2 choices of start, end and length, 1 stray call, 2 changes |
| AccountPage | Can any order of presses, failures and changes elsewhere shut a button for any reason but a call still out or having sent the browser away, or make the page take leave of a member who is still there? (`ShutForAReason`) | none |

Each module has one run that checks its type invariant too; it contains what the
tables' own constraints say (the attempt bound, the claim triplet, the foreign key
to a message, one link for each LINE account), and for `AccountPage` that the LINE panel is set up once.

Two overlapping calls are what every race over the link needs, two accounts make
a conflict, and the second member makes one account wanted twice. Three events
give a newest, an older one that comes late, and one between two links.

`RulesTabs` has a limit of one, so that each save is the race for the last place, and
two tabs, since a trigger's count meets one other at a time. In `EmailPreference`
one tab suffices because an update that a tab gave up on (`strays`) is what
another tab's update would be, and one rotation separates an old token from the
new one. `LinePush` has two LINE accounts, one to move from and one to move to.

Why these bounds for the queues and the watchdog: what can go wrong needs two workers or invocations, one lease
to expire, one attempt beyond the limit, one key to expire, one request to land
late, one event before and one after another. Every instance has room for each
of these and keeps what the theorems assume of the code's durations (window + flight <= provider
window; deadline < claim < cooldown; window + lateness <= retention) rather than
their ratio. A lease is shorter than the window in the code and in `EmailLive`; in
`EmailWorkers` and `LinePush` both are 2, the least with which a lease outlasts a
tick, and no proof compares them. The clock is bounded, so `CHECK_DEADLOCK FALSE` stands where the
last tick may leave nothing to do.

### Fairness

`EmailLive`: a tick is a minute or more and the work of an invocation takes
seconds (its calls carry timeouts), so `LiveSpec` lets time pass only when no
worker is at work and no claim would find anything. The schedule calls the worker
for ever, so a claim that stays possible is made (weak fairness of `Claim`); a
started worker goes on or is stopped (weak fairness of `WorkerStep`, which a
crash satisfies too). Members do not do infinitely many things within one tick
(strong fairness of `Tick`). Nothing is assumed of the provider's answers, of the
answers of RPCs or of crashes: each may fail each time.

`LedgerLive`: the schedule starts runs for ever and each ends, if only by
failing. Strong fairness stands for what the code cannot force: infinitely often
the sites answer for the whole window, the run goes on to matching, and a
candidate posted again and again is answered. Every facility is listed there: a
candidate of an unlisted one fails its batch each time, and the batches after it of
that run are not posted.

## 4. What is proved

TLAPS checks these for every value of the constants that satisfies the named
assumption of the module (`EmailAssumption`, `WatchdogAssumption`,
`LedgerAssumption`, `LinkAssumption`, `LineAssumption`,
`EmailPreferenceAssumption`, `RulesPageAssumption`). They say what the constants
are and in which order the code's durations stand. Members, messages, workers,
calls, tabs and so on are any sets; only `LineAssumption` asks for finitely many
members, since the allowlist is counted. The bounds that TLC needs (`MaxTime`,
`MaxRuns`, `Restless` and so on) are constants like the others: a theorem holds
however large they are.

* `EmailDeliveryProofs`: `TypeCorrect`; `OneEmail`, that no message becomes two
  emails; `KeysMatch`, that the provider never sees a key with another payload;
  `UnsubscribeHolds`. `OneEmail` needs `Window + Flight <= ProviderWindow`: a
  request lands while the provider still knows the key of the first attempt. The
  inductive invariant ties each request, in a worker or in the network, to the
  message's first attempt and fingerprint. The module's second half is about the
  queue as a record. `LeasesFence`: that nobody else holds a lease is not inductive, for a lease that ran out can be claimed again; the
  invariant (`HandInv`) is that two workers with one message in hand claimed it at
  different times, because what a claim takes cannot be taken again within its tick
  (`Taken`). `EventsFindMessages`, `StatusIsTheEvents`, `SuppressionIsTheEvents`
  rest on `RecordInv`: what an event leaves in the row stays, whatever worker
  records late, and the newest of a set of events is one event (`NewestIsOne`,
  `NewestAmongMore`), so that order of arrival cannot show. `SettledStays` is the
  action property that nothing is opened again. `EmailIsAnOutbox` is the refinement:
  each action's step of the queue is a step of `Outbox` or a stutter, in particular
  a send that the provider has already seen (`TakeBox`) and a claim that drops some
  messages and takes others (`ClaimBox`). `ConfirmedWasSent` is what that refinement
  gives back: a message recorded as accepted, delivered or bounced was taken by the
  provider exactly once, although the record is written by an answer or a webhook
  that may be late.
* `LineDeliveryProofs`: `TypeCorrect`, `PushesStayInScope`, `QueueStaysListed` and
  `LineIsAnOutbox`. `PushInv` says of every push under way, in an invocation or timed
  out (`Flies`), that it lands before LINE forgets its message's key, and that its
  account and rollout scope are those of now or were lost at most a flight ago. That
  a message is pushed once is then `KeyInv`. The allowlist needs that
  replacing it is refused while a message is leased and cancels the rest. The canary
  test, which asks nobody, needs that no invocation has it in hand as long as its
  member is off the list: a row that was never inserted was never attempted
  (`FreshInv`), and a claim, an authorization and a record leave what is out of scope
  and pending as it is (`WorkerRows`).
  Three theorems are the email queue's, said of this one, and no run is spent on them
  again: `OnePush` (one push at most, and one behind every acceptance) and
  `SettledStays`, both read off the refinement's steps (`BoxStep`, `NextKept`), and
  `LeasesFence`, with a `HandInv` of its own: what an invocation claims, and what it
  puts back to be retried, no other can claim within the same tick.
  `QuotaHoldsAlone` is conditional: with finitely many messages, and if no invocation
  begins while another works or a push is still out (`StartsAlone`), the month's limit
  holds. The invariant counts what has been pushed, what may still land and what the
  one invocation at work may still push (`Owed`).
* `WatchdogProofs`: `CooldownSeparates`, `OneClaim`, `DispatchOnlyWhenNeeded` and
  `TypeCorrect`. A claim outlives the invocation that holds it (`Deadline < Lease`)
  and a confirmation starts a cooldown in the same transaction that checks the claim.
  `DispatchOnlyWhenNeeded` is about a verdict that is old when it is acted on. Two
  facts keep it good until the POST: every run created before the invocation began
  is in its view, and as active there as it is now (`Seen`); and the last dispatched
  run that the verdict was taken with is still the one on record, since only the
  claim's holder changes it (`Judged`, `OthersLeaveLastRun`). `LatestBounds` is the
  lemma on `Latest`: the maximum it chooses exists.
* `NotificationLedgerProofs`: `NotifiedOnce`, `OpenHasItems`, `OnlyOffered`,
  `OnlyAsked`, `TypeCorrect`; the last with the foreign key from an item to its
  message, which the cleanup keeps by unlinking in the same transaction
  (`CleanupLinks`). `SlotNotifiedOnce` is not inductive, since the item that
  remembers a notification is erased. The invariant adds that a notified slot is
  either still listed or over (`Remembered`): no request that could name it is
  left. That is so because each request names only slots of the window of the
  day it was made (`RunInv`, `LateInv`), an item was made for a slot at most a
  window ahead (`ItemsAhead`), and it is erased only after its slot's day and
  the retention. The lemma `EnqueueKeeps` is the enqueue transaction, used both
  for a posted batch and for one that lands late. `OnlyAsked` is about a match that
  is old when it is posted: each rule of a candidate asks for the slot still, or an
  edit has taken it out since the day of the run (`AskedSince`), and no later edit
  can make that untrue (`GoodOutlivesEdits`).
* `LineLinkProofs`: `SessionsAreSingleUse`, `EndedIsEnded`, `ConflictCheckHolds`,
  `NewestEventRules` and `TypeCorrect`. The first three rest on `LocksProtect`: a call past its
  lookup has its session to itself, and the row is there, unconsumed and never
  accepted (`HoldInv`, `SessionInv`); a call that found a link has the row to
  itself, so what it concluded is still true at its commit (`FoundInv`,
  `LockInv`; of a call that found none nothing of the kind is true or claimed); and a callback deletes its own session with the others
  (`DoomedInv`). `NewestEventRules` is inductive once instants are positive.
  `TypeCorrect` contains that no LINE account is in two links, which needs `TakenInv`:
  the account that an uncommitted write takes stays free, and no other write takes it.
  `DeletedLeavesNothing` needs `GoneInv`, that no call holds a deleted member's link: a
  callback past its lookup keeps its session, and so the member, until it is done
  (`HolderThere`). With it `LinkingIsMemberLinks` is a refinement: each step is one
  change of one member's link (`OneRow`) or nothing the queue sees (`NoRow`), also a
  webhook, which reaches one link because accounts are unique. From the other side,
  `QueueIsMemberLinks` in `LineDeliveryProofs` and its lemmas `LinksMoveFreely` and
  `MembersMoveFreely` say that the queue's model lets links and memberships do just
  what `MemberLinks` lets them do: the queue's theorems take nothing for granted of
  links that linking does not keep to.
* `EmailPreferenceProofs`: `TypeCorrect`, `StoppedStays`, `FeedbackIsKept`.
  `StopHolds` is not inductive, for an answer may be on its way to someone not yet
  told. The invariant adds that a processed link's promise holds already
  (`ProcessedHolds`), that a link under way carries a token some email has, or none
  that could be one (`LinksMailed`), and that what the RPC answered is on record or had
  no message left, before anybody is told so (`HandledHolds`). `UpdateFacts` is what every change of the row has in
  common: the preference comes on only together with a token no email has.
* `RulesPageProofs`: `TypeCorrect`, `LimitHolds`, `OneCallAtATime`,
  `FreshListActs`, `FormStaysStorable`. That a tab has one call is inductive only
  with the flags that say so: a call someone awaits has the tab's flag set
  (`Held`, `CallInv`), no two awaited calls share a tab (`OneAwaited`), and a tab
  without a call has shown all it was told of (`TabInv`). The limit rests on
  `RowInv`: a count that is held is the only one and there is still room. For the
  form, `SyncIsValid` shows what `syncTimeChoices` leaves for any choices whose
  earliest start and latest end make a window.

* `AccountPageProofs`: `TypeCorrect` and `PageReopens`. The module has no
  constants and its run is exhaustive, so the theorem adds the reason: which field of
  a panel follows which call (`ConsentFollows`, `LeaveFollows`, `LineFollows`). A
  button is shut by a call that is still out, or by one whose answer sent the browser
  away, and by nothing else. `ShutForAReason` is not inductive, for an answer redraws its panel from what the page remembers; the
  invariant adds that a panel which has not read the account offers nothing
  (`LineUnread`), that only a load that was sent has read anything, that a page which
  was left keeps no call (`NothingRemains`) and that a deletion is never taken back
  (`GoneIsGone`).

Only model-checked: liveness (`EveryMessageSettles`, `EveryMatchNotified`), which
is out of the prover's reach (fairness and ENABLED). Every invariant and action
property of a passing run, and every refinement, is a theorem. No model has a
recursive definition.

## 5. Findings

**An old event wins after a login.** `docs/PHASE4_LINE_NOTIFICATION_ROLLOUT.md:415`
wants an old event never to overwrite the present state. Completing a link clears
`last_webhook_at`, so the guard of `record_line_webhook_events` accepts whatever
comes next: an unfollow from before the login, delivered after it, turns the
friendship the callback has just read into blocked. Among events that have met the
link the order is kept, which is what `LinkFollowsNewestEvent` says; the model has
the code's behaviour and no run is spent on the promise.

**An account replaced without the check.** `line_account_link.test.sql:270,283` say
a linked member's account is not silently replaced. `for update` locks nothing
where there is no row: when the login identity is linked between a callback's
lookup and its upsert, the upsert replaces it (`LineSwap`). Where the callback
found the link, the check holds (`FoundLinksKept`, proved). Two logins of one
member get there too, in the model as in the code: the comment at `20260821073000:46`
says a member has one live browser flow, but two overlapping
`create_line_link_session` calls delete only what each sees, and both insert. Their
callbacks both find no link; the second's upsert waits for the first and replaces
its account. Each session still lets one callback through, and ends with the first
link or unlink that sees it.

**A toggle that shows the past.** `docs/PHASE3_EMAIL_UNSUBSCRIBE.md:193` has the page
read the preference again when it comes to the foreground, so that no old state
stays on the screen. `refreshEmailPreferenceFromServer`
(`notification-rules.js:758`) looks at the busy flag before its request and not
after it: a reading begun before a change and answered after the change's own answer
puts the old state back on the screen until the next reading. The model has the
race (`ReadPref`, `ReadPrefAnswered`), so it states no property of what is shown.

**Consent without a page.** When terms were accepted and the reading that follows
fails, the consent panel is hidden already and the handler at
`auth-foundation.js:605` says that consent failed: the member has to reload to see
an active account.
`ShutForAReason` asks only that what is shown can be used.

**A LINE panel that stays dead.** When the way to LINE is open, the handler at
`line-account-link.js:245` assigns the location and leaves `starting` set with both
buttons off; there is no `pageshow` handler, although `notification-rules.js:1135` has
one for the page next to it. A member who stops the loading, or comes back with the
browser's cache, has a panel that neither links nor unlinks, and a confirmation that
does nothing, until the page is loaded again. The model has it as stage `leaving`;
`LineDead` states it, and `CanLink` that no other answer does it. Signing out and
leaving have no such handler either, but the page they leave is of nobody.

**A complaint that finds nothing.** `resend-email-webhook/helpers.ts:239` answers 200
whatever the RPC made of an event (`helpers.ts:385`), `ignored_unmatched` among them.
A complaint about a message that retention has erased is therefore never repeated and
suppresses nothing; nor does one about an email of Auth. That an acknowledged event is
recorded is no property of this code; `FeedbackStands` says what is: it is recorded, or
its message was erased.

**A test past the rollout.** `enqueue_line_canary_test` (`20260821095256:529`) checks
neither the rollout nor the allowlist and takes no lock, so a message can wait for a
member outside both. No invocation claims it while the member stays outside, and
replacing the list cancels it if they still are (`QueueKeepsToAllowlist`).

**The month's consumption.** An invocation of `dispatch-line-notifications` reads it
once (`index.ts:94`), so two that overlap can pass the limit together, and `QuotaKept`
is no invariant. `QuotaHoldsAlone` proves what is enough: no invocation begins while
another works or a push of one may still land. The workflow's concurrency group
(`update-availability.yml:26`) sees to it as long as no invocation outlives the
request that started it.

## 6. Plan

Done, in order: EmailDelivery, Watchdog, NotificationLedger, LineLink and their
proofs; Outbox and LineDelivery; RulesPage and EmailPreference, each with its
proofs; AccountPage and its proofs; the proofs of both refinements, of what both
queues record, of what linking and the LINE queue owe each other, of the watchdog's
need to dispatch and of the remaining type invariants.

Next:

1. Proofs: how far a run of the workflow can lag.
2. `RuleMatching` and `SlotMerging`: the arithmetic of
   `_match_normalized_rules_to_slots` and `merge_consecutive_slots`, as functions
   checked against a reference definition over small clocks.
3. `WorkflowRun`: concurrency group, push attempts and rebase.

### Not modelled

* Parsing of the sites' pages, rendering of emails and pages, signatures and token
  hashes, the usage report: text, or input and output. A signature check is a
  choice between its two outcomes.
* The door of `line-webhook` that forwards to the older webhook, and the cleanup of
  old sessions and events.
* The sign-in and callback pages: their one decision, which session goes on, is
  Auth's.
* The funnel counters: one saturating upsert each, read by nobody else.
