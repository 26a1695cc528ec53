-------------------------- MODULE EmailPreference --------------------------
(***************************************************************************)
(* One member's email preference and everything that changes it: the       *)
(* toggle of account/notifications.html in several tabs, the link in an    *)
(* email (a mail client or a page, the Cloudflare worker, the function     *)
(* behind it, the RPC), and the email provider's webhook.                  *)
(*                                                                         *)
(* Every hop may fail and every answer may be lost.  Secrets and settings  *)
(* may be missing or differ between two deployments at any time, so each   *)
(* check of them goes either way.                                          *)
(***************************************************************************)
EXTENDS Naturals

CONSTANTS
    Tabs,
    Links,           \* bound: requests to unsubscribe under way at once
    Events,          \* what the provider has to say, one event of each type
    Malformed,       \* a link whose token is no UUID
    MaxToken         \* bound: rotations of the token

ASSUME EmailPreferenceAssumption ==
    /\ Events \subseteq {"delivered", "bounced", "complained", "opened"}
    /\ MaxToken \in Nat /\ Malformed \notin Nat

VARIABLES
    pref,            \* notification_email_preferences
    token,           \* notification_email_unsubscribe_tokens
    flight,          \* whether an email is in processing or retry_wait
    mailed,          \* the tokens in emails the member has
    tab,             \* what each tab shows, its calls
    strays,          \* updates on their way that no tab waits for
    link,            \* requests to unsubscribe
    told,            \* the tokens whose holder was told that emails are stopped
    event,           \* the provider's events, about emails of this queue
    erased,          \* those whose message the retention cleanup has deleted
    recorded         \* history: those that notification_provider_events has had

vars == <<pref, token, flight, mailed, tab, strays, link, told, event,
          erased, recorded>>
memberVars == <<flight, mailed>>
tabVars == <<tab, strays>>
linkVars == <<link, told>>
eventVars == <<event, erased, recorded>>

Prefs == {"on", "off", "suppressed"}
Tokens == 0..MaxToken
Idle == [stage |-> "idle"]
Sets == [stage : {"sent"}, on : BOOLEAN] \cup [stage : {"done"}, got : Prefs]
        \cup [stage : {"refused"}]
Reads == [stage : {"sent"}] \cup [stage : {"done"}, got : Prefs]
Requests == [at : {"worker", "function", "database"}, token : Tokens \cup {Malformed}]
            \cup [at : {"answer"}, token : Tokens, status : {200, 401, 502, 503}]

\* No email carries a token that is yet to come, and only the holder of an
\* email can have been told something.
TypeOK ==
    /\ pref \in Prefs /\ token \in Tokens /\ flight \in BOOLEAN
    /\ mailed \subseteq 0..token /\ told \subseteq mailed
    /\ tab \in [Tabs -> [shown : Prefs, set : {Idle} \cup Sets, read : {Idle} \cup Reads]]
    /\ strays \subseteq BOOLEAN
    /\ link \in [Links -> {Idle} \cup Requests]
    /\ event \in [Events -> {"none", "pending", "door", "handled", "acked"}]
    /\ erased \subseteq Events /\ recorded \subseteq Events

\* The tabs have loaded; email starts off for members who came by LINE.
Init ==
    /\ pref \in {"on", "off"} /\ token = 0 /\ flight = FALSE /\ mailed = {}
    /\ tab = [t \in Tabs |-> [shown |-> pref, set |-> Idle, read |-> Idle]]
    /\ strays = {}
    /\ link = [r \in Links |-> Idle] /\ told = {}
    /\ event = [e \in Events |-> "none"] /\ erased = {} /\ recorded = {}

-----------------------------------------------------------------------------
(* The dispatcher, as far as the preference sees it.                        *)

\* An email is sent, or stays to be tried again; it carries the token in force.
Mail ==
    /\ pref = "on" /\ mailed' = mailed \cup {token}
    /\ flight' \in BOOLEAN
    /\ UNCHANGED <<pref, token, tabVars, linkVars, eventVars>>

Settle ==
    /\ flight /\ flight' = FALSE
    /\ UNCHANGED <<pref, token, mailed, tabVars, linkVars, eventVars>>

-----------------------------------------------------------------------------
(* The row.                                                                 *)

\* An update of is_enabled: a suppressed preference cannot be enabled (the
\* constraint), nor one that has an email under way (the trigger).
EnablableAnyReason == pref = "off" => ~flight
Enablable == pref # "suppressed" /\ (pref = "off" => ~flight)

\* gen_random_uuid: a token no email has carried.
Keep == token' = token
Rotate == token < MaxToken /\ token' = token + 1

Update(on) ==
    IF on THEN
        /\ Enablable /\ pref' = "on"
        /\ IF pref = "off" THEN Rotate ELSE UNCHANGED token
    ELSE
        /\ pref' = IF pref = "on" THEN "off" ELSE pref
        /\ UNCHANGED token

\* unsubscribe_email_notifications_by_token
UnsubscribeByToken(t) ==
    pref' = IF t = token /\ pref = "on" THEN "off" ELSE pref

-----------------------------------------------------------------------------
(* The toggle.                                                              *)

Busy(t) == tab[t].set # Idle

\* updateEmailPreference of a member with an address: what is shown is flipped.
SetPref(t) ==
    /\ ~Busy(t) /\ tab[t].shown # "suppressed"
    /\ tab' = [tab EXCEPT ![t].set = [stage |-> "sent", on |-> tab[t].shown = "off"]]
    /\ UNCHANGED <<pref, token, memberVars, strays, linkVars, eventVars>>

ChangePref(t) ==
    /\ tab[t].set.stage = "sent"
    /\ \/ /\ Update(tab[t].set.on)
          /\ tab' = [tab EXCEPT ![t].set = [stage |-> "done", got |-> pref']]
       \/ /\ tab' = [tab EXCEPT ![t].set = [stage |-> "refused"]]
          /\ UNCHANGED <<pref, token>>
    /\ UNCHANGED <<memberVars, strays, linkVars, eventVars>>

SetPrefAnswered(t) ==
    /\ tab[t].set.stage = "done"
    /\ tab' = [tab EXCEPT ![t].shown = tab[t].set.got, ![t].set = Idle]
    /\ UNCHANGED <<pref, token, memberVars, strays, linkVars, eventVars>>

\* Refused, or no answer: the toggle goes back to what was last read.
SetPrefFailed(t) ==
    /\ Busy(t)
    /\ tab' = [tab EXCEPT ![t].set = Idle]
    /\ strays' = IF tab[t].set.stage = "sent" THEN strays \cup {tab[t].set.on} ELSE strays
    /\ UNCHANGED <<pref, token, memberVars, linkVars, eventVars>>

LateChange ==
    \E on \in strays :
        /\ strays' = strays \ {on}
        /\ Update(on) \/ UNCHANGED <<pref, token>>
        /\ UNCHANGED <<memberVars, tab, linkVars, eventVars>>

\* refreshEmailPreferenceFromServer when the tab comes to the foreground: the
\* flag is looked at before the request, and not again after it.
ReadPref(t) ==
    /\ ~Busy(t) /\ tab[t].read = Idle
    /\ tab' = [tab EXCEPT ![t].read = [stage |-> "sent"]]
    /\ UNCHANGED <<pref, token, memberVars, strays, linkVars, eventVars>>

Read(t) ==
    /\ tab[t].read.stage = "sent"
    /\ tab' = [tab EXCEPT ![t].read = [stage |-> "done", got |-> pref]]
    /\ UNCHANGED <<pref, token, memberVars, strays, linkVars, eventVars>>

ReadPrefAnswered(t) ==
    /\ tab[t].read # Idle
    /\ \/ /\ tab[t].read.stage = "done"
          /\ tab' = [tab EXCEPT ![t].shown = tab[t].read.got, ![t].read = Idle]
       \/ tab' = [tab EXCEPT ![t].read = Idle]
    /\ UNCHANGED <<pref, token, memberVars, strays, linkVars, eventVars>>

-----------------------------------------------------------------------------
(* The link in an email.                                                    *)

Goes(r, to) == link' = [link EXCEPT ![r] = to]

\* A mail client's one-click POST, or the form of the confirmation page.
Submit(r) ==
    /\ link[r] = Idle
    /\ \E t \in mailed \cup {Malformed} : Goes(r, [at |-> "worker", token |-> t])
    /\ UNCHANGED <<pref, token, memberVars, tabVars, told, eventVars>>

\* The worker: a request it cannot read or that is not set up for is refused; a
\* token that cannot be one is answered like any other, and goes no further.
ForwardAll(r) ==
    /\ link[r] # Idle /\ link[r].at = "worker"
    /\ Goes(r, Idle) \/ Goes(r, [link[r] EXCEPT !.at = "function"])
    /\ UNCHANGED <<pref, token, memberVars, tabVars, told, eventVars>>
Forward(r) ==
    /\ link[r] # Idle /\ link[r].at = "worker"
    /\ \/ Goes(r, Idle)
       \/ link[r].token # Malformed /\ Goes(r, [link[r] EXCEPT !.at = "function"])
    /\ UNCHANGED <<pref, token, memberVars, tabVars, told, eventVars>>

Answers(r, status) == Goes(r, [at |-> "answer", token |-> link[r].token, status |-> status])

\* The function: the worker's secret, its own settings.
Check(r) ==
    /\ link[r] # Idle /\ link[r].at = "function"
    /\ \/ Goes(r, [link[r] EXCEPT !.at = "database"])
       \/ \E status \in {401, 503} : Answers(r, status)
    /\ UNCHANGED <<pref, token, memberVars, tabVars, told, eventVars>>

Process(r) ==
    /\ link[r] # Idle /\ link[r].at = "database"
    /\ \/ UnsubscribeByToken(link[r].token) /\ \E status \in {200, 502} : Answers(r, status)
       \/ UNCHANGED pref /\ Answers(r, 502)
    /\ UNCHANGED <<token, memberVars, tabVars, told, eventVars>>

\* The worker tells success for 200 only.
Success(status) == status = 200

AnswerLink(r) ==
    /\ link[r] # Idle /\ link[r].at = "answer"
    /\ told' \in IF Success(link[r].status) THEN {told, told \cup {link[r].token}} ELSE {told}
    /\ Goes(r, Idle)
    /\ UNCHANGED <<pref, token, memberVars, tabVars, eventVars>>

-----------------------------------------------------------------------------
(* The provider's webhook.                                                  *)

Disabling == {"bounced", "complained"}
Supported == {"delivered", "bounced", "complained"}

Occur(e) ==
    /\ event[e] = "none" /\ mailed # {}
    /\ event' = [event EXCEPT ![e] = "pending"]
    /\ UNCHANGED <<pref, token, memberVars, tabVars, linkVars, erased, recorded>>

\* The provider posts an event until it is answered with 2xx, and once more
\* when that answer is lost.
Post(e) ==
    /\ event[e] = "pending"
    /\ event' = [event EXCEPT ![e] = "door"]
    /\ UNCHANGED <<pref, token, memberVars, tabVars, linkVars, erased, recorded>>

\* 4xx and 5xx: signature, settings, payload, no answer of the RPC.
Reject(e) ==
    /\ event[e] \in {"door", "handled"}
    /\ event' = [event EXCEPT ![e] = "pending"]
    /\ UNCHANGED <<pref, token, memberVars, tabVars, linkVars, erased, recorded>>

\* record_resend_email_event answers one of recorded, duplicate and, when there
\* is no message to match the event with, ignored_unmatched.  An email of this
\* queue never leads to its fourth answer, correlation_conflict (EmailDelivery's
\* FeedbackCorrelates).
Record(e) ==
    /\ event[e] = "door" /\ e \in Supported
    /\ event' = [event EXCEPT ![e] = "handled"]
    /\ recorded' = IF e \in erased THEN recorded ELSE recorded \cup {e}
    /\ pref' = IF e \in Disabling \ (recorded \cup erased) THEN "suppressed" ELSE pref
    /\ UNCHANGED <<token, memberVars, tabVars, linkVars, erased>>

\* Whatever the RPC answered is answered with 200, as is an event of a type that
\* is not supported.
Acknowledge(e) ==
    /\ event[e] = "handled" \/ (event[e] = "door" /\ e \notin Supported)
    /\ event' = [event EXCEPT ![e] = "acked"]
    /\ UNCHANGED <<pref, token, memberVars, tabVars, linkVars, erased, recorded>>

\* cleanup_email_notification_history, 90 days after the message was settled and
\* anything was recorded of it; the records go with it, the preference stays.
Erase(e) ==
    /\ mailed # {}
    /\ erased' = erased \cup {e}
    /\ UNCHANGED <<pref, token, memberVars, tabVars, linkVars, event, recorded>>

-----------------------------------------------------------------------------

Toggle(t) ==
    \/ SetPref(t) \/ ChangePref(t) \/ SetPrefAnswered(t) \/ SetPrefFailed(t)
    \/ ReadPref(t) \/ Read(t) \/ ReadPrefAnswered(t)

Next ==
    \/ Mail \/ Settle \/ LateChange
    \/ \E t \in Tabs : Toggle(t)
    \/ \E r \in Links : Submit(r) \/ Forward(r) \/ Check(r) \/ Process(r) \/ AnswerLink(r)
    \/ \E e \in Events : Occur(e) \/ Post(e) \/ Reject(e) \/ Record(e) \/ Acknowledge(e)
                       \/ Erase(e)

Spec == Init /\ [][Next]_vars

-----------------------------------------------------------------------------
(* What the parts promise together.                                         *)

\* Whoever was told that emails are stopped gets none until the member turns
\* them on: turning on replaces the token, so for as long as the link's token
\* is in force the preference is not on, whatever other tab, late update or
\* failed hop came before or after.
StopHolds == token \in told => pref # "on"

\* A bounce or complaint that was recorded keeps email off for good, also when
\* the message and the record are gone: no toggle of a stale tab, late update,
\* link or repeated webhook lifts it.  And the provider was told to stop repeating
\* an event only once that was so, or when there was no message left to match.
FeedbackStands ==
    \A e \in Events \cap Supported :
        /\ event[e] = "acked" => e \in recorded \cup erased
        /\ e \in recorded \cap Disabling => pref = "suppressed"

=============================================================================
