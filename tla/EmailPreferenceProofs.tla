----------------------- MODULE EmailPreferenceProofs -----------------------
(* For any number of tabs, links under way, events and rotations: whoever   *)
(* was told that emails are stopped is believed until the member turns them *)
(* on, and a recorded bounce or complaint keeps email off.                  *)
EXTENDS EmailPreference, TLAPS

USE EmailPreferenceAssumption

\* A link under way carries a token of an email, or none at all.
LinksMailed ==
    \A r \in Links : link[r] # Idle =>
        /\ link[r].at \in {"worker", "function", "database", "answer"}
        /\ link[r].token \in mailed \/ (link[r].at = "worker" /\ link[r].token = Malformed)

\* A processed link's promise holds already, told or not.
ProcessedHolds ==
    \A r \in Links : link[r] # Idle /\ link[r].at = "answer" /\ link[r].status = 200 =>
        (link[r].token = token => pref # "on")

\* What the RPC has answered is on record or had no message left, acknowledged
\* or not, and what is on record took effect.
HandledHolds ==
    \A e \in Events \cap Supported :
        /\ event[e] \in {"handled", "acked"} => e \in recorded \cup erased
        /\ e \in recorded \cap Disabling => pref = "suppressed"

Inv == TypeOK /\ LinksMailed /\ ProcessedHolds /\ StopHolds /\ HandledHolds

-----------------------------------------------------------------------------

\* Whatever an update does to the row: a token is replaced by one no email has,
\* the preference comes on only with a new token, and a suppression stays.
UpdateFacts ==
    /\ pref' \in Prefs /\ token' \in Tokens
    /\ token' = token \/ token' = token + 1
    /\ pref' = "on" => pref = "on" \/ token' = token + 1
    /\ pref = "suppressed" => pref' = "suppressed"

LEMMA UpdateIsSafe ==
    ASSUME TypeOK, NEW on \in BOOLEAN, Update(on)
    PROVE UpdateFacts
<1>1. pref \in Prefs /\ token \in Nat /\ token \in 0..MaxToken BY DEF TypeOK, Tokens
<1>2. CASE on
  BY <1>1, <1>2 DEF Update, Enablable, Rotate, Prefs, Tokens, UpdateFacts
<1>3. CASE ~on
  BY <1>1, <1>3 DEF Update, Prefs, Tokens, UpdateFacts
<1> QED BY <1>2, <1>3

LEMMA StopIsSafe ==
    ASSUME TypeOK, NEW t, UnsubscribeByToken(t), UNCHANGED token
    PROVE UpdateFacts /\ (t = token => pref' # "on")
BY DEF TypeOK, UnsubscribeByToken, Prefs, Tokens, UpdateFacts

\* A change of the row alone keeps everything that does not speak of tabs.
RowRest == <<mailed, link, told, event, erased, recorded>>

LEMMA RowKeeps ==
    ASSUME Inv, UpdateFacts, UNCHANGED RowRest
    PROVE /\ mailed' \subseteq 0..token' /\ told' \subseteq mailed'
          /\ LinksMailed' /\ ProcessedHolds' /\ StopHolds' /\ HandledHolds'
<1>1. token \in Nat /\ mailed \subseteq 0..token /\ told \subseteq mailed
  BY DEF Inv, TypeOK, Tokens
<1>2. mailed' \subseteq 0..token' /\ told' \subseteq mailed'
  BY <1>1 DEF UpdateFacts, RowRest
<1>3. LinksMailed' BY DEF Inv, LinksMailed, RowRest
<1>4. ASSUME NEW r \in Links, link[r] # Idle, link[r].at = "answer",
             link[r].status = 200, link[r].token = token'
      PROVE pref' # "on"
  <2>1. link[r].token \in 0..token BY <1>1, <1>4 DEF Inv, LinksMailed
  <2>2. token' = token BY <1>1, <1>4, <2>1 DEF UpdateFacts
  <2> QED BY <1>1, <1>4, <2>2 DEF Inv, ProcessedHolds, UpdateFacts
<1>5. ProcessedHolds' BY <1>4 DEF ProcessedHolds, RowRest
<1>6. StopHolds' BY <1>1 DEF Inv, StopHolds, UpdateFacts, RowRest
<1>7. HandledHolds' BY DEF Inv, HandledHolds, UpdateFacts, RowRest
<1> QED BY <1>2, <1>3, <1>5, <1>6, <1>7

-----------------------------------------------------------------------------

LEMMA InitInv == Init => Inv
<1> SUFFICES ASSUME Init PROVE Inv OBVIOUS
<1>1. tab \in [Tabs -> [shown : Prefs, set : {Idle} \cup Sets, read : {Idle} \cup Reads]]
  BY DEF Init, Prefs
<1>2. TypeOK
  <2>1. pref \in Prefs /\ token \in Tokens /\ mailed \subseteq 0..token /\ told \subseteq mailed
    BY DEF Init, Tokens, Prefs
  <2>2. flight \in BOOLEAN BY DEF Init
  <2>3. link \in [Links -> {Idle} \cup Requests] BY DEF Init
  <2>4. event \in [Events -> {"none", "pending", "door", "handled", "acked"}]
        /\ erased \subseteq Events /\ recorded \subseteq Events
        /\ strays \subseteq BOOLEAN
    BY DEF Init
  <2> QED BY <1>1, <2>1, <2>2, <2>3, <2>4, Zenon DEF TypeOK
<1> QED
  BY <1>2 DEF Init, Inv, LinksMailed, ProcessedHolds, StopHolds, HandledHolds

\* The row changes or stays; nothing else that the invariant speaks of does,
\* except what tabs show and what is on its way.
LEMMA ToggleSteps ==
    ASSUME Inv, UpdateFacts, UNCHANGED RowRest, flight' = flight,
           tab' \in [Tabs -> [shown : Prefs, set : {Idle} \cup Sets, read : {Idle} \cup Reads]],
           strays' \subseteq BOOLEAN
    PROVE Inv'
<1>1. TypeOK'
  BY RowKeeps DEF Inv, TypeOK, UpdateFacts, RowRest
<1> QED BY <1>1, RowKeeps DEF Inv

\* The row as it is.
LEMMA RowStays ==
    ASSUME TypeOK, UNCHANGED <<pref, token>>
    PROVE UpdateFacts
BY DEF TypeOK, UpdateFacts

LEMMA TabSteps ==
    ASSUME Inv, NEW t \in Tabs, Toggle(t)
    PROVE Inv'
<1> DEFINE TabOK == [shown : Prefs, set : {Idle} \cup Sets, read : {Idle} \cup Reads]
<1>1. tab \in [Tabs -> TabOK] /\ tab[t] \in TabOK /\ pref \in Prefs /\ strays \subseteq BOOLEAN
  BY DEF Inv, TypeOK
<1>2. CASE ChangePref(t)
  <2>1. tab[t].set.stage = "sent" BY <1>2 DEF ChangePref
  <2>2. tab[t].set \in [stage : {"sent"}, on : BOOLEAN] BY <1>1, <2>1 DEF Sets, Idle
  <2>3. UpdateFacts
    BY <1>2, <2>2, UpdateIsSafe, RowStays DEF ChangePref, Inv
  <2>4. tab' \in [Tabs -> TabOK]
    BY <1>1, <1>2, <2>3 DEF ChangePref, UpdateFacts, Sets
  <2> QED
    BY <1>1, <1>2, <2>3, <2>4, ToggleSteps DEF ChangePref, RowRest, memberVars, linkVars, eventVars
<1>3. CASE SetPref(t) \/ SetPrefAnswered(t) \/ SetPrefFailed(t)
           \/ ReadPref(t) \/ Read(t) \/ ReadPrefAnswered(t)
  <2>1. UpdateFacts
    BY <1>3, RowStays DEF Inv, SetPref, SetPrefAnswered, SetPrefFailed, ReadPref, Read,
                          ReadPrefAnswered
  <2>2. tab' \in [Tabs -> TabOK] /\ strays' \subseteq BOOLEAN
    <3>1. CASE SetPref(t) BY <1>1, <3>1 DEF SetPref, Sets
    <3>2. CASE SetPrefAnswered(t)
      <4>1. tab[t].set.got \in Prefs BY <1>1, <3>2 DEF SetPrefAnswered, Sets, Idle
      <4> QED BY <1>1, <3>2, <4>1 DEF SetPrefAnswered
    <3>3. CASE SetPrefFailed(t)
      <4>1. tab[t].set.stage = "sent" => tab[t].set.on \in BOOLEAN BY <1>1 DEF Sets, Idle
      <4> QED BY <1>1, <3>3, <4>1 DEF SetPrefFailed
    <3>4. CASE ReadPref(t) BY <1>1, <3>4 DEF ReadPref, Reads
    <3>5. CASE Read(t) BY <1>1, <3>5 DEF Read, Reads
    <3>6. CASE ReadPrefAnswered(t)
      <4>1. tab[t].read.stage = "done" => tab[t].read.got \in Prefs BY <1>1 DEF Reads, Idle
      <4> QED BY <1>1, <3>6, <4>1 DEF ReadPrefAnswered
    <3> QED BY <1>3, <3>1, <3>2, <3>3, <3>4, <3>5, <3>6
  <2> QED
    BY <1>3, <2>1, <2>2, ToggleSteps
    DEF SetPref, SetPrefAnswered, SetPrefFailed, ReadPref, Read, ReadPrefAnswered,
        RowRest, memberVars, linkVars, eventVars
<1> QED BY <1>2, <1>3 DEF Toggle

LEMMA LateSteps ==
    ASSUME Inv, LateChange
    PROVE Inv'
<1>1. PICK on \in strays :
        /\ strays' = strays \ {on}
        /\ Update(on) \/ UNCHANGED <<pref, token>>
        /\ UNCHANGED <<memberVars, tab, linkVars, eventVars>>
  BY DEF LateChange
<1>2. on \in BOOLEAN BY DEF Inv, TypeOK
<1>3. UpdateFacts BY <1>1, <1>2, UpdateIsSafe, RowStays DEF Inv
<1> QED
  BY <1>1, <1>3, ToggleSteps DEF Inv, TypeOK, RowRest, memberVars, linkVars, eventVars

\* An email is made or settled: a token in more hands, none of them told.
LEMMA MailSteps ==
    ASSUME Inv, Mail \/ Settle
    PROVE Inv'
<1>1. token \in Nat /\ token' = token /\ pref' = pref /\ mailed \subseteq mailed'
  BY DEF Inv, TypeOK, Tokens, Mail, Settle, memberVars
<1>2. TypeOK'
  <2>0. flight' \in BOOLEAN BY DEF Mail, Settle
  <2>1. mailed' \subseteq 0..token' /\ told' \subseteq mailed'
    <3>1. mailed \subseteq 0..token /\ told \subseteq mailed BY DEF Inv, TypeOK
    <3>2. mailed' \subseteq mailed \cup {token} /\ told' = told
      BY DEF Mail, Settle, linkVars
    <3> QED BY <1>1, <3>1, <3>2
  <2>2. UNCHANGED <<pref, token, tab, strays, link, event, erased, recorded>>
    BY DEF Mail, Settle, tabVars, linkVars, eventVars
  <2>3. pref' \in Prefs /\ token' \in Tokens' BY <2>2 DEF Inv, TypeOK, Tokens
  <2>4. (tab \in [Tabs -> [shown : Prefs, set : {Idle} \cup Sets, read : {Idle} \cup Reads]])'
    BY <2>2 DEF Inv, TypeOK
  <2>5. (link \in [Links -> {Idle} \cup Requests])' BY <2>2 DEF Inv, TypeOK
  <2>6. (strays \subseteq BOOLEAN)' BY <2>2 DEF Inv, TypeOK
  <2>7. (event \in [Events -> {"none", "pending", "door", "handled", "acked"}]
         /\ erased \subseteq Events /\ recorded \subseteq Events)'
    BY <2>2 DEF Inv, TypeOK
  <2> QED BY <2>0, <2>1, <2>3, <2>4, <2>5, <2>6, <2>7, Zenon DEF TypeOK
<1>3. LinksMailed' /\ ProcessedHolds' /\ StopHolds' /\ HandledHolds'
  BY <1>1 DEF Inv, Mail, Settle, LinksMailed, ProcessedHolds, StopHolds, HandledHolds,
              memberVars, linkVars, eventVars
<1> QED BY <1>2, <1>3 DEF Inv

-----------------------------------------------------------------------------
(* The link in an email.                                                    *)

\* A step of a link that moves it to next: what is processed holds already, and
\* only the holder of an email is told.
LinkTo(r, next) ==
    /\ next \in {Idle} \cup Requests /\ link' = [link EXCEPT ![r] = next]
    /\ UNCHANGED <<token, mailed, flight, tab, strays, event, erased, recorded>>
    /\ UpdateFacts
    /\ told \subseteq told' /\ told' \subseteq mailed
    /\ token \in told' => pref' # "on" \/ (token \in told /\ pref' = pref)
    /\ next # Idle => next.token \in mailed \/ (next.at = "worker" /\ next.token = Malformed)
    /\ next # Idle /\ next.at = "answer" /\ next.status = 200 =>
         (next.token = token => pref' # "on")

LEMMA LinkMoves ==
    ASSUME Inv, NEW r \in Links, NEW next, LinkTo(r, next)
    PROVE Inv'
<1> USE DEF LinkTo
<1>1. link' \in [Links -> {Idle} \cup Requests] BY DEF Inv, TypeOK
<1>2. next # Idle => next.at \in {"worker", "function", "database", "answer"}
  BY DEF Requests
<1>3. TypeOK'
  <2>1. pref' \in Prefs /\ token' \in Tokens' BY DEF UpdateFacts, Tokens
  <2>2. mailed' \subseteq 0..token' /\ told' \subseteq mailed' BY DEF Inv, TypeOK
  <2>3. flight' \in BOOLEAN BY DEF Inv, TypeOK
  <2>4. (tab \in [Tabs -> [shown : Prefs, set : {Idle} \cup Sets, read : {Idle} \cup Reads]])'
    BY DEF Inv, TypeOK
  <2>5. (strays \subseteq BOOLEAN)' BY DEF Inv, TypeOK
  <2>6. (event \in [Events -> {"none", "pending", "door", "handled", "acked"}]
         /\ erased \subseteq Events /\ recorded \subseteq Events)' BY DEF Inv, TypeOK
  <2>7. (link \in [Links -> {Idle} \cup Requests])' BY <1>1
  <2> QED BY <2>1, <2>2, <2>3, <2>4, <2>5, <2>6, <2>7, Zenon DEF TypeOK
<1>4. LinksMailed' BY <1>2 DEF Inv, TypeOK, LinksMailed
<1>5. ASSUME NEW s \in Links, link'[s] # Idle, link'[s].at = "answer",
             link'[s].status = 200, link'[s].token = token
      PROVE pref' # "on"
  <2>1. CASE s = r BY <1>5, <2>1 DEF Inv, TypeOK
  <2>2. CASE s # r
    <3>1. link'[s] = link[s] BY <2>2 DEF Inv, TypeOK
    <3>2. pref # "on" BY <1>5, <3>1 DEF Inv, ProcessedHolds
    <3> QED BY <3>2 DEF Inv, TypeOK, Tokens, UpdateFacts
  <2> QED BY <2>1, <2>2
<1>6. ProcessedHolds' BY <1>5 DEF ProcessedHolds
<1>7. StopHolds'
  BY DEF Inv, StopHolds
<1>8. HandledHolds' BY DEF Inv, HandledHolds, UpdateFacts
<1> QED BY <1>3, <1>4, <1>6, <1>7, <1>8 DEF Inv

\* What the invariant says of a link under way.
LEMMA LinkFacts ==
    ASSUME Inv, NEW r \in Links, link[r] # Idle
    PROVE /\ link[r] \in Requests
          /\ link[r].token \in mailed \/ (link[r].at = "worker" /\ link[r].token = Malformed)
          /\ mailed \subseteq Tokens /\ Malformed \notin mailed
<1>0. link \in [Links -> {Idle} \cup Requests] BY Zenon DEF Inv, TypeOK
<1>1. link[r] \in {Idle} \cup Requests BY <1>0
<1>2. mailed \subseteq 0..token /\ token \in 0..MaxToken BY DEF Inv, TypeOK, Tokens
<1>3. mailed \subseteq Tokens /\ mailed \subseteq Nat BY <1>2 DEF Tokens
<1>4. link[r].token \in mailed \/ (link[r].at = "worker" /\ link[r].token = Malformed)
  BY DEF Inv, LinksMailed
<1>5. Malformed \notin mailed BY <1>3, Zenon DEF EmailPreferenceAssumption
<1> QED BY <1>1, <1>3, <1>4, <1>5

LEMMA LinkSteps ==
    ASSUME Inv, NEW r \in Links,
           Submit(r) \/ Forward(r) \/ Check(r) \/ Process(r) \/ AnswerLink(r)
    PROVE Inv'
<1> USE DEF memberVars, tabVars, eventVars
<1>1. CASE Submit(r)
  <2>1. PICK t \in mailed \cup {Malformed} : link' = [link EXCEPT ![r] = [at |-> "worker", token |-> t]]
    BY <1>1 DEF Submit, Goes
  <2>2. mailed \subseteq Tokens BY DEF Inv, TypeOK, Tokens
  <2>3. [at |-> "worker", token |-> t] \in Requests BY <2>1, <2>2 DEF Requests
  <2>4. UpdateFacts BY <1>1, RowStays DEF Submit, Inv
  <2>5. LinkTo(r, [at |-> "worker", token |-> t])
    BY <1>1, <2>1, <2>3, <2>4 DEF LinkTo, Submit, Inv, TypeOK
  <2> QED BY <2>5, LinkMoves
<1>2. CASE Forward(r)
  <2>1. UpdateFacts BY <1>2, RowStays DEF Forward, Inv
  <2>2. CASE Goes(r, Idle)
    <3>1. LinkTo(r, Idle) BY <1>2, <2>1, <2>2 DEF LinkTo, Forward, Goes, Inv, TypeOK
    <3> QED BY <3>1, LinkMoves
  <2>3. CASE link[r].token # Malformed /\ Goes(r, [link[r] EXCEPT !.at = "function"])
    <3> DEFINE next == [link[r] EXCEPT !.at = "function"]
    <3>1. link[r] # Idle /\ link[r].at = "worker" BY <1>2 DEF Forward
    <3>2. link[r] \in [at : {"worker", "function", "database"}, token : Tokens \cup {Malformed}]
      BY <3>1, LinkFacts DEF Requests
    <3>3. next \in Requests /\ next.at = "function" /\ next.token = link[r].token
      BY <3>2 DEF Requests
    <3>4. next.token \in mailed BY <2>3, <3>1, <3>3, LinkFacts
    <3> HIDE DEF next
    <3>5. link' = [link EXCEPT ![r] = next] BY <2>3 DEF Goes, next
    <3>6. LinkTo(r, next) BY <1>2, <2>1, <3>3, <3>4, <3>5 DEF LinkTo, Forward, Inv, TypeOK
    <3> QED BY <3>6, LinkMoves
  <2> QED BY <1>2, <2>2, <2>3 DEF Forward
<1>3. CASE Check(r)
  <2>1. UpdateFacts BY <1>3, RowStays DEF Check, Inv
  <2>2. link[r] # Idle /\ link[r].at = "function" BY <1>3 DEF Check
  <2>3. link[r].token \in mailed /\ link[r].token \in Tokens BY <2>2, LinkFacts
  <2>4. CASE Goes(r, [link[r] EXCEPT !.at = "database"])
    <3> DEFINE next == [link[r] EXCEPT !.at = "database"]
    <3>1. link[r] \in [at : {"worker", "function", "database"}, token : Tokens \cup {Malformed}]
      BY <2>2, LinkFacts DEF Requests
    <3>2. next \in Requests /\ next.at = "database" /\ next.token = link[r].token
      BY <3>1 DEF Requests
    <3> HIDE DEF next
    <3>3. link' = [link EXCEPT ![r] = next] BY <2>4 DEF Goes, next
    <3>4. LinkTo(r, next) BY <1>3, <2>1, <2>3, <3>2, <3>3 DEF LinkTo, Check, Inv, TypeOK
    <3> QED BY <3>4, LinkMoves
  <2>5. ASSUME NEW status \in {401, 503}, Answers(r, status) PROVE Inv'
    <3> DEFINE next == [at |-> "answer", token |-> link[r].token, status |-> status]
    <3>1. /\ next \in {Idle} \cup Requests
          /\ next # Idle => next.token \in mailed \/ (next.at = "worker" /\ next.token = Malformed)
          /\ next # Idle /\ next.at = "answer" /\ next.status = 200 =>
               (next.token = token => pref' # "on")
      BY <2>3 DEF Requests
    <3>2. link' = [link EXCEPT ![r] = next] BY <2>5 DEF Answers, Goes
    <3> HIDE DEF next
    <3>3. LinkTo(r, next) BY <1>3, <2>1, <3>1, <3>2 DEF LinkTo, Check, Inv, TypeOK
    <3> QED BY <3>3, LinkMoves
  <2> QED BY <1>3, <2>4, <2>5 DEF Check
<1>4. CASE Process(r)
  <2>1. link[r] # Idle /\ link[r].at = "database" BY <1>4 DEF Process
  <2>2. link[r].token \in mailed /\ link[r].token \in Tokens BY <2>1, LinkFacts
  <2>3. PICK status \in {200, 502} :
          /\ Answers(r, status)
          /\ UnsubscribeByToken(link[r].token) \/ (status = 502 /\ pref' = pref)
    BY <1>4 DEF Process
  <2> DEFINE next == [at |-> "answer", token |-> link[r].token, status |-> status]
  <2>4. next \in Requests /\ next.token = link[r].token /\ next.status = status
    BY <2>2, <2>3 DEF Requests
  <2>5. link' = [link EXCEPT ![r] = next] BY <2>3 DEF Answers, Goes
  <2> HIDE DEF next
  <2>6. UpdateFacts /\ (status = 200 => (link[r].token = token => pref' # "on"))
    BY <1>4, <2>3, StopIsSafe, RowStays DEF Process, Inv
  <2>7. token \in told => pref' # "on" BY <1>4, <2>3 DEF Inv, TypeOK, StopHolds, UnsubscribeByToken
  <2>8. UNCHANGED <<token, mailed, flight, tab, strays, told, event, erased, recorded>> BY <1>4 DEF Process
  <2>9. told \subseteq told' /\ told' \subseteq mailed BY <2>8 DEF Inv, TypeOK
  <2>10. /\ next \in {Idle} \cup Requests
         /\ next # Idle => next.token \in mailed \/ (next.at = "worker" /\ next.token = Malformed)
         /\ next # Idle /\ next.at = "answer" /\ next.status = 200 =>
               (next.token = token => pref' # "on")
    BY <2>2, <2>4, <2>6
  <2>11. LinkTo(r, next) BY <2>5, <2>6, <2>7, <2>8, <2>9, <2>10 DEF LinkTo
  <2> QED BY <2>11, LinkMoves
<1>5. CASE AnswerLink(r)
  <2>1. UpdateFacts BY <1>5, RowStays DEF AnswerLink, Inv
  <2>2. link[r] # Idle /\ link[r].at = "answer" BY <1>5 DEF AnswerLink
  <2>3. link[r].token \in mailed BY <2>2, LinkFacts
  <2>4. link' = [link EXCEPT ![r] = Idle] BY <1>5 DEF AnswerLink, Goes
  <2>5. told \subseteq told' /\ told' \subseteq told \cup {link[r].token}
        /\ (link[r].status # 200 => told' = told)
    BY <1>5 DEF AnswerLink, Success
  <2>6. token \in told' => pref' # "on"
    <3>1. CASE token \in told BY <1>5, <3>1 DEF Inv, StopHolds, AnswerLink
    <3>2. CASE token \notin told BY <1>5, <2>2, <2>5, <3>2 DEF Inv, ProcessedHolds, AnswerLink
    <3> QED BY <3>1, <3>2
  <2>7. told' \subseteq mailed BY <2>3, <2>5 DEF Inv, TypeOK
  <2>8. LinkTo(r, Idle) BY <1>5, <2>1, <2>4, <2>5, <2>6, <2>7 DEF LinkTo, AnswerLink
  <2> QED BY <2>8, LinkMoves
<1> QED BY <1>1, <1>2, <1>3, <1>4, <1>5

-----------------------------------------------------------------------------
(* The provider's events.                                                   *)

\* What a step may do to an event and its records.
EventTo(e, next) ==
    /\ next \in {"none", "pending", "door", "handled", "acked"}
    /\ event' = [event EXCEPT ![e] = next]
    /\ erased \subseteq erased' /\ erased' \subseteq Events
    /\ recorded' \in {recorded, recorded \cup {e}}
    /\ next \in {"handled", "acked"} /\ e \in Supported => e \in recorded' \cup erased'
    /\ e \in (recorded' \ recorded) \cap Disabling => pref' = "suppressed"

LEMMA EventMoves ==
    ASSUME Inv, NEW e \in Events, UNCHANGED <<token, memberVars, tabVars, linkVars>>,
           NEW next, EventTo(e, next), UpdateFacts, pref' = "on" => pref = "on"
    PROVE Inv'
<1> USE DEF EventTo
<1> USE DEF memberVars, tabVars, linkVars
<1>1. event' \in [Events -> {"none", "pending", "door", "handled", "acked"}] BY DEF Inv, TypeOK
<1>2. TypeOK'
  <2>1. pref' \in Prefs /\ token' \in Tokens' BY DEF UpdateFacts, Tokens
  <2>2. mailed' \subseteq 0..token' /\ told' \subseteq mailed' BY DEF Inv, TypeOK
  <2>3. flight' \in BOOLEAN BY DEF Inv, TypeOK
  <2>4. (tab \in [Tabs -> [shown : Prefs, set : {Idle} \cup Sets, read : {Idle} \cup Reads]])'
    BY DEF Inv, TypeOK
  <2>5. (strays \subseteq BOOLEAN)' BY DEF Inv, TypeOK
  <2>6. (event \in [Events -> {"none", "pending", "door", "handled", "acked"}]
         /\ erased \subseteq Events /\ recorded \subseteq Events)' BY <1>1 DEF Inv, TypeOK
  <2>7. (link \in [Links -> {Idle} \cup Requests])' BY DEF Inv, TypeOK
  <2> QED BY <2>1, <2>2, <2>3, <2>4, <2>5, <2>6, <2>7, Zenon DEF TypeOK
<1>3. LinksMailed' /\ ProcessedHolds' /\ StopHolds'
  BY DEF Inv, LinksMailed, ProcessedHolds, StopHolds
<1>4. ASSUME NEW d \in Events \cap Supported
      PROVE /\ event'[d] \in {"handled", "acked"} => d \in recorded' \cup erased'
            /\ d \in recorded' \cap Disabling => pref' = "suppressed"
  <2>1. CASE d = e BY <2>1 DEF Inv, TypeOK, HandledHolds, UpdateFacts
  <2>2. CASE d # e
    <3>1. event'[d] = event[d] /\ (d \in recorded' => d \in recorded)
      BY <2>2 DEF Inv, TypeOK
    <3> QED BY <3>1 DEF Inv, HandledHolds, UpdateFacts
  <2> QED BY <2>1, <2>2
<1>5. HandledHolds' BY <1>4 DEF HandledHolds
<1> QED BY <1>2, <1>3, <1>5 DEF Inv

LEMMA EventSteps ==
    ASSUME Inv, NEW e \in Events,
           Occur(e) \/ Post(e) \/ Reject(e) \/ Record(e) \/ Acknowledge(e) \/ Erase(e)
    PROVE Inv'
<1>1. /\ event \in [Events -> {"none", "pending", "door", "handled", "acked"}]
      /\ erased \subseteq Events /\ recorded \subseteq Events
  BY DEF Inv, TypeOK
<1>2. ASSUME NEW next \in {"pending", "door"}, Occur(e) \/ Post(e) \/ Reject(e),
             event' = [event EXCEPT ![e] = next]
      PROVE Inv'
  <2>1. UpdateFacts /\ pref' = pref /\ recorded' = recorded /\ erased' = erased
    BY <1>2, RowStays DEF Inv, Occur, Post, Reject
  <2>2. EventTo(e, next) BY <1>1, <1>2, <2>1 DEF EventTo
  <2> QED BY <1>2, <2>1, <2>2, EventMoves DEF Occur, Post, Reject
<1>3. CASE Record(e)
  <2>1. UpdateFacts /\ (pref' = "on" => pref = "on")
        /\ (e \in (recorded' \ recorded) \cap Disabling => pref' = "suppressed")
    BY <1>3 DEF Inv, TypeOK, Prefs, Record, UpdateFacts
  <2>2. EventTo(e, "handled") BY <1>1, <1>3, <2>1 DEF EventTo, Record
  <2> QED BY <1>3, <2>1, <2>2, EventMoves DEF Record
<1>4. CASE Acknowledge(e)
  <2>1. UpdateFacts /\ pref' = pref /\ recorded' = recorded /\ erased' = erased
    BY <1>4, RowStays DEF Inv, Acknowledge
  <2>2. e \in Supported => event[e] = "handled" BY <1>4 DEF Acknowledge
  <2>3. e \in Supported => e \in recorded' \cup erased'
    BY <2>1, <2>2 DEF Inv, HandledHolds
  <2>4. EventTo(e, "acked") BY <1>1, <1>4, <2>1, <2>3 DEF EventTo, Acknowledge
  <2> QED BY <1>4, <2>1, <2>4, EventMoves DEF Acknowledge
<1>5. CASE Erase(e)
  <2>1. UpdateFacts /\ pref' = pref /\ recorded' = recorded /\ erased' = erased \cup {e}
        /\ event' = event
    BY <1>5, RowStays DEF Inv, Erase
  <2>2. EventTo(e, event[e]) BY <1>1, <2>1 DEF EventTo
  <2> QED BY <1>5, <2>1, <2>2, EventMoves DEF Erase
<1> QED BY <1>2, <1>3, <1>4, <1>5 DEF Occur, Post, Reject

-----------------------------------------------------------------------------

LEMMA NextInv == Inv /\ [Next]_vars => Inv'
<1> SUFFICES ASSUME Inv, [Next]_vars PROVE Inv' OBVIOUS
<1>1. CASE Next
  BY <1>1, MailSteps, LateSteps, TabSteps, LinkSteps, EventSteps DEF Next
<1>2. CASE UNCHANGED vars
  <2>1. UpdateFacts BY <1>2, RowStays DEF Inv, vars
  <2> QED BY <1>2, <2>1, ToggleSteps DEF Inv, TypeOK, vars, RowRest
<1> QED BY <1>1, <1>2

LEMMA InvHolds == Spec => []Inv
BY InitInv, NextInv, PTL DEF Spec

\* Tables, tabs and requests under way keep their shape; nobody holds a token
\* that is yet to come.
THEOREM TypeCorrect == Spec => []TypeOK
<1>1. Inv => TypeOK BY DEF Inv
<1> QED BY <1>1, InvHolds, PTL

\* Whoever was told that emails are stopped gets none under that link, whatever
\* toggles, late updates and other links do (the rotation of the token on
\* re-enabling).
THEOREM StoppedStays == Spec => []StopHolds
<1>1. Inv => StopHolds BY DEF Inv
<1> QED BY <1>1, InvHolds, PTL

\* The provider stops sending an event once it is on record or its message is
\* gone, and a bounce or complaint on record keeps email off whatever toggles,
\* late updates, links, repeated webhooks and the cleanup do.
THEOREM FeedbackIsKept == Spec => []FeedbackStands
<1>1. Inv => FeedbackStands BY DEF Inv, HandledHolds, FeedbackStands
<1> QED BY <1>1, InvHolds, PTL

=============================================================================
