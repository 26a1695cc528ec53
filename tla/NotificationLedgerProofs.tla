---------------------- MODULE NotificationLedgerProofs ----------------------
(***************************************************************************)
(* What NotificationLedger promises, for any members, slots, rules and     *)
(* bounds.  The inductive invariant says why a slot cannot be queued twice *)
(* although the item that remembers it is erased in the end: by then every *)
(* request that could name the slot has landed or been given up.           *)
(***************************************************************************)
EXTENDS NotificationLedger, TLAPS

ClockInv ==
    /\ now \in Nat \ {0}
    /\ pc \in {"idle", "scraped", "post"}
    /\ runDay \in Nat
    /\ pc # "idle" => runDay # 0 /\ runDay <= now /\ now <= runDay + Lateness
    /\ offered \in [Slots -> Nat]
    /\ \A s \in Slots : offered[s] <= now

\* A slot that a scrape of this day saw in its window.
Timely(s, day) == day <= DateOf[s] /\ DateOf[s] < day + Horizon /\ day <= offered[s]

\* A rule asks for a slot still, or an edit has taken it out since this day.
AskedSince(r, s, day) == s \in criteria[r] \/ day <= dropped[r][s]

EditInv ==
    /\ criteria \in [Rules -> SUBSET Slots]
    /\ dropped \in [Rules -> [Slots -> Nat]]

Good(c, day) ==
    /\ Timely(c.slot, day)
    /\ \A r \in c.rules : RuleOwner[r] = c.user /\ AskedSince(r, c.slot, day)

RunInv ==
    /\ site \subseteq Slots /\ fresh \subseteq Slots
    /\ candidates \subseteq Candidates
    /\ pc = "scraped" => \A s \in fresh : Timely(s, runDay)
    /\ pc = "post" => \A c \in candidates : Good(c, runDay)

LateInv ==
    \A q \in late :
        /\ q.batch \subseteq Candidates
        /\ \E day \in Nat \ {0} :
              /\ q.by = day + Lateness /\ day <= now /\ now <= q.by
              /\ \A c \in q.batch : Good(c, day)

QueueTypes ==
    /\ account \in [Users -> {"active", "inactive", "deleted"}]
    /\ items \subseteq Items
    /\ messages \subseteq Messages
    /\ made \in [Users -> Nat]
    /\ notified \in [Users -> [Slots -> Nat]]

\* Nothing can be queued for this member and slot any more.
Over(u, s) == account[u] = "deleted" \/ DateOf[s] + Lateness < now

Remembered ==
    \A u \in Users, s \in Slots : notified[u][s] = 1 => Listed(u, s) \/ Over(u, s)

ItemsAhead == \A i \in items : DateOf[i.slot] < i.at + Horizon

Numbered ==
    /\ \A m \in messages : m.n <= made[m.user]
    /\ \A m, k \in messages : m.user = k.user /\ m.n = k.n => m = k

ScheduleInv == ClockInv /\ EditInv /\ RunInv /\ LateInv

QueueInv ==
    /\ QueueTypes /\ SlotNotifiedOnce /\ Remembered /\ ItemsAhead
    /\ Numbered /\ OpenMessageHasItems

LedgerInv == ScheduleInv /\ QueueInv

-----------------------------------------------------------------------------
(* The enqueue transaction, whichever request it serves.                    *)

\* What a batch of good candidates does: the queue's invariants hold after it.
LEMMA EnqueueKeeps ==
    ASSUME LedgerInv, NEW B, B \subseteq Candidates,
           NEW day \in Nat \ {0}, day <= now, now <= day + Lateness,
           \A c \in B : Good(c, day),
           EnqueueRows(B), UNCHANGED <<now, account, offered>>
    PROVE  QueueInv'
<1> DEFINE new == Insertable(B)
           told == {c.user : c \in new}
           Row(c) == [user |-> c.user, slot |-> c.slot, rules |-> Current(c),
                      at |-> now, msg |-> made[c.user] + 1]
           Mail(u) == [user |-> u, n |-> made[u] + 1, at |-> now, touched |-> now,
                       open |-> TRUE]
<1>0. /\ now \in Nat \ {0} /\ Horizon \in Nat \ {0} /\ Lateness \in Nat
      /\ DateOf \in [Slots -> Nat] /\ offered \in [Slots -> Nat]
  BY LedgerAssumption DEF LedgerInv, ScheduleInv, ClockInv
<1>1. /\ new \subseteq B
      /\ \A c \in new : /\ c.user \in Users /\ c.slot \in Slots
                        /\ c.rules \in SUBSET Rules
                        /\ account[c.user] = "active" /\ ~Listed(c.user, c.slot)
                        /\ Good(c, day)
  BY DEF Insertable, Candidates
<1>2. /\ items' = items \cup {Row(c) : c \in new}
      /\ messages' = messages \cup {Mail(u) : u \in told}
      /\ made' = [u \in Users |-> IF u \in told THEN made[u] + 1 ELSE made[u]]
      /\ notified' = [u \in Users |-> [s \in Slots |->
            IF \E c \in new : c.user = u /\ c.slot = s
            THEN notified[u][s] + 1 ELSE notified[u][s]]]
  BY DEF EnqueueRows
<1> HIDE DEF new
<1>3. told \subseteq Users
  BY <1>1
<1>4. QueueTypes
  BY DEF LedgerInv, QueueInv
<1>5. \A c \in new : Row(c) \in Items
  <2> SUFFICES ASSUME NEW c \in new PROVE Row(c) \in Items
    OBVIOUS
  <2>1. Current(c) \in SUBSET Rules
    BY <1>1 DEF Current
  <2>2. made[c.user] + 1 \in Nat
    BY <1>1, <1>4 DEF QueueTypes
  <2> QED
    BY <1>0, <1>1, <2>1, <2>2 DEF Items
<1>6. \A u \in told : Mail(u) \in Messages
  <2> SUFFICES ASSUME NEW u \in told PROVE Mail(u) \in Messages
    OBVIOUS
  <2>1. u \in Users
    BY <1>3
  <2>2. made[u] + 1 \in Nat \ {0}
    BY <1>4, <2>1 DEF QueueTypes
  <2>3. now \in Nat /\ TRUE \in BOOLEAN
    BY <1>0
  <2> HIDE DEF told
  <2> QED
    BY <2>1, <2>2, <2>3 DEF Messages
<1>7. QueueTypes'
  <2>1. items' \subseteq Items
    BY <1>2, <1>4, <1>5 DEF QueueTypes
  <2>2. messages' \subseteq Messages
    BY <1>2, <1>4, <1>6 DEF QueueTypes
  <2>3. made' \in [Users -> Nat]
    BY <1>2, <1>4 DEF QueueTypes
  <2>4. notified' \in [Users -> [Slots -> Nat]]
    BY <1>2, <1>4 DEF QueueTypes
  <2> QED
    BY <1>4, <2>1, <2>2, <2>3, <2>4 DEF QueueTypes
<1>8. SlotNotifiedOnce'
  <2> SUFFICES ASSUME NEW u \in Users, NEW s \in Slots
               PROVE  notified'[u][s] <= 1
    BY DEF SlotNotifiedOnce
  <2>1. notified[u][s] \in Nat /\ notified[u][s] <= 1
    BY <1>4 DEF LedgerInv, QueueInv, QueueTypes, SlotNotifiedOnce
  <2>2. CASE \E c \in new : c.user = u /\ c.slot = s
    <3>1. PICK c \in new : c.user = u /\ c.slot = s
      BY <2>2
    <3>2. ~Listed(u, s) /\ account[u] = "active" /\ Timely(s, day)
      BY <1>1, <3>1 DEF Good
    <3>3. ~Over(u, s)
      BY <1>0, <3>2 DEF Over, Timely
    <3>4. notified[u][s] # 1
      BY <3>2, <3>3 DEF LedgerInv, QueueInv, Remembered
    <3>5. notified'[u][s] = notified[u][s] + 1
      BY <1>2, <2>2
    <3> QED
      BY <2>1, <3>4, <3>5
  <2>3. CASE ~\E c \in new : c.user = u /\ c.slot = s
    <3>1. notified'[u][s] = notified[u][s]
      BY <1>2, <2>3
    <3> QED
      BY <2>1, <3>1
  <2> QED
    BY <2>2, <2>3
<1>9. Remembered'
  <2> SUFFICES ASSUME NEW u \in Users, NEW s \in Slots, notified'[u][s] = 1
               PROVE  Listed(u, s)' \/ Over(u, s)'
    BY DEF Remembered
  <2>1. CASE \E c \in new : c.user = u /\ c.slot = s
    <3>1. PICK c \in new : c.user = u /\ c.slot = s
      BY <2>1
    <3>2. Row(c) \in items' /\ Row(c).user = u /\ Row(c).slot = s
      BY <1>2, <3>1
    <3> QED
      BY <3>2 DEF Listed
  <2>2. CASE ~\E c \in new : c.user = u /\ c.slot = s
    <3>1. notified[u][s] = 1
      BY <1>2, <2>2
    <3>2. Listed(u, s) \/ Over(u, s)
      BY <3>1 DEF LedgerInv, QueueInv, Remembered
    <3>3. CASE Listed(u, s)
      BY <1>2, <3>3 DEF Listed
    <3>4. CASE Over(u, s)
      BY <3>4 DEF Over
    <3> QED
      BY <3>2, <3>3, <3>4
  <2> QED
    BY <2>1, <2>2
<1>10. ItemsAhead'
  <2> SUFFICES ASSUME NEW i \in items' PROVE DateOf[i.slot] < i.at + Horizon
    BY DEF ItemsAhead
  <2>1. CASE i \in items
    BY <2>1 DEF LedgerInv, QueueInv, ItemsAhead
  <2>2. CASE \E c \in new : i = Row(c)
    <3>1. PICK c \in new : i = Row(c)
      BY <2>2
    <3>2. i.slot = c.slot /\ i.at = now /\ c.slot \in Slots
      BY <1>1, <3>1
    <3>3. DateOf[c.slot] < day + Horizon /\ DateOf[c.slot] \in Nat
      BY <1>0, <1>1, <3>2 DEF Good, Timely
    <3> QED
      BY <1>0, <3>2, <3>3
  <2> QED
    BY <1>2, <2>1, <2>2
<1>11. Numbered'
  <2>0. Numbered /\ messages \subseteq Messages /\ made \in [Users -> Nat]
    BY <1>4 DEF LedgerInv, QueueInv, QueueTypes
  <2>1. ASSUME NEW m \in messages'
        PROVE  \/ m \in messages /\ m.user \in Users /\ m.n \in Nat
                  /\ m.n <= made[m.user]
               \/ m.user \in told /\ m = Mail(m.user) /\ m.n = made[m.user] + 1
    <3>1. CASE m \in messages
      BY <2>0, <3>1 DEF Numbered, Messages
    <3>2. CASE \E u \in told : m = Mail(u)
      BY <3>2
    <3> QED
      BY <1>2, <3>1, <3>2
  <2>2. \A m \in messages' : m.n <= made'[m.user]
    <3> SUFFICES ASSUME NEW m \in messages' PROVE m.n <= made'[m.user]
      OBVIOUS
    <3>1. CASE m \in messages /\ m.user \in Users /\ m.n \in Nat
                 /\ m.n <= made[m.user]
      <4>1. made[m.user] \in Nat
        BY <2>0, <3>1
      <4>2. made'[m.user] \in {made[m.user], made[m.user] + 1}
        BY <1>2, <3>1
      <4> QED
        BY <3>1, <4>1, <4>2
    <3>2. CASE m.user \in told /\ m.n = made[m.user] + 1
      <4>1. made'[m.user] = made[m.user] + 1 /\ made[m.user] \in Nat
        BY <1>2, <1>3, <2>0, <3>2
      <4> QED
        BY <3>2, <4>1
    <3> QED
      BY <2>1, <3>1, <3>2
  <2>3. ASSUME NEW m \in messages', NEW k \in messages', m.user = k.user, m.n = k.n
        PROVE  m = k
    <3>1. CASE m \in messages /\ k \in messages
      BY <2>0, <2>3, <3>1 DEF Numbered
    <3>2. CASE m \notin messages /\ k \notin messages
      BY <2>1, <2>3, <3>2
    <3>3. CASE (m \in messages) # (k \in messages)
      <4>1. m.user \in Users /\ made[m.user] \in Nat
        BY <1>3, <2>0, <2>1
      <4>2. m.n <= made[m.user] \/ k.n <= made[m.user]
        BY <2>0, <2>3, <3>3 DEF Numbered
      <4>3. m.n = made[m.user] + 1 \/ k.n = made[m.user] + 1
        BY <2>1, <2>3, <3>3
      <4> QED
        BY <2>3, <4>1, <4>2, <4>3
    <3> QED
      BY <3>1, <3>2, <3>3
  <2> QED
    BY <2>2, <2>3 DEF Numbered
<1>12. OpenMessageHasItems'
  <2> SUFFICES ASSUME NEW m \in messages', m.open
               PROVE  \E i \in items' : i.user = m.user /\ i.msg = m.n
    BY DEF OpenMessageHasItems
  <2>1. CASE m \in messages
    BY <1>2, <2>1 DEF LedgerInv, QueueInv, OpenMessageHasItems
  <2>2. CASE \E u \in told : m = Mail(u)
    <3>1. PICK c \in new : m = Mail(c.user)
      BY <2>2
    <3>2. Row(c) \in items' /\ Row(c).user = m.user /\ Row(c).msg = m.n
      BY <1>2, <3>1
    <3> QED
      BY <3>2
  <2> QED
    BY <1>2, <2>1, <2>2
<1> QED
  BY <1>7, <1>8, <1>9, <1>10, <1>11, <1>12 DEF QueueInv

\* A step that leaves the queue and the members alone, while time may pass.
LEMMA QueueStands ==
    ASSUME LedgerInv, UNCHANGED <<account, queueVars>>, now' \in {now, now + 1}
    PROVE  QueueInv'
<1> USE DEF LedgerInv, QueueInv, queueVars
<1>1. DateOf \in [Slots -> Nat] /\ Lateness \in Nat /\ now \in Nat
  BY LedgerAssumption DEF ScheduleInv, ClockInv
<1>2. \A u \in Users, s \in Slots : Listed(u, s) => Listed(u, s)'
  BY DEF Listed
<1>3. \A u \in Users, s \in Slots : Over(u, s) => Over(u, s)'
  BY <1>1 DEF Over
<1>4. Remembered'
  BY <1>2, <1>3 DEF Remembered
<1> QED
  BY <1>4 DEF QueueTypes, SlotNotifiedOnce, ItemsAhead, Numbered,
              OpenMessageHasItems

\* Requests stay good while nobody is offered anything anew.
LEMMA GoodStays ==
    ASSUME ClockInv, offered' \in [Slots -> Nat],
           \A s \in Slots : offered[s] <= offered'[s],
           UNCHANGED <<criteria, dropped>>,
           NEW c \in Candidates, NEW day \in Nat, Good(c, day)
    PROVE  Good(c, day)'
<1>1. c.slot \in Slots
  BY DEF Candidates
<1>2. offered[c.slot] \in Nat /\ offered'[c.slot] \in Nat
      /\ day <= offered[c.slot] /\ offered[c.slot] <= offered'[c.slot]
  BY <1>1 DEF ClockInv, Good, Timely
<1>3. day <= offered'[c.slot]
  BY <1>2
<1> QED
  BY <1>3 DEF Good, Timely, AskedSince

\* And while rules are edited: what an edit takes out, it takes out today.
LEMMA GoodOutlivesEdits ==
    ASSUME ClockInv, EditInv, NEW r \in Rules, EditRule(r),
           NEW c \in Candidates, NEW day \in Nat, day <= now, Good(c, day)
    PROVE  Good(c, day)'
<1>1. Timely(c.slot, day)'
  BY DEF EditRule, Good, Timely
<1>2. ASSUME NEW q \in c.rules PROVE AskedSince(q, c.slot, day)'
  <2>1. q \in Rules /\ c.slot \in Slots /\ AskedSince(q, c.slot, day)
    BY <1>2 DEF Candidates, Good
  <2>2. CASE UNCHANGED <<criteria, dropped>>
    BY <2>1, <2>2 DEF AskedSince
  <2>3. ASSUME NEW S \in SUBSET Slots, criteria' = [criteria EXCEPT ![r] = S],
               dropped' = [dropped EXCEPT ![r] =
                  [s \in Slots |-> IF s \in S THEN 0
                                   ELSE IF s \in criteria[r] THEN now ELSE @[s]]]
        PROVE  AskedSince(q, c.slot, day)'
    <3>1. CASE q # r
      BY <2>1, <2>3, <3>1 DEF AskedSince, EditInv
    <3>2. CASE q = r
      <4>1. criteria'[q] = S
        BY <2>1, <2>3, <3>2 DEF EditInv
      <4>2. c.slot \notin S => dropped'[q][c.slot] = IF c.slot \in criteria[q] THEN now
                                                     ELSE dropped[q][c.slot]
        BY <2>1, <2>3, <3>2 DEF EditInv
      <4> QED
        BY <2>1, <4>1, <4>2 DEF AskedSince
    <3> QED
      BY <3>1, <3>2
  <2> QED
    BY <2>2, <2>3 DEF EditRule
<1>3. \A q \in c.rules : RuleOwner[q] = c.user
  BY DEF Good
<1> QED
  BY <1>1, <1>2, <1>3 DEF Good

\* The steps of members on their accounts and of deliveries on the messages.
LEMMA DeleteKeeps ==
    ASSUME LedgerInv, NEW u \in Users, Delete(u)
    PROVE  QueueInv'
<1> USE DEF LedgerInv, QueueInv, Delete
<1>1. QueueTypes'
  BY DEF QueueTypes
<1>2. SlotNotifiedOnce' /\ ItemsAhead'
  BY DEF SlotNotifiedOnce, ItemsAhead
<1>3. Remembered'
  <2> SUFFICES ASSUME NEW v \in Users, NEW s \in Slots, notified[v][s] = 1
               PROVE  Listed(v, s)' \/ Over(v, s)'
    BY DEF Remembered
  <2>1. CASE v = u
    BY <2>1 DEF Over, QueueTypes
  <2>2. CASE v # u
    <3>1. Listed(v, s) => Listed(v, s)'
      BY <2>2 DEF Listed
    <3>2. Over(v, s) => Over(v, s)'
      BY <2>2 DEF Over, QueueTypes
    <3> QED
      BY <3>1, <3>2 DEF Remembered
  <2> QED
    BY <2>1, <2>2
<1>4. Numbered'
  BY DEF Numbered
<1>5. OpenMessageHasItems'
  BY DEF OpenMessageHasItems
<1> QED
  BY <1>1, <1>2, <1>3, <1>4, <1>5

LEMMA MemberKeeps ==
    ASSUME LedgerInv, NEW u \in Users, Suspend(u) \/ Resume(u)
    PROVE  QueueInv'
<1> USE DEF LedgerInv, QueueInv, queueVars, Suspend, Resume
<1>1. QueueTypes'
  BY DEF QueueTypes
<1>2. \A v \in Users, s \in Slots : Listed(v, s) => Listed(v, s)'
  BY DEF Listed
<1>3. \A v \in Users, s \in Slots : Over(v, s) => Over(v, s)'
  BY DEF Over, QueueTypes
<1>4. Remembered'
  BY <1>2, <1>3 DEF Remembered
<1> QED
  BY <1>1, <1>4 DEF SlotNotifiedOnce, ItemsAhead, Numbered, OpenMessageHasItems

LEMMA DeliveryKeeps ==
    ASSUME LedgerInv, NEW m \in messages, Settle(m) \/ Feedback(m)
    PROVE  QueueInv'
<1> DEFINE k == [m EXCEPT !.open = FALSE, !.touched = now]
<1> USE DEF LedgerInv, QueueInv, ScheduleInv, ClockInv
<1>1. m \in Messages /\ now \in Nat
  BY DEF QueueTypes
<1>2. k \in Messages /\ k.user = m.user /\ k.n = m.n /\ ~k.open
  BY <1>1 DEF Messages
<1>3. messages' = (messages \ {m}) \cup {k}
  <2>1. CASE Settle(m)
    BY <2>1 DEF Settle
  <2>2. CASE Feedback(m)
    <3>1. m.open = FALSE
      BY <1>1, <2>2 DEF Feedback, Messages
    <3>2. k = [m EXCEPT !.touched = now]
      BY <1>1, <3>1 DEF Messages
    <3> QED
      BY <2>2, <3>2 DEF Feedback
  <2> QED
    BY <2>1, <2>2
<1>4. UNCHANGED <<now, account, items, made, notified>>
  BY DEF Settle, Feedback, memberVars
<1> HIDE DEF k
<1>5. QueueTypes'
  BY <1>2, <1>3, <1>4 DEF QueueTypes
<1>6. SlotNotifiedOnce' /\ ItemsAhead'
  BY <1>4 DEF SlotNotifiedOnce, ItemsAhead
<1>7. Remembered'
  BY <1>4 DEF Remembered, Listed, Over
<1>8. Numbered'
  BY <1>2, <1>3, <1>4 DEF Numbered
<1>9. OpenMessageHasItems'
  BY <1>2, <1>3, <1>4 DEF OpenMessageHasItems
<1> QED
  BY <1>5, <1>6, <1>7, <1>8, <1>9

\* Erasing history: what is forgotten of a slot is over for every request.
LEMMA CleanupKeeps ==
    ASSUME LedgerInv, Cleanup
    PROVE  QueueInv' /\ \A i \in items' : Listed(i.user, i.slot)
<1> USE DEF LedgerInv, QueueInv, ScheduleInv, ClockInv
<1>0. /\ now \in Nat /\ Horizon \in Nat \ {0} /\ Lateness \in Nat
      /\ Retention \in Nat /\ DateOf \in [Slots -> Nat]
      /\ Lateness = 0 \/ Horizon + Lateness <= Retention
      /\ items \subseteq Items /\ messages \subseteq Messages
  BY LedgerAssumption DEF QueueTypes
<1>1. PICK X \in SUBSET Erasable :
        /\ messages' = messages \ X
        /\ \E Y \in SUBSET Forgettable(Unlink(X)) : items' = Unlink(X) \ Y
  BY DEF Cleanup
<1>2. PICK Y \in SUBSET Forgettable(Unlink(X)) : items' = Unlink(X) \ Y
  BY <1>1
<1>3. UNCHANGED <<now, account, made, notified>>
  BY DEF Cleanup, memberVars
<1>4. X \subseteq messages /\ \A m \in X : ~m.open
  BY DEF Erasable
<1> DEFINE Cut(i) == IF \E m \in X : m.user = i.user /\ m.n = i.msg
                     THEN [i EXCEPT !.msg = Unlinked] ELSE i
<1>5. Unlink(X) = {Cut(i) : i \in items}
  BY DEF Unlink
<1>6. \A i \in items : /\ Cut(i) \in Items /\ Cut(i).user = i.user
                        /\ Cut(i).slot = i.slot /\ Cut(i).at = i.at
  BY <1>0 DEF Items, Unlinked
<1>7. \A i \in items' : /\ i \in Items /\ DateOf[i.slot] < i.at + Horizon
                         /\ Listed(i.user, i.slot)
  BY <1>2, <1>5, <1>6 DEF ItemsAhead, Listed
<1>8. QueueTypes'
  BY <1>1, <1>3, <1>7 DEF QueueTypes
<1>9. SlotNotifiedOnce' /\ ItemsAhead'
  BY <1>3, <1>7 DEF SlotNotifiedOnce, ItemsAhead
<1>10. Numbered'
  BY <1>1, <1>3 DEF Numbered
<1>11. Remembered'
  <2> SUFFICES ASSUME NEW u \in Users, NEW s \in Slots, notified[u][s] = 1
               PROVE  Listed(u, s)' \/ Over(u, s)'
    BY <1>3 DEF Remembered
  <2>1. CASE Over(u, s)
    BY <1>3, <2>1 DEF Over
  <2>2. CASE Listed(u, s)
    <3>1. PICK i \in items : i.user = u /\ i.slot = s
      BY <2>2 DEF Listed
    <3>2. CASE Cut(i) \in items'
      BY <1>6, <3>1, <3>2 DEF Listed
    <3>3. CASE Cut(i) \notin items'
      <4>1. Cut(i) \in Forgettable(Unlink(X))
        BY <1>2, <1>5, <3>1, <3>3
      <4>2. i.at + Retention <= now /\ DateOf[s] < now
        BY <1>6, <3>1, <4>1 DEF Forgettable, Old
      <4>3. DateOf[s] < i.at + Horizon /\ i.at \in Nat
        BY <1>0, <3>1 DEF ItemsAhead, Items
      <4>4. DateOf[s] \in Nat
        BY <1>0
      <4>5. DateOf[s] + Lateness < now
        BY <1>0, <4>2, <4>3, <4>4
      <4> QED
        BY <1>3, <4>5 DEF Over
    <3> QED
      BY <3>2, <3>3
  <2> QED
    BY <2>1, <2>2 DEF Remembered
<1>12. OpenMessageHasItems'
  <2> SUFFICES ASSUME NEW m \in messages', m.open
               PROVE  \E i \in items' : i.user = m.user /\ i.msg = m.n
    BY DEF OpenMessageHasItems
  <2>1. m \in messages /\ m \notin X
    BY <1>1
  <2>2. PICK i \in items : i.user = m.user /\ i.msg = m.n
    BY <2>1 DEF OpenMessageHasItems
  <2>3. Cut(i) = i
    BY <1>4, <2>1, <2>2 DEF Numbered
  <2>4. i \notin Forgettable(Unlink(X))
    BY <1>0, <2>1, <2>2 DEF Forgettable, Messages, Unlinked
  <2>5. i \in items'
    BY <1>2, <1>5, <2>3, <2>4
  <2> QED
    BY <2>2, <2>5
<1> QED
  BY <1>7, <1>8, <1>9, <1>10, <1>11, <1>12

\* One step of the workflow, the clock and the requests in flight.
LEMMA ScheduleKeeps ==
    ASSUME LedgerInv, [Next]_vars
    PROVE  ScheduleInv'
<1> USE DEF LedgerInv, ScheduleInv
<1>0. /\ Lateness \in Nat /\ Horizon \in Nat \ {0} /\ DateOf \in [Slots -> Nat]
      /\ RuleOwner \in [Rules -> Users] /\ Restless \subseteq Users
  BY LedgerAssumption
<1> USE DEF history
<1>1. ASSUME UNCHANGED <<now, pc, runDay, fresh, candidates, criteria, history>>,
             site' \subseteq Slots, late' \subseteq late
      PROVE  ScheduleInv'
  BY <1>1 DEF ClockInv, EditInv, RunInv, LateInv, Good, Timely, AskedSince
<1>2. CASE UNCHANGED vars
  BY <1>1, <1>2 DEF vars, memberVars, runVars, RunInv
<1>3. ASSUME NEW s \in Slots, Appear(s) \/ Vanish(s) PROVE ScheduleInv'
  BY <1>1, <1>3 DEF Appear, Vanish, memberVars, runVars, RunInv
<1>4. CASE Member
  <2>1. ASSUME NEW u \in Users, Suspend(u) \/ Resume(u) \/ Delete(u)
        PROVE  ScheduleInv'
    BY <1>1, <2>1 DEF Suspend, Resume, Delete, runVars, RunInv
  <2>2. ASSUME NEW r \in Rules, EditRule(r) PROVE ScheduleInv'
    <3>1. UNCHANGED <<now, pc, runDay, fresh, site, candidates, late, offered>>
      BY <2>2 DEF EditRule, runVars
    <3>2. ClockInv'
      BY <3>1 DEF ClockInv
    <3>3. EditInv'
      <4>1. CASE UNCHANGED <<criteria, dropped>>
        BY <4>1 DEF EditInv
      <4>2. ASSUME NEW S \in SUBSET Slots, criteria' = [criteria EXCEPT ![r] = S],
                   dropped' = [dropped EXCEPT ![r] =
                      [s \in Slots |-> IF s \in S THEN 0
                                       ELSE IF s \in criteria[r] THEN now ELSE @[s]]]
            PROVE  EditInv'
        <5>1. now \in Nat /\ \A s \in Slots : dropped[r][s] \in Nat
          BY DEF ClockInv, EditInv
        <5>2. [s \in Slots |-> IF s \in S THEN 0 ELSE IF s \in criteria[r] THEN now
                               ELSE dropped[r][s]] \in [Slots -> Nat]
          BY <5>1
        <5>3. dropped' \in [Rules -> [Slots -> Nat]]
          BY <4>2, <5>2 DEF EditInv
        <5> QED
          BY <4>2, <5>3 DEF EditInv
      <4> QED
        BY <2>2, <4>1, <4>2 DEF EditRule
    <3>4. \A c \in Candidates, day \in Nat : day <= now /\ Good(c, day) => Good(c, day)'
      BY <2>2, GoodOutlivesEdits
    <3>5. RunInv'
      BY <3>1, <3>4 DEF RunInv, ClockInv, Timely
    <3>6. ASSUME NEW q \in late
          PROVE  /\ q.batch \subseteq Candidates
                 /\ \E day \in Nat \ {0} :
                       /\ q.by = day + Lateness /\ day <= now /\ now <= q.by
                       /\ \A c \in q.batch : Good(c, day)'
      BY <3>4 DEF LateInv
    <3>7. LateInv'
      BY <3>1, <3>6 DEF LateInv
    <3> QED
      BY <3>2, <3>3, <3>5, <3>7
  <2> QED
    BY <1>0, <1>4, <2>1, <2>2 DEF Member
<1>5. CASE Scrape
  <2>1. /\ pc' = "scraped" /\ runDay' = now
        /\ UNCHANGED <<now, site, candidates, late, criteria, dropped>>
        /\ offered' = [s \in Slots |-> IF s \in fresh' THEN now ELSE offered[s]]
    BY <1>5 DEF Scrape, memberVars
  <2>2. PICK answered \in SUBSET Window :
          fresh' = {s \in site : DateOf[s] \in answered}
    BY <1>5 DEF Scrape
  <2>3. fresh' \subseteq Slots
    BY <2>2 DEF RunInv
  <2>4. /\ offered' \in [Slots -> Nat]
        /\ \A s \in Slots : offered[s] <= offered'[s] /\ offered'[s] <= now
    BY <2>1 DEF ClockInv
  <2>5. ClockInv' /\ EditInv'
    BY <1>0, <2>1, <2>4 DEF ClockInv, EditInv
  <2>6. ASSUME NEW s \in fresh' PROVE Timely(s, runDay)'
    <3>1. s \in Slots /\ DateOf[s] \in now .. now + Horizon - 1
      BY <2>2, <2>3 DEF Window
    <3>2. offered'[s] = now
      BY <2>1, <3>1
    <3> QED
      BY <1>0, <2>1, <3>1, <3>2 DEF Timely, ClockInv
  <2>7. RunInv'
    BY <2>1, <2>3, <2>6 DEF RunInv
  <2>8. LateInv'
    <3> SUFFICES ASSUME NEW q \in late
                 PROVE  /\ q.batch \subseteq Candidates
                        /\ \E day \in Nat \ {0} :
                              /\ q.by = day + Lateness /\ day <= now /\ now <= q.by
                              /\ \A c \in q.batch : Good(c, day)'
      BY <2>1 DEF LateInv
    <3>1. q.batch \subseteq Candidates
      BY DEF LateInv
    <3>2. PICK day \in Nat \ {0} :
             /\ q.by = day + Lateness /\ day <= now /\ now <= q.by
             /\ \A c \in q.batch : Good(c, day)
      BY DEF LateInv
    <3>3. \A c \in q.batch : Good(c, day)'
      BY <2>1, <2>4, <3>1, <3>2, GoodStays
    <3> QED
      BY <3>1, <3>2, <3>3
  <2> QED
    BY <2>5, <2>7, <2>8
<1>6. CASE Match
  <2>1. /\ pc = "scraped" /\ pc' = "post"
        /\ UNCHANGED <<now, site, runDay, fresh, late, criteria, offered, dropped>>
        /\ \A c \in candidates' :
              /\ c \in [user : Users, slot : fresh, rules : SUBSET Rules]
              /\ c.rules = MatchedRules(c.user, c.slot)
    BY <1>6 DEF Match, Matchable, memberVars
  <2>2. candidates' \subseteq Candidates
    BY <2>1 DEF Candidates, RunInv
  <2>3. \A c \in candidates' : Good(c, runDay)'
    BY <2>1 DEF Good, Timely, AskedSince, MatchedRules, RunInv
  <2>4. ClockInv' /\ EditInv' /\ LateInv'
    BY <2>1 DEF ClockInv, EditInv, LateInv, Good, Timely, AskedSince
  <2> QED
    BY <2>1, <2>2, <2>3, <2>4 DEF RunInv
<1>7. ASSUME NEW B \in SUBSET candidates, Post(B) PROVE ScheduleInv'
  BY <1>7 DEF Post, memberVars, ClockInv, EditInv, RunInv, LateInv, Good, Timely, AskedSince
<1>8. CASE Complete
  BY <1>8 DEF Complete, Finish, memberVars, ClockInv, EditInv, RunInv, LateInv, Good, Timely,
              AskedSince
<1>9. CASE Abort
  <2>1. /\ pc \in {"scraped", "post"} /\ pc' = "idle" /\ candidates' = {}
        /\ runDay' = 0 /\ fresh' = {} /\ UNCHANGED <<now, site, criteria, offered, dropped>>
    BY <1>9 DEF Abort, Finish, memberVars
  <2>2. ClockInv' /\ EditInv' /\ RunInv'
    BY <2>1 DEF ClockInv, EditInv, RunInv
  <2>3. ASSUME NEW q \in late'
        PROVE  /\ q.batch \subseteq Candidates
               /\ \E day \in Nat \ {0} :
                     /\ q.by = day + Lateness /\ day <= now /\ now <= q.by
                     /\ \A c \in q.batch : Good(c, day)
    <3>1. CASE q \in late
      BY <3>1 DEF LateInv
    <3>2. CASE \E B \in SUBSET candidates :
                 pc = "post" /\ q = [batch |-> B, by |-> runDay + Lateness]
      BY <3>2 DEF RunInv, ClockInv
    <3> QED
      BY <1>9, <3>1, <3>2 DEF Abort
  <2>4. LateInv'
    BY <2>1, <2>3 DEF LateInv, Good, Timely, AskedSince
  <2> QED
    BY <2>2, <2>4
<1>10. ASSUME NEW q \in late, Land(q) PROVE ScheduleInv'
  BY <1>1, <1>10 DEF Land, memberVars, runVars, RunInv
<1>11. ASSUME NEW m \in messages, Settle(m) \/ Feedback(m) PROVE ScheduleInv'
  BY <1>1, <1>11 DEF Settle, Feedback, memberVars, runVars, RunInv
<1>12. CASE Cleanup
  BY <1>1, <1>12 DEF Cleanup, memberVars, runVars, RunInv
<1>13. CASE Tick
  <2>1. /\ now' = now + 1 /\ late' = {q \in late : now < q.by}
        /\ pc # "idle" => now < runDay + Lateness
        /\ UNCHANGED <<site, pc, runDay, fresh, candidates, criteria, offered, dropped>>
    BY <1>13 DEF Tick, memberVars, runVars
  <2>2. ClockInv' /\ EditInv'
    BY <1>0, <2>1 DEF ClockInv, EditInv
  <2>3. RunInv'
    BY <2>1 DEF RunInv, Good, Timely, AskedSince
  <2>4. LateInv'
    <3> SUFFICES ASSUME NEW q \in late, now < q.by
                 PROVE  /\ q.batch \subseteq Candidates
                        /\ \E day \in Nat \ {0} :
                              /\ q.by = day + Lateness
                              /\ day <= now + 1 /\ now + 1 <= q.by
                              /\ \A c \in q.batch : Good(c, day)'
      BY <2>1 DEF LateInv
    <3>1. PICK day \in Nat \ {0} :
             /\ q.by = day + Lateness /\ day <= now /\ now <= q.by
             /\ \A c \in q.batch : Good(c, day)
      BY DEF LateInv
    <3>2. day <= now + 1 /\ now + 1 <= q.by
      BY <1>0, <3>1 DEF ClockInv
    <3>3. \A c \in q.batch : Good(c, day)'
      BY <2>1, <3>1 DEF Good, Timely, AskedSince
    <3> QED
      BY <3>1, <3>2, <3>3 DEF LateInv
  <2> QED
    BY <2>2, <2>3, <2>4
<1> QED
  BY <1>2, <1>3, <1>4, <1>5, <1>6, <1>7, <1>8, <1>9, <1>10, <1>11, <1>12, <1>13
     DEF Next, Run

\* What a request that is posted or lands does: EnqueueKeeps applies to it.
LEMMA RequestIsGood ==
    ASSUME LedgerInv, NEW B,
           \/ B \in SUBSET candidates /\ Post(B)
           \/ \E q \in late : Land(q) /\ B = q.batch
    PROVE  /\ B \subseteq Candidates /\ EnqueueRows(B)
           /\ UNCHANGED <<now, account, offered>>
           /\ \E day \in Nat \ {0} : /\ day <= now /\ now <= day + Lateness
                                     /\ \A c \in B : Good(c, day)
<1> USE DEF LedgerInv, ScheduleInv
<1>1. CASE B \in SUBSET candidates /\ Post(B)
  <2>1. /\ pc = "post" /\ EnqueueRows(B)
        /\ UNCHANGED <<now, account, offered>>
    BY <1>1 DEF Post, memberVars, history
  <2>2. /\ runDay \in Nat \ {0} /\ runDay <= now /\ now <= runDay + Lateness
        /\ \A c \in B : Good(c, runDay)
    BY <1>1, <2>1 DEF ClockInv, RunInv
  <2> QED
    BY <1>1, <2>1, <2>2 DEF RunInv
<1>2. ASSUME NEW q \in late, Land(q), B = q.batch
      PROVE  /\ B \subseteq Candidates /\ EnqueueRows(B)
             /\ UNCHANGED <<now, account, offered>>
             /\ \E day \in Nat \ {0} : /\ day <= now /\ now <= day + Lateness
                                       /\ \A c \in B : Good(c, day)
  BY <1>2 DEF Land, memberVars, history, LateInv
<1> QED
  BY <1>1, <1>2

LEMMA QueueKeeps ==
    ASSUME LedgerInv, [Next]_vars
    PROVE  QueueInv'
<1>1. CASE UNCHANGED vars
  BY <1>1, QueueStands DEF vars, memberVars
<1>2. ASSUME NEW s \in Slots, Appear(s) \/ Vanish(s) PROVE QueueInv'
  BY <1>2, QueueStands DEF Appear, Vanish, memberVars
<1>3. CASE Member
  <2>1. ASSUME NEW u \in Users, Suspend(u) \/ Resume(u) \/ Delete(u)
        PROVE  QueueInv'
    BY <2>1, MemberKeeps, DeleteKeeps
  <2>2. ASSUME NEW r \in Rules, EditRule(r) PROVE QueueInv'
    BY <2>2, QueueStands DEF EditRule
  <2> QED
    BY <1>3, <2>1, <2>2, LedgerAssumption DEF Member
<1>4. CASE Scrape \/ Match \/ Complete \/ Abort
  BY <1>4, QueueStands DEF Scrape, Match, Complete, Abort, Finish, memberVars
<1>5. ASSUME NEW B,
             \/ B \in SUBSET candidates /\ Post(B)
             \/ \E q \in late : Land(q) /\ B = q.batch
      PROVE  QueueInv'
  <2>1. /\ B \subseteq Candidates /\ EnqueueRows(B)
        /\ UNCHANGED <<now, account, offered>>
        /\ \E day \in Nat \ {0} : /\ day <= now /\ now <= day + Lateness
                                  /\ \A c \in B : Good(c, day)
    BY <1>5, RequestIsGood
  <2> QED
    BY <2>1, EnqueueKeeps
<1>6. ASSUME NEW m \in messages, Settle(m) \/ Feedback(m) PROVE QueueInv'
  BY <1>6, DeliveryKeeps
<1>7. CASE Cleanup
  BY <1>7, CleanupKeeps
<1>8. CASE Tick
  BY <1>8, QueueStands DEF Tick, memberVars
<1>9. ASSUME NEW q \in late, Land(q) PROVE QueueInv'
  BY <1>5, <1>9
<1> QED
  BY <1>1, <1>2, <1>3, <1>4, <1>5, <1>6, <1>7, <1>8, <1>9 DEF Next, Run

-----------------------------------------------------------------------------

LEMMA Initially ==
    Init => LedgerInv
<1> SUFFICES ASSUME Init PROVE LedgerInv
  OBVIOUS
<1>1. ScheduleInv
  BY LedgerAssumption DEF Init, ScheduleInv, ClockInv, EditInv, RunInv, LateInv
<1>2. QueueInv
  BY LedgerAssumption DEF Init, QueueInv, QueueTypes, SlotNotifiedOnce, Remembered,
     ItemsAhead, Numbered, OpenMessageHasItems
<1> QED
  BY <1>1, <1>2 DEF LedgerInv

\* The inductive invariant: good requests, remembered slots.
THEOREM Inductive ==
    Spec => []LedgerInv
<1>1. LedgerInv /\ [Next]_vars => LedgerInv'
  BY ScheduleKeeps, QueueKeeps DEF LedgerInv
<1> QED
  BY Initially, <1>1, PTL DEF Spec

\* No member is told twice of a slot, for every bound on the lateness of requests
\* and every retention that outlasts them.
THEOREM NotifiedOnce ==
    Spec => []SlotNotifiedOnce
<1>1. LedgerInv => SlotNotifiedOnce
  BY DEF LedgerInv, QueueInv
<1> QED
  BY Inductive, <1>1, PTL

\* Neither the enqueue nor the cleanup leaves an open message without items.
THEOREM OpenHasItems ==
    Spec => []OpenMessageHasItems
<1>1. LedgerInv => OpenMessageHasItems
  BY DEF LedgerInv, QueueInv
<1> QED
  BY Inductive, <1>1, PTL

\* Steps that put nothing in the queue.
LEMMA Quiet ==
    ASSUME LedgerInv, [Next]_vars
    PROVE  \/ /\ notified' = notified
              /\ \A i \in items' : Listed(i.user, i.slot)
           \/ \E B : \/ B \in SUBSET candidates /\ Post(B)
                     \/ \E q \in late : Land(q) /\ B = q.batch
<1> DEFINE Stays == notified' = notified /\ \A i \in items' : Listed(i.user, i.slot)
<1>0. items \subseteq Items
  BY DEF LedgerInv, QueueInv, QueueTypes
<1>1. ASSUME notified' = notified, items' \subseteq items PROVE Stays
  BY <1>1 DEF Listed
<1>2. CASE UNCHANGED vars
  BY <1>1, <1>2 DEF vars, queueVars
<1>3. ASSUME NEW s \in Slots, Appear(s) \/ Vanish(s) PROVE Stays
  BY <1>1, <1>3 DEF Appear, Vanish, queueVars
<1>4. CASE Member
  BY <1>1, <1>4 DEF Member, Suspend, Resume, Delete, EditRule, queueVars
<1>5. CASE Scrape \/ Match \/ Complete \/ Abort
  BY <1>1, <1>5 DEF Scrape, Match, Complete, Abort, Finish, queueVars
<1>6. ASSUME NEW m \in messages, Settle(m) \/ Feedback(m) PROVE Stays
  BY <1>1, <1>6 DEF Settle, Feedback
<1>7. CASE Cleanup
  BY <1>7, CleanupKeeps DEF Cleanup
<1>8. CASE Tick
  BY <1>1, <1>8 DEF Tick, queueVars
<1>9. CASE \E B \in SUBSET candidates : Post(B)
  BY <1>9
<1>10. CASE \E q \in late : Land(q)
  BY <1>10
<1> QED
  BY <1>2, <1>3, <1>4, <1>5, <1>6, <1>7, <1>8, <1>9, <1>10 DEF Next, Run

\* Nobody is told of what no scrape saw, nor long after it was seen.
THEOREM OnlyOffered ==
    Spec => NotifiedWhileOffered
<1> DEFINE Told == \A u \in Users, s \in Slots : notified'[u][s] > notified[u][s] =>
                      offered[s] # 0 /\ now <= offered[s] + Lateness
<1>1. ASSUME LedgerInv, [Next]_vars PROVE Told
  <2>0. /\ notified \in [Users -> [Slots -> Nat]] /\ offered \in [Slots -> Nat]
        /\ now \in Nat /\ Lateness \in Nat
    BY <1>1, LedgerAssumption
       DEF LedgerInv, QueueInv, QueueTypes, ScheduleInv, ClockInv
  <2>1. CASE notified' = notified
    BY <2>0, <2>1
  <2>2. ASSUME NEW B,
               \/ B \in SUBSET candidates /\ Post(B)
               \/ \E q \in late : Land(q) /\ B = q.batch,
               NEW u \in Users, NEW s \in Slots, notified'[u][s] > notified[u][s]
        PROVE  offered[s] # 0 /\ now <= offered[s] + Lateness
    <3>1. PICK day \in Nat \ {0} : /\ day <= now /\ now <= day + Lateness
                                   /\ \A c \in B : Good(c, day)
      BY <1>1, <2>2, RequestIsGood
    <3>2. EnqueueRows(B)
      BY <1>1, <2>2, RequestIsGood
    <3>3. \E c \in Insertable(B) : c.user = u /\ c.slot = s
      BY <2>0, <2>2, <3>2 DEF EnqueueRows
    <3>4. PICK c \in B : c.slot = s
      BY <3>3 DEF Insertable
    <3>5. day <= offered[s] /\ offered[s] \in Nat
      BY <2>0, <3>1, <3>4 DEF Good, Timely
    <3> QED
      BY <2>0, <3>1, <3>5
  <2> QED
    BY <1>1, <2>1, <2>2, Quiet
<1>2. LedgerInv /\ [Next]_vars => [Told]_vars
  BY <1>1
<1> QED
  BY Inductive, <1>2, PTL DEF Spec, NotifiedWhileOffered

\* Nobody is told by a rule that is off, nor long after an edit took the slot out
\* of it, however late the request that carries the match.
THEOREM OnlyAsked ==
    Spec => NotifiedAsAsked
<1> DEFINE Asked(u, s) == \E r \in Rules :
               /\ RuleOwner[r] = u /\ ruleOn[r]
               /\ \/ s \in criteria[r]
                  \/ dropped[r][s] # 0 /\ now <= dropped[r][s] + Lateness
           Told == \A u \in Users, s \in Slots :
                      notified'[u][s] > notified[u][s] => Asked(u, s)
<1>1. ASSUME LedgerInv, [Next]_vars PROVE Told
  <2>0. /\ notified \in [Users -> [Slots -> Nat]] /\ now \in Nat /\ Lateness \in Nat
        /\ dropped \in [Rules -> [Slots -> Nat]]
    BY <1>1, LedgerAssumption
       DEF LedgerInv, QueueInv, QueueTypes, ScheduleInv, ClockInv, EditInv
  <2>1. CASE notified' = notified
    BY <2>0, <2>1
  <2>2. ASSUME NEW B,
               \/ B \in SUBSET candidates /\ Post(B)
               \/ \E q \in late : Land(q) /\ B = q.batch,
               NEW u \in Users, NEW s \in Slots, notified'[u][s] > notified[u][s]
        PROVE  Asked(u, s)
    <3>1. PICK day \in Nat \ {0} : /\ day <= now /\ now <= day + Lateness
                                   /\ \A c \in B : Good(c, day)
      BY <1>1, <2>2, RequestIsGood
    <3>2. EnqueueRows(B) /\ B \subseteq Candidates
      BY <1>1, <2>2, RequestIsGood
    <3>3. \E c \in Insertable(B) : c.user = u /\ c.slot = s
      BY <2>0, <2>2, <3>2 DEF EnqueueRows
    <3>4. PICK c \in B : c.user = u /\ c.slot = s /\ Current(c) # {}
      BY <3>3 DEF Insertable
    <3>5. PICK r \in c.rules : ruleOn[r]
      BY <3>4 DEF Current
    <3>6. r \in Rules /\ RuleOwner[r] = u /\ AskedSince(r, s, day)
      BY <3>1, <3>2, <3>4, <3>5 DEF Good, Candidates
    <3>7. CASE day <= dropped[r][s]
      <4>1. dropped[r][s] \in Nat
        BY <2>0, <3>6
      <4>2. dropped[r][s] # 0 /\ now <= dropped[r][s] + Lateness
        BY <2>0, <3>1, <3>7, <4>1
      <4> QED
        BY <3>5, <3>6, <4>2
    <3> QED
      BY <3>5, <3>6, <3>7 DEF AskedSince
  <2> QED
    BY <1>1, <2>1, <2>2, Quiet
<1>2. LedgerInv /\ [Next]_vars => [Told]_vars
  BY <1>1
<1> QED
  BY Inductive, <1>2, PTL DEF Spec, NotifiedAsAsked

-----------------------------------------------------------------------------
(* Types, and the foreign key from an item to its message.                  *)

Linked ==
    \A i \in items : i.msg # Unlinked =>
        \E m \in messages : m.user = i.user /\ m.n = i.msg

SettingTypes ==
    /\ saved \subseteq Slots /\ carried \subseteq Slots
    /\ enabled \in [Users -> BOOLEAN]
    /\ ruleOn \in [Rules -> BOOLEAN]
    /\ late \subseteq [batch : SUBSET Candidates, by : Nat]

TypeInv == LedgerInv /\ SettingTypes /\ Linked

LEMMA SettingsKeepTypes ==
    ASSUME TypeInv, [Next]_vars
    PROVE  SettingTypes'
<1> USE DEF TypeInv, SettingTypes
<1>0. /\ Lateness \in Nat /\ RuleOwner \in [Rules -> Users]
      /\ site \subseteq Slots /\ fresh \subseteq Slots /\ runDay \in Nat
      /\ candidates \subseteq Candidates
  BY LedgerAssumption DEF LedgerInv, ScheduleInv, ClockInv, RunInv
<1>1. ASSUME UNCHANGED <<saved, carried, enabled, ruleOn>>, late' \subseteq late
      PROVE  SettingTypes'
  BY <1>1
<1>2. ASSUME \/ UNCHANGED vars
             \/ \E s \in Slots : Appear(s) \/ Vanish(s)
             \/ Match \/ Cleanup \/ Tick
             \/ \E B \in SUBSET candidates : Post(B)
             \/ \E q \in late : Land(q)
             \/ \E m \in messages : Settle(m) \/ Feedback(m)
      PROVE  UNCHANGED <<saved, carried, enabled, ruleOn>> /\ late' \subseteq late
  BY <1>2 DEF vars, memberVars, runVars, Appear, Vanish, Match, Cleanup, Tick, Post, Land,
     Settle, Feedback
<1>3. CASE Member
  <2>1. UNCHANGED <<saved, carried, late>>
    BY <1>3 DEF Member, Suspend, Resume, Delete, EditRule, runVars
  <2>2. enabled' \in [Users -> BOOLEAN]
    BY <1>3 DEF Member, Suspend, Resume, Delete, EditRule
  <2>3. ruleOn' \in [Rules -> BOOLEAN]
    BY <1>3 DEF Member, Suspend, Resume, Delete, EditRule
  <2> QED
    BY <2>1, <2>2, <2>3
<1>4. CASE Scrape
  BY <1>4 DEF Scrape, memberVars
<1>5. CASE Complete \/ Abort
  <2>1. /\ carried' = {} /\ saved' \in {fresh \cup carried, saved}
        /\ UNCHANGED <<enabled, ruleOn>>
    BY <1>5 DEF Complete, Abort, Finish, memberVars
  <2>2. late' = late \/ \E B \in SUBSET candidates :
                           late' = late \cup {[batch |-> B, by |-> runDay + Lateness]}
    BY <1>5 DEF Complete, Abort
  <2>3. late' \subseteq [batch : SUBSET Candidates, by : Nat]
    BY <1>0, <2>2
  <2> QED
    BY <1>0, <2>1, <2>3
<1> QED
  BY <1>1, <1>2, <1>3, <1>4, <1>5 DEF Next, Run

LEMMA EnqueueLinks ==
    ASSUME Linked, NEW B, EnqueueRows(B)
    PROVE  Linked'
<1> SUFFICES ASSUME NEW i \in items', i.msg # Unlinked
             PROVE  \E m \in messages' : m.user = i.user /\ m.n = i.msg
  BY DEF Linked
<1>1. CASE i \in items
  BY <1>1 DEF Linked, EnqueueRows
<1>2. CASE i \notin items
  <2>1. PICK c \in Insertable(B) : i.user = c.user /\ i.msg = made[c.user] + 1
    BY <1>2 DEF EnqueueRows
  <2>2. PICK m : m = [user |-> c.user, n |-> made[c.user] + 1, at |-> now,
                      touched |-> now, open |-> TRUE]
    OBVIOUS
  <2>3. m \in messages'
    BY <2>2 DEF EnqueueRows
  <2> QED
    BY <2>1, <2>2, <2>3
<1> QED
  BY <1>1, <1>2

\* A message is erased with the links to it, in one transaction.
LEMMA CleanupLinks ==
    ASSUME Linked, items \subseteq Items, Cleanup
    PROVE  Linked'
<1>1. PICK X \in SUBSET Erasable :
        messages' = messages \ X /\ items' \subseteq Unlink(X)
  BY DEF Cleanup
<1> SUFFICES ASSUME NEW i \in items', i.msg # Unlinked
             PROVE  \E m \in messages' : m.user = i.user /\ m.n = i.msg
  BY DEF Linked
<1>2. PICK j \in items : i = IF \E m \in X : m.user = j.user /\ m.n = j.msg
                             THEN [j EXCEPT !.msg = Unlinked] ELSE j
  BY <1>1 DEF Unlink
<1>3. i = j /\ ~\E m \in X : m.user = j.user /\ m.n = j.msg
  BY <1>2 DEF Items
<1>4. PICK m \in messages : m.user = j.user /\ m.n = j.msg
  BY <1>3 DEF Linked
<1> QED
  BY <1>1, <1>3, <1>4

LEMMA LinksKeep ==
    ASSUME TypeInv, [Next]_vars
    PROVE  Linked'
<1>0. Linked /\ items \subseteq Items /\ messages \subseteq Messages
  BY DEF TypeInv, LedgerInv, QueueInv, QueueTypes
<1>1. CASE UNCHANGED <<items, messages>>
  BY <1>0, <1>1 DEF Linked
<1>2. ASSUME \/ UNCHANGED vars \/ Tick
             \/ \E s \in Slots : Appear(s) \/ Vanish(s)
             \/ Scrape \/ Match \/ Complete \/ Abort
             \/ \E u \in Restless : Suspend(u) \/ Resume(u)
             \/ \E r \in Rules : EditRule(r)
      PROVE  UNCHANGED <<items, messages>>
  BY <1>2 DEF vars, queueVars, Tick, Appear, Vanish, Scrape, Match, Complete, Abort, Finish,
     Suspend, Resume, EditRule
<1>3. ASSUME NEW u \in Restless, Delete(u) PROVE Linked'
  BY <1>0, <1>3 DEF Delete, Linked
<1>4. ASSUME NEW B \in SUBSET candidates, Post(B) PROVE Linked'
  BY <1>0, <1>4, EnqueueLinks DEF Post
<1>5. ASSUME NEW q \in late, Land(q) PROVE Linked'
  <2>1. PICK B : B = q.batch
    OBVIOUS
  <2> QED
    BY <1>0, <1>5, <2>1, EnqueueLinks DEF Land
<1>6. ASSUME NEW m \in messages, Settle(m) \/ Feedback(m) PROVE Linked'
  <2>1. PICK k : /\ k \in {[m EXCEPT !.open = FALSE, !.touched = now], [m EXCEPT !.touched = now]}
                 /\ messages' = (messages \ {m}) \cup {k} /\ items' = items
    BY <1>6 DEF Settle, Feedback
  <2>2. k.user = m.user /\ k.n = m.n
    BY <1>0, <2>1 DEF Messages
  <2> QED
    BY <1>0, <2>1, <2>2 DEF Linked
<1>7. CASE Cleanup
  BY <1>0, <1>7, CleanupLinks
<1> QED
  BY <1>1, <1>2, <1>3, <1>4, <1>5, <1>6, <1>7 DEF Next, Member, Run

\* Every variable keeps its type, and no item is left with the number of a message
\* that is gone.
THEOREM TypeCorrect ==
    Spec => []TypeOK
<1>1. Init => TypeInv
  <2> SUFFICES ASSUME Init PROVE TypeInv
    OBVIOUS
  <2>1. LedgerInv
    BY Initially
  <2> QED
    BY <2>1 DEF Init, TypeInv, SettingTypes, Linked
<1>2. TypeInv /\ [Next]_vars => TypeInv'
  BY ScheduleKeeps, QueueKeeps, SettingsKeepTypes, LinksKeep DEF TypeInv, LedgerInv
<1>3. TypeInv => TypeOK
  BY DEF TypeInv, LedgerInv, ScheduleInv, ClockInv, EditInv, RunInv, QueueInv, QueueTypes,
     SettingTypes, Linked, TypeOK
<1> QED
  BY <1>1, <1>2, <1>3, PTL DEF Spec

=============================================================================
