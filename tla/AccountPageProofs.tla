------------------------- MODULE AccountPageProofs -------------------------
(***************************************************************************)
(* Proofs about AccountPage.  The module has no constant and its run       *)
(* explores every state; the proof says why a button is shut: which field  *)
(* of a panel follows which call of the page.                              *)
(***************************************************************************)
EXTENDS AccountPage, TLAPS

\* A page that was left keeps nothing: no call of it is answered any more.
NothingRemains ==
    view # "open" =>
        /\ call = Quiet /\ got = Unread /\ consent = ConsentHidden
        /\ leave = LeaveShut /\ line = Render("none") /\ setups = 0

\* Only a load that was sent has read anything.
ReadsAreSent == got.profile # "unread" \/ got.terms # "unread" => call.load = "sent"

\* The consent panel is hidden while the member is being read, shown while a
\* consent is on its way, and otherwise the button follows the checkbox.
ConsentFollows ==
    /\ call.load = "sent" => ~consent.shown
    /\ call.accept \in {"sent", "done"} => consent.shown
    /\ consent.shown /\ call.accept \notin {"sent", "done"} => consent.off = ~consent.checked

\* Each way out is closed by a call that is still out, and by nothing else.
LeaveFollows ==
    /\ leave.startOff = leave.panel
    /\ call.delete # "idle" => leave.panel
    /\ leave.cancelOff => call.delete # "idle"
    /\ call.delete = "idle" /\ leave.panel => leave.confirmOff = ~leave.checked
    /\ call.signOut = "idle" /\ call.delete = "idle" => ~leave.logoutOff

\* Until the panel has read the account it offers nothing, so that no answer
\* comes into the middle of a call that it would redraw over.
LineUnread == setups = 0 \/ call.refresh # "idle" => LineQuiet /\ line = Render("none")

LineFollows ==
    /\ LineUnread
    /\ setups = 0 => call.refresh = "idle"
    /\ call.start = "idle" \/ call.unlink = "idle"
    /\ line.confirmOff = (call.unlink # "idle")
    /\ call.unlink # "idle" => line.panel
    /\ line.panel => line.state \in {"active", "blocked"}
    /\ call.start # "idle" => line.startOff
    /\ call.start = "idle" => line.startOff = (line.state \in {"none", "active", "error"})
    /\ call.start = "idle" /\ ~line.panel =>
          line.unlinkOff = (line.state \in {"none", "unlinked", "error"})

\* The page takes leave after the account is gone, and nothing brings it back.
GoneIsGone == call.delete \in {"deleted", "leaving"} => membership = "deleted"

IInv ==
    /\ TypeOK /\ NothingRemains /\ ReadsAreSent
    /\ ConsentFollows /\ LeaveFollows /\ LineFollows /\ GoneIsGone

-----------------------------------------------------------------------------
(* Types                                                                    *)

CallType ==
    [load : {"idle", "sent"}, accept : {"idle", "sent", "done", "load", "setup"},
     signOut : {"idle", "sent", "leaving"},
     delete : {"idle", "sent", "known", "locked", "deleted", "failed", "leaving"},
     refresh : {"idle", "sync", "read"}, start : {"idle", "sent", "leaving"},
     unlink : {"idle", "sent", "done"}]
GotType == [profile : Members \cup {"unread"}, terms : {"unread", "old", "current"}]
ConsentType == [shown : BOOLEAN, checked : BOOLEAN, off : BOOLEAN]
LeaveType == [panel : BOOLEAN, checked : BOOLEAN, startOff : BOOLEAN,
              confirmOff : BOOLEAN, cancelOff : BOOLEAN, logoutOff : BOOLEAN]
LineType == [state : LinkStates \cup {"error"}, panel : BOOLEAN, confirmOff : BOOLEAN,
             startOff : BOOLEAN, unlinkOff : BOOLEAN]
AccountType == membership \in Memberships /\ accepted \in BOOLEAN /\ link \in LinkStates
PageType ==
    /\ view \in {"open", "left"} /\ call \in CallType /\ got \in GotType
    /\ consent \in ConsentType /\ leave \in LeaveType /\ line \in LineType
    /\ setups \in {0, 1}

\* The types by name.
LEMMA Typed == TypeOK <=> AccountType /\ PageType
BY DEF TypeOK, AccountType, PageType, CallType, GotType, ConsentType, LeaveType, LineType

\* What the panel shows of a state is of its type.
LEMMA RenderType == \A s \in LinkStates \cup {"error"} : Render(s) \in LineType
BY DEF Render, LineType

\* A page that is left is of its type.
LEMMA LeavePageType ==
    ASSUME LeavePage
    PROVE  PageType'
<1>1. "none" \in LinkStates \cup {"error"}  BY DEF LinkStates
<1>2. line' \in LineType  BY <1>1, RenderType DEF LeavePage
<1>3. QED  BY <1>2 DEF LeavePage, PageType, CallType, GotType, ConsentType, LeaveType,
                    Quiet, Unread, ConsentHidden, LeaveShut

LEMMA InitType == Init => TypeOK
<1> SUFFICES ASSUME Init PROVE TypeOK  OBVIOUS
<1>1. "none" \in LinkStates \cup {"error"}  BY DEF LinkStates
<1>2. line \in LineType  BY <1>1, RenderType DEF Init
<1>3. QED  BY <1>2 DEF Init, TypeOK, LineType, Members, Memberships, Quiet, Unread, ConsentHidden, LeaveShut

\* Whatever changes the account leaves it one.
LEMMA AccountChanges ==
    ASSUME AccountType,
           \/ AcceptTerms \/ LockProfile \/ DeleteUser \/ SyncIdentity
           \/ UnlinkRow \/ NewTerms \/ LinkChanges
    PROVE  AccountType'
<1> USE DEF AccountType, Memberships, Members, LinkStates
<1>1. CASE AcceptTerms  BY <1>1 DEF AcceptTerms
<1>2. CASE LockProfile  BY <1>2 DEF LockProfile
<1>3. CASE DeleteUser  BY <1>3 DEF DeleteUser
<1>4. CASE SyncIdentity  BY <1>4 DEF SyncIdentity
<1>5. CASE UnlinkRow  BY <1>5 DEF UnlinkRow
<1>6. CASE NewTerms  BY <1>6 DEF NewTerms
<1>7. CASE LinkChanges  BY <1>7 DEF LinkChanges
<1>8. QED  BY <1>1, <1>2, <1>3, <1>4, <1>5, <1>6, <1>7

LEMMA TypeKept == TypeOK /\ [Next]_vars => TypeOK'
<1> SUFFICES ASSUME TypeOK, [Next]_vars PROVE AccountType' /\ PageType'
  BY Typed, PTL
<1>1. AccountType /\ PageType  BY Typed
<1>2. UNCHANGED account => AccountType'  BY <1>1 DEF account, AccountType
<1>3. CASE Elsewhere
  BY <1>1, <1>3, AccountChanges DEF Elsewhere, PageType
<1>4. CASE OpenPage
  BY <1>1, <1>4, <1>2 DEF OpenPage, PageType, CallType, Quiet
<1>5. CASE LeavePage
  BY <1>5, <1>2, LeavePageType DEF LeavePage
<1>6. CASE ReadProfile
  BY <1>1, <1>6, <1>2 DEF ReadProfile, PageType, GotType
<1>7. CASE ReadTerms
  BY <1>1, <1>7, <1>2 DEF ReadTerms, PageType, GotType
<1>8. CASE Loaded
  <2>1. call' \in CallType  BY <1>1, <1>8 DEF Loaded, PageType, CallType
  <2>2. consent' \in ConsentType  BY <1>8 DEF Loaded, ConsentHidden, ConsentType
  <2>3. got' \in GotType  BY <1>8 DEF Loaded, Unread, GotType
  <2>4. setups' \in {0, 1}  BY <1>1, <1>8 DEF Loaded, SetsUp, PageType
  <2>5. QED  BY <1>1, <1>2, <1>8, <2>1, <2>2, <2>3, <2>4 DEF Loaded, PageType
<1>9. CASE LoadFailed
  <2>1. call' \in CallType  BY <1>1, <1>9 DEF LoadFailed, PageType, CallType
  <2>2. got' \in GotType  BY <1>9 DEF LoadFailed, Unread, GotType
  <2>3. QED  BY <1>1, <1>2, <1>9, <2>1, <2>2 DEF LoadFailed, PageType
<1>10. CASE CheckConsent \/ Accept \/ AcceptAnswered \/ AcceptFailed
  <2>1. call' \in CallType
    BY <1>1, <1>10 DEF CheckConsent, Accept, AcceptAnswered, AcceptFailed, PageType, CallType
  <2>2. consent' \in ConsentType
    BY <1>1, <1>10
    DEF CheckConsent, Accept, AcceptAnswered, AcceptFailed, PageType, ConsentType
  <2>3. QED
    BY <1>1, <1>2, <1>10, <2>1, <2>2
    DEF CheckConsent, Accept, AcceptAnswered, AcceptFailed, PageType
<1>11. CASE AcceptServed
  <2>1. call' \in CallType  BY <1>1, <1>11 DEF AcceptServed, PageType, CallType
  <2>2. QED  BY <1>11, <1>1, <2>1, AccountChanges DEF AcceptServed, PageType
<1>12. CASE SignOut \/ SignedOut \/ SignOutFailed \/ DeleteStart \/ CheckDelete
            \/ DeleteCancel \/ DeleteConfirm \/ DeleteAnswered \/ DeleteFailed
  <2> USE DEF SignOut, SignedOut, SignOutFailed, DeleteStart, CheckDelete, DeleteCancel,
              DeleteConfirm, DeleteAnswered, DeleteFailed
  <2>1. call' \in CallType  BY <1>1, <1>12 DEF PageType, CallType
  <2>2. leave' \in LeaveType  BY <1>1, <1>12 DEF Reoffer, PageType, LeaveType
  <2>3. QED  BY <1>1, <1>2, <1>12, <2>1, <2>2 DEF PageType
<1>13. CASE DeleteServed
  <2>1. AccountType'  BY <1>1, <1>2, <1>13, AccountChanges DEF DeleteServed
  <2>2. call' \in CallType  BY <1>1, <1>13 DEF DeleteServed, PageType, CallType
  <2>3. QED  BY <1>13, <1>1, <2>1, <2>2 DEF DeleteServed, PageType
<1>14. CASE Refresh
  <2>1. call' \in CallType  BY <1>1, <1>14 DEF Refresh, PageType, CallType
  <2>2. QED  BY <1>14, <1>1, <2>1, AccountChanges DEF Refresh, PageType
<1>15. CASE Refreshed
  <2>1. \E s \in LinkStates \cup {"error"} : line' = Render(s)
    BY <1>15, <1>1 DEF Refreshed, AccountType, LinkStates
  <2>2. line' \in LineType  BY <2>1, RenderType
  <2>3. call' \in CallType  BY <1>1, <1>15 DEF Refreshed, PageType, CallType
  <2>4. QED  BY <1>1, <1>15, <1>2, <2>2, <2>3 DEF Refreshed, PageType
<1>16. CASE StartFailed \/ UnlinkAnswered
  <2>1. line.state \in LinkStates \cup {"error"} /\ "unlinked" \in LinkStates \cup {"error"}
    BY <1>1 DEF PageType, LineType, LinkStates
  <2>2. line' \in LineType  BY <1>16, <2>1, RenderType DEF StartFailed, UnlinkAnswered
  <2>3. call' \in CallType
    BY <1>1, <1>16 DEF StartFailed, UnlinkAnswered, PageType, CallType
  <2>4. QED  BY <1>1, <1>16, <1>2, <2>2, <2>3 DEF StartFailed, UnlinkAnswered, PageType
<1>17. CASE StartLink \/ LinkStarted \/ UnlinkStart \/ UnlinkCancel \/ UnlinkConfirm
            \/ UnlinkFailed
  <2> USE DEF StartLink, LinkStarted, UnlinkStart, UnlinkCancel, UnlinkConfirm, UnlinkFailed
  <2>1. call' \in CallType  BY <1>1, <1>17 DEF PageType, CallType
  <2>2. line' \in LineType  BY <1>1, <1>17 DEF PageType, LineType
  <2>3. QED  BY <1>1, <1>2, <1>17, <2>1, <2>2 DEF PageType
<1>18. CASE UnlinkServed
  <2>1. call' \in CallType  BY <1>1, <1>18 DEF UnlinkServed, PageType, CallType
  <2>2. QED  BY <1>18, <1>1, <2>1, AccountChanges DEF UnlinkServed, PageType
<1>19. CASE UNCHANGED vars
  BY <1>1, <1>19 DEF vars, AccountType, PageType
<1>20. QED
  BY <1>3, <1>4, <1>5, <1>6, <1>7, <1>8, <1>9, <1>10, <1>11, <1>12, <1>13, <1>14, <1>15,
     <1>16, <1>17, <1>18, <1>19 DEF Next

\* The account, the calls of the page and its panels stay of their types; with
\* them, the flag of setupLineAccountLink lets the LINE panel be set up once only.
THEOREM TypeCorrect == Spec => []TypeOK
BY InitType, TypeKept, PTL DEF Spec

-----------------------------------------------------------------------------
(* The inductive invariant                                                  *)

\* Before the panel has read anything it offers neither button.
LEMMA RenderNone ==
    Render("none") = [state |-> "none", panel |-> FALSE, confirmOff |-> FALSE,
                      startOff |-> TRUE, unlinkOff |-> TRUE]
<1>1. ("none" \in {"none", "active", "error"}) = TRUE  OBVIOUS
<1>2. ("none" \in {"none", "unlinked", "error"}) = TRUE  OBVIOUS
<1>3. QED  BY <1>1, <1>2, Zenon DEF Render

\* Nothing but Elsewhere and OpenPage happens to a page that was left.
LEMMA NothingHappens ==
    ASSUME NothingRemains, view # "open", Next
    PROVE  Elsewhere \/ OpenPage
<1>1. /\ call.load = "idle" /\ call.accept = "idle" /\ call.signOut = "idle"
      /\ call.delete = "idle" /\ call.refresh = "idle" /\ call.start = "idle"
      /\ call.unlink = "idle"
  BY DEF NothingRemains, Quiet
<1>2. got.profile = "unread" /\ ~consent.shown /\ ~leave.panel
  BY DEF NothingRemains, Unread, ConsentHidden, LeaveShut
<1>3. line.startOff /\ line.unlinkOff /\ ~line.panel
  BY RenderNone DEF NothingRemains
<1>4. ~(LeavePage \/ ReadProfile \/ ReadTerms \/ Loaded \/ LoadFailed)
  BY <1>1, <1>2 DEF LeavePage, ReadProfile, ReadTerms, Loaded, LoadFailed
<1>5. ~(CheckConsent \/ Accept \/ AcceptServed \/ AcceptAnswered \/ AcceptFailed)
  BY <1>1, <1>2 DEF CheckConsent, Accept, AcceptServed, AcceptAnswered, AcceptFailed
<1>6. ~(SignOut \/ SignedOut \/ SignOutFailed)
  BY <1>1 DEF SignOut, SignedOut, SignOutFailed
<1>7. ~(\/ DeleteStart \/ CheckDelete \/ DeleteCancel \/ DeleteConfirm \/ DeleteServed
        \/ DeleteAnswered \/ DeleteFailed)
  BY <1>1, <1>2 DEF DeleteStart, CheckDelete, DeleteCancel, DeleteConfirm, DeleteServed,
                    DeleteAnswered, IsDeleted, DeleteFailed
<1>8. ~(Refresh \/ Refreshed \/ StartLink \/ LinkStarted \/ StartFailed)
  BY <1>1, <1>3 DEF Refresh, Refreshed, StartLink, LinkStarted, StartFailed
<1>9. ~(\/ UnlinkStart \/ UnlinkCancel \/ UnlinkConfirm \/ UnlinkServed
        \/ UnlinkAnswered \/ UnlinkFailed)
  BY <1>1, <1>3 DEF UnlinkStart, UnlinkCancel, UnlinkConfirm, UnlinkServed,
                    UnlinkAnswered, UnlinkFailed
<1>10. QED  BY <1>4, <1>5, <1>6, <1>7, <1>8, <1>9 DEF Next

\* What a page that is left keeps of the invariant: all of it.
LEMMA Leaving ==
    ASSUME LeavePage
    PROVE  /\ NothingRemains' /\ ReadsAreSent'
           /\ ConsentFollows' /\ LeaveFollows' /\ LineFollows'
<1> USE DEF LeavePage, Quiet, Unread, ConsentHidden, LeaveShut, Render
<1>1. NothingRemains'  BY DEF NothingRemains
<1>2. ReadsAreSent'  BY DEF ReadsAreSent
<1>3. ConsentFollows'  BY DEF ConsentFollows
<1>4. LeaveFollows'  BY DEF LeaveFollows
<1>5. LineFollows'  BY DEF LineFollows, LineUnread, LineQuiet
<1>6. QED  BY <1>1, <1>2, <1>3, <1>4, <1>5

\* The steps by what they do to the page: leave it, leave it alone, or one of
\* the five groups of its actions.
Stays == Elsewhere \/ UNCHANGED vars
Loads == OpenPage \/ ReadProfile \/ ReadTerms \/ Loaded \/ LoadFailed
Consents == CheckConsent \/ Accept \/ AcceptServed \/ AcceptAnswered \/ AcceptFailed
Parts ==
    \/ SignOut \/ SignedOut \/ SignOutFailed \/ DeleteStart \/ CheckDelete \/ DeleteCancel
    \/ DeleteConfirm \/ DeleteServed \/ DeleteAnswered \/ DeleteFailed
Links ==
    \/ Refresh \/ Refreshed \/ StartLink \/ LinkStarted \/ StartFailed \/ UnlinkStart
    \/ UnlinkCancel \/ UnlinkConfirm \/ UnlinkServed \/ UnlinkAnswered \/ UnlinkFailed

LEMMA Groups == [Next]_vars => LeavePage \/ Stays \/ Loads \/ Consents \/ Parts \/ Links
BY DEF Next, Stays, Loads, Consents, Parts, Links

LEMMA Staying == Stays => UNCHANGED <<view, call, got, consent, leave, line, setups>>
BY DEF Stays, Elsewhere, vars

\* Opening the page sends one call and changes nothing else of it.
LEMMA Opening ==
    ASSUME NothingRemains, OpenPage
    PROVE  call' = [call EXCEPT !.load = "sent"]
BY DEF NothingRemains, OpenPage

\* What a group of actions leaves alone.
LEMMA LoadsLeave ==
    ASSUME TypeOK, NothingRemains, Loads
    PROVE  /\ UNCHANGED <<account, leave, line>>
           /\ UNCHANGED <<call.signOut, call.delete, call.start, call.unlink>>
<1>1. call \in CallType  BY Typed DEF PageType
<1>2. CASE OpenPage  BY <1>1, <1>2, Opening DEF OpenPage, CallType
<1>3. CASE ReadProfile \/ ReadTerms  BY <1>3 DEF ReadProfile, ReadTerms
<1>4. CASE Loaded \/ LoadFailed  BY <1>1, <1>4 DEF Loaded, LoadFailed, CallType
<1>5. QED  BY <1>2, <1>3, <1>4 DEF Loads

LEMMA ConsentsLeave ==
    ASSUME TypeOK, Consents
    PROVE  /\ UNCHANGED <<view, got, leave, line, setups>>
           /\ UNCHANGED <<call.signOut, call.delete, call.refresh, call.start, call.unlink>>
<1>1. call \in CallType  BY Typed DEF PageType
<1>2. QED  BY <1>1 DEF Consents, CheckConsent, Accept, AcceptServed, AcceptAnswered,
                        AcceptFailed, CallType

LEMMA PartsLeave ==
    ASSUME TypeOK, Parts
    PROVE  /\ UNCHANGED <<view, got, consent, line, setups>>
           /\ UNCHANGED <<call.load, call.accept, call.refresh, call.start, call.unlink>>
<1>1. call \in CallType  BY Typed DEF PageType
<1>2. QED  BY <1>1 DEF Parts, SignOut, SignedOut, SignOutFailed, DeleteStart, CheckDelete,
                        DeleteCancel, DeleteConfirm, DeleteServed, DeleteAnswered, DeleteFailed, CallType

LEMMA LinksLeave ==
    ASSUME TypeOK, Links
    PROVE  /\ UNCHANGED <<view, got, consent, leave, setups>>
           /\ UNCHANGED <<call.load, call.signOut, call.delete>>
           /\ call.accept' \in {call.accept, "idle"}
           /\ call.accept' # call.accept => call.accept = "setup"
<1>1. call \in CallType  BY Typed DEF PageType
<1>2. QED  BY <1>1 DEF Links, Refresh, Refreshed, StartLink, LinkStarted, StartFailed, UnlinkStart,
                        UnlinkCancel, UnlinkConfirm, UnlinkServed, UnlinkAnswered,
                        UnlinkFailed, CallType

\* A page that was left is empty.
LEMMA NothingRemainsKept ==
    ASSUME NothingRemains, [Next]_vars
    PROVE  NothingRemains'
<1>1. CASE LeavePage  BY <1>1, Leaving
<1>2. CASE Stays  BY <1>2, Staying DEF NothingRemains, Quiet, Unread, ConsentHidden, LeaveShut, Render
<1>3. CASE ~LeavePage /\ ~Stays
  <2>1. Next  BY <1>3 DEF Stays
  <2>2. OpenPage \/ view = "open"  BY <2>1, <1>3, NothingHappens DEF Stays
  <2>3. view' = "open"
    <3>1. CASE OpenPage  BY <3>1 DEF OpenPage
    <3>2. CASE view = "open" /\ (Loads \/ Consents)
      BY <3>2 DEF Loads, Consents, OpenPage, ReadProfile, ReadTerms, Loaded, LoadFailed,
           CheckConsent, Accept, AcceptServed, AcceptAnswered, AcceptFailed
    <3>3. CASE view = "open" /\ Parts
      BY <3>3 DEF Parts, SignOut, SignedOut, SignOutFailed, DeleteStart, CheckDelete, DeleteCancel,
           DeleteConfirm, DeleteServed, DeleteAnswered, DeleteFailed
    <3>4. CASE view = "open" /\ Links
      BY <3>4 DEF Links, Refresh, Refreshed, StartLink, LinkStarted, StartFailed, UnlinkStart,
           UnlinkCancel, UnlinkConfirm, UnlinkServed, UnlinkAnswered, UnlinkFailed
    <3>5. QED  BY <1>3, <2>2, <3>1, <3>2, <3>3, <3>4, Groups
  <2>4. QED  BY <2>3 DEF NothingRemains
<1>4. QED  BY <1>1, <1>2, <1>3

\* What was read belongs to a load that is still awaited.
LEMMA ReadsAreSentKept ==
    ASSUME TypeOK, NothingRemains, ReadsAreSent, [Next]_vars
    PROVE  ReadsAreSent'
<1>1. call \in CallType /\ got \in GotType  BY Typed DEF PageType
<1>2. CASE LeavePage  BY <1>2, Leaving
<1>3. CASE Stays  BY <1>3, Staying DEF ReadsAreSent
<1>4. CASE Loads
  <2>1. CASE OpenPage  BY <1>1, <2>1, Opening DEF OpenPage, ReadsAreSent, CallType
  <2>2. CASE ReadProfile \/ ReadTerms
    BY <1>1, <2>2 DEF ReadProfile, ReadTerms, ReadsAreSent, GotType
  <2>3. CASE Loaded \/ LoadFailed
    BY <2>3 DEF Loaded, LoadFailed, ReadsAreSent, Unread
  <2>4. QED  BY <1>4, <2>1, <2>2, <2>3 DEF Loads
<1>5. CASE Consents
  <2>1. call.load = "sent" => call'.load = "sent"
    BY <1>1, <1>5 DEF Consents, CheckConsent, Accept, AcceptServed, AcceptAnswered,
         AcceptFailed, CallType
  <2>2. QED  BY <1>5, <2>1, ConsentsLeave DEF ReadsAreSent
<1>6. CASE Parts  BY <1>6, PartsLeave DEF ReadsAreSent
<1>7. CASE Links  BY <1>7, LinksLeave DEF ReadsAreSent
<1>8. QED  BY <1>2, <1>3, <1>4, <1>5, <1>6, <1>7, Groups

\* The consent panel.  A load hides it or draws it anew; a consent on its way
\* is the only thing that closes its button.
LEMMA ConsentKept ==
    ASSUME TypeOK, NothingRemains, ReadsAreSent, ConsentFollows, [Next]_vars
    PROVE  ConsentFollows'
<1>1. call \in CallType /\ consent \in ConsentType /\ got \in GotType
  BY Typed DEF PageType
<1>2. CASE LeavePage  BY <1>2, Leaving
<1>3. CASE Stays  BY <1>3, Staying DEF ConsentFollows
<1>4. CASE Loads
  <2>1. CASE OpenPage
    <3>1. ~consent.shown  BY <2>1 DEF OpenPage, NothingRemains, ConsentHidden
    <3>2. QED  BY <1>1, <2>1, <3>1, Opening DEF OpenPage, ConsentFollows, CallType
  <2>2. CASE ReadProfile \/ ReadTerms
    BY <2>2 DEF ReadProfile, ReadTerms, ConsentFollows
  <2>3. CASE Loaded
    <3>1. call.load = "sent"  BY <2>3 DEF Loaded, ReadsAreSent
    <3>2. call'.load = "idle" /\ call'.accept \in {"idle", "setup"}
      BY <1>1, <2>3 DEF Loaded, CallType
    <3>3. consent'.off /\ ~consent'.checked  BY <2>3 DEF Loaded, ConsentHidden
    <3>4. QED  BY <3>2, <3>3 DEF ConsentFollows
  <2>4. CASE LoadFailed
    <3>1. ~consent.shown  BY <2>4 DEF LoadFailed, ConsentFollows
    <3>2. QED  BY <1>1, <2>4, <3>1 DEF LoadFailed, ConsentFollows, CallType
  <2>5. QED  BY <1>4, <2>1, <2>2, <2>3, <2>4 DEF Loads
<1>5. CASE Consents
  <2>1. CASE CheckConsent
    <3>1. consent'.off = consent.checked /\ consent'.checked = ~consent.checked
      BY <1>1, <2>1 DEF CheckConsent, ConsentType
    <3>2. consent'.shown = consent.shown  BY <1>1, <2>1 DEF CheckConsent, ConsentType
    <3>3. consent'.off = ~consent'.checked  BY <1>1, <3>1 DEF ConsentType
    <3>4. QED  BY <2>1, <3>2, <3>3 DEF CheckConsent, ConsentFollows
  <2>2. CASE Accept
    BY <1>1, <2>2 DEF Accept, ConsentFollows, CallType, ConsentType
  <2>3. CASE AcceptServed
    BY <1>1, <2>3 DEF AcceptServed, ConsentFollows, CallType
  <2>4. CASE AcceptAnswered
    BY <1>1, <2>4 DEF AcceptAnswered, ConsentFollows, CallType, ConsentType
  <2>5. CASE AcceptFailed
    <3>1. call'.load = call.load /\ call'.accept = "idle"
      BY <1>1, <2>5 DEF AcceptFailed, CallType
    <3>2. consent'.shown = consent.shown  BY <1>1, <2>5 DEF AcceptFailed, ConsentType
    <3>3. consent'.off = ~consent'.checked  BY <1>1, <2>5 DEF AcceptFailed, ConsentType
    <3>4. QED  BY <3>1, <3>2, <3>3 DEF ConsentFollows
  <2>6. QED  BY <1>5, <2>1, <2>2, <2>3, <2>4, <2>5 DEF Consents
<1>6. CASE Parts  BY <1>6, PartsLeave DEF ConsentFollows
<1>7. CASE Links  BY <1>7, LinksLeave DEF ConsentFollows
<1>8. QED  BY <1>2, <1>3, <1>4, <1>5, <1>6, <1>7, Groups

\* The two ways out.  A deletion that stopped half-way reopens what it closed.
LEMMA LeaveKept ==
    ASSUME TypeOK, NothingRemains, LeaveFollows, [Next]_vars
    PROVE  LeaveFollows'
<1>1. call \in CallType /\ leave \in LeaveType  BY Typed DEF PageType
<1>2. CASE LeavePage  BY <1>2, Leaving
<1>3. CASE Stays  BY <1>3, Staying DEF LeaveFollows
<1>4. CASE Loads  BY <1>4, LoadsLeave DEF LeaveFollows
<1>5. CASE Consents  BY <1>5, ConsentsLeave DEF LeaveFollows
<1>6. CASE Links  BY <1>6, LinksLeave DEF LeaveFollows
<1>7. CASE Parts
  <2>1. CASE SignOut
    BY <1>1, <2>1 DEF SignOut, LeaveFollows, CallType, LeaveType
  <2>2. CASE SignOutFailed
    BY <1>1, <2>2 DEF SignOutFailed, LeaveFollows, CallType, LeaveType
  <2>10. CASE SignedOut \/ DeleteAnswered
    BY <1>1, <2>10
    DEF SignedOut, DeleteAnswered, IsDeleted, LeaveFollows, CallType, LeaveType
  <2>3. CASE DeleteStart
    BY <1>1, <2>3 DEF DeleteStart, LeaveFollows, CallType, LeaveType
  <2>4. CASE CheckDelete
    BY <1>1, <2>4 DEF CheckDelete, LeaveFollows, CallType, LeaveType
  <2>5. CASE DeleteCancel
    BY <1>1, <2>5 DEF DeleteCancel, LeaveFollows, CallType, LeaveType
  <2>6. CASE DeleteConfirm
    BY <1>1, <2>6 DEF DeleteConfirm, LeaveFollows, CallType, LeaveType
  <2>7. CASE DeleteServed
    BY <1>1, <2>7 DEF DeleteServed, LeaveFollows, CallType, LeaveType
  <2>8. CASE DeleteFailed
    BY <1>1, <2>8 DEF DeleteFailed, Reoffer, LeaveFollows, CallType, LeaveType
  <2>9. QED
    BY <1>7, <2>1, <2>2, <2>3, <2>4, <2>5, <2>6, <2>7, <2>8, <2>10 DEF Parts
<1>8. QED  BY <1>2, <1>3, <1>4, <1>5, <1>6, <1>7, Groups

\* The LINE panel.  It is read once, before either button is offered; then one
\* of the two calls at a time is out, and its answer draws the panel anew.
LEMMA LineKept ==
    ASSUME TypeOK, NothingRemains, ReadsAreSent, LineFollows, [Next]_vars
    PROVE  LineFollows'
<1> USE DEF LineQuiet
<1>1. call \in CallType /\ line \in LineType /\ setups \in {0, 1}  BY Typed DEF PageType
<1>2. CASE LeavePage  BY <1>2, Leaving
<1>3. CASE Stays  BY <1>3, Staying DEF LineFollows, LineUnread
<1>4. CASE Loads
  <2>1. UNCHANGED <<line, call.start, call.unlink>>  BY <1>4, LoadsLeave
  <2>2. CASE Loaded /\ SetsUp
    <3>1. setups = 0 /\ setups' = 1 /\ call'.refresh = "sync"
      BY <1>1, <2>2 DEF Loaded, SetsUp, CallType
    <3>2. QED  BY <2>1, <3>1 DEF LineFollows, LineUnread
  <2>3. CASE ~(Loaded /\ SetsUp)
    <3>1. UNCHANGED <<setups, call.refresh>>
      BY <1>1, <1>4, <2>3, Opening DEF Loads, OpenPage, ReadProfile, ReadTerms, Loaded,
           LoadFailed, CallType
    <3>2. QED  BY <2>1, <3>1 DEF LineFollows, LineUnread
  <2>4. QED  BY <2>2, <2>3
<1>5. CASE Consents  BY <1>5, ConsentsLeave DEF LineFollows, LineUnread
<1>6. CASE Parts  BY <1>6, PartsLeave DEF LineFollows, LineUnread
<1>7. CASE Links
  <2>0. setups' = setups  BY <1>7, LinksLeave
  <2>1. CASE Refresh
    <3>1. /\ UNCHANGED <<line, call.start, call.unlink>>
          /\ call.refresh # "idle" /\ call'.refresh # "idle"
      BY <1>1, <2>1 DEF Refresh, CallType
    <3>2. QED  BY <2>0, <3>1 DEF LineFollows, LineUnread
  <2>2. CASE Refreshed
    <3>1. UNCHANGED <<call.start, call.unlink>> /\ call'.refresh = "idle"
      BY <1>1, <2>2 DEF Refreshed, CallType
    <3>2. LineQuiet /\ setups = 1
      BY <1>1, <2>2 DEF Refreshed, LineFollows, LineUnread
    <3>3. PICK s : line' = Render(s)  BY <2>2 DEF Refreshed
    <3>4. LineUnread'  BY <2>0, <3>1, <3>2 DEF LineUnread
    <3>5. call'.start = "idle" /\ call'.unlink = "idle"  BY <3>1, <3>2
    <3>6. QED  BY <3>1, <3>3, <3>4, <3>5 DEF LineFollows, Render
  <2>3. CASE StartLink
    <3>1. ~(setups = 0 \/ call.refresh # "idle")
      BY <2>3, RenderNone DEF StartLink, LineFollows, LineUnread
    <3>2. /\ UNCHANGED <<call.unlink, call.refresh>> /\ call'.start = "sent" /\ line'.startOff
          /\ UNCHANGED <<line.state, line.panel, line.confirmOff>>
      BY <1>1, <2>3 DEF StartLink, CallType, LineType
    <3>3. call.unlink = "idle"  BY <2>3 DEF StartLink
    <3>4. QED  BY <2>0, <3>1, <3>2, <3>3 DEF LineFollows, LineUnread
  <2>12. CASE LinkStarted
    <3>1. /\ UNCHANGED <<line, call.unlink, call.refresh>>
          /\ call.start = "sent" /\ call'.start = "leaving"
      BY <1>1, <2>12 DEF LinkStarted, CallType
    <3>2. ~(setups = 0 \/ call.refresh # "idle")  BY <3>1 DEF LineFollows, LineUnread
    <3>3. QED  BY <2>0, <3>1, <3>2 DEF LineFollows, LineUnread
  <2>4. CASE StartFailed
    <3>1. /\ UNCHANGED <<call.unlink, call.refresh>>
          /\ call.start = "sent" /\ call'.start = "idle" /\ call.unlink = "idle"
      BY <1>1, <2>4 DEF StartFailed, CallType, LineFollows
    <3>2. ~(setups = 0 \/ call.refresh # "idle")  BY <3>1 DEF LineFollows, LineUnread
    <3>3. PICK s : line' = Render(s)  BY <2>4 DEF StartFailed
    <3>4. LineUnread'  BY <2>0, <3>1, <3>2 DEF LineUnread
    <3>5. call'.unlink = "idle" /\ (setups' = 0 => call'.refresh = "idle")
      BY <2>0, <3>1, <3>2
    <3>6. QED  BY <3>1, <3>3, <3>4, <3>5 DEF LineFollows, Render
  <2>5. CASE UnlinkStart
    <3>1. ~(setups = 0 \/ call.refresh # "idle")
      BY <2>5, RenderNone DEF UnlinkStart, LineFollows, LineUnread
    <3>2. /\ UNCHANGED call /\ line'.panel /\ call.start = "idle" /\ call.unlink = "idle"
          /\ UNCHANGED <<line.state, line.confirmOff, line.startOff>>
      BY <1>1, <2>5 DEF UnlinkStart, LineType
    <3>3. line.state \in {"active", "blocked"}
      BY <1>1, <2>5, <3>2 DEF UnlinkStart, LineFollows, LineType, LinkStates
    <3>4. QED  BY <2>0, <3>1, <3>2, <3>3 DEF LineFollows, LineUnread
  <2>6. CASE UnlinkCancel
    <3>1. ~(setups = 0 \/ call.refresh # "idle")
      BY <2>6, RenderNone DEF UnlinkCancel, LineFollows, LineUnread
    <3>2. /\ UNCHANGED call /\ line'.panel = FALSE /\ line'.unlinkOff = FALSE /\ call.unlink = "idle"
          /\ UNCHANGED <<line.state, line.confirmOff, line.startOff>>
      BY <1>1, <2>6 DEF UnlinkCancel, LineType
    <3>3. line.state \in {"active", "blocked"}  BY <2>6 DEF UnlinkCancel, LineFollows
    <3>4. LineUnread'  BY <2>0, <3>1, <3>2 DEF LineUnread
    <3>5. (line.state \in {"none", "unlinked", "error"}) = FALSE  BY <3>3
    <3>6. line'.unlinkOff = (line'.state \in {"none", "unlinked", "error"})
      BY <3>2, <3>5
    <3>7. QED  BY <2>0, <3>1, <3>2, <3>4, <3>6 DEF LineFollows
  <2>7. CASE UnlinkConfirm
    <3>1. ~(setups = 0 \/ call.refresh # "idle")
      BY <2>7, RenderNone DEF UnlinkConfirm, LineFollows, LineUnread
    <3>2. /\ UNCHANGED <<call.start, call.refresh>> /\ call.start = "idle"
          /\ call'.unlink = "sent" /\ line'.confirmOff /\ line.panel
          /\ UNCHANGED <<line.state, line.panel, line.startOff, line.unlinkOff>>
      BY <1>1, <2>7 DEF UnlinkConfirm, CallType, LineType
    <3>3. QED  BY <2>0, <3>1, <3>2 DEF LineFollows, LineUnread
  <2>8. CASE UnlinkServed
    <3>1. /\ UNCHANGED <<line, call.start, call.refresh>>
          /\ call.unlink # "idle" /\ call'.unlink # "idle"
      BY <1>1, <2>8 DEF UnlinkServed, CallType
    <3>2. QED  BY <2>0, <3>1 DEF LineFollows, LineUnread
  <2>9. CASE UnlinkAnswered
    <3>1. /\ UNCHANGED <<call.start, call.refresh>>
          /\ call.unlink # "idle" /\ call'.unlink = "idle" /\ call.start = "idle"
      BY <1>1, <2>9 DEF UnlinkAnswered, CallType, LineFollows
    <3>2. ~(setups = 0 \/ call.refresh # "idle")  BY <3>1 DEF LineFollows, LineUnread
    <3>3. line' = Render("unlinked")  BY <2>9 DEF UnlinkAnswered
    <3>4. QED  BY <2>0, <3>1, <3>2, <3>3 DEF LineFollows, LineUnread, Render
  <2>10. CASE UnlinkFailed
    <3>1. /\ UNCHANGED <<call.start, call.refresh>>
          /\ call.unlink # "idle" /\ call'.unlink = "idle" /\ call.start = "idle"
      BY <1>1, <2>10 DEF UnlinkFailed, CallType, LineFollows
    <3>2. ~(setups = 0 \/ call.refresh # "idle")  BY <3>1 DEF LineFollows, LineUnread
    <3>3. /\ line'.confirmOff = FALSE /\ line.panel
          /\ UNCHANGED <<line.state, line.panel, line.startOff, line.unlinkOff>>
      BY <1>1, <2>10 DEF UnlinkFailed, LineFollows, LineType
    <3>4. QED  BY <2>0, <3>1, <3>2, <3>3 DEF LineFollows, LineUnread
  <2>11. QED
    BY <1>7, <2>1, <2>2, <2>3, <2>4, <2>5, <2>6, <2>7, <2>8, <2>9, <2>10, <2>12 DEF Links
<1>8. QED  BY <1>2, <1>3, <1>4, <1>5, <1>6, <1>7, Groups

\* An account that is gone stays gone, whoever acts on it.
LEMMA GoneStaysGone ==
    ASSUME membership = "deleted",
           \/ AcceptTerms \/ LockProfile \/ DeleteUser \/ SyncIdentity
           \/ UnlinkRow \/ NewTerms \/ LinkChanges
    PROVE  membership' = "deleted"
BY DEF AcceptTerms, LockProfile, DeleteUser, SyncIdentity, UnlinkRow, NewTerms, LinkChanges,
       Members

LEMMA GoneKept ==
    ASSUME TypeOK, NothingRemains, GoneIsGone, [Next]_vars
    PROVE  GoneIsGone'
<1>1. call \in CallType  BY Typed DEF PageType
<1>2. membership = "deleted" => membership' = "deleted"
  <2> SUFFICES ASSUME membership = "deleted" PROVE membership' = "deleted"  OBVIOUS
  <2>1. CASE LeavePage
    BY <2>1 DEF LeavePage, account
  <2>2. CASE Stays  BY <2>2, GoneStaysGone DEF Stays, Elsewhere, vars
  <2>3. CASE Loads  BY <2>3, LoadsLeave DEF account
  <2>4. CASE Consents
    BY <2>4, GoneStaysGone DEF Consents, CheckConsent, Accept, AcceptServed, AcceptAnswered,
         AcceptFailed, account
  <2>5. CASE Parts
    BY <2>5, GoneStaysGone DEF Parts, SignOut, SignedOut, SignOutFailed, DeleteStart, CheckDelete,
         DeleteCancel, DeleteConfirm, DeleteServed, DeleteAnswered, DeleteFailed, account
  <2>6. CASE Links
    BY <2>6, GoneStaysGone DEF Links, Refresh, Refreshed, StartLink, LinkStarted, StartFailed,
         UnlinkStart, UnlinkCancel, UnlinkConfirm, UnlinkServed, UnlinkAnswered,
         UnlinkFailed, account
  <2>7. QED  BY <2>1, <2>2, <2>3, <2>4, <2>5, <2>6, Groups
<1>4. CASE LeavePage  BY <1>4 DEF LeavePage, Quiet, GoneIsGone
<1>5. CASE Stays  BY <1>2, <1>5, Staying DEF GoneIsGone
<1>6. CASE Loads  BY <1>6, LoadsLeave DEF GoneIsGone, account
<1>7. CASE Consents  BY <1>2, <1>7, ConsentsLeave DEF GoneIsGone
<1>8. CASE Links  BY <1>2, <1>8, LinksLeave DEF GoneIsGone
<1>9. CASE Parts
  <2>1. call'.delete \in {"deleted", "leaving"} =>
            call.delete \in {"deleted", "leaving"} \/ membership' = "deleted"
    BY <1>1, <1>9 DEF Parts, SignOut, SignedOut, SignOutFailed, DeleteStart, CheckDelete,
         DeleteCancel, DeleteConfirm, DeleteServed, DeleteUser, DeleteAnswered, IsDeleted,
         DeleteFailed, CallType
  <2>2. QED  BY <1>2, <2>1 DEF GoneIsGone
<1>10. QED  BY <1>4, <1>5, <1>6, <1>7, <1>8, <1>9, Groups

-----------------------------------------------------------------------------
(* The promise                                                              *)

LEMMA IInvInit == Init => IInv
<1> SUFFICES ASSUME Init PROVE IInv  OBVIOUS
<1>1. TypeOK  BY InitType
<1>2. NothingRemains /\ ReadsAreSent /\ ConsentFollows /\ LeaveFollows /\ GoneIsGone
  BY DEF Init, Quiet, Unread, ConsentHidden, LeaveShut, NothingRemains, ReadsAreSent,
         ConsentFollows, LeaveFollows, GoneIsGone
<1>3. LineFollows
  BY DEF Init, Quiet, Render, LineFollows, LineUnread, LineQuiet
<1>4. QED  BY <1>1, <1>2, <1>3 DEF IInv

LEMMA IInvKept == IInv /\ [Next]_vars => IInv'
BY TypeKept, NothingRemainsKept, ReadsAreSentKept, ConsentKept, LeaveKept, LineKept, GoneKept
   DEF IInv

\* What follows what leaves nothing shut for no reason.
LEMMA IInvSuffices == IInv => ShutForAReason
<1> SUFFICES ASSUME IInv PROVE ShutForAReason  OBVIOUS
<1>1. leave \in LeaveType /\ line \in LineType  BY Typed DEF IInv, PageType
<1>2. CanLeave  BY <1>1 DEF IInv, LeaveFollows, CanLeave, LeaveType
<1>3. CanConsent  BY DEF IInv, ConsentFollows, CanConsent
<1>4. CanLink
  BY <1>1 DEF IInv, LineFollows, CanLink, LineQuiet, LineType
<1>5. LineDead  BY DEF IInv, LineFollows, LineDead
<1>6. call.delete = "leaving" => membership = "deleted"  BY DEF IInv, GoneIsGone
<1>7. QED  BY <1>2, <1>3, <1>4, <1>5, <1>6 DEF ShutForAReason

\* Whatever failed, was lost or was done elsewhere, the account page keeps a
\* button shut for a call that is still out or because it sent the browser away,
\* and for nothing else; the LINE panel of a page sent to LINE is dead for good;
\* and a deletion the page reports is true.
THEOREM PageReopens == Spec => []ShutForAReason
BY IInvInit, IInvKept, IInvSuffices, PTL DEF Spec

=============================================================================
