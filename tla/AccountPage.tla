---------------------------- MODULE AccountPage ----------------------------
(***************************************************************************)
(* The account page (account/index.html) of one member: consent to the     *)
(* terms, signing out, the LINE panel and leaving for good, with the       *)
(* database functions and Edge Functions its buttons call.                 *)
(*                                                                         *)
(* Every call may fail or lose its answer.  A call whose answer is lost    *)
(* goes on, and the member may have other pages: whatever either may do to *)
(* the account is Elsewhere, at any time.                                  *)
(*                                                                         *)
(* Three answers send the browser to another page.  The page stays as they *)
(* left it until it goes, and for good if it does not: the member stops    *)
(* the loading, or comes back to it out of the browser's cache.  The form  *)
(* for a second address, which touches none of this, is left out.          *)
(***************************************************************************)
EXTENDS Naturals

VARIABLES
    membership,      \* profiles.membership_status, or that the account is gone
    accepted,        \* whether the current terms are accepted
    link,            \* line_account_links
    view,            \* whether the page is open
    call,            \* what each kind of call of the page is up to
    got,             \* what a load has read so far
    consent,         \* the consent panel
    leave,           \* the panel for leaving, the button for signing out
    line,            \* the LINE panel
    setups           \* times the LINE panel was set up on this page

vars == <<membership, accepted, link, view, call, got, consent, leave, line, setups>>
account == <<membership, accepted, link>>

Members == {"pending_terms", "active", "suspended"}
Memberships == Members \cup {"withdrawal_pending", "deleted"}
LinkStates == {"none", "unlinked", "active", "blocked"}

Quiet == [load |-> "idle", accept |-> "idle", signOut |-> "idle", delete |-> "idle",
          refresh |-> "idle", start |-> "idle", unlink |-> "idle"]
Unread == [profile |-> "unread", terms |-> "unread"]
ConsentHidden == [shown |-> FALSE, checked |-> FALSE, off |-> TRUE]
LeaveShut == [panel |-> FALSE, checked |-> FALSE, startOff |-> FALSE,
              confirmOff |-> TRUE, cancelOff |-> FALSE, logoutOff |-> FALSE]
Render(state) ==
    [state |-> state, panel |-> FALSE, confirmOff |-> FALSE,
     startOff |-> state \in {"none", "active", "error"},
     unlinkOff |-> state \in {"none", "unlinked", "error"}]

\* The LINE panel is set up once, so that one press makes one call.
TypeOK ==
    /\ membership \in Memberships /\ accepted \in BOOLEAN /\ link \in LinkStates
    /\ view \in {"open", "left"}
    /\ call \in [load : {"idle", "sent"}, accept : {"idle", "sent", "done", "load", "setup"},
                 signOut : {"idle", "sent", "leaving"},
                 delete : {"idle", "sent", "known", "locked", "deleted", "failed", "leaving"},
                 refresh : {"idle", "sync", "read"}, start : {"idle", "sent", "leaving"},
                 unlink : {"idle", "sent", "done"}]
    /\ got \in [profile : Members \cup {"unread"}, terms : {"unread", "old", "current"}]
    /\ consent \in [shown : BOOLEAN, checked : BOOLEAN, off : BOOLEAN]
    /\ leave \in [panel : BOOLEAN, checked : BOOLEAN, startOff : BOOLEAN,
                  confirmOff : BOOLEAN, cancelOff : BOOLEAN, logoutOff : BOOLEAN]
    /\ line \in [state : LinkStates \cup {"error"}, panel : BOOLEAN, confirmOff : BOOLEAN,
                 startOff : BOOLEAN, unlinkOff : BOOLEAN]
    /\ setups \in {0, 1}

Init ==
    /\ membership \in Members /\ accepted \in BOOLEAN /\ link \in LinkStates
    /\ membership = "pending_terms" => ~accepted
    /\ view = "left" /\ call = Quiet /\ got = Unread /\ consent = ConsentHidden
    /\ leave = LeaveShut /\ line = Render("none") /\ setups = 0

-----------------------------------------------------------------------------
(* What the database does.                                                  *)

\* accept_current_terms, under the profile's lock.
AcceptTerms ==
    /\ membership \in Members
    /\ accepted' = TRUE
    /\ membership' = IF membership = "pending_terms" THEN "active" ELSE membership
    /\ UNCHANGED link

\* The first step of leaving; no other change undoes it.
LockProfile ==
    /\ membership # "deleted" /\ membership' = "withdrawal_pending"
    /\ UNCHANGED <<accepted, link>>

\* auth.admin.deleteUser; the member's rows go with it.
DeleteUser ==
    /\ membership # "deleted" /\ membership' = "deleted"
    /\ accepted' = FALSE /\ link' = "none"

\* sync_my_line_auth_identity: a member who came by LINE and has no row is linked.
SyncIdentity ==
    /\ membership = "active"
    /\ link' \in IF link = "none" THEN {"none", "active"} ELSE {link}
    /\ UNCHANGED <<membership, accepted>>

\* unlink_line_account
UnlinkRow ==
    /\ membership = "active"
    /\ link' = IF link = "none" THEN "none" ELSE "unlinked"
    /\ UNCHANGED <<membership, accepted>>

\* A migration brings new terms; a consent committed meanwhile leaves a member
\* active who has accepted the old ones only.
NewTerms ==
    /\ accepted /\ accepted' = FALSE
    /\ membership' \in {membership, IF membership = "active" THEN "pending_terms" ELSE membership}
    /\ UNCHANGED link

\* A callback of LINE, or an event about the friendship.
LinkChanges ==
    /\ membership = "active" \/ (link \in {"active", "blocked"} /\ membership # "deleted")
    /\ link' \in {"active", "blocked"}
    /\ UNCHANGED <<membership, accepted>>

Elsewhere ==
    /\ \/ AcceptTerms \/ LockProfile \/ SyncIdentity \/ UnlinkRow \/ NewTerms \/ LinkChanges
       \/ membership = "withdrawal_pending" /\ DeleteUser
    /\ UNCHANGED <<view, call, got, consent, leave, line, setups>>

-----------------------------------------------------------------------------
(* Opening the page, and what it knows of the member.                       *)

\* setupAccount with a session: both ways out are offered before anything is
\* known of the member, who may be locked already.
OpenPage ==
    /\ view # "open" /\ view' = "open"
    /\ call' = [Quiet EXCEPT !.load = "sent"]
    /\ UNCHANGED <<account, got, consent, leave, line, setups>>

\* The member goes elsewhere, or the browser where it was sent; nothing of the
\* page remains.
LeavePage ==
    /\ view = "open" /\ view' = "left"
    /\ call' = Quiet /\ got' = Unread /\ consent' = ConsentHidden
    /\ leave' = LeaveShut /\ line' = Render("none") /\ setups' = 0
    /\ UNCHANGED account

\* loadAccountData asks for three things at once, which need not be of one
\* moment.  A locked member's profile is not there, their acceptances are none.
ReadProfile ==
    /\ call.load = "sent" /\ got.profile = "unread" /\ membership \in Members
    /\ got' = [got EXCEPT !.profile = membership]
    /\ UNCHANGED <<account, view, call, consent, leave, line, setups>>

ReadTerms ==
    /\ call.load = "sent" /\ got.terms = "unread"
    /\ got' = [got EXCEPT !.terms = IF accepted /\ membership \in Members THEN "current" ELSE "old"]
    /\ UNCHANGED <<account, view, call, consent, leave, line, setups>>

\* setupLineAccountLink: the flag is set before the panel has read anything.
SetsUpUntilRead == got.profile = "active" /\ (setups = 0 \/ call.refresh # "idle")
SetsUp == got.profile = "active" /\ setups = 0

Loaded ==
    /\ got.profile # "unread" /\ got.terms # "unread"
    /\ consent' = [ConsentHidden EXCEPT
          !.shown = got.profile = "pending_terms" \/ got.terms = "old"]
    /\ call' = [call EXCEPT !.load = "idle",
                            !.refresh = IF SetsUp THEN "sync" ELSE @,
                            !.accept = IF @ = "idle" THEN "idle"
                                       ELSE IF SetsUp THEN "setup" ELSE "idle"]
    /\ setups' = IF SetsUp THEN setups + 1 ELSE setups
    /\ got' = Unread
    /\ UNCHANGED <<account, view, leave, line>>

\* One of the three failed: the consent panel stays hidden.
LoadFailed ==
    /\ call.load = "sent"
    /\ call' = [call EXCEPT !.load = "idle", !.accept = "idle"] /\ got' = Unread
    /\ UNCHANGED <<account, view, consent, leave, line, setups>>

-----------------------------------------------------------------------------
(* Consent.                                                                 *)

CheckConsent ==
    /\ consent.shown
    /\ consent' = [consent EXCEPT !.checked = ~@, !.off = consent.checked]
    /\ UNCHANGED <<account, view, call, got, leave, line, setups>>

Accept ==
    /\ consent.shown /\ ~consent.off /\ consent.checked /\ call.accept = "idle"
    /\ call' = [call EXCEPT !.accept = "sent"] /\ consent' = [consent EXCEPT !.off = TRUE]
    /\ UNCHANGED <<account, view, got, leave, line, setups>>

AcceptServed ==
    /\ call.accept = "sent" /\ AcceptTerms
    /\ call' = [call EXCEPT !.accept = "done"]
    /\ UNCHANGED <<view, got, consent, leave, line, setups>>

\* What is known of the member is read again.
AcceptAnswered ==
    /\ call.accept = "done"
    /\ call' = [call EXCEPT !.accept = "load", !.load = "sent"]
    /\ consent' = [consent EXCEPT !.shown = FALSE]
    /\ UNCHANGED <<account, view, got, leave, line, setups>>

AcceptFailed ==
    /\ call.accept \in {"sent", "done"}
    /\ call' = [call EXCEPT !.accept = "idle"]
    /\ consent' = [consent EXCEPT !.off = ~consent.checked]
    /\ UNCHANGED <<account, view, got, leave, line, setups>>

-----------------------------------------------------------------------------
(* Signing out.                                                             *)

SignOut ==
    /\ view = "open" /\ ~leave.logoutOff /\ call.signOut = "idle"
    /\ call' = [call EXCEPT !.signOut = "sent"] /\ leave' = [leave EXCEPT !.logoutOff = TRUE]
    /\ UNCHANGED <<account, view, got, consent, line, setups>>

\* The browser is sent to the login page; the button stays off.  What is pressed
\* after it is no longer the member's and fails; here it may also be served.
SignedOut ==
    /\ call.signOut = "sent"
    /\ call' = [call EXCEPT !.signOut = "leaving"]
    /\ UNCHANGED <<account, view, got, consent, leave, line, setups>>

SignOutFailed ==
    /\ call.signOut = "sent"
    /\ call' = [call EXCEPT !.signOut = "idle"] /\ leave' = [leave EXCEPT !.logoutOff = FALSE]
    /\ UNCHANGED <<account, view, got, consent, line, setups>>

-----------------------------------------------------------------------------
(* Leaving for good.                                                        *)

DeleteStart ==
    /\ view = "open" /\ ~leave.startOff /\ call.delete = "idle"
    /\ leave' = [leave EXCEPT !.panel = TRUE, !.startOff = TRUE,
                              !.checked = FALSE, !.confirmOff = TRUE]
    /\ UNCHANGED <<account, view, call, got, consent, line, setups>>

CheckDelete ==
    /\ leave.panel
    /\ leave' = [leave EXCEPT !.checked = ~@,
                              !.confirmOff = call.delete # "idle" \/ leave.checked]
    /\ UNCHANGED <<account, view, call, got, consent, line, setups>>

DeleteCancel ==
    /\ leave.panel /\ ~leave.cancelOff /\ call.delete = "idle"
    /\ leave' = [leave EXCEPT !.panel = FALSE, !.checked = FALSE,
                              !.confirmOff = TRUE, !.startOff = FALSE]
    /\ UNCHANGED <<account, view, call, got, consent, line, setups>>

DeleteConfirm ==
    /\ leave.panel /\ ~leave.confirmOff /\ leave.checked /\ call.delete = "idle"
    /\ call' = [call EXCEPT !.delete = "sent"]
    /\ leave' = [leave EXCEPT !.logoutOff = TRUE, !.confirmOff = TRUE, !.cancelOff = TRUE]
    /\ UNCHANGED <<account, view, got, consent, line, setups>>

\* delete-account: the request's checks, who it is from, the lock, the deletion.
\* Each may fail, and the answer says which.
DeleteServed ==
    /\ \/ /\ call.delete = "sent" /\ membership # "deleted"
          /\ call' = [call EXCEPT !.delete = "known"] /\ UNCHANGED account
       \/ /\ call.delete = "known" /\ LockProfile
          /\ call' = [call EXCEPT !.delete = "locked"]
       \/ /\ call.delete = "locked" /\ DeleteUser
          /\ call' = [call EXCEPT !.delete = "deleted"]
       \/ /\ call.delete \in {"sent", "known", "locked"}
          /\ call' = [call EXCEPT !.delete = "failed"] /\ UNCHANGED account
    /\ UNCHANGED <<view, got, consent, leave, line, setups>>

\* Only 204 is a success; the session goes, or is worth nothing any more.
IsLocked == call.delete \in {"locked", "deleted"}
IsDeleted == call.delete = "deleted"

\* The browser is sent to the login page; every way out stays shut.
DeleteAnswered ==
    /\ IsDeleted
    /\ call' = [call EXCEPT !.delete = "leaving"]
    /\ UNCHANGED <<account, view, got, consent, leave, line, setups>>

ReofferConfirm == [leave EXCEPT !.logoutOff = FALSE, !.confirmOff = ~leave.checked]
Reoffer == [leave EXCEPT !.logoutOff = FALSE, !.cancelOff = FALSE,
                         !.confirmOff = ~leave.checked]

DeleteFailed ==
    /\ call.delete \notin {"idle", "leaving"}
    /\ call' = [call EXCEPT !.delete = "idle"] /\ leave' = Reoffer
    /\ UNCHANGED <<account, view, got, consent, line, setups>>

-----------------------------------------------------------------------------
(* The LINE panel.                                                          *)

Refresh ==
    /\ call.refresh = "sync" /\ SyncIdentity
    /\ call' = [call EXCEPT !.refresh = "read"]
    /\ UNCHANGED <<view, got, consent, leave, line, setups>>

Refreshed ==
    /\ call.refresh # "idle"
    /\ \/ /\ call.refresh = "read" /\ membership = "active"
          /\ line' = Render(IF link = "none" THEN "unlinked" ELSE link)
       \/ line' = Render("error")
    /\ call' = [call EXCEPT !.refresh = "idle", !.accept = IF @ = "setup" THEN "idle" ELSE @]
    /\ UNCHANGED <<account, view, got, consent, leave, setups>>

LineQuiet == call.start = "idle" /\ call.unlink = "idle"

StartLink ==
    /\ ~line.startOff /\ LineQuiet /\ line.state # "error"
    /\ call' = [call EXCEPT !.start = "sent"]
    /\ line' = [line EXCEPT !.startOff = TRUE, !.unlinkOff = TRUE]
    /\ UNCHANGED <<account, view, got, consent, leave, setups>>

\* The browser is sent to LINE.  "starting" stays set, both buttons stay off,
\* and nothing on the page resets them.
LinkStarted ==
    /\ call.start = "sent"
    /\ call' = [call EXCEPT !.start = "leaving"]
    /\ UNCHANGED <<account, view, got, consent, leave, line, setups>>

StartFailed ==
    /\ call.start = "sent"
    /\ call' = [call EXCEPT !.start = "idle"] /\ line' = Render(line.state)
    /\ UNCHANGED <<account, view, got, consent, leave, setups>>

UnlinkStart ==
    /\ ~line.unlinkOff /\ LineQuiet
    /\ line' = [line EXCEPT !.panel = TRUE, !.unlinkOff = TRUE]
    /\ UNCHANGED <<account, view, call, got, consent, leave, setups>>

UnlinkCancel ==
    /\ line.panel /\ ~line.confirmOff /\ call.unlink = "idle"
    /\ line' = [line EXCEPT !.panel = FALSE, !.unlinkOff = FALSE]
    /\ UNCHANGED <<account, view, call, got, consent, leave, setups>>

UnlinkConfirm ==
    /\ line.panel /\ ~line.confirmOff /\ LineQuiet
    /\ call' = [call EXCEPT !.unlink = "sent"] /\ line' = [line EXCEPT !.confirmOff = TRUE]
    /\ UNCHANGED <<account, view, got, consent, leave, setups>>

UnlinkServed ==
    /\ call.unlink = "sent" /\ UnlinkRow
    /\ call' = [call EXCEPT !.unlink = "done"]
    /\ UNCHANGED <<view, got, consent, leave, line, setups>>

UnlinkAnswered ==
    /\ call.unlink = "done"
    /\ call' = [call EXCEPT !.unlink = "idle"] /\ line' = Render("unlinked")
    /\ UNCHANGED <<account, view, got, consent, leave, setups>>

UnlinkFailed ==
    /\ call.unlink # "idle"
    /\ call' = [call EXCEPT !.unlink = "idle"] /\ line' = [line EXCEPT !.confirmOff = FALSE]
    /\ UNCHANGED <<account, view, got, consent, leave, setups>>

-----------------------------------------------------------------------------

Next ==
    \/ Elsewhere \/ OpenPage \/ LeavePage
    \/ ReadProfile \/ ReadTerms \/ Loaded \/ LoadFailed
    \/ CheckConsent \/ Accept \/ AcceptServed \/ AcceptAnswered \/ AcceptFailed
    \/ SignOut \/ SignedOut \/ SignOutFailed
    \/ DeleteStart \/ CheckDelete \/ DeleteCancel \/ DeleteConfirm \/ DeleteServed
    \/ DeleteAnswered \/ DeleteFailed
    \/ Refresh \/ Refreshed \/ StartLink \/ LinkStarted \/ StartFailed
    \/ UnlinkStart \/ UnlinkCancel \/ UnlinkConfirm \/ UnlinkServed
    \/ UnlinkAnswered \/ UnlinkFailed

Spec == Init /\ [][Next]_vars

-----------------------------------------------------------------------------
(* What the page promises.                                                  *)

\* However many buttons were pressed and calls failed, in whichever order: what
\* an open page shows of leaving and of the terms is offered again as soon as it
\* waits for no answer, leaving above all, so that a member whose deletion
\* stopped half-way can ask once more.
CanLeave ==
    view = "open" /\ call.delete = "idle" =>
        /\ call.signOut = "idle" => ~leave.logoutOff
        /\ IF leave.panel THEN ~leave.cancelOff /\ leave.confirmOff = ~leave.checked
           ELSE ~leave.startOff

CanConsent == consent.shown /\ call.accept = "idle" => consent.off = ~consent.checked

\* The LINE panel has a dead end.  It offers again what its state asks for after
\* every answer but the one that sends the browser to LINE: a page that is still
\* there offers no link, and a press of what it does show does nothing, until it
\* is loaded again.
CanLink ==
    LineQuiet /\ line.state \in {"unlinked", "active", "blocked"} =>
        /\ line.state # "active" => ~line.startOff
        /\ line.state # "unlinked" =>
              IF line.panel THEN ~line.confirmOff ELSE ~line.unlinkOff

LineDead == call.start = "leaving" => line.startOff /\ call.unlink = "idle"

\* A button is shut for a call that is still out, or because the page sent the
\* browser away, and for nothing else.  And a page that sends a deleted member
\* away is right: the account is gone, and nothing another page or a late call
\* does brings it back.
ShutForAReason ==
    /\ CanLeave /\ CanConsent /\ CanLink /\ LineDead
    /\ call.delete = "leaving" => membership = "deleted"

=============================================================================
