----------------------------- MODULE TeamPage -----------------------------
(***************************************************************************)
(* The members of the organisation                                         *)
(* (server/dashboard/src/pages/Team/TeamPage.tsx with api/members.ts) and  *)
(* the handlers of the fleet API that keep them as Keycloak users          *)
(* (server/api/fleet/main.go).  A member is listed with a role.  The       *)
(* dialogs also choose devices and send them, but the handlers do not      *)
(* decode device_ids and list a member without any, so the choice, which   *)
(* changes nothing, is left out.  A dialog's overlay covers the page       *)
(* (components/Modal/Modal.tsx), so the buttons of the rows can be used    *)
(* while no dialog is open.                                                *)
(***************************************************************************)
EXTENDS PageTasks

CONSTANTS
    Members,
    FirstAccess     \* the members there are to begin with

VARIABLE access     \* Keycloak's users of the organisation: the role of each, or ""

MemberRoles == {"viewer", "operator", "admin"}
InvitedRoles == {"viewer", "operator"}   \* those the invite dialog offers

TeamInit == access = FirstAccess

FreshTeam(inst) ==
    [kind |-> "team", inst |-> inst, loading |-> TRUE, members |-> <<>>,
     showInvite |-> FALSE, invEmail |-> None, invRole |-> "viewer", inviting |-> FALSE,
     editMember |-> None, editRole |-> "", saving |-> FALSE]

TeamShown == page.kind = "team" /\ ~page.loading
NoDialog == ~page.showInvite /\ page.editMember = None

\* A handler that only sets state.
Sets(p) == page' = p /\ UNCHANGED <<claims, taskVars, lagging, access>>
-----------------------------------------------------------------------------
(* The invite dialog.  Closing it keeps what was filled in.                *)

ShowInvite == TeamShown /\ NoDialog /\ Sets([page EXCEPT !.showInvite = TRUE])
HideInvite == TeamShown /\ page.showInvite /\ Sets([page EXCEPT !.showInvite = FALSE])
TypeEmail(m) ==
    TeamShown /\ page.showInvite /\ page.invEmail # m /\ Sets([page EXCEPT !.invEmail = m])
ChooseInvRole(r) ==
    TeamShown /\ page.showInvite /\ page.invRole # r /\ Sets([page EXCEPT !.invRole = r])

handleInvite ==
    /\ TeamShown /\ page.showInvite
    /\ ~page.inviting /\ page.invEmail # None
    /\ page' = [page EXCEPT !.inviting = TRUE]
    /\ Start("invite", [id |-> page.invEmail, role |-> page.invRole], "write")
    /\ UNCHANGED <<claims, lagging, access>>
-----------------------------------------------------------------------------
(* The edit dialog and removal                                             *)

openEdit(m) ==
    /\ TeamShown /\ NoDialog /\ m \in DOMAIN page.members
    /\ Sets([page EXCEPT !.editMember = m, !.editRole = page.members[m]])
HideEdit == TeamShown /\ page.editMember # None /\ Sets([page EXCEPT !.editMember = None])
ChooseEditRole(r) ==
    TeamShown /\ page.editMember # None /\ page.editRole # r /\ Sets([page EXCEPT !.editRole = r])

handleSaveEdit ==
    /\ TeamShown /\ page.editMember # None
    /\ ~page.saving
    /\ page' = [page EXCEPT !.saving = TRUE]
    /\ Start("save", [id |-> page.editMember, role |-> page.editRole], "write")
    /\ UNCHANGED <<claims, lagging, access>>

\* Confirmed, and not guarded against a second click.
handleRemove(m) ==
    /\ TeamShown /\ NoDialog /\ m \in DOMAIN page.members
    /\ Start("remove", [id |-> m, role |-> ""], "write")
    /\ UNCHANGED <<page, claims, lagging, access>>
-----------------------------------------------------------------------------
(* Requests                                                                *)

\* Keycloak creates a user once; one that is there is changed or deleted, and
\* a role to change to is required.
Acceptable(t) ==
    /\ t.what = "invite" <=> t.arg.id \notin DOMAIN access
    /\ t.what = "save" => t.arg.role # ""

\* What the handlers for an invitation, for access and for removal do.
TeamApplies(t) ==
    access' = IF t.what = "remove"
              THEN Restrict(access, DOMAIN access \ {t.arg.id})
              ELSE With(access, t.arg.id, t.arg.role)

TeamServes(t) ==
    /\ t.kind = "team"
    /\ \/ /\ t.step = "write" /\ Acceptable(t)
          /\ TeamApplies(t)
          /\ \E res \in {"ok", "failed"} :
                /\ Answered(t, res, None)
                /\ lagging' = (lagging \/ (res = "failed" /\ Mine(t)))
       \/ /\ t.step = "write" /\ ~Acceptable(t)
          /\ Refused(t)
          /\ UNCHANGED access
       \/ /\ t.step = "list"
          /\ Answered(t, "ok", [list |-> access])
          /\ UNCHANGED <<access, lagging>>
       \/ /\ t.step = "more"
          /\ Answered(t, "ok", None)
          /\ UNCHANGED <<access, lagging>>

\* The finally block of the handler that t is.
HandlerFinally(p, t) ==
    [p EXCEPT !.inviting = @ /\ t.what # "invite",
              !.saving = @ /\ t.what # "save"]

\* What a write that succeeded does to the dialogs, whatever they show by now.
AfterWrite(p, t) ==
    [p EXCEPT !.showInvite = @ /\ t.what # "invite",
              !.invEmail = IF t.what = "invite" THEN None ELSE @,
              !.invRole = IF t.what = "invite" THEN "viewer" ELSE @,
              !.editMember = IF t.what = "save" THEN None ELSE @]

\* Mutant: the handler is over when the write is; the list is not loaded again.
TeamWritten_NoReload(t) ==
    /\ page' = IF Mine(t) THEN HandlerFinally(AfterWrite(page, t), t) ELSE page
    /\ Ends(t)
    /\ UNCHANGED lagging

\* Mutant: the buttons are enabled again before the list is loaded.
TeamWritten_EarlyReset(t) ==
    /\ page' = IF Mine(t) THEN HandlerFinally(AfterWrite(page, t), t) ELSE page
    /\ GoesOn(t, "list", None)
    /\ lagging' = (lagging \/ (Mine(t) /\ Overlaps(t)))

\* The answer of a write: the dialog closes and the list is loaded again, or
\* the error is swallowed.
TeamWritten(t) ==
    \/ /\ t.res = "ok"
       /\ page' = IF Mine(t) THEN AfterWrite(page, t) ELSE page
       /\ GoesOn(t, "list", None)
       /\ lagging' = (lagging \/ (Mine(t) /\ Overlaps(t)))
    \/ /\ t.res = "failed"
       /\ page' = IF Mine(t) THEN HandlerFinally(page, t) ELSE page
       /\ Ends(t)
       /\ UNCHANGED lagging

\* Mutant: without the finally, a load that fails leaves the spinner.
TeamLoaded_NoFinally(p, t) ==
    [HandlerFinally(p, t) EXCEPT !.loading = @ /\ t.res = "failed"]

\* The end of loadAll and of the handler that awaited it.
TeamLoaded(p, t) == [HandlerFinally(p, t) EXCEPT !.loading = FALSE]

\* loadAll: the members, then the devices of the projects (for the dialogs'
\* choice; a list that fails is empty); an error ends it silently.
TeamListed(t) ==
    \/ /\ t.res = "ok"
       /\ page' = IF Mine(t) THEN [page EXCEPT !.members = t.got.list] ELSE page
       /\ GoesOn(t, "more", None)
    \/ /\ t.res = "failed"
       /\ page' = IF Mine(t) THEN TeamLoaded(page, t) ELSE page
       /\ Ends(t)

TeamDevices(t) ==
    /\ page' = IF Mine(t) THEN TeamLoaded(page, t) ELSE page
    /\ Ends(t)

TeamContinues(t) ==
    /\ t.kind = "team" /\ t.res # "none"
    /\ \/ t.step = "write" /\ TeamWritten(t)
       \/ t.step = "list" /\ TeamListed(t) /\ UNCHANGED lagging
       \/ t.step = "more" /\ TeamDevices(t) /\ UNCHANGED lagging
    /\ UNCHANGED <<claims, access>>

\* Everything on the page that can be clicked or filled in.
TeamClicks ==
    \/ ShowInvite \/ HideInvite \/ handleInvite
    \/ HideEdit \/ handleSaveEdit
    \/ \E m \in Members : TypeEmail(m) \/ openEdit(m) \/ handleRemove(m)
    \/ \E r \in InvitedRoles : ChooseInvRole(r)
    \/ \E r \in MemberRoles : ChooseEditRole(r)
=============================================================================
