---------------------------- MODULE ConsolePages ----------------------------
(***************************************************************************)
(* The list pages of the dashboard together, as App.tsx routes to them: an *)
(* operator goes from one to the other while handlers of the page before   *)
(* are still under way, and the claims change under a page.                *)
(***************************************************************************)
EXTENDS HomePage, TeamPage, ApiKeysPage

vars == <<page, claims, taskVars, lagging, fleet, access, keyVars>>

Init == TasksInit /\ HomeInit /\ TeamInit /\ KeysInit

Fresh(kind, inst) ==
    CASE kind = "home" -> FreshHome(inst)
      [] kind = "team" -> FreshTeam(inst)
      [] kind = "keys" -> FreshKeys(inst)

\* The route of a page is entered; AdminGuard lets admins to two of them.
Enter(kind) ==
    /\ page.kind = "none"
    /\ kind \in {"team", "keys"} => claims.admin
    /\ UNCHANGED claims
    /\ Mount(Fresh(kind, page.inst + 1))
    /\ UNCHANGED <<fleet, access, keyVars>>

Exit == Leave /\ UNCHANGED <<fleet, access, keyVars>>

\* A renewal brings other claims (AuthSession); a page for admins gives way to
\* the projects, the others stay mounted, and nothing is loaded again: a list cut
\* down for somebody who becomes an admin stays cut down.
ClaimsChange(c) ==
    /\ c # claims
    /\ claims' = c
    /\ IF page.kind \in {"team", "keys"} /\ ~c.admin
       THEN Mount(FreshHome(page.inst + 1))
       ELSE /\ page' = IF page.kind = "home" THEN [page EXCEPT !.claimsChanged = TRUE] ELSE page
            /\ lagging' = (lagging \/ (page.kind = "home" /\ c.admin /\ ~claims.admin))
            /\ UNCHANGED taskVars
    /\ UNCHANGED <<fleet, access, keyVars>>

Clicks ==
    \/ HomeClicks /\ UNCHANGED <<access, keyVars>>
    \/ TeamClicks /\ UNCHANGED <<fleet, keyVars>>
    \/ KeysClicks /\ UNCHANGED <<fleet, access>>

\* Requests end and handlers go on.
Serves(t) ==
    \/ HomeServes(t) /\ UNCHANGED <<access, keyVars>>
    \/ TeamServes(t) /\ UNCHANGED <<fleet, keyVars>>
    \/ KeysServes(t) /\ UNCHANGED <<fleet, access>>
    \/ Fails(t) /\ UNCHANGED <<fleet, access, keyVars>>
Continues(t) ==
    \/ HomeContinues(t) /\ UNCHANGED <<access, keyVars>>
    \/ TeamContinues(t) /\ UNCHANGED <<fleet, keyVars>>
    \/ KeysContinues(t) /\ UNCHANGED <<fleet, access>>

Next ==
    \/ \E kind \in {"home", "team", "keys"} : Enter(kind)
    \/ Exit
    \/ \E c \in LaterClaims : ClaimsChange(c)
    \/ Clicks
    \/ \E n \in DOMAIN tasks : Serves(tasks[n]) \/ Continues(tasks[n])

Spec == Init /\ [][Next]_vars

\* Every request ends (ky's timeout), and the browser runs what awaits it.
FairSpec == Spec /\ WF_vars(\E n \in DOMAIN tasks : Serves(tasks[n]) \/ Continues(tasks[n]))
-----------------------------------------------------------------------------
(* Properties                                                              *)

\* The page's list shows what the server has: the projects, the members with
\* their roles, the keys that are not revoked.
ListIsCurrent ==
    CASE page.kind = "home" -> claims.admin => page.projects = fleet
      [] page.kind = "team" -> page.members = access
      [] page.kind = "keys" -> page.keys = ActiveKeys
      [] OTHER -> TRUE

\* When a page rests, its list shows the projects created, the roles given and
\* the keys created or revoked by this operator, whatever the order of writes,
\* reloads and visits, unless a reload failed, an answer was lost, two reloads
\* overlapped (the later answer wins, not the later request), a write of an
\* earlier visit was still under way, or the operator became an admin on the
\* page of the projects.
ListShowsOwnWrites ==
    (\A n \in DOMAIN tasks : ~Mine(tasks[n])) /\ ~lagging => ListIsCurrent

\* TeamPage's buttons are disabled exactly while a handler of theirs runs, the
\* reload it awaits included, so there is one invitation, and one save, at a
\* time (inviting and saving in TeamPage.tsx).
BusyWhileWriting ==
    page.kind = "team" =>
        \A b \in {<<"invite", page.inviting>>, <<"save", page.saving>>} :
            Cardinality({n \in DOMAIN tasks : Mine(tasks[n]) /\ tasks[n].what = b[1]})
                = IF b[2] THEN 1 ELSE 0

\* A key that was created has been on the screen, which is the one time it can
\* be: also when its dialog was closed, or another one opened, before the
\* answer came.  What remains are answers that were lost or came to a page the
\* operator had left (CreateKeyModal and onCreated in ApiKeysPage.tsx).
KeyRevealed ==
    \A k \in DOMAIN keyring :
        \/ k \in shown \cup unseen
        \/ \E n \in DOMAIN tasks : tasks[n].what = "create" /\ tasks[n].got = [key |-> k]

\* Somebody who is not an admin sees the projects of their vehicles and no
\* other, unless the claims changed under the page: load() asks isAdmin() when
\* it ends and keeps the vehicle_set it began with (HomePage.tsx).
UnentitledOnlyAfterClaimsChange ==
    page.kind = "home" /\ ~claims.admin /\ ~page.claimsChanged =>
        \A p \in page.projects : DevicesOf[p] \cap claims.vehicles # {}

\* A spinner ends, however the first load ends.
Spinning == page.kind # "none" /\ page.loading
LoadsEnd == Spinning ~> ~Spinning
=============================================================================
