----------------------------- MODULE HomePage -----------------------------
(***************************************************************************)
(* The projects (server/dashboard/src/pages/Home/HomePage.tsx with         *)
(* api/fleet.ts) and the fleet API's handlers for them                     *)
(* (server/api/fleet/main.go): the list, cut down to what the operator may *)
(* see, and the dialog that creates a project.  A name is taken to be      *)
(* filled in, which handleCreate requires.                                 *)
(***************************************************************************)
EXTENDS PageTasks

CONSTANTS
    Projects,
    DevicesOf,      \* the devices of each project
    FirstProjects   \* the projects there are to begin with

ASSUME HomeAssumption ==
    /\ DevicesOf \in [Projects -> SUBSET Devices]
    /\ FirstProjects \subseteq Projects

VARIABLE fleet      \* the fleet API's projects

HomeInit == fleet = FirstProjects

\* claimsChanged is history: the claims are not those the page was mounted with.
FreshHome(inst) ==
    [kind |-> "home", inst |-> inst, loading |-> TRUE, projects |-> {}, showCreate |-> FALSE,
     creating |-> FALSE, createError |-> FALSE, claimsChanged |-> FALSE]

HomeShown == page.kind = "home" /\ ~page.loading
-----------------------------------------------------------------------------
(* Clicks                                                                  *)

ShowCreate ==
    /\ HomeShown /\ claims.admin /\ ~page.showCreate
    /\ page' = [page EXCEPT !.showCreate = TRUE]
    /\ UNCHANGED <<claims, taskVars, lagging, fleet>>

\* Cancel keeps the error for the next time; the overlay and the cross do not.
HideCreate ==
    /\ HomeShown /\ page.showCreate
    /\ \E e \in {page.createError, FALSE} :
            page' = [page EXCEPT !.showCreate = FALSE, !.createError = e]
    /\ UNCHANGED <<claims, taskVars, lagging, fleet>>

\* handleCreate, by the button, which is disabled while creating, or by Enter,
\* which is not.  The task holds the vehicle_set of the render it began in.
handleCreate(p) ==
    /\ HomeShown /\ page.showCreate
    /\ page' = [page EXCEPT !.creating = TRUE, !.createError = FALSE]
    /\ Start(p, claims.vehicles, "write")
    /\ UNCHANGED <<claims, lagging, fleet>>
-----------------------------------------------------------------------------
(* Requests                                                                *)

\* The fleet API's handlers; a name that is taken is a conflict.
HomeServes(t) ==
    /\ t.kind = "home"
    /\ \/ /\ t.step = "write"
          /\ t.what \notin fleet
          /\ fleet' = fleet \cup {t.what}
          /\ \E res \in {"ok", "failed"} :
                /\ Answered(t, res, None)
                /\ lagging' = (lagging \/ (res = "failed" /\ Mine(t)))
       \/ /\ t.step = "write"
          /\ t.what \in fleet
          /\ Refused(t)
          /\ UNCHANGED fleet
       \/ /\ t.step = "list"
          /\ Answered(t, "ok", [list |-> fleet])
          /\ UNCHANGED <<fleet, lagging>>
       \/ /\ t.step = "more"
          /\ \E failed \in SUBSET t.got.projects :
                Answered(t, "ok", [t.got EXCEPT !.failed = failed])
          /\ UNCHANGED <<fleet, lagging>>

\* Mutant: a project whose device list could not be read is kept.
Visible_KeepsFailed(t) ==
    IF claims.admin THEN t.got.projects
    ELSE {p \in t.got.projects : p \in t.got.failed \/ DevicesOf[p] \cap t.arg # {}}

\* What load shows: isAdmin() is asked now, vehicleSet is the closure's; a
\* project whose device list failed has no devices.
Visible(t) ==
    IF claims.admin THEN t.got.projects
    ELSE {p \in t.got.projects \ t.got.failed : DevicesOf[p] \cap t.arg # {}}

\* The end of load and of the handler that awaited it.
HomeLoaded(p, t) == [p EXCEPT !.loading = FALSE, !.creating = @ /\ t.what = "load"]

\* createProject returned: the dialog closes and the list is loaded again, or
\* the dialog shows the error.
HomeWritten(t) ==
    \/ /\ t.res = "ok"
       /\ page' = IF Mine(t) THEN [page EXCEPT !.showCreate = FALSE] ELSE page
       /\ GoesOn(t, "list", None)
       /\ lagging' = (lagging \/ (Mine(t) /\ Overlaps(t)))
    \/ /\ t.res = "failed"
       /\ page' = IF Mine(t) THEN [page EXCEPT !.createError = TRUE, !.creating = FALSE]
                  ELSE page
       /\ Ends(t)
       /\ UNCHANGED lagging

\* load: the projects, then the devices of each; an error ends it silently.
HomeListed(t) ==
    \/ /\ t.res = "ok"
       /\ GoesOn(t, "more", [projects |-> t.got.list, failed |-> {}])
       /\ UNCHANGED page
    \/ /\ t.res = "failed"
       /\ page' = IF Mine(t) THEN HomeLoaded(page, t) ELSE page
       /\ Ends(t)

HomeDevices(t) ==
    /\ page' = IF Mine(t) THEN [HomeLoaded(page, t) EXCEPT !.projects = Visible(t)] ELSE page
    /\ Ends(t)

HomeContinues(t) ==
    /\ t.kind = "home" /\ t.res # "none"
    /\ \/ t.step = "write" /\ HomeWritten(t)
       \/ t.step = "list" /\ HomeListed(t) /\ UNCHANGED lagging
       \/ t.step = "more" /\ HomeDevices(t) /\ UNCHANGED lagging
    /\ UNCHANGED <<claims, fleet>>

\* Everything on the page that can be clicked, but for the cards, which lead to
\* the project's page (ConsolePages, Exit).
HomeClicks == ShowCreate \/ HideCreate \/ \E p \in Projects : handleCreate(p)
=============================================================================
