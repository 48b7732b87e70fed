-------------------------- MODULE DashboardProofs --------------------------
(***************************************************************************)
(* The safety of the dashboard's list pages (ConsolePages) and of its      *)
(* session (AuthSession), for any number of handlers, visits, projects,    *)
(* members, tokens, requests and failures.                                 *)
(*                                                                         *)
(* The list pages have some thirty handlers.  Each step of theirs is shown *)
(* to be one of eleven kinds of step (PageStep), in terms of what the      *)
(* invariants speak of; the invariants are then shown for these.  None of  *)
(* the four properties is inductive: the flags need that a handler is the  *)
(* only one of its kind (BusyInv), the keys that an answer under way       *)
(* carries its key (KeyInv), the projects what each load was begun with    *)
(* (EntitledInv), and the lists what each load has read so far, whether a  *)
(* reload is still to come, and that no other can overtake it (ListInv).   *)
(*                                                                         *)
(* None of the session's three properties is inductive.  CallbackLandsOnce *)
(* counts the exchange that is still awaited with the landings             *)
(* (CallbackInv).  The other two rest on the store and local storage       *)
(* holding the same user whenever the store holds one (StoreInv): requests *)
(* carry tokens no newer than that user's, and a logout that found no      *)
(* renewal leaves nothing behind from which a user could come back         *)
(* (LogoutInv).                                                            *)
(***************************************************************************)
EXTENDS AuthSession, ConsolePages, FiniteSetTheorems, TLAPS
-----------------------------------------------------------------------------
(* The list pages: what their invariants speak of                          *)

PageKinds == {"home", "team", "keys"}
Loading(t) == t.step \in {"list", "more"}

\* The list a page shows, and the one the server has.
ListOf(p) == IF p.kind = "home" THEN p.projects
             ELSE IF p.kind = "team" THEN p.members ELSE p.keys
ServerOf(kind) == IF kind = "home" THEN fleet
                  ELSE IF kind = "team" THEN access ELSE ActiveKeys

\* The fields each page has.
PageShape ==
    /\ page.kind \in PageKinds \cup {"none"} /\ page.inst \in Nat
    /\ page.kind = "none" => page = [kind |-> "none", inst |-> page.inst]
    /\ page.kind = "home" =>
         page = [kind |-> "home", inst |-> page.inst, loading |-> page.loading,
                 projects |-> page.projects, showCreate |-> page.showCreate,
                 creating |-> page.creating, createError |-> page.createError,
                 claimsChanged |-> page.claimsChanged]
    /\ page.kind = "team" =>
         page = [kind |-> "team", inst |-> page.inst, loading |-> page.loading,
                 members |-> page.members,
                 showInvite |-> page.showInvite, invEmail |-> page.invEmail,
                 invRole |-> page.invRole, inviting |-> page.inviting,
                 editMember |-> page.editMember, editRole |-> page.editRole,
                 saving |-> page.saving]
    /\ page.kind = "team" => page.inviting \in BOOLEAN /\ page.saving \in BOOLEAN
    /\ page.kind = "keys" =>
         page = [kind |-> "keys", inst |-> page.inst, loading |-> page.loading,
                 error |-> page.error, keys |-> page.keys, showCreate |-> page.showCreate,
                 dialog |-> page.dialog, creating |-> page.creating,
                 createError |-> page.createError, newKey |-> page.newKey]

TaskShape(t) ==
    t = [no |-> t.no, kind |-> t.kind, inst |-> t.inst, what |-> t.what, arg |-> t.arg,
         step |-> t.step, res |-> t.res, got |-> t.got]

\* A handler under way is of a page that was mounted before, or of this one and
\* of its kind.
TasksInv ==
    /\ made \in Nat /\ DOMAIN tasks \subseteq 1 .. made
    /\ \A n \in DOMAIN tasks :
          /\ TaskShape(tasks[n]) /\ tasks[n].no = n
          /\ tasks[n].kind \in PageKinds
          /\ tasks[n].step \in {"write", "list", "more"}
          /\ tasks[n].res \in {"none", "ok", "failed"}
          /\ tasks[n].inst \in Nat /\ tasks[n].inst <= page.inst
          /\ Mine(tasks[n]) => tasks[n].kind = page.kind
          /\ tasks[n].kind = "home" /\ tasks[n].step = "more" =>
                tasks[n].got = [projects |-> tasks[n].got.projects, failed |-> tasks[n].got.failed]

\* While a flag is up, one handler of its kind is under way, and none otherwise.
OneOf(what, flag) ==
    /\ flag \in BOOLEAN
    /\ flag => \E n \in DOMAIN tasks : /\ Mine(tasks[n]) /\ tasks[n].what = what
    /\ \A n \in DOMAIN tasks : Mine(tasks[n]) /\ tasks[n].what = what => flag
    /\ \A n, k \in DOMAIN tasks :
            /\ Mine(tasks[n]) /\ tasks[n].what = what
            /\ Mine(tasks[k]) /\ tasks[k].what = what
            => n = k
BusyInv == page.kind = "team" => OneOf("invite", page.inviting) /\ OneOf("save", page.saving)

\* A key is known to the operator or is in the answer to a request for it.
KeyInv ==
    \A k \in DOMAIN keyring :
        \/ k \in shown \cup unseen
        \/ \E n \in DOMAIN tasks :
              /\ tasks[n].kind = "keys" /\ tasks[n].what = "create"
              /\ tasks[n].step = "write" /\ tasks[n].res = "ok"
              /\ tasks[n].got = [key |-> k]

\* The loads of a page whose claims have not changed cut down to these claims.
EntitledInv ==
    page.kind = "home" /\ ~page.claimsChanged =>
        /\ \A n \in DOMAIN tasks : Mine(tasks[n]) => tasks[n].arg = claims.vehicles
        /\ UnentitledOnlyAfterClaimsChange

\* What a load has read so far, if it has, is what the server has.
ReadIsCurrent(t) ==
    /\ t.res # "failed"
    /\ t.step = "list" /\ t.res = "ok" => t.got.list = ServerOf(t.kind)
    /\ t.step = "more" /\ t.kind = "home" => t.got.projects = fleet
    /\ t.step = "more" /\ t.kind = "team" => page.members = access

\* A write that was applied will be followed by a load.
ReloadDue ==
    \E n \in DOMAIN tasks : Mine(tasks[n]) /\ tasks[n].step = "write" /\ tasks[n].res = "ok"

MyLoad(n) == Mine(tasks[n]) /\ Loading(tasks[n])
WritesAreMine == \A n \in DOMAIN tasks : tasks[n].step = "write" => Mine(tasks[n])
OneLoad == \A n, k \in DOMAIN tasks : MyLoad(n) /\ MyLoad(k) => n = k
LoadsGoWell == \A n \in DOMAIN tasks : MyLoad(n) => tasks[n].res # "failed"
LoadsAreCurrent ==
    ReloadDue \/ \A n \in DOMAIN tasks : MyLoad(n) => ReadIsCurrent(tasks[n])
ListWillBeCurrent ==
    ReloadDue \/ ListIsCurrent \/ \E n \in DOMAIN tasks : MyLoad(n)

ListInv ==
    page.kind # "none" /\ ~lagging =>
        WritesAreMine /\ OneLoad /\ LoadsGoWell /\ LoadsAreCurrent /\ ListWillBeCurrent
-----------------------------------------------------------------------------
(* What the steps do, in the terms of the invariants: thirty handlers come *)
(* down to eleven kinds of step.                                           *)

\* A handler that goes on with another request, or whose request ends.
Moved(t, step, res, got) ==
    [no |-> t.no, kind |-> t.kind, inst |-> t.inst, what |-> t.what, arg |-> t.arg,
     step |-> step, res |-> res, got |-> got]

\* The three ways the handlers under way change.
Added(t) ==
    /\ DOMAIN tasks' = DOMAIN tasks \cup {made + 1}
    /\ \A n \in DOMAIN tasks : tasks'[n] = tasks[n]
    /\ tasks'[made + 1] = t
    /\ made' = made + 1
Changed(n, t) ==
    /\ DOMAIN tasks' = DOMAIN tasks
    /\ \A k \in DOMAIN tasks : k # n => tasks'[k] = tasks[k]
    /\ tasks'[n] = t
    /\ made' = made
Removed(n) ==
    /\ DOMAIN tasks' = DOMAIN tasks \ {n}
    /\ \A k \in DOMAIN tasks' : tasks'[k] = tasks[k]
    /\ made' = made

servers == <<fleet, access, keyring>>
histories == <<shown, unseen>>

KeepsPage == page'.kind = page.kind /\ page'.inst = page.inst
KeepsView ==
    /\ KeepsPage
    /\ page.kind # "none" => ListOf(page') = ListOf(page)
    /\ page.kind = "home" => page'.claimsChanged = page.claimsChanged
KeepsBusy ==
    page.kind = "team" => page'.inviting = page.inviting /\ page'.saving = page.saving

Quiet == KeepsView /\ KeepsBusy /\ UNCHANGED <<claims, tasks, made, lagging, servers, histories>>

Mounts ==
    /\ page'.kind \in PageKinds /\ page'.inst = page.inst + 1
    /\ page'.kind = "home" => page'.projects = {}
    /\ page'.kind = "team" => page'.inviting = FALSE /\ page'.saving = FALSE
    /\ Added([no |-> made + 1, kind |-> page'.kind, inst |-> page'.inst, what |-> "load",
              arg |-> claims'.vehicles, step |-> "list", res |-> "none", got |-> None])
    /\ lagging' = (\E n \in DOMAIN tasks : tasks[n].step = "write")
    /\ UNCHANGED <<servers, histories>>

Leaves ==
    /\ page'.kind = "none" /\ page'.inst = page.inst
    /\ UNCHANGED <<claims, tasks, made, servers, histories>>

NewClaims ==
    /\ KeepsPage /\ KeepsBusy
    /\ page.kind # "none" => ListOf(page') = ListOf(page)
    /\ page.kind = "home" => page'.claimsChanged = TRUE
    /\ lagging' = (lagging \/ (page.kind = "home" /\ claims'.admin /\ ~claims.admin))
    /\ UNCHANGED <<tasks, made, servers, histories>>

Starts(what, arg) ==
    /\ page.kind \in PageKinds /\ KeepsView
    /\ Added([no |-> made + 1, kind |-> page.kind, inst |-> page.inst, what |-> what,
              arg |-> arg, step |-> "write", res |-> "none", got |-> None])
    /\ page.kind = "home" => arg = claims.vehicles
    /\ page.kind = "team" =>
         /\ what = "invite" => page.inviting = FALSE /\ page'.inviting = TRUE
         /\ what # "invite" => page'.inviting = page.inviting
         /\ what = "save" => page.saving = FALSE /\ page'.saving = TRUE
         /\ what # "save" => page'.saving = page.saving
    /\ UNCHANGED <<claims, lagging, servers, histories>>

Reads(n) ==
    /\ tasks[n].step = "list" /\ tasks[n].res = "none"
    /\ Changed(n, Moved(tasks[n], tasks[n].step, "ok", [list |-> ServerOf(tasks[n].kind)]))
    /\ UNCHANGED <<page, claims, lagging, servers, histories>>

ReadsMore(n, got) ==
    /\ tasks[n].step = "more" /\ tasks[n].res = "none"
    /\ Changed(n, Moved(tasks[n], tasks[n].step, "ok", got))
    /\ tasks[n].kind = "home" =>
          got = [projects |-> tasks[n].got.projects, failed |-> got.failed]
    /\ UNCHANGED <<page, claims, lagging, servers, histories>>

Applies(n, res, got) ==
    /\ tasks[n].step = "write" /\ tasks[n].res = "none" /\ res \in {"ok", "failed"}
    /\ Changed(n, Moved(tasks[n], tasks[n].step, res, got))
    /\ tasks[n].kind # "home" => UNCHANGED fleet
    /\ tasks[n].kind # "team" => UNCHANGED access
    /\ tasks[n].kind # "keys" => UNCHANGED keyring
    /\ lagging \/ (res = "failed" /\ Mine(tasks[n])) => lagging'
    /\ \/ DOMAIN keyring' = DOMAIN keyring /\ UNCHANGED unseen
       \/ \E k : /\ tasks[n].kind = "keys" /\ tasks[n].what = "create"
                 /\ DOMAIN keyring' = DOMAIN keyring \cup {k}
                 /\ \/ res = "ok" /\ got = [key |-> k] /\ UNCHANGED unseen
                    \/ res = "failed" /\ unseen' = unseen \cup {k}
    /\ UNCHANGED <<page, claims, shown>>

Breaks(n) ==
    /\ tasks[n].step \in {"write", "list"} /\ tasks[n].res = "none"
    /\ Changed(n, Moved(tasks[n], tasks[n].step, "failed", tasks[n].got))
    /\ lagging \/ tasks[n].step = "list" => lagging'
    /\ UNCHANGED <<page, claims, servers, histories>>

Written(n) ==
    /\ tasks[n].step = "write" /\ tasks[n].res = "ok"
    /\ Changed(n, Moved(tasks[n], "list", "none", None))
    /\ KeepsView /\ KeepsBusy
    /\ lagging' = (lagging \/ (Mine(tasks[n]) /\ Overlaps(tasks[n])))
    /\ shown \subseteq shown' /\ unseen \subseteq unseen'
    /\ tasks[n].kind = "keys" /\ tasks[n].what = "create" =>
          tasks[n].got.key \in shown' \cup unseen'
    /\ UNCHANGED <<claims, servers>>

Listed(n, got) ==
    /\ tasks[n].step = "list" /\ tasks[n].res = "ok" /\ tasks[n].kind \in {"home", "team"}
    /\ Changed(n, Moved(tasks[n], "more", "none", got))
    /\ tasks[n].kind = "home" => KeepsView /\ got = [projects |-> tasks[n].got.list, failed |-> {}]
    /\ tasks[n].kind = "team" /\ Mine(tasks[n]) => page'.members = tasks[n].got.list
    /\ ~Mine(tasks[n]) => KeepsView
    /\ KeepsPage /\ KeepsBusy
    /\ UNCHANGED <<claims, lagging, servers, histories>>

Ended(n) ==
    /\ tasks[n].res # "none" /\ Removed(n)
    /\ tasks[n].step = "write" => tasks[n].res = "failed"
    /\ KeepsPage
    /\ ~Mine(tasks[n]) => KeepsView /\ KeepsBusy
    /\ Mine(tasks[n]) =>
         /\ page.kind = "home" =>
              /\ page'.claimsChanged = page.claimsChanged
              /\ page'.projects = IF tasks[n].step = "more" THEN Visible(tasks[n]) ELSE page.projects
              /\ tasks[n].step = "list" => tasks[n].res = "failed"
         /\ page.kind = "team" =>
              /\ page'.members = page.members
              /\ page'.inviting = IF tasks[n].what = "invite" THEN FALSE ELSE page.inviting
              /\ page'.saving = IF tasks[n].what = "save" THEN FALSE ELSE page.saving
              /\ tasks[n].step = "list" => tasks[n].res = "failed"
         /\ page.kind = "keys" =>
              /\ page'.keys = IF tasks[n].step = "list" /\ tasks[n].res = "ok"
                             THEN tasks[n].got.list ELSE page.keys
              /\ tasks[n].step # "more"
    /\ UNCHANGED <<claims, lagging, servers, histories>>

Serving(n) ==
    Reads(n) \/ (\E got : ReadsMore(n, got)) \/ (\E res, got : Applies(n, res, got)) \/ Breaks(n)
Continuing(n) == Written(n) \/ (\E got : Listed(n, got)) \/ Ended(n)

PageStep ==
    \/ Quiet \/ Mounts \/ Leaves \/ NewClaims
    \/ \E what, arg : Starts(what, arg)
    \/ \E n \in DOMAIN tasks : Serving(n) \/ Continuing(n)
-----------------------------------------------------------------------------
(* Each handler is one of them.                                            *)

\* Start and Mount add a handler.
LEMMA AddedBy ==
    ASSUME TasksInv, NEW t, tasks' = With(tasks, made + 1, t), made' = made + 1
    PROVE  Added(t)
BY DEF TasksInv, With, Added

\* Ends removes one.
LEMMA RemovedBy ==
    ASSUME NEW n \in DOMAIN tasks, tasks[n].no = n, Ends(tasks[n])
    PROVE  Removed(n)
BY DEF Ends, Restrict, Removed

\* A page that is mounted is fresh.
LEMMA MountStep ==
    ASSUME PageShape,
           page' \in {FreshHome(page.inst + 1), FreshTeam(page.inst + 1), FreshKeys(page.inst + 1)},
           Added(Task(page', "load", claims'.vehicles, "list")),
           lagging' = (\E n \in DOMAIN tasks : tasks[n].step = "write"),
           UNCHANGED <<servers, histories>>
    PROVE  PageShape' /\ Mounts
<1>1. page.inst + 1 \in Nat
    BY DEF PageShape
<1>2. PageShape'
    <2>1. CASE page' = FreshHome(page.inst + 1)
        BY <1>1, <2>1 DEF FreshHome, PageShape, PageKinds
    <2>2. CASE page' = FreshTeam(page.inst + 1)
        BY <1>1, <2>2 DEF FreshTeam, PageShape, PageKinds
    <2>3. CASE page' = FreshKeys(page.inst + 1)
        BY <1>1, <2>3 DEF FreshKeys, PageShape, PageKinds
    <2> QED BY <2>1, <2>2, <2>3
<1>3. /\ page'.kind \in PageKinds /\ page'.inst = page.inst + 1
      /\ page'.kind = "home" => page'.projects = {}
      /\ page'.kind = "team" => page'.inviting = FALSE /\ page'.saving = FALSE
    <2>1. CASE page' = FreshHome(page.inst + 1)
        BY <2>1 DEF FreshHome, PageKinds
    <2>2. CASE page' = FreshTeam(page.inst + 1)
        BY <2>2 DEF FreshTeam, PageKinds
    <2>3. CASE page' = FreshKeys(page.inst + 1)
        BY <2>3 DEF FreshKeys, PageKinds
    <2> QED BY <2>1, <2>2, <2>3
<1> QED BY <1>2, <1>3 DEF Mounts, Task

\* Routes.
LEMMA EnterStep ==
    ASSUME TasksInv, PageShape, NEW kind \in PageKinds, Enter(kind)
    PROVE  PageShape' /\ Mounts
<1>1. /\ page' = Fresh(kind, page.inst + 1) /\ made' = made + 1
      /\ tasks' = With(tasks, made + 1, Task(page', "load", claims'.vehicles, "list"))
      /\ lagging' = (\E n \in DOMAIN tasks : tasks[n].step = "write")
      /\ UNCHANGED <<servers, histories>>
    BY DEF Enter, Mount, servers, histories, keyVars
<1>2. Added(Task(page', "load", claims'.vehicles, "list"))
    BY <1>1, AddedBy
<1>3. page' \in {FreshHome(page.inst + 1), FreshTeam(page.inst + 1), FreshKeys(page.inst + 1)}
    <2>1. CASE kind = "home"
        BY <1>1, <2>1 DEF Fresh
    <2>2. CASE kind = "team"
        BY <1>1, <2>2 DEF Fresh
    <2>3. CASE kind = "keys"
        BY <1>1, <2>3 DEF Fresh
    <2> QED BY <2>1, <2>2, <2>3 DEF PageKinds
<1> QED BY <1>1, <1>2, <1>3, MountStep

\* A link leads away.
LEMMA ExitStep ==
    ASSUME PageShape, Exit
    PROVE  PageShape' /\ Leaves
BY DEF Exit, Leave, NoPage, PageShape, Leaves, taskVars, keyVars, servers, histories, PageKinds

\* A renewal brings other claims: the guard replaces the page, or it stays.
LEMMA ClaimsStep ==
    ASSUME TasksInv, PageShape, NEW c, ClaimsChange(c)
    PROVE  PageShape' /\ (Mounts \/ NewClaims)
<1>1. CASE page.kind \in {"team", "keys"} /\ ~c.admin
    <2>1. /\ page' = FreshHome(page.inst + 1) /\ made' = made + 1
          /\ tasks' = With(tasks, made + 1, Task(page', "load", claims'.vehicles, "list"))
          /\ lagging' = (\E n \in DOMAIN tasks : tasks[n].step = "write")
          /\ UNCHANGED <<servers, histories>>
        BY <1>1 DEF ClaimsChange, Mount, servers, histories, keyVars
    <2>2. Added(Task(page', "load", claims'.vehicles, "list"))
        BY <2>1, AddedBy
    <2> QED BY <2>1, <2>2, MountStep
<1>2. CASE ~(page.kind \in {"team", "keys"} /\ ~c.admin)
    <2>1. /\ page' = IF page.kind = "home" THEN [page EXCEPT !.claimsChanged = TRUE] ELSE page
          /\ lagging' = (lagging \/ (page.kind = "home" /\ claims'.admin /\ ~claims.admin))
          /\ UNCHANGED <<tasks, made, servers, histories>>
        BY <1>2 DEF ClaimsChange, taskVars, servers, histories, keyVars
    <2>2. CASE page.kind = "home"
        BY <2>1, <2>2 DEF PageShape, NewClaims, KeepsPage, KeepsBusy, ListOf, PageKinds
    <2>3. CASE page.kind # "home"
        BY <2>1, <2>3 DEF PageShape, NewClaims, KeepsPage, KeepsBusy, ListOf, PageKinds
    <2> QED BY <2>2, <2>3
<1> QED BY <1>1, <1>2

\* A click that only sets state.
LEMMA QuietBy ==
    ASSUME KeepsView, KeepsBusy, UNCHANGED <<claims, taskVars, lagging>>,
           UNCHANGED <<fleet, access, keyVars>>
    PROVE  Quiet
BY DEF Quiet, taskVars, keyVars, servers, histories

\* A click that starts a handler.
LEMMA StartsBy ==
    ASSUME TasksInv, NEW what, NEW arg, Start(what, arg, "write"),
           page.kind \in PageKinds, KeepsView,
           page.kind = "home" => arg = claims.vehicles,
           page.kind = "team" =>
              /\ what = "invite" => page.inviting = FALSE /\ page'.inviting = TRUE
              /\ what # "invite" => page'.inviting = page.inviting
              /\ what = "save" => page.saving = FALSE /\ page'.saving = TRUE
              /\ what # "save" => page'.saving = page.saving,
           UNCHANGED <<claims, lagging>>, UNCHANGED <<fleet, access, keyVars>>
    PROVE  Starts(what, arg)
<1>1. Added(Task(page, what, arg, "write"))
    BY AddedBy DEF Start
<1>2. Added([no |-> made + 1, kind |-> page.kind, inst |-> page.inst, what |-> what,
             arg |-> arg, step |-> "write", res |-> "none", got |-> None])
    BY <1>1 DEF Task
<1> QED BY <1>2 DEF Starts, keyVars, servers, histories

\* The clicks of the page of the projects.
LEMMA HomeClicksStep ==
    ASSUME TasksInv, PageShape, HomeClicks, UNCHANGED <<access, keyVars>>
    PROVE  PageShape' /\ (Quiet \/ \E what, arg : Starts(what, arg))
<1>1. CASE ShowCreate
    <2>1. /\ page.kind = "home" /\ page' = [page EXCEPT !.showCreate = TRUE]
          /\ UNCHANGED <<claims, taskVars, lagging, fleet, access, keyVars>>
        BY <1>1 DEF ShowCreate, HomeShown
    <2>2. PageShape' /\ KeepsView /\ KeepsBusy
        BY <2>1 DEF PageShape, PageKinds, KeepsView, KeepsBusy, KeepsPage, ListOf
    <2> QED BY <2>1, <2>2, QuietBy
<1>2. CASE HideCreate
    <2>1. /\ page.kind = "home"
          /\ UNCHANGED <<claims, taskVars, lagging, fleet, access, keyVars>>
        BY <1>2 DEF HideCreate, HomeShown
    <2>2. PICK e : page' = [page EXCEPT !.showCreate = FALSE, !.createError = e]
        BY <1>2 DEF HideCreate
    <2>3. PageShape' /\ KeepsView /\ KeepsBusy
        BY <2>1, <2>2 DEF PageShape, PageKinds, KeepsView, KeepsBusy, KeepsPage, ListOf
    <2> QED BY <2>1, <2>3, QuietBy
<1>3. ASSUME NEW p \in Projects, handleCreate(p)
      PROVE  PageShape' /\ Starts(p, claims.vehicles)
    <2>1. /\ page.kind = "home" /\ page' = [page EXCEPT !.creating = TRUE, !.createError = FALSE]
          /\ Start(p, claims.vehicles, "write")
          /\ UNCHANGED <<claims, lagging>> /\ UNCHANGED <<fleet, access, keyVars>>
        BY <1>3 DEF handleCreate, HomeShown
    <2>2. PageShape' /\ KeepsView /\ page.kind \in PageKinds
        BY <2>1 DEF PageShape, PageKinds, KeepsView, KeepsPage, ListOf
    <2> QED BY <2>1, <2>2, StartsBy
<1> QED BY <1>1, <1>2, <1>3 DEF HomeClicks

\* A handler of the team page that only sets state.
LEMMA SetsStep ==
    ASSUME PageShape, page.kind = "team", NEW si, NEW ie, NEW id, NEW em, NEW ed,
           Sets([page EXCEPT !.showInvite = si, !.invEmail = ie, !.invRole = id,
                             !.editMember = em, !.editRole = ed]),
           UNCHANGED <<fleet, keyVars>>
    PROVE  PageShape' /\ Quiet
<1>1. /\ page' = [page EXCEPT !.showInvite = si, !.invEmail = ie, !.invRole = id,
                              !.editMember = em, !.editRole = ed]
      /\ UNCHANGED <<claims, taskVars, lagging, fleet, access, keyVars>>
    BY DEF Sets
<1>2. PageShape' /\ KeepsView /\ KeepsBusy
    BY <1>1 DEF PageShape, PageKinds, KeepsView, KeepsBusy, KeepsPage, ListOf
<1> QED BY <1>1, <1>2, QuietBy

\* All of these.
LEMMA TeamSetsStep ==
    ASSUME PageShape, UNCHANGED <<fleet, keyVars>>,
           \/ ShowInvite \/ HideInvite \/ HideEdit
           \/ \E m \in Members : TypeEmail(m) \/ openEdit(m)
           \/ \E r \in InvitedRoles : ChooseInvRole(r)
           \/ \E r \in MemberRoles : ChooseEditRole(r)
    PROVE  PageShape' /\ Quiet
<1> DEFINE Changes(si, ie, id, em, ed) ==
        Sets([page EXCEPT !.showInvite = si, !.invEmail = ie, !.invRole = id,
                          !.editMember = em, !.editRole = ed])
<1>0. page.kind = "team"
    BY DEF ShowInvite, HideInvite, HideEdit, TypeEmail, openEdit, ChooseInvRole,
           ChooseEditRole, TeamShown
<1>1. page = [kind |-> "team", inst |-> page.inst, loading |-> page.loading,
              members |-> page.members,
              showInvite |-> page.showInvite, invEmail |-> page.invEmail,
              invRole |-> page.invRole, inviting |-> page.inviting,
              editMember |-> page.editMember, editRole |-> page.editRole,
              saving |-> page.saving]
    BY <1>0 DEF PageShape
<1>2. \E si, ie, id, em, ed : Changes(si, ie, id, em, ed)
    <2>1. CASE ShowInvite
        <3>1. Changes(TRUE, page.invEmail, page.invRole, page.editMember, page.editRole)
            BY <1>1, <2>1 DEF ShowInvite, Sets
        <3> QED BY <3>1
    <2>2. CASE HideInvite
        <3>1. Changes(FALSE, page.invEmail, page.invRole, page.editMember, page.editRole)
            BY <1>1, <2>2 DEF HideInvite, Sets
        <3> QED BY <3>1
    <2>3. CASE HideEdit
        <3>1. Changes(page.showInvite, page.invEmail, page.invRole, None, page.editRole)
            BY <1>1, <2>3 DEF HideEdit, Sets
        <3> QED BY <3>1
    <2>4. ASSUME NEW m \in Members, TypeEmail(m)
          PROVE  \E si, ie, id, em, ed : Changes(si, ie, id, em, ed)
        <3>1. Changes(page.showInvite, m, page.invRole, page.editMember, page.editRole)
            BY <1>1, <2>4 DEF TypeEmail, Sets
        <3> QED BY <3>1
    <2>5. ASSUME NEW m \in Members, openEdit(m)
          PROVE  \E si, ie, id, em, ed : Changes(si, ie, id, em, ed)
        <3>1. Changes(page.showInvite, page.invEmail, page.invRole, m, page.members[m])
            BY <1>1, <2>5 DEF openEdit, Sets
        <3> QED BY <3>1
    <2>6. ASSUME NEW d \in InvitedRoles, ChooseInvRole(d)
          PROVE  \E si, ie, id, em, ed : Changes(si, ie, id, em, ed)
        <3>1. Changes(page.showInvite, page.invEmail, d,
                      page.editMember, page.editRole)
            BY <1>1, <2>6 DEF ChooseInvRole, Sets
        <3> QED BY <3>1
    <2>7. ASSUME NEW d \in MemberRoles, ChooseEditRole(d)
          PROVE  \E si, ie, id, em, ed : Changes(si, ie, id, em, ed)
        <3>1. Changes(page.showInvite, page.invEmail, page.invRole,
                      page.editMember, d)
            BY <1>1, <2>7 DEF ChooseEditRole, Sets
        <3> QED BY <3>1
    <2> QED BY <2>1, <2>2, <2>3, <2>4, <2>5, <2>6, <2>7
<1> QED BY <1>0, <1>2, SetsStep

\* The clicks of the team page.
LEMMA TeamClicksStep ==
    ASSUME TasksInv, PageShape, TeamClicks, UNCHANGED <<fleet, keyVars>>
    PROVE  PageShape' /\ (Quiet \/ \E what, arg : Starts(what, arg))
<1>1. CASE handleInvite
    <2> DEFINE arg == [id |-> page.invEmail, role |-> page.invRole]
    <2>1. /\ page.kind = "team" /\ page' = [page EXCEPT !.inviting = TRUE] /\ ~page.inviting
          /\ Start("invite", arg, "write")
          /\ UNCHANGED <<claims, lagging>> /\ UNCHANGED <<fleet, access, keyVars>>
        BY <1>1 DEF handleInvite, TeamShown
    <2> HIDE DEF arg
    <2>2. PageShape' /\ KeepsView /\ page.kind \in PageKinds
        BY <2>1 DEF PageShape, PageKinds, KeepsView, KeepsPage, ListOf
    <2>3. /\ page.inviting = FALSE /\ page'.inviting = TRUE /\ page'.saving = page.saving
        BY <2>1 DEF PageShape
    <2>4. Starts("invite", arg)
        BY <2>1, <2>2, <2>3, StartsBy
    <2> QED BY <2>2, <2>4
<1>2. CASE handleSaveEdit
    <2> DEFINE arg == [id |-> page.editMember, role |-> page.editRole]
    <2>1. /\ page.kind = "team" /\ page' = [page EXCEPT !.saving = TRUE] /\ ~page.saving
          /\ Start("save", arg, "write")
          /\ UNCHANGED <<claims, lagging>> /\ UNCHANGED <<fleet, access, keyVars>>
        BY <1>2 DEF handleSaveEdit, TeamShown
    <2> HIDE DEF arg
    <2>2. PageShape' /\ KeepsView /\ page.kind \in PageKinds
        BY <2>1 DEF PageShape, PageKinds, KeepsView, KeepsPage, ListOf
    <2>3. /\ page.saving = FALSE /\ page'.saving = TRUE /\ page'.inviting = page.inviting
        BY <2>1 DEF PageShape
    <2>4. Starts("save", arg)
        BY <2>1, <2>2, <2>3, StartsBy
    <2> QED BY <2>2, <2>4
<1>3. ASSUME NEW m \in Members, handleRemove(m)
      PROVE  PageShape' /\ \E what, arg : Starts(what, arg)
    <2> DEFINE arg == [id |-> m, role |-> ""]
    <2>1. /\ page.kind = "team" /\ page' = page
          /\ Start("remove", arg, "write")
          /\ UNCHANGED <<claims, lagging>> /\ UNCHANGED <<fleet, access, keyVars>>
        BY <1>3 DEF handleRemove, TeamShown
    <2> HIDE DEF arg
    <2>2. PageShape' /\ KeepsView /\ page.kind \in PageKinds
        BY <2>1 DEF PageShape, PageKinds, KeepsView, KeepsPage, ListOf
    <2>3. Starts("remove", arg)
        BY <2>1, <2>2, StartsBy
    <2> QED BY <2>2, <2>3
<1>4. CASE \/ ShowInvite \/ HideInvite \/ HideEdit
           \/ \E m \in Members : TypeEmail(m) \/ openEdit(m)
           \/ \E r \in InvitedRoles : ChooseInvRole(r)
           \/ \E r \in MemberRoles : ChooseEditRole(r)
    BY <1>4, TeamSetsStep
<1> QED BY <1>1, <1>2, <1>3, <1>4 DEF TeamClicks

\* The clicks of the page of the API keys.
LEMMA KeysClicksStep ==
    ASSUME TasksInv, PageShape, KeysClicks, UNCHANGED <<fleet, access>>
    PROVE  PageShape' /\ (Quiet \/ \E what, arg : Starts(what, arg))
<1>1. CASE ShowCreateKey
    <2>1. /\ page.kind = "keys"
          /\ page' = [page EXCEPT !.showCreate = TRUE, !.dialog = made,
                                  !.creating = FALSE, !.createError = FALSE]
          /\ UNCHANGED <<claims, taskVars, lagging, fleet, access, keyVars>>
        BY <1>1 DEF ShowCreateKey, KeysShown
    <2>2. PageShape' /\ KeepsView /\ KeepsBusy
        BY <2>1 DEF PageShape, PageKinds, KeepsView, KeepsBusy, KeepsPage, ListOf
    <2> QED BY <2>1, <2>2, QuietBy
<1>2. CASE HideCreateKey
    <2>1. /\ page.kind = "keys" /\ page' = [page EXCEPT !.showCreate = FALSE]
          /\ UNCHANGED <<claims, taskVars, lagging, fleet, access, keyVars>>
        BY <1>2 DEF HideCreateKey, KeysShown
    <2>2. PageShape' /\ KeepsView /\ KeepsBusy
        BY <2>1 DEF PageShape, PageKinds, KeepsView, KeepsBusy, KeepsPage, ListOf
    <2> QED BY <2>1, <2>2, QuietBy
<1>3. CASE Dismiss
    <2>1. /\ page.kind = "keys" /\ page' = [page EXCEPT !.newKey = None]
          /\ UNCHANGED <<claims, taskVars, lagging, fleet, access, keyVars>>
        BY <1>3 DEF Dismiss, KeysShown
    <2>2. PageShape' /\ KeepsView /\ KeepsBusy
        BY <2>1 DEF PageShape, PageKinds, KeepsView, KeepsBusy, KeepsPage, ListOf
    <2> QED BY <2>1, <2>2, QuietBy
<1>4. CASE submit
    <2>1. /\ page.kind = "keys" /\ page' = [page EXCEPT !.creating = TRUE, !.createError = FALSE]
          /\ Start("create", page.dialog, "write")
          /\ UNCHANGED <<claims, lagging>> /\ UNCHANGED <<fleet, access, keyVars>>
        BY <1>4 DEF submit, KeysShown
    <2>2. PageShape' /\ KeepsView /\ page.kind \in PageKinds
        BY <2>1 DEF PageShape, PageKinds, KeepsView, KeepsPage, ListOf
    <2>3. Starts("create", page.dialog)
        BY <2>1, <2>2, StartsBy
    <2> QED BY <2>2, <2>3
<1>5. ASSUME NEW k \in DOMAIN keyring, revoke(k)
      PROVE  PageShape' /\ Starts("revoke", k)
    <2>1. /\ page.kind = "keys" /\ page' = page
          /\ Start("revoke", k, "write")
          /\ UNCHANGED <<claims, lagging>> /\ UNCHANGED <<fleet, access, keyVars>>
        BY <1>5 DEF revoke, KeysShown
    <2>2. PageShape' /\ KeepsView /\ page.kind \in PageKinds
        BY <2>1 DEF PageShape, PageKinds, KeepsView, KeepsPage, ListOf
    <2> QED BY <2>1, <2>2, StartsBy
<1> QED BY <1>1, <1>2, <1>3, <1>4, <1>5 DEF KeysClicks

\* The request of a handler ends.
LEMMA AnsweredBy ==
    ASSUME TasksInv, NEW n \in DOMAIN tasks, NEW res, NEW got, Answered(tasks[n], res, got)
    PROVE  /\ tasks[n].res = "none"
           /\ Changed(n, Moved(tasks[n], tasks[n].step, res, got))
           /\ UNCHANGED <<page, claims>>
<1>1. tasks[n].no = n /\ TaskShape(tasks[n])
    BY DEF TasksInv
<1>2. /\ tasks[n].res = "none" /\ made' = made /\ UNCHANGED <<page, claims>>
      /\ tasks' = [tasks EXCEPT ![n] = [tasks[n] EXCEPT !.res = res, !.got = got]]
    BY <1>1 DEF Answered
<1>3. tasks'[n] = [tasks[n] EXCEPT !.res = res, !.got = got]
    BY <1>2
<1>4. tasks'[n] = Moved(tasks[n], tasks[n].step, res, got)
    BY <1>1, <1>3 DEF TaskShape, Moved
<1> QED BY <1>2, <1>4 DEF Changed

\* The server refuses a write.
LEMMA RefusedBy ==
    ASSUME TasksInv, NEW n \in DOMAIN tasks, tasks[n].step = "write", Refused(tasks[n]),
           UNCHANGED <<servers, histories>>
    PROVE  UNCHANGED page /\ Breaks(n)
<1>1. tasks[n].no = n /\ TaskShape(tasks[n])
    BY DEF TasksInv
<1>2. /\ tasks[n].res = "none" /\ made' = made /\ UNCHANGED <<page, claims, lagging>>
      /\ tasks' = [tasks EXCEPT ![n] = [tasks[n] EXCEPT !.res = "failed"]]
    BY <1>1 DEF Refused
<1>3. tasks'[n] = [tasks[n] EXCEPT !.res = "failed"]
    BY <1>2
<1>4. tasks'[n] = Moved(tasks[n], tasks[n].step, "failed", tasks[n].got)
    BY <1>1, <1>3 DEF TaskShape, Moved
<1>5. Changed(n, Moved(tasks[n], tasks[n].step, "failed", tasks[n].got))
    BY <1>2, <1>4 DEF Changed
<1> QED BY <1>2, <1>5 DEF Breaks

\* The server answers the requests for projects, ...
LEMMA HomeServesStep ==
    ASSUME TasksInv, NEW n \in DOMAIN tasks, HomeServes(tasks[n]), UNCHANGED <<access, keyVars>>
    PROVE  UNCHANGED page /\ Serving(n)
<1>0. tasks[n].kind = "home"
    BY DEF HomeServes
<1>1. ASSUME tasks[n].step = "write", NEW res \in {"ok", "failed"}, Answered(tasks[n], res, None),
             lagging' = (lagging \/ (res = "failed" /\ Mine(tasks[n])))
      PROVE  UNCHANGED page /\ Applies(n, res, None)
    BY <1>0, <1>1, AnsweredBy DEF Applies, keyVars
<1>2. ASSUME tasks[n].step = "list", Answered(tasks[n], "ok", [list |-> fleet]),
             UNCHANGED <<fleet, lagging>>
      PROVE  UNCHANGED page /\ Reads(n)
    BY <1>0, <1>2, AnsweredBy DEF Reads, ServerOf, keyVars, servers, histories
<1>3. ASSUME tasks[n].step = "more", NEW failed,
             Answered(tasks[n], "ok", [tasks[n].got EXCEPT !.failed = failed]),
             UNCHANGED <<fleet, lagging>>
      PROVE  UNCHANGED page /\ ReadsMore(n, [tasks[n].got EXCEPT !.failed = failed])
    <2> DEFINE got == [tasks[n].got EXCEPT !.failed = failed]
    <2>1. tasks[n].got = [projects |-> tasks[n].got.projects, failed |-> tasks[n].got.failed]
        BY <1>0, <1>3 DEF TasksInv
    <2>2. got = [projects |-> tasks[n].got.projects, failed |-> got.failed]
        BY <2>1
    <2>3. Answered(tasks[n], "ok", got)
        BY <1>3
    <2> HIDE DEF got
    <2>4. UNCHANGED page /\ ReadsMore(n, got)
        BY <1>3, <2>2, <2>3, AnsweredBy DEF ReadsMore, keyVars, servers, histories
    <2> QED BY <2>4 DEF got
<1>4. ASSUME tasks[n].step = "write", Refused(tasks[n]), UNCHANGED fleet
      PROVE  UNCHANGED page /\ Breaks(n)
    BY <1>4, RefusedBy DEF keyVars, servers, histories
<1> QED BY <1>1, <1>2, <1>3, <1>4 DEF HomeServes, Serving

\* ... for members ...
LEMMA TeamServesStep ==
    ASSUME TasksInv, NEW n \in DOMAIN tasks, TeamServes(tasks[n]), UNCHANGED <<fleet, keyVars>>
    PROVE  UNCHANGED page /\ Serving(n)
<1>0. tasks[n].kind = "team"
    BY DEF TeamServes
<1>1. ASSUME tasks[n].step = "write", NEW res \in {"ok", "failed"}, Answered(tasks[n], res, None),
             lagging' = (lagging \/ (res = "failed" /\ Mine(tasks[n])))
      PROVE  UNCHANGED page /\ Applies(n, res, None)
    BY <1>0, <1>1, AnsweredBy DEF Applies, keyVars
<1>2. ASSUME tasks[n].step = "list", Answered(tasks[n], "ok", [list |-> access]),
             UNCHANGED <<access, lagging>>
      PROVE  UNCHANGED page /\ Reads(n)
    BY <1>0, <1>2, AnsweredBy DEF Reads, ServerOf, keyVars, servers, histories
<1>3. ASSUME tasks[n].step = "more", NEW got, Answered(tasks[n], "ok", got),
             UNCHANGED <<access, lagging>>
      PROVE  UNCHANGED page /\ ReadsMore(n, got)
    BY <1>0, <1>3, AnsweredBy DEF ReadsMore, keyVars, servers, histories
<1>4. ASSUME tasks[n].step = "write", Refused(tasks[n]), UNCHANGED access
      PROVE  UNCHANGED page /\ Breaks(n)
    BY <1>4, RefusedBy DEF keyVars, servers, histories
<1> QED BY <1>1, <1>2, <1>3, <1>4 DEF TeamServes, Serving

\* ... and for keys, ...
LEMMA KeysServesStep ==
    ASSUME TasksInv, NEW n \in DOMAIN tasks, KeysServes(tasks[n]), UNCHANGED <<fleet, access>>
    PROVE  UNCHANGED page /\ Serving(n)
<1>0. tasks[n].kind = "keys" /\ UNCHANGED shown
    BY DEF KeysServes
<1>1. CASE tasks[n].what = "create" /\ tasks[n].step = "write"
    <2> DEFINE k == Cardinality(DOMAIN keyring) + 1
    <2>1. /\ keyring' = With(keyring, k, "active")
          /\ \/ Answered(tasks[n], "ok", [key |-> k]) /\ UNCHANGED <<unseen, lagging>>
             \/ /\ Answered(tasks[n], "failed", None)
                /\ unseen' = unseen \cup {k}
                /\ lagging' = (lagging \/ Mine(tasks[n]))
        BY <1>1 DEF KeysServes
    <2> HIDE DEF k
    <2>2. DOMAIN keyring' = DOMAIN keyring \cup {k}
        BY <2>1 DEF With
    <2>3. CASE Answered(tasks[n], "ok", [key |-> k]) /\ UNCHANGED <<unseen, lagging>>
        <3> DEFINE got == [key |-> k]
        <3>1. got = [key |-> k] /\ Answered(tasks[n], "ok", got)
            BY <2>3
        <3> HIDE DEF got
        <3>2. /\ tasks[n].res = "none" /\ UNCHANGED <<page, claims>>
              /\ Changed(n, Moved(tasks[n], tasks[n].step, "ok", got))
            BY <3>1, AnsweredBy
        <3>3. Applies(n, "ok", got)
            BY <1>0, <1>1, <2>2, <2>3, <3>1, <3>2 DEF Applies
        <3> QED BY <3>2, <3>3 DEF Serving
    <2>4. CASE /\ Answered(tasks[n], "failed", None) /\ unseen' = unseen \cup {k}
               /\ lagging' = (lagging \/ Mine(tasks[n]))
        <3>1. UNCHANGED page /\ Applies(n, "failed", None)
            BY <1>0, <1>1, <2>2, <2>4, AnsweredBy DEF Applies
        <3> QED BY <3>1 DEF Serving
    <2> QED BY <2>1, <2>3, <2>4
<1>2. CASE tasks[n].what = "revoke" /\ tasks[n].step = "write" /\ tasks[n].arg \in ActiveKeys
    <2>1. PICK res \in {"ok", "failed"} :
              /\ Answered(tasks[n], res, None)
              /\ lagging' = (lagging \/ (res = "failed" /\ Mine(tasks[n])))
        BY <1>2 DEF KeysServes
    <2>2. DOMAIN keyring' = DOMAIN keyring /\ UNCHANGED unseen
        BY <1>2 DEF KeysServes
    <2>3. UNCHANGED page /\ Applies(n, res, None)
        BY <1>0, <1>2, <2>1, <2>2, AnsweredBy DEF Applies
    <2> QED BY <2>3 DEF Serving
<1>3. CASE tasks[n].step = "list"
    <2>1. Answered(tasks[n], "ok", [list |-> ActiveKeys]) /\ UNCHANGED <<keyring, unseen, lagging>>
        BY <1>3 DEF KeysServes
    <2>2. UNCHANGED page /\ Reads(n)
        BY <1>0, <1>3, <2>1, AnsweredBy DEF Reads, ServerOf, servers, histories
    <2> QED BY <2>2 DEF Serving
<1>4. CASE tasks[n].what = "revoke" /\ tasks[n].step = "write" /\ tasks[n].arg \notin ActiveKeys
    <2>1. Refused(tasks[n]) /\ UNCHANGED <<keyring, unseen>>
        BY <1>4 DEF KeysServes
    <2>2. UNCHANGED page /\ Breaks(n)
        BY <1>0, <1>4, <2>1, RefusedBy DEF servers, histories
    <2> QED BY <2>2 DEF Serving
<1> QED BY <1>1, <1>2, <1>3, <1>4 DEF KeysServes

\* ... or a request fails.
LEMMA ServesStep ==
    ASSUME TasksInv, PageShape, NEW n \in DOMAIN tasks, Serves(tasks[n])
    PROVE  PageShape' /\ Serving(n)
<1>1. CASE Fails(tasks[n]) /\ UNCHANGED <<fleet, access, keyVars>>
    <2>1. /\ tasks[n].step \in {"write", "list"} /\ Answered(tasks[n], "failed", tasks[n].got)
          /\ lagging' = (lagging \/ tasks[n].step = "list")
        BY <1>1 DEF Fails
    <2>2. UNCHANGED page /\ Breaks(n)
        BY <1>1, <2>1, AnsweredBy DEF Breaks, keyVars, servers, histories
    <2> QED BY <2>2 DEF PageShape, Serving
<1>2. CASE ~(Fails(tasks[n]) /\ UNCHANGED <<fleet, access, keyVars>>)
    <2>1. UNCHANGED page /\ Serving(n)
        BY <1>2, HomeServesStep, TeamServesStep, KeysServesStep DEF Serves
    <2> QED BY <2>1 DEF PageShape
<1> QED BY <1>1, <1>2

\* A handler goes on with its next request.
LEMMA GoesOnBy ==
    ASSUME TasksInv, NEW n \in DOMAIN tasks, NEW step, NEW got, GoesOn(tasks[n], step, got)
    PROVE  Changed(n, Moved(tasks[n], step, "none", got))
<1>1. tasks[n].no = n /\ TaskShape(tasks[n])
    BY DEF TasksInv
<1>2. /\ made' = made
      /\ tasks' = [tasks EXCEPT ![n] = [tasks[n] EXCEPT !.step = step, !.res = "none", !.got = got]]
    BY <1>1 DEF GoesOn
<1>3. tasks'[n] = [tasks[n] EXCEPT !.step = step, !.res = "none", !.got = got]
    BY <1>2
<1>4. tasks'[n] = Moved(tasks[n], step, "none", got)
    BY <1>1, <1>3 DEF TaskShape, Moved
<1> QED BY <1>2, <1>4 DEF Changed

\* A handler returns.
LEMMA EndsBy ==
    ASSUME TasksInv, NEW n \in DOMAIN tasks, Ends(tasks[n])
    PROVE  Removed(n)
BY RemovedBy DEF TasksInv

\* The answers reach the page of the projects, ...
LEMMA HomeContinuesStep ==
    ASSUME TasksInv, PageShape, NEW n \in DOMAIN tasks, HomeContinues(tasks[n]),
           UNCHANGED <<access, keyVars>>
    PROVE  PageShape' /\ Continuing(n)
<1>0. /\ tasks[n].kind = "home" /\ tasks[n].res # "none" /\ UNCHANGED <<claims, servers, histories>>
      /\ Mine(tasks[n]) => page.kind = "home"
    BY DEF HomeContinues, keyVars, servers, histories, TasksInv
<1>a. ASSUME page' = page
      PROVE  PageShape' /\ KeepsView /\ KeepsBusy
    BY <1>a DEF PageShape, KeepsView, KeepsPage, KeepsBusy
<1>1. CASE tasks[n].step = "write" /\ HomeWritten(tasks[n]) /\ tasks[n].res = "ok"
    <2>1. /\ page' = IF Mine(tasks[n]) THEN [page EXCEPT !.showCreate = FALSE] ELSE page
          /\ GoesOn(tasks[n], "list", None)
          /\ lagging' = (lagging \/ (Mine(tasks[n]) /\ Overlaps(tasks[n])))
        BY <1>1 DEF HomeWritten
    <2>2. PageShape' /\ KeepsView /\ KeepsBusy
        <3>1. CASE Mine(tasks[n])
            BY <1>0, <2>1, <3>1 DEF PageShape, PageKinds, KeepsView, KeepsBusy, KeepsPage, ListOf
        <3>2. CASE ~Mine(tasks[n])
            BY <1>a, <2>1, <3>2
        <3> QED BY <3>1, <3>2
    <2>3. Written(n)
        BY <1>0, <1>1, <2>1, <2>2, GoesOnBy DEF Written, servers, histories
    <2> QED BY <2>2, <2>3 DEF Continuing
<1>2. CASE tasks[n].step = "write" /\ HomeWritten(tasks[n]) /\ tasks[n].res = "failed"
    <2>1. /\ page' = IF Mine(tasks[n]) THEN [page EXCEPT !.createError = TRUE, !.creating = FALSE]
                     ELSE page
          /\ Ends(tasks[n]) /\ UNCHANGED lagging
        BY <1>2 DEF HomeWritten
    <2>2. PageShape' /\ KeepsView /\ KeepsBusy
        <3>1. CASE Mine(tasks[n])
            BY <1>0, <2>1, <3>1 DEF PageShape, PageKinds, KeepsView, KeepsBusy, KeepsPage, ListOf
        <3>2. CASE ~Mine(tasks[n])
            BY <1>a, <2>1, <3>2
        <3> QED BY <3>1, <3>2
    <2>3. Ended(n)
        <3>1. Removed(n) /\ KeepsPage
            BY <2>1, <2>2, EndsBy DEF KeepsView
        <3>2. page.kind = "home" =>
                  page'.claimsChanged = page.claimsChanged /\ page'.projects = page.projects
            BY <2>2 DEF KeepsView, KeepsPage, ListOf
        <3> QED BY <1>0, <1>2, <2>1, <2>2, <3>1, <3>2 DEF Ended
    <2> QED BY <2>2, <2>3 DEF Continuing
<1>3. CASE tasks[n].step = "list" /\ HomeListed(tasks[n]) /\ UNCHANGED lagging /\ tasks[n].res = "ok"
    <2> DEFINE got == [projects |-> tasks[n].got.list, failed |-> {}]
    <2>1. page' = page /\ GoesOn(tasks[n], "more", got)
        BY <1>3 DEF HomeListed
    <2>2. got = [projects |-> tasks[n].got.list, failed |-> {}]
        OBVIOUS
    <2> HIDE DEF got
    <2>3. Listed(n, got)
        BY <1>0, <1>a, <1>3, <2>1, <2>2, GoesOnBy DEF Listed, KeepsView, servers, histories
    <2> QED BY <1>a, <2>1, <2>3 DEF Continuing
<1>4. CASE tasks[n].step = "list" /\ HomeListed(tasks[n]) /\ UNCHANGED lagging /\ tasks[n].res = "failed"
    <2>1. /\ page' = IF Mine(tasks[n]) THEN HomeLoaded(page, tasks[n]) ELSE page
          /\ Ends(tasks[n]) /\ UNCHANGED lagging
        BY <1>4 DEF HomeListed
    <2>2. PageShape' /\ KeepsView /\ KeepsBusy
        <3>1. CASE Mine(tasks[n])
            BY <1>0, <2>1, <3>1
               DEF HomeLoaded, PageShape, PageKinds, KeepsView, KeepsBusy, KeepsPage, ListOf
        <3>2. CASE ~Mine(tasks[n])
            BY <1>a, <2>1, <3>2
        <3> QED BY <3>1, <3>2
    <2>3. Ended(n)
        <3>1. Removed(n) /\ KeepsPage
            BY <2>1, <2>2, EndsBy DEF KeepsView
        <3>2. page.kind = "home" =>
                  page'.claimsChanged = page.claimsChanged /\ page'.projects = page.projects
            BY <2>2 DEF KeepsView, KeepsPage, ListOf
        <3> QED BY <1>0, <1>4, <2>1, <2>2, <3>1, <3>2 DEF Ended
    <2> QED BY <2>2, <2>3 DEF Continuing
<1>5. CASE tasks[n].step = "more" /\ HomeDevices(tasks[n]) /\ UNCHANGED lagging
    <2>1. /\ page' = IF Mine(tasks[n])
                     THEN [HomeLoaded(page, tasks[n]) EXCEPT !.projects = Visible(tasks[n])] ELSE page
          /\ Ends(tasks[n]) /\ UNCHANGED lagging
        BY <1>5 DEF HomeDevices
    <2>2. CASE Mine(tasks[n])
        <3>1. PageShape' /\ KeepsPage /\ page'.projects = Visible(tasks[n])
              /\ page'.claimsChanged = page.claimsChanged
            BY <1>0, <2>1, <2>2 DEF HomeLoaded, PageShape, PageKinds, KeepsPage
        <3>2. Ended(n)
            BY <1>0, <1>5, <2>1, <2>2, <3>1, EndsBy DEF Ended, servers, histories
        <3> QED BY <3>1, <3>2 DEF Continuing
    <2>3. CASE ~Mine(tasks[n])
        <3>1. Ended(n)
            BY <1>0, <1>a, <1>5, <2>1, <2>3, EndsBy DEF Ended, KeepsView, servers, histories
        <3> QED BY <1>a, <2>1, <2>3, <3>1 DEF Continuing
    <2> QED BY <2>2, <2>3
<1> QED BY <1>0, <1>1, <1>2, <1>3, <1>4, <1>5 DEF HomeContinues, HomeWritten, HomeListed, TasksInv

\* The team page after the finally block, with other values in the remaining
\* fields.
LEMMA TeamFinally ==
    ASSUME PageShape, page.kind = "team", NEW t, NEW l,
           page' = [HandlerFinally(page, t) EXCEPT !.loading = l]
    PROVE  /\ PageShape' /\ KeepsPage /\ page'.members = page.members
           /\ page'.inviting = IF t.what = "invite" THEN FALSE ELSE page.inviting
           /\ page'.saving = IF t.what = "save" THEN FALSE ELSE page.saving
<1> DEFINE i == page.inviting /\ t.what # "invite"
           s == page.saving /\ t.what # "save"
<1>1. page.inviting \in BOOLEAN /\ page.saving \in BOOLEAN
    BY DEF PageShape
<1>2. /\ i \in BOOLEAN /\ i = IF t.what = "invite" THEN FALSE ELSE page.inviting
      /\ s \in BOOLEAN /\ s = IF t.what = "save" THEN FALSE ELSE page.saving
    BY <1>1
<1>3. page' = [page EXCEPT !.inviting = i, !.saving = s, !.loading = l]
    BY DEF HandlerFinally
<1> HIDE DEF i, s
<1>4. /\ PageShape' /\ KeepsPage /\ page'.members = page.members
      /\ page'.inviting = i /\ page'.saving = s
    BY <1>2, <1>3 DEF PageShape, PageKinds, KeepsPage
<1> QED BY <1>2, <1>4

\* A handler of the team page returns.
LEMMA TeamEnds ==
    ASSUME TasksInv, PageShape, NEW n \in DOMAIN tasks, NEW l,
           tasks[n].kind = "team", tasks[n].res # "none",
           tasks[n].step \in {"write", "list"} => tasks[n].res = "failed",
           page' = IF Mine(tasks[n])
                   THEN [HandlerFinally(page, tasks[n]) EXCEPT !.loading = l]
                   ELSE page,
           Ends(tasks[n]), UNCHANGED <<claims, lagging, servers, histories>>
    PROVE  PageShape' /\ Continuing(n)
<1>1. Removed(n)
    BY EndsBy
<1>2. CASE Mine(tasks[n])
    <2>1. page.kind = "team"
        BY <1>2 DEF TasksInv
    <2>2. /\ PageShape' /\ KeepsPage /\ page'.members = page.members
          /\ page'.inviting = IF tasks[n].what = "invite" THEN FALSE ELSE page.inviting
          /\ page'.saving = IF tasks[n].what = "save" THEN FALSE ELSE page.saving
        BY <1>2, <2>1, TeamFinally
    <2>3. Ended(n)
        BY <1>1, <1>2, <2>1, <2>2 DEF Ended
    <2> QED BY <2>2, <2>3 DEF Continuing
<1>3. CASE ~Mine(tasks[n])
    <2>1. PageShape' /\ KeepsView /\ KeepsBusy
        BY <1>3 DEF PageShape, KeepsView, KeepsPage, KeepsBusy
    <2>2. Ended(n)
        BY <1>1, <1>3, <2>1 DEF Ended, KeepsView
    <2> QED BY <2>1, <2>2 DEF Continuing
<1> QED BY <1>2, <1>3

\* ... the team page ...
LEMMA TeamContinuesStep ==
    ASSUME TasksInv, PageShape, NEW n \in DOMAIN tasks, TeamContinues(tasks[n]),
           UNCHANGED <<fleet, keyVars>>
    PROVE  PageShape' /\ Continuing(n)
<1>0. /\ tasks[n].kind = "team" /\ tasks[n].res # "none" /\ UNCHANGED <<claims, servers, histories>>
      /\ Mine(tasks[n]) => page.kind = "team"
    BY DEF TeamContinues, keyVars, servers, histories, TasksInv
<1>a. ASSUME page' = page
      PROVE  PageShape' /\ KeepsView /\ KeepsBusy
    BY <1>a DEF PageShape, KeepsView, KeepsPage, KeepsBusy
<1>b. ASSUME Mine(tasks[n])
      PROVE  /\ page.inviting \in BOOLEAN /\ page.saving \in BOOLEAN
             /\ page = [kind |-> "team", inst |-> page.inst, loading |-> page.loading,
                        members |-> page.members,
                        showInvite |-> page.showInvite, invEmail |-> page.invEmail,
                        invRole |-> page.invRole, inviting |-> page.inviting,
                        editMember |-> page.editMember, editRole |-> page.editRole,
                        saving |-> page.saving]
    BY <1>0, <1>b DEF PageShape
<1>1. CASE tasks[n].step = "write" /\ TeamWritten(tasks[n]) /\ tasks[n].res = "ok"
    <2>1. /\ page' = IF Mine(tasks[n]) THEN AfterWrite(page, tasks[n]) ELSE page
          /\ GoesOn(tasks[n], "list", None)
          /\ lagging' = (lagging \/ (Mine(tasks[n]) /\ Overlaps(tasks[n])))
        BY <1>1 DEF TeamWritten
    <2>2. PageShape' /\ KeepsView /\ KeepsBusy
        <3>1. CASE Mine(tasks[n])
            <4>1. PICK si, ie, id, em :
                      page' = [page EXCEPT !.showInvite = si, !.invEmail = ie, !.invRole = id,
                                           !.editMember = em]
                BY <2>1, <3>1 DEF AfterWrite
            <4> QED BY <1>0, <3>1, <4>1
                    DEF PageShape, PageKinds, KeepsView, KeepsBusy, KeepsPage, ListOf
        <3>2. CASE ~Mine(tasks[n])
            BY <1>a, <2>1, <3>2
        <3> QED BY <3>1, <3>2
    <2>3. Written(n)
        BY <1>0, <1>1, <2>1, <2>2, GoesOnBy DEF Written, servers, histories
    <2> QED BY <2>2, <2>3 DEF Continuing
<1>2. CASE tasks[n].step = "write" /\ TeamWritten(tasks[n]) /\ tasks[n].res = "failed"
    <2>1. /\ page' = IF Mine(tasks[n]) THEN HandlerFinally(page, tasks[n]) ELSE page
          /\ Ends(tasks[n]) /\ UNCHANGED lagging
        BY <1>2 DEF TeamWritten
    <2>2. page' = IF Mine(tasks[n])
                  THEN [HandlerFinally(page, tasks[n]) EXCEPT !.loading = page.loading]
                  ELSE page
        BY <1>b, <2>1 DEF HandlerFinally
    <2> QED BY <1>0, <1>2, <2>1, <2>2, TeamEnds
<1>3. CASE tasks[n].step = "list" /\ TeamListed(tasks[n]) /\ UNCHANGED lagging /\ tasks[n].res = "ok"
    <2>1. /\ page' = IF Mine(tasks[n]) THEN [page EXCEPT !.members = tasks[n].got.list] ELSE page
          /\ GoesOn(tasks[n], "more", None)
        BY <1>3 DEF TeamListed
    <2>2. /\ PageShape' /\ KeepsPage /\ KeepsBusy /\ (~Mine(tasks[n]) => KeepsView)
          /\ Mine(tasks[n]) => page'.members = tasks[n].got.list
        <3>1. CASE Mine(tasks[n])
            BY <1>0, <2>1, <3>1 DEF PageShape, PageKinds, KeepsPage, KeepsBusy
        <3>2. CASE ~Mine(tasks[n])
            BY <1>a, <2>1, <3>2 DEF KeepsView
        <3> QED BY <3>1, <3>2
    <2>3. Listed(n, None)
        BY <1>0, <1>3, <2>1, <2>2, GoesOnBy DEF Listed
    <2> QED BY <2>2, <2>3 DEF Continuing
<1>4. CASE tasks[n].step = "list" /\ TeamListed(tasks[n]) /\ UNCHANGED lagging /\ tasks[n].res = "failed"
    <2>1. /\ page' = IF Mine(tasks[n]) THEN TeamLoaded(page, tasks[n]) ELSE page
          /\ Ends(tasks[n]) /\ UNCHANGED lagging
        BY <1>4 DEF TeamListed
    <2>2. page' = IF Mine(tasks[n])
                  THEN [HandlerFinally(page, tasks[n]) EXCEPT !.loading = FALSE]
                  ELSE page
        BY <1>b, <2>1 DEF HandlerFinally, TeamLoaded
    <2> QED BY <1>0, <1>4, <2>1, <2>2, TeamEnds
<1>5. CASE tasks[n].step = "more" /\ TeamDevices(tasks[n]) /\ UNCHANGED lagging
    <2>1. /\ page' = IF Mine(tasks[n]) THEN TeamLoaded(page, tasks[n]) ELSE page
          /\ Ends(tasks[n]) /\ UNCHANGED lagging
        BY <1>5 DEF TeamDevices
    <2>2. page' = IF Mine(tasks[n])
                  THEN [HandlerFinally(page, tasks[n]) EXCEPT !.loading = FALSE]
                  ELSE page
        BY <2>1 DEF TeamLoaded
    <2> QED BY <1>0, <1>5, <2>1, <2>2, TeamEnds
<1> QED BY <1>0, <1>1, <1>2, <1>3, <1>4, <1>5 DEF TeamContinues, TeamWritten, TeamListed, TasksInv

\* ... and the page of the API keys.
LEMMA KeysContinuesStep ==
    ASSUME TasksInv, PageShape, NEW n \in DOMAIN tasks, KeysContinues(tasks[n]),
           UNCHANGED <<fleet, access>>
    PROVE  PageShape' /\ Continuing(n)
<1>0. /\ tasks[n].kind = "keys" /\ tasks[n].res # "none" /\ UNCHANGED <<claims, servers>>
      /\ Mine(tasks[n]) => page.kind = "keys"
    BY DEF KeysContinues, keyVars, servers, TasksInv
<1>a. ASSUME page' = page
      PROVE  PageShape' /\ KeepsView /\ KeepsBusy
    BY <1>a DEF PageShape, KeepsView, KeepsPage, KeepsBusy
<1>1. CASE tasks[n].step = "write" /\ tasks[n].res = "ok" /\ tasks[n].what = "create"
           /\ KeysWritten(tasks[n])
    <2>1. /\ page' = IF Mine(tasks[n])
                     THEN [page EXCEPT !.newKey = tasks[n].got.key, !.showCreate = FALSE,
                                       !.creating = FALSE]
                     ELSE page
          /\ shown' = IF Mine(tasks[n]) THEN shown \cup {tasks[n].got.key} ELSE shown
          /\ unseen' = IF Mine(tasks[n]) THEN unseen ELSE unseen \cup {tasks[n].got.key}
          /\ GoesOn(tasks[n], "list", None)
          /\ lagging' = (lagging \/ (Mine(tasks[n]) /\ Overlaps(tasks[n])))
        BY <1>1 DEF KeysWritten, KeyCreated
    <2>2. PageShape' /\ KeepsView /\ KeepsBusy
        <3>1. CASE Mine(tasks[n])
            BY <1>0, <2>1, <3>1 DEF PageShape, PageKinds, KeepsView, KeepsBusy, KeepsPage, ListOf
        <3>2. CASE ~Mine(tasks[n])
            BY <1>a, <2>1, <3>2
        <3> QED BY <3>1, <3>2
    <2>3. /\ shown \subseteq shown' /\ unseen \subseteq unseen'
          /\ tasks[n].got.key \in shown' \cup unseen'
        BY <2>1
    <2>4. Written(n)
        BY <1>0, <1>1, <2>1, <2>2, <2>3, GoesOnBy DEF Written
    <2> QED BY <2>2, <2>4 DEF Continuing
<1>2. CASE tasks[n].step = "write" /\ tasks[n].res = "ok" /\ tasks[n].what = "revoke"
           /\ KeysWritten(tasks[n])
    <2>1. /\ UNCHANGED <<page, shown, unseen>> /\ GoesOn(tasks[n], "list", None)
          /\ lagging' = (lagging \/ (Mine(tasks[n]) /\ Overlaps(tasks[n])))
        BY <1>2 DEF KeysWritten
    <2>2. Written(n)
        BY <1>0, <1>a, <1>2, <2>1, GoesOnBy DEF Written
    <2> QED BY <1>a, <2>1, <2>2 DEF Continuing
<1>3. CASE tasks[n].step = "write" /\ tasks[n].res = "failed" /\ KeysWritten(tasks[n])
    <2>1. /\ page' = IF Mine(tasks[n]) /\ tasks[n].what = "create" /\ page.dialog = tasks[n].arg
                     THEN [page EXCEPT !.createError = TRUE, !.creating = FALSE] ELSE page
          /\ Ends(tasks[n]) /\ UNCHANGED <<lagging, shown, unseen>>
        BY <1>3 DEF KeysWritten
    <2>2. PageShape' /\ KeepsView /\ KeepsBusy
        <3>1. CASE Mine(tasks[n]) /\ tasks[n].what = "create" /\ page.dialog = tasks[n].arg
            BY <1>0, <2>1, <3>1 DEF PageShape, PageKinds, KeepsView, KeepsBusy, KeepsPage, ListOf
        <3>2. CASE ~(Mine(tasks[n]) /\ tasks[n].what = "create" /\ page.dialog = tasks[n].arg)
            BY <1>a, <2>1, <3>2
        <3> QED BY <3>1, <3>2
    <2>3. Removed(n) /\ KeepsPage /\ (page.kind = "keys" => page'.keys = page.keys)
        BY <2>1, <2>2, EndsBy DEF KeepsView, KeepsPage, ListOf
    <2>4. Ended(n)
        BY <1>0, <1>3, <2>1, <2>2, <2>3 DEF Ended, histories
    <2> QED BY <2>2, <2>4 DEF Continuing
<1>4. CASE tasks[n].step = "list" /\ KeysListed(tasks[n]) /\ UNCHANGED <<lagging, shown, unseen>>
    <2>1. /\ page' = IF ~Mine(tasks[n]) THEN page
                     ELSE IF tasks[n].res = "ok"
                          THEN [page EXCEPT !.keys = tasks[n].got.list, !.error = FALSE,
                                            !.loading = FALSE]
                          ELSE [page EXCEPT !.error = TRUE, !.loading = FALSE]
          /\ Ends(tasks[n])
        BY <1>4 DEF KeysListed
    <2>2. Removed(n)
        BY <2>1, EndsBy
    <2>3. CASE Mine(tasks[n])
        <3>1. /\ PageShape' /\ KeepsPage
              /\ page'.keys = IF tasks[n].res = "ok" THEN tasks[n].got.list ELSE page.keys
            <4>1. CASE tasks[n].res = "ok"
                BY <1>0, <2>1, <2>3, <4>1 DEF PageShape, PageKinds, KeepsPage
            <4>2. CASE tasks[n].res # "ok"
                BY <1>0, <2>1, <2>3, <4>2 DEF PageShape, PageKinds, KeepsPage
            <4> QED BY <4>1, <4>2
        <3>2. Ended(n)
            BY <1>0, <1>4, <2>2, <2>3, <3>1 DEF Ended, histories
        <3> QED BY <3>1, <3>2 DEF Continuing
    <2>4. CASE ~Mine(tasks[n])
        <3>1. PageShape' /\ KeepsView /\ KeepsBusy /\ KeepsPage
            BY <1>a, <2>1, <2>4 DEF KeepsView
        <3>2. Ended(n)
            BY <1>0, <1>4, <2>2, <2>4, <3>1 DEF Ended, histories
        <3> QED BY <3>1, <3>2 DEF Continuing
    <2> QED BY <2>3, <2>4
<1> QED BY <1>0, <1>1, <1>2, <1>3, <1>4 DEF KeysContinues, KeysWritten, TasksInv

\* All of them.
LEMMA PagesStep ==
    ASSUME TasksInv, PageShape, [Next]_vars
    PROVE  PageShape' /\ PageStep
<1>1. ASSUME NEW kind \in PageKinds, Enter(kind)
      PROVE  PageShape' /\ PageStep
    BY <1>1, EnterStep DEF PageStep
<1>2. CASE Exit
    BY <1>2, ExitStep DEF PageStep
<1>3. ASSUME NEW c \in LaterClaims, ClaimsChange(c)
      PROVE  PageShape' /\ PageStep
    BY <1>3, ClaimsStep DEF PageStep
<1>4. CASE Clicks
    <2>1. PageShape' /\ (Quiet \/ \E what, arg : Starts(what, arg))
        BY <1>4, HomeClicksStep, TeamClicksStep, KeysClicksStep DEF Clicks
    <2> QED BY <2>1 DEF PageStep
<1>5. ASSUME NEW n \in DOMAIN tasks, Serves(tasks[n])
      PROVE  PageShape' /\ PageStep
    BY <1>5, ServesStep DEF PageStep
<1>6. ASSUME NEW n \in DOMAIN tasks, Continues(tasks[n])
      PROVE  PageShape' /\ PageStep
    <2>1. PageShape' /\ Continuing(n)
        BY <1>6, HomeContinuesStep, TeamContinuesStep, KeysContinuesStep DEF Continues
    <2> QED BY <2>1 DEF PageStep
<1>7. CASE UNCHANGED vars
    <2>1. UNCHANGED <<page, claims, taskVars, lagging>> /\ UNCHANGED <<fleet, access, keyVars>>
        BY <1>7 DEF vars
    <2>2. PageShape' /\ KeepsView /\ KeepsBusy
        BY <2>1 DEF PageShape, KeepsView, KeepsPage, KeepsBusy
    <2>3. Quiet
        BY <2>1, <2>2, QuietBy
    <2> QED BY <2>2, <2>3 DEF PageStep
<1> QED BY <1>1, <1>2, <1>3, <1>4, <1>5, <1>6, <1>7 DEF Next, PageKinds
-----------------------------------------------------------------------------
(* The steps keep the invariants.                                          *)

\* What each handler under way satisfies, of a page with the given kind and
\* instance.
TaskOK(n, t, kind, inst) ==
    /\ TaskShape(t) /\ t.no = n
    /\ t.kind \in PageKinds
    /\ t.step \in {"write", "list", "more"}
    /\ t.res \in {"none", "ok", "failed"}
    /\ t.inst \in Nat /\ t.inst <= inst
    /\ kind # "none" /\ t.inst = inst => t.kind = kind
    /\ t.kind = "home" /\ t.step = "more" =>
          t.got = [projects |-> t.got.projects, failed |-> t.got.failed]

\* TasksInv says that of each.
LEMMA TasksAre ==
    TasksInv <=> /\ made \in Nat /\ DOMAIN tasks \subseteq 1 .. made
                 /\ \A n \in DOMAIN tasks : TaskOK(n, tasks[n], page.kind, page.inst)
BY DEF TasksInv, TaskOK, Mine

\* It stays true of a handler that moves on.
LEMMA MovedOK ==
    ASSUME NEW n, NEW t, NEW kind, NEW inst, TaskOK(n, t, kind, inst),
           NEW step \in {"write", "list", "more"}, NEW res \in {"none", "ok", "failed"}, NEW got,
           t.kind = "home" /\ step = "more" =>
               got = [projects |-> got.projects, failed |-> got.failed]
    PROVE  TaskOK(n, Moved(t, step, res, got), kind, inst)
<1>1. TaskShape(Moved(t, step, res, got))
    BY DEF Moved, TaskShape
<1> QED BY <1>1 DEF TaskOK, Moved

\* In all the steps of one handler, that one moves on or is gone, and the others
\* are as they were.
Moves(n, step, res, got) ==
    /\ n \in DOMAIN tasks /\ Changed(n, Moved(tasks[n], step, res, got)) /\ KeepsPage
    /\ step \in {"write", "list", "more"} /\ res \in {"none", "ok", "failed"}
    /\ tasks[n].kind = "home" /\ step = "more" =>
          got = [projects |-> got.projects, failed |-> got.failed]

\* The kinds of step that move a handler on.
LEMMA ServingMoves ==
    ASSUME TasksInv, NEW n \in DOMAIN tasks
    PROVE  /\ Reads(n) => Moves(n, "list", "ok", [list |-> ServerOf(tasks[n].kind)])
           /\ \A got : ReadsMore(n, got) => Moves(n, "more", "ok", got)
           /\ \A res, got : Applies(n, res, got) => Moves(n, "write", res, got)
           /\ Breaks(n) => Moves(n, tasks[n].step, "failed", tasks[n].got)
           /\ Written(n) => Moves(n, "list", "none", None)
           /\ \A got : Listed(n, got) => Moves(n, "more", "none", got)
<1>1. ASSUME Reads(n) PROVE Moves(n, "list", "ok", [list |-> ServerOf(tasks[n].kind)])
    BY <1>1 DEF Reads, Moves, KeepsPage
<1>2. ASSUME NEW got, ReadsMore(n, got) PROVE Moves(n, "more", "ok", got)
    <2>1. tasks[n].kind = "home" => got = [projects |-> got.projects, failed |-> got.failed]
        BY <1>2 DEF ReadsMore
    <2> QED BY <1>2, <2>1 DEF ReadsMore, Moves, KeepsPage
<1>3. ASSUME NEW res, NEW got, Applies(n, res, got) PROVE Moves(n, "write", res, got)
    BY <1>3 DEF Applies, Moves, KeepsPage
<1>4. ASSUME Breaks(n) PROVE Moves(n, tasks[n].step, "failed", tasks[n].got)
    BY <1>4 DEF Breaks, Moves, KeepsPage
<1>5. ASSUME Written(n) PROVE Moves(n, "list", "none", None)
    BY <1>5 DEF Written, Moves, KeepsView
<1>6. ASSUME NEW got, Listed(n, got) PROVE Moves(n, "more", "none", got)
    <2>1. tasks[n].kind = "home" => got = [projects |-> got.projects, failed |-> got.failed]
        BY <1>6 DEF Listed
    <2> QED BY <1>6, <2>1 DEF Listed, Moves
<1> QED BY <1>1, <1>2, <1>3, <1>4, <1>5, <1>6

\* Where that leaves every handler.
LEMMA MovesFacts ==
    ASSUME TasksInv, NEW n, NEW step, NEW res, NEW got, Moves(n, step, res, got)
    PROVE  /\ TasksInv'
           /\ DOMAIN tasks' = DOMAIN tasks
           /\ \A k \in DOMAIN tasks : k # n => tasks'[k] = tasks[k]
           /\ \A k \in DOMAIN tasks : /\ tasks'[k].kind = tasks[k].kind
                                      /\ tasks'[k].what = tasks[k].what
                                      /\ tasks'[k].arg = tasks[k].arg
                                      /\ Mine(tasks[k])' <=> Mine(tasks[k])
           /\ tasks'[n].step = step /\ tasks'[n].res = res /\ tasks'[n].got = got
<1>1. /\ n \in DOMAIN tasks /\ DOMAIN tasks' = DOMAIN tasks /\ made' = made
      /\ \A k \in DOMAIN tasks : k # n => tasks'[k] = tasks[k]
      /\ tasks'[n] = Moved(tasks[n], step, res, got)
      /\ page'.kind = page.kind /\ page'.inst = page.inst
    BY DEF Moves, Changed, KeepsPage
<1>2. TaskOK(n, tasks'[n], page.kind, page.inst)
    BY <1>1, TasksAre, MovedOK DEF Moves
<1>3. \A k \in DOMAIN tasks : TaskOK(k, tasks'[k], page.kind, page.inst)
    BY <1>1, <1>2, TasksAre
<1>4. TasksInv'
    BY <1>1, <1>3, TasksAre DEF TasksInv, TaskOK, Mine
<1>5. /\ tasks'[n].kind = tasks[n].kind /\ tasks'[n].what = tasks[n].what
      /\ tasks'[n].arg = tasks[n].arg /\ tasks'[n].inst = tasks[n].inst
      /\ tasks'[n].step = step /\ tasks'[n].res = res /\ tasks'[n].got = got
    BY <1>1 DEF Moved
<1>6. \A k \in DOMAIN tasks : Mine(tasks[k])' <=> Mine(tasks[k])
    BY <1>1, <1>5 DEF Mine
<1> QED BY <1>1, <1>4, <1>5, <1>6

\* A handler that is gone.
LEMMA RemovedFacts ==
    ASSUME TasksInv, NEW n \in DOMAIN tasks, Removed(n), KeepsPage
    PROVE  /\ TasksInv'
           /\ DOMAIN tasks' = DOMAIN tasks \ {n}
           /\ \A k \in DOMAIN tasks' : tasks'[k] = tasks[k] /\ (Mine(tasks[k])' <=> Mine(tasks[k]))
<1>1. /\ DOMAIN tasks' = DOMAIN tasks \ {n} /\ made' = made
      /\ \A k \in DOMAIN tasks' : tasks'[k] = tasks[k]
      /\ page'.kind = page.kind /\ page'.inst = page.inst
    BY DEF Removed, KeepsPage
<1>2. \A k \in DOMAIN tasks' : Mine(tasks[k])' <=> Mine(tasks[k])
    BY <1>1 DEF Mine
<1>3. \A k \in DOMAIN tasks' : TaskOK(k, tasks'[k], page'.kind, page'.inst)
    BY <1>1, TasksAre
<1>4. TasksInv'
    BY <1>1, <1>3, TasksAre DEF TasksInv, TaskOK, Mine
<1> QED BY <1>1, <1>2, <1>4

\* A handler that is new, of the same page ...
LEMMA StartsFacts ==
    ASSUME TasksInv, PageShape, NEW what, NEW arg, Starts(what, arg)
    PROVE  /\ TasksInv'
           /\ \A k \in DOMAIN tasks : tasks'[k] = tasks[k] /\ (Mine(tasks[k])' <=> Mine(tasks[k]))
           /\ \E n : /\ DOMAIN tasks' = DOMAIN tasks \cup {n} /\ n \notin DOMAIN tasks
                     /\ tasks'[n].what = what /\ tasks'[n].arg = arg
                     /\ tasks'[n].step = "write" /\ tasks'[n].res = "none"
                     /\ Mine(tasks[n])'
<1> DEFINE t == [no |-> made + 1, kind |-> page.kind, inst |-> page.inst, what |-> what,
                 arg |-> arg, step |-> "write", res |-> "none", got |-> None]
<1>1. /\ DOMAIN tasks' = DOMAIN tasks \cup {made + 1} /\ made' = made + 1
      /\ \A k \in DOMAIN tasks : tasks'[k] = tasks[k]
      /\ tasks'[made + 1] = t
      /\ page'.kind = page.kind /\ page'.inst = page.inst /\ page.kind \in PageKinds
    BY DEF Starts, Added, KeepsView, KeepsPage
<1>2. /\ TaskShape(t) /\ t.no = made + 1 /\ t.kind = page.kind /\ t.inst = page.inst
      /\ t.what = what /\ t.arg = arg /\ t.step = "write" /\ t.res = "none"
    BY DEF TaskShape
<1> HIDE DEF t
<1>3. made \in Nat /\ DOMAIN tasks \subseteq 1 .. made /\ page.inst \in Nat
    BY DEF TasksInv, PageShape
<1>4. made + 1 \notin DOMAIN tasks /\ DOMAIN tasks' \subseteq 1 .. made' /\ made' \in Nat
    BY <1>1, <1>3
<1>5. TaskOK(made + 1, t, page.kind, page.inst)
    BY <1>1, <1>2, <1>3 DEF TaskOK, PageKinds
<1>6. \A k \in DOMAIN tasks' : TaskOK(k, tasks'[k], page'.kind, page'.inst)
    BY <1>1, <1>5, TasksAre
<1>7. TasksInv'
    BY <1>4, <1>6 DEF TasksInv, TaskOK, Mine
<1>8. \A k \in DOMAIN tasks : Mine(tasks[k])' <=> Mine(tasks[k])
    BY <1>1 DEF Mine
<1>9. PICK n : n = made + 1
    OBVIOUS
<1>10. Mine(tasks[n])'
    BY <1>1, <1>2, <1>9 DEF Mine, PageKinds
<1>11. /\ DOMAIN tasks' = DOMAIN tasks \cup {n} /\ n \notin DOMAIN tasks
       /\ tasks'[n].what = what /\ tasks'[n].arg = arg
       /\ tasks'[n].step = "write" /\ tasks'[n].res = "none"
    BY <1>1, <1>2, <1>4, <1>9
<1> QED BY <1>1, <1>7, <1>8, <1>10, <1>11

\* ... or of the next one, which has no other.
LEMMA MountsFacts ==
    ASSUME TasksInv, PageShape, Mounts
    PROVE  /\ TasksInv'
           /\ \A k \in DOMAIN tasks : tasks'[k] = tasks[k] /\ ~Mine(tasks[k])'
           /\ \E n : /\ DOMAIN tasks' = DOMAIN tasks \cup {n}
                     /\ tasks'[n].what = "load" /\ tasks'[n].arg = claims'.vehicles
                     /\ tasks'[n].step = "list" /\ tasks'[n].res = "none"
                     /\ Mine(tasks[n])'
<1> DEFINE t == [no |-> made + 1, kind |-> page'.kind, inst |-> page'.inst, what |-> "load",
                 arg |-> claims'.vehicles, step |-> "list", res |-> "none", got |-> None]
<1>1. /\ DOMAIN tasks' = DOMAIN tasks \cup {made + 1} /\ made' = made + 1
      /\ \A k \in DOMAIN tasks : tasks'[k] = tasks[k]
      /\ tasks'[made + 1] = t
      /\ page'.inst = page.inst + 1 /\ page'.kind \in PageKinds
    BY DEF Mounts, Added
<1>2. /\ TaskShape(t) /\ t.no = made + 1 /\ t.kind = page'.kind /\ t.inst = page'.inst
      /\ t.what = "load" /\ t.arg = claims'.vehicles /\ t.step = "list" /\ t.res = "none"
    BY DEF TaskShape
<1> HIDE DEF t
<1>3. made \in Nat /\ DOMAIN tasks \subseteq 1 .. made /\ page.inst \in Nat
    BY DEF TasksInv, PageShape
<1>4. DOMAIN tasks' \subseteq 1 .. made' /\ made' \in Nat
    BY <1>1, <1>3
<1>5. TaskOK(made + 1, t, page'.kind, page'.inst)
    BY <1>1, <1>2, <1>3 DEF TaskOK, PageKinds
<1>6. ASSUME NEW k \in DOMAIN tasks PROVE tasks[k].inst # page'.inst
    <2>1. tasks[k].inst \in Nat /\ tasks[k].inst <= page.inst
        BY DEF TasksInv
    <2> QED BY <1>1, <1>3, <2>1
<1>7. \A k \in DOMAIN tasks : TaskOK(k, tasks[k], page'.kind, page'.inst)
    BY <1>1, <1>3, <1>6, TasksAre DEF TaskOK
<1>8. \A k \in DOMAIN tasks' : TaskOK(k, tasks'[k], page'.kind, page'.inst)
    BY <1>1, <1>5, <1>7
<1>9. TasksInv'
    BY <1>4, <1>8 DEF TasksInv, TaskOK, Mine
<1>10. \A k \in DOMAIN tasks : ~Mine(tasks[k])'
    BY <1>1, <1>6 DEF Mine
<1>11. PICK n : n = made + 1
    OBVIOUS
<1>12. Mine(tasks[n])'
    BY <1>1, <1>2, <1>11 DEF Mine, PageKinds
<1>13. /\ DOMAIN tasks' = DOMAIN tasks \cup {n}
       /\ tasks'[n].what = "load" /\ tasks'[n].arg = claims'.vehicles
       /\ tasks'[n].step = "list" /\ tasks'[n].res = "none"
    BY <1>1, <1>2, <1>11
<1> QED BY <1>1, <1>9, <1>10, <1>12, <1>13

\* Every step keeps TasksInv.
LEMMA TasksStep ==
    ASSUME TasksInv, PageShape, PageStep
    PROVE  TasksInv'
<1>1. CASE Quiet \/ NewClaims
    BY <1>1 DEF Quiet, NewClaims, KeepsView, KeepsPage, TasksInv, Mine
<1>2. CASE Leaves
    BY <1>2 DEF Leaves, TasksInv, Mine
<1>3. CASE Mounts
    BY <1>3, MountsFacts
<1>4. ASSUME NEW what, NEW arg, Starts(what, arg) PROVE TasksInv'
    BY <1>4, StartsFacts
<1>5. ASSUME NEW n \in DOMAIN tasks, Serving(n) \/ Continuing(n) PROVE TasksInv'
    <2>1. CASE Ended(n)
        BY <2>1, RemovedFacts DEF Ended
    <2>2. CASE ~Ended(n)
        <3>1. \E step, res, got : Moves(n, step, res, got)
            BY <1>5, <2>2, ServingMoves DEF Serving, Continuing
        <3> QED BY <3>1, MovesFacts
    <2> QED BY <2>1, <2>2
<1> QED BY <1>1, <1>2, <1>3, <1>4, <1>5 DEF PageStep

\* The team page's flags.
LEMMA BusyStep ==
    ASSUME TasksInv, PageShape, PageShape', BusyInv, PageStep
    PROVE  BusyInv'
<1> SUFFICES ASSUME page'.kind = "team"
             PROVE  OneOf("invite", page.inviting)' /\ OneOf("save", page.saving)'
    BY DEF BusyInv
<1>0. page'.inviting \in BOOLEAN /\ page'.saving \in BOOLEAN
    BY DEF PageShape
<1>1. CASE Quiet \/ NewClaims
    <2>1. /\ page.kind = "team" /\ page'.inst = page.inst /\ tasks' = tasks
          /\ page'.inviting = page.inviting /\ page'.saving = page.saving
        BY <1>1 DEF Quiet, NewClaims, KeepsView, KeepsPage, KeepsBusy
    <2> QED BY <2>1 DEF BusyInv, OneOf, Mine
<1>2. CASE Leaves
    BY <1>2 DEF Leaves
<1>3. CASE Mounts
    <2>1. page'.inviting = FALSE /\ page'.saving = FALSE
        BY <1>3 DEF Mounts
    <2>2. \A n \in DOMAIN tasks' : Mine(tasks[n])' => tasks'[n].what = "load"
        BY <1>3, MountsFacts
    <2> QED BY <2>1, <2>2 DEF OneOf
<1>4. ASSUME NEW what, NEW arg, Starts(what, arg)
      PROVE  OneOf("invite", page.inviting)' /\ OneOf("save", page.saving)'
    <2>1. PICK n : /\ DOMAIN tasks' = DOMAIN tasks \cup {n} /\ n \notin DOMAIN tasks
                   /\ tasks'[n].what = what /\ tasks'[n].arg = arg
                   /\ tasks'[n].step = "write" /\ tasks'[n].res = "none"
                   /\ Mine(tasks[n])'
        BY <1>4, StartsFacts
    <2>2. \A k \in DOMAIN tasks : tasks'[k] = tasks[k] /\ (Mine(tasks[k])' <=> Mine(tasks[k]))
        BY <1>4, StartsFacts
    <2>3. /\ page.kind = "team"
          /\ what = "invite" => page.inviting = FALSE /\ page'.inviting = TRUE
          /\ what # "invite" => page'.inviting = page.inviting
          /\ what = "save" => page.saving = FALSE /\ page'.saving = TRUE
          /\ what # "save" => page'.saving = page.saving
        BY <1>4 DEF Starts, KeepsView, KeepsPage
    <2>4. OneOf("invite", page.inviting)'
        <3>1. CASE what = "invite"
            BY <2>1, <2>2, <2>3, <3>1 DEF BusyInv, OneOf
        <3>2. CASE what # "invite"
            BY <2>1, <2>2, <2>3, <3>2 DEF BusyInv, OneOf
        <3> QED BY <3>1, <3>2
    <2>5. OneOf("save", page.saving)'
        <3>1. CASE what = "save"
            BY <2>1, <2>2, <2>3, <3>1 DEF BusyInv, OneOf
        <3>2. CASE what # "save"
            BY <2>1, <2>2, <2>3, <3>2 DEF BusyInv, OneOf
        <3> QED BY <3>1, <3>2
    <2> QED BY <2>4, <2>5
<1>5. ASSUME NEW n \in DOMAIN tasks, Ended(n)
      PROVE  OneOf("invite", page.inviting)' /\ OneOf("save", page.saving)'
    <2>1. /\ DOMAIN tasks' = DOMAIN tasks \ {n}
          /\ \A k \in DOMAIN tasks' : tasks'[k] = tasks[k] /\ (Mine(tasks[k])' <=> Mine(tasks[k]))
        BY <1>5, RemovedFacts DEF Ended
    <2>2. page.kind = "team"
        BY <1>5 DEF Ended, KeepsPage
    <2>3. CASE Mine(tasks[n])
        <3>1. /\ page'.inviting = IF tasks[n].what = "invite" THEN FALSE ELSE page.inviting
              /\ page'.saving = IF tasks[n].what = "save" THEN FALSE ELSE page.saving
            BY <1>5, <2>2, <2>3 DEF Ended
        <3>2. OneOf("invite", page.inviting)'
            BY <2>1, <2>2, <2>3, <3>1 DEF BusyInv, OneOf
        <3>3. OneOf("save", page.saving)'
            BY <2>1, <2>2, <2>3, <3>1 DEF BusyInv, OneOf
        <3> QED BY <3>2, <3>3
    <2>4. CASE ~Mine(tasks[n])
        <3>1. page'.inviting = page.inviting /\ page'.saving = page.saving
            BY <1>5, <2>2, <2>4 DEF Ended, KeepsBusy
        <3> QED BY <2>1, <2>2, <2>4, <3>1 DEF BusyInv, OneOf
    <2> QED BY <2>3, <2>4
<1>6. ASSUME NEW n \in DOMAIN tasks, Serving(n) \/ Continuing(n), ~Ended(n)
      PROVE  OneOf("invite", page.inviting)' /\ OneOf("save", page.saving)'
    <2>1. PICK step, res, got : Moves(n, step, res, got)
        BY <1>6, ServingMoves DEF Serving, Continuing
    <2>2. /\ DOMAIN tasks' = DOMAIN tasks
          /\ \A k \in DOMAIN tasks : /\ tasks'[k].what = tasks[k].what
                                     /\ Mine(tasks[k])' <=> Mine(tasks[k])
        BY <2>1, MovesFacts
    <2>3. page.kind = "team" /\ page'.inviting = page.inviting /\ page'.saving = page.saving
        BY <1>6 DEF Serving, Continuing, Reads, ReadsMore, Applies, Breaks, Written, Listed,
                    KeepsBusy, KeepsPage, KeepsView
    <2> QED BY <2>2, <2>3 DEF BusyInv, OneOf
<1> QED BY <1>1, <1>2, <1>3, <1>4, <1>5, <1>6 DEF PageStep

\* The keys and the answers that carry them.
LEMMA KeyStep ==
    ASSUME TasksInv, PageShape, KeyInv, PageStep
    PROVE  KeyInv'
<1> DEFINE Carries(t, k) == /\ t.kind = "keys" /\ t.what = "create"
                            /\ t.step = "write" /\ t.res = "ok" /\ t.got = [key |-> k]
<1> SUFFICES ASSUME NEW k \in DOMAIN keyring'
             PROVE  k \in shown' \cup unseen' \/ \E n \in DOMAIN tasks' : Carries(tasks'[n], k)
    BY DEF KeyInv
<1>0. \A j \in DOMAIN keyring : j \in shown \cup unseen \/ \E n \in DOMAIN tasks : Carries(tasks[n], j)
    BY DEF KeyInv
<1>1. CASE Quiet \/ Leaves \/ NewClaims
    BY <1>0, <1>1 DEF Quiet, Leaves, NewClaims, servers, histories
<1>2. CASE Mounts \/ \E what, arg : Starts(what, arg)
    <2>1. UNCHANGED <<keyring, shown, unseen>>
        BY <1>2 DEF Mounts, Starts, servers, histories
    <2>2. \A n \in DOMAIN tasks : n \in DOMAIN tasks' /\ tasks'[n] = tasks[n]
        BY <1>2 DEF Mounts, Starts, Added
    <2> HIDE DEF Carries
    <2> QED BY <1>0, <2>1, <2>2
<1>3. ASSUME NEW n \in DOMAIN tasks, NEW step, NEW res, NEW got, Moves(n, step, res, got),
             \A j : ~Carries(tasks[n], j), UNCHANGED <<keyring, shown, unseen>>
      PROVE  k \in shown' \cup unseen' \/ \E m \in DOMAIN tasks' : Carries(tasks'[m], k)
    <2>1. DOMAIN tasks' = DOMAIN tasks /\ \A j \in DOMAIN tasks : j # n => tasks'[j] = tasks[j]
        BY <1>3, MovesFacts
    <2> HIDE DEF Carries
    <2> QED BY <1>0, <1>3, <2>1
<1>4. ASSUME NEW n \in DOMAIN tasks, Serving(n)
      PROVE  k \in shown' \cup unseen' \/ \E m \in DOMAIN tasks' : Carries(tasks'[m], k)
    <2>1. tasks[n].res = "none"
        BY <1>4 DEF Serving, Reads, ReadsMore, Applies, Breaks
    <2>2. \A j : ~Carries(tasks[n], j)
        BY <2>1
    <2>3. CASE Reads(n) \/ (\E got : ReadsMore(n, got)) \/ Breaks(n)
        <3>1. UNCHANGED <<keyring, shown, unseen>>
            BY <2>3 DEF Reads, ReadsMore, Breaks, servers, histories
        <3>2. \E step, res, got : Moves(n, step, res, got)
            BY <2>3, ServingMoves
        <3> HIDE DEF Carries
        <3> QED BY <1>3, <2>2, <3>1, <3>2
    <2>4. ASSUME NEW res, NEW got, Applies(n, res, got)
          PROVE  k \in shown' \cup unseen' \/ \E m \in DOMAIN tasks' : Carries(tasks'[m], k)
        <3>1. Moves(n, "write", res, got)
            BY <2>4, ServingMoves
        <3>2. /\ DOMAIN tasks' = DOMAIN tasks /\ \A j \in DOMAIN tasks : j # n => tasks'[j] = tasks[j]
              /\ tasks'[n].kind = tasks[n].kind /\ tasks'[n].what = tasks[n].what
              /\ tasks'[n].step = "write" /\ tasks'[n].res = res /\ tasks'[n].got = got
            BY <3>1, MovesFacts
        <3>3. UNCHANGED shown /\ unseen \subseteq unseen'
            BY <2>4 DEF Applies
        <3>4. CASE k \in DOMAIN keyring
            <4> HIDE DEF Carries
            <4> QED BY <1>0, <2>2, <3>2, <3>3, <3>4
        <3>5. CASE k \notin DOMAIN keyring
            <4>1. /\ tasks[n].kind = "keys" /\ tasks[n].what = "create"
                  /\ \/ res = "ok" /\ got = [key |-> k]
                     \/ unseen' = unseen \cup {k}
                BY <2>4, <3>5 DEF Applies
            <4> QED BY <3>2, <4>1
        <3> QED BY <3>4, <3>5
    <2> QED BY <1>4, <2>3, <2>4 DEF Serving
<1>5. ASSUME NEW n \in DOMAIN tasks, Written(n)
      PROVE  k \in shown' \cup unseen' \/ \E m \in DOMAIN tasks' : Carries(tasks'[m], k)
    <2>1. DOMAIN tasks' = DOMAIN tasks /\ \A j \in DOMAIN tasks : j # n => tasks'[j] = tasks[j]
        BY <1>5, ServingMoves, MovesFacts
    <2>2. /\ keyring' = keyring /\ shown \subseteq shown' /\ unseen \subseteq unseen'
          /\ tasks[n].kind = "keys" /\ tasks[n].what = "create" =>
                tasks[n].got.key \in shown' \cup unseen'
        BY <1>5 DEF Written, servers
    <2>3. Carries(tasks[n], k) => tasks[n].got.key = k
        OBVIOUS
    <2>4. Carries(tasks[n], k) => k \in shown' \cup unseen'
        BY <2>2, <2>3
    <2> HIDE DEF Carries
    <2> QED BY <1>0, <2>1, <2>2, <2>4
<1>6. ASSUME NEW n \in DOMAIN tasks, NEW got, Listed(n, got)
      PROVE  k \in shown' \cup unseen' \/ \E m \in DOMAIN tasks' : Carries(tasks'[m], k)
    <2>1. Moves(n, "more", "none", got)
        BY <1>6, ServingMoves
    <2>2. \A j : ~Carries(tasks[n], j)
        BY <1>6 DEF Listed
    <2>3. UNCHANGED <<keyring, shown, unseen>>
        BY <1>6 DEF Listed, servers, histories
    <2> HIDE DEF Carries
    <2> QED BY <1>3, <2>1, <2>2, <2>3
<1>7. ASSUME NEW n \in DOMAIN tasks, Ended(n)
      PROVE  k \in shown' \cup unseen' \/ \E m \in DOMAIN tasks' : Carries(tasks'[m], k)
    <2>1. DOMAIN tasks' = DOMAIN tasks \ {n} /\ \A j \in DOMAIN tasks' : tasks'[j] = tasks[j]
        BY <1>7 DEF Ended, Removed
    <2>2. \A j : ~Carries(tasks[n], j)
        BY <1>7 DEF Ended
    <2>3. UNCHANGED <<keyring, shown, unseen>>
        BY <1>7 DEF Ended, servers, histories
    <2> HIDE DEF Carries
    <2> QED BY <1>0, <2>1, <2>2, <2>3
<1> QED BY <1>1, <1>2, <1>4, <1>5, <1>6, <1>7 DEF PageStep, Continuing

\* What the page of the projects shows.
LEMMA EntitledStep ==
    ASSUME TasksInv, PageShape, EntitledInv, PageStep
    PROVE  EntitledInv'
<1> SUFFICES ASSUME page'.kind = "home", ~page'.claimsChanged
             PROVE  /\ \A n \in DOMAIN tasks' : Mine(tasks[n])' => tasks'[n].arg = claims'.vehicles
                    /\ UnentitledOnlyAfterClaimsChange'
    BY DEF EntitledInv
<1> DEFINE Args == \A n \in DOMAIN tasks : Mine(tasks[n]) => tasks[n].arg = claims.vehicles
<1> SUFFICES Args' /\ UnentitledOnlyAfterClaimsChange'
    OBVIOUS
<1>1. ASSUME page.kind = "home", ~page.claimsChanged
      PROVE  /\ Args
             /\ ~claims.admin => \A p \in page.projects : DevicesOf[p] \cap claims.vehicles # {}
    BY <1>1 DEF EntitledInv, UnentitledOnlyAfterClaimsChange
<1>2. ASSUME KeepsView
      PROVE  page.kind = "home" /\ ~page.claimsChanged /\ page'.projects = page.projects
    BY <1>2 DEF KeepsView, KeepsPage, ListOf
<1>3. ASSUME KeepsView, UNCHANGED claims
      PROVE  UnentitledOnlyAfterClaimsChange'
    BY <1>1, <1>2, <1>3 DEF UnentitledOnlyAfterClaimsChange
<1>4. CASE Quiet
    <2>1. KeepsView /\ UNCHANGED <<claims, tasks>> /\ KeepsPage
        BY <1>4 DEF Quiet, KeepsView
    <2>2. Args'
        BY <1>1, <1>2, <2>1 DEF KeepsPage, Mine
    <2> QED BY <1>3, <2>1, <2>2
<1>5. CASE Leaves \/ NewClaims
    BY <1>5 DEF Leaves, NewClaims, KeepsPage
<1>6. CASE Mounts
    <2>1. page'.projects = {}
        BY <1>6 DEF Mounts
    <2>2. Args'
        BY <1>6, MountsFacts
    <2> QED BY <2>1, <2>2 DEF UnentitledOnlyAfterClaimsChange
<1>7. ASSUME NEW what, NEW arg, Starts(what, arg)
      PROVE  Args' /\ UnentitledOnlyAfterClaimsChange'
    <2>1. KeepsView /\ UNCHANGED claims /\ arg = claims.vehicles
        BY <1>2, <1>7 DEF Starts
    <2>2. Args
        BY <1>1, <1>2, <2>1
    <2>3. PICK n : /\ DOMAIN tasks' = DOMAIN tasks \cup {n} /\ n \notin DOMAIN tasks
                   /\ tasks'[n].what = what /\ tasks'[n].arg = arg
                   /\ tasks'[n].step = "write" /\ tasks'[n].res = "none"
                   /\ Mine(tasks[n])'
        BY <1>7, StartsFacts
    <2>4. \A k \in DOMAIN tasks : tasks'[k] = tasks[k] /\ (Mine(tasks[k])' <=> Mine(tasks[k]))
        BY <1>7, StartsFacts
    <2>5. Args'
        BY <2>1, <2>2, <2>3, <2>4
    <2> QED BY <1>3, <2>1, <2>5
<1>8. ASSUME NEW n \in DOMAIN tasks, Ended(n)
      PROVE  Args' /\ UnentitledOnlyAfterClaimsChange'
    <2>1. /\ DOMAIN tasks' = DOMAIN tasks \ {n}
          /\ \A k \in DOMAIN tasks' : tasks'[k] = tasks[k] /\ (Mine(tasks[k])' <=> Mine(tasks[k]))
        BY <1>8, RemovedFacts DEF Ended
    <2>2. UNCHANGED claims
        BY <1>8 DEF Ended
    <2>3. CASE ~Mine(tasks[n])
        <3>1. KeepsView
            BY <1>8, <2>3 DEF Ended
        <3>2. Args'
            BY <1>1, <1>2, <2>1, <2>2, <3>1
        <3> QED BY <1>3, <2>2, <3>1, <3>2
    <2>4. CASE Mine(tasks[n])
        <3>1. /\ page.kind = "home" /\ ~page.claimsChanged
              /\ page'.projects = IF tasks[n].step = "more" THEN Visible(tasks[n]) ELSE page.projects
            BY <1>8, <2>4 DEF Ended, KeepsPage
        <3>2. Args'
            BY <1>1, <2>1, <2>2, <3>1
        <3>3. tasks[n].arg = claims.vehicles
            BY <1>1, <2>4, <3>1
        <3>4. ~claims.admin => \A p \in Visible(tasks[n]) : DevicesOf[p] \cap claims.vehicles # {}
            BY <3>3 DEF Visible
        <3>5. UnentitledOnlyAfterClaimsChange'
            BY <1>1, <2>2, <3>1, <3>4 DEF UnentitledOnlyAfterClaimsChange
        <3> QED BY <3>2, <3>5
    <2> QED BY <2>3, <2>4
<1>9. ASSUME NEW n \in DOMAIN tasks, Serving(n) \/ Continuing(n), ~Ended(n)
      PROVE  Args' /\ UnentitledOnlyAfterClaimsChange'
    <2>1. PICK step, res, got : Moves(n, step, res, got)
        BY <1>9, ServingMoves DEF Serving, Continuing
    <2>2. /\ DOMAIN tasks' = DOMAIN tasks
          /\ \A k \in DOMAIN tasks : /\ tasks'[k].arg = tasks[k].arg
                                     /\ Mine(tasks[k])' <=> Mine(tasks[k])
        BY <2>1, MovesFacts
    <2>3. UNCHANGED claims
        BY <1>9 DEF Serving, Continuing, Reads, ReadsMore, Applies, Breaks, Written, Listed
    <2>4. KeepsView
        <3>1. CASE Serving(n)
            BY <3>1 DEF Serving, Reads, ReadsMore, Applies, Breaks, KeepsView, KeepsPage
        <3>2. CASE Written(n)
            BY <3>2 DEF Written
        <3>3. CASE \E g : Listed(n, g)
            <4>1. page.kind = "home"
                BY <3>3 DEF Listed, KeepsPage
            <4>2. Mine(tasks[n]) => tasks[n].kind = "home"
                BY <4>1 DEF TasksInv
            <4> QED BY <3>3, <4>2 DEF Listed
        <3> QED BY <1>9, <3>1, <3>2, <3>3 DEF Continuing
    <2>5. Args'
        BY <1>1, <1>2, <2>2, <2>3, <2>4
    <2> QED BY <1>3, <2>3, <2>4, <2>5
<1> QED BY <1>4, <1>5, <1>6, <1>7, <1>8, <1>9 DEF PageStep

\* The lists.  What a page shows and what its loads have read stays as current as
\* it was while the server's lists and the page's stay.
Listing == WritesAreMine /\ OneLoad /\ LoadsGoWell /\ LoadsAreCurrent /\ ListWillBeCurrent
KeepsList == KeepsPage /\ page.kind \in PageKinds /\ ListOf(page') = ListOf(page)

\* What the page shows ...
LEMMA CurrentKept ==
    ASSUME KeepsList, UNCHANGED servers,
           page.kind = "home" => (claims'.admin => claims.admin), ListIsCurrent
    PROVE  ListIsCurrent'
<1>1. page'.kind = page.kind /\ page.kind \in PageKinds /\ UNCHANGED <<fleet, access, keyring>>
    BY DEF KeepsList, KeepsPage, servers
<1>2. CASE page.kind = "home"
    BY <1>1, <1>2 DEF ListIsCurrent, KeepsList, ListOf
<1>3. CASE page.kind = "team"
    BY <1>1, <1>3 DEF ListIsCurrent, KeepsList, ListOf
<1>4. CASE page.kind = "keys"
    BY <1>1, <1>4 DEF ListIsCurrent, KeepsList, ListOf, ActiveKeys
<1> QED BY <1>1, <1>2, <1>3, <1>4 DEF PageKinds

\* ... and what a load has read.
LEMMA ReadKept ==
    ASSUME TasksInv, KeepsPage, UNCHANGED servers, page.kind = "team" => page'.members = page.members,
           NEW n \in DOMAIN tasks, Mine(tasks[n]), tasks'[n] = tasks[n], ReadIsCurrent(tasks[n])
    PROVE  ReadIsCurrent(tasks[n])'
<1>1. UNCHANGED <<fleet, access, keyring>> /\ tasks[n].kind = page.kind
    BY DEF servers, TasksInv
<1> QED BY <1>1 DEF ReadIsCurrent, ServerOf, ActiveKeys

\* Steps that leave the handlers alone.
LEMMA ListKept ==
    ASSUME TasksInv, Listing, tasks' = tasks, KeepsList, UNCHANGED servers,
           page.kind = "home" => (claims'.admin => claims.admin)
    PROVE  Listing'
<1>1. page'.kind = page.kind /\ page'.inst = page.inst /\ KeepsPage
    BY DEF KeepsList, KeepsPage
<1>2. page.kind = "team" => page'.members = page.members
    BY <1>1 DEF KeepsList, ListOf
<1>3. \A n \in DOMAIN tasks : Mine(tasks[n])' <=> Mine(tasks[n])
    BY <1>1 DEF Mine
<1>4. \A n \in DOMAIN tasks : MyLoad(n)' <=> MyLoad(n)
    BY <1>3 DEF MyLoad, Loading
<1>5. ReloadDue' <=> ReloadDue
    BY <1>3 DEF ReloadDue
<1>6. WritesAreMine' /\ OneLoad' /\ LoadsGoWell'
    BY <1>3, <1>4 DEF Listing, WritesAreMine, OneLoad, LoadsGoWell
<1>7. \A n \in DOMAIN tasks : MyLoad(n) /\ ReadIsCurrent(tasks[n]) => ReadIsCurrent(tasks[n])'
    BY <1>1, <1>2, ReadKept DEF MyLoad
<1>8. LoadsAreCurrent'
    BY <1>4, <1>5, <1>7 DEF Listing, LoadsAreCurrent
<1>9. ListWillBeCurrent'
    BY <1>4, <1>5, CurrentKept DEF Listing, ListWillBeCurrent
<1> QED BY <1>6, <1>8, <1>9 DEF Listing

\* A page that is mounted begins to load.
LEMMA ListMounted ==
    ASSUME TasksInv, PageShape, Mounts, ~lagging'
    PROVE  Listing'
<1>1. \A k \in DOMAIN tasks : /\ tasks'[k] = tasks[k] /\ ~Mine(tasks[k])'
    BY MountsFacts
<1>2. \A k \in DOMAIN tasks : tasks[k].step # "write"
    BY DEF Mounts
<1>3. PICK n : /\ DOMAIN tasks' = DOMAIN tasks \cup {n}
               /\ tasks'[n].what = "load" /\ tasks'[n].arg = claims'.vehicles
               /\ tasks'[n].step = "list" /\ tasks'[n].res = "none"
               /\ Mine(tasks[n])'
    BY MountsFacts
<1>4. \A k \in DOMAIN tasks' : MyLoad(k)' <=> k = n
    BY <1>1, <1>3 DEF MyLoad, Loading
<1>5. WritesAreMine' /\ OneLoad' /\ LoadsGoWell'
    BY <1>1, <1>2, <1>3, <1>4 DEF WritesAreMine, OneLoad, LoadsGoWell
<1>6. ReadIsCurrent(tasks[n])'
    BY <1>3 DEF ReadIsCurrent
<1>7. LoadsAreCurrent'
    BY <1>4, <1>6 DEF LoadsAreCurrent
<1>8. ListWillBeCurrent'
    BY <1>3, <1>4 DEF ListWillBeCurrent
<1> QED BY <1>5, <1>7, <1>8 DEF Listing

\* A write that begins.
LEMMA ListStarted ==
    ASSUME TasksInv, PageShape, Listing, NEW what, NEW arg, Starts(what, arg)
    PROVE  Listing'
<1>1. \A k \in DOMAIN tasks : tasks'[k] = tasks[k] /\ (Mine(tasks[k])' <=> Mine(tasks[k]))
    BY StartsFacts
<1>2. PICK n : /\ DOMAIN tasks' = DOMAIN tasks \cup {n} /\ n \notin DOMAIN tasks
               /\ tasks'[n].what = what /\ tasks'[n].arg = arg
               /\ tasks'[n].step = "write" /\ tasks'[n].res = "none"
               /\ Mine(tasks[n])'
    BY StartsFacts
<1>3. KeepsList /\ KeepsPage /\ UNCHANGED servers /\ UNCHANGED claims
    BY DEF Starts, KeepsView, KeepsList, PageKinds
<1>4. page.kind = "team" => page'.members = page.members
    BY <1>3 DEF KeepsList, KeepsPage, ListOf
<1>5. /\ \A k \in DOMAIN tasks : MyLoad(k)' <=> MyLoad(k)
      /\ ~MyLoad(n)'
    BY <1>1, <1>2 DEF MyLoad, Loading
<1>6. ReloadDue => ReloadDue'
    BY <1>1, <1>2 DEF ReloadDue
<1>7. WritesAreMine' /\ OneLoad' /\ LoadsGoWell'
    BY <1>1, <1>2, <1>5 DEF Listing, WritesAreMine, OneLoad, LoadsGoWell
<1>8. \A k \in DOMAIN tasks : MyLoad(k) /\ ReadIsCurrent(tasks[k]) => ReadIsCurrent(tasks[k])'
    BY <1>1, <1>3, <1>4, ReadKept DEF MyLoad
<1>9. LoadsAreCurrent'
    BY <1>2, <1>5, <1>6, <1>8 DEF Listing, LoadsAreCurrent
<1>10. ListIsCurrent => ListIsCurrent'
    BY <1>3, CurrentKept
<1>11. ListWillBeCurrent'
    BY <1>2, <1>5, <1>6, <1>10 DEF Listing, ListWillBeCurrent
<1> QED BY <1>7, <1>9, <1>11 DEF Listing

\* Steps of a handler whose request stays what it is: a list is read, or a write
\* fails, or an answer is added to what a load has read.
LEMMA ListAnswered ==
    ASSUME TasksInv, PageShape, Listing, NEW n \in DOMAIN tasks, NEW res, NEW got,
           Moves(n, tasks[n].step, res, got), tasks[n].res = "none", page' = page,
           page.kind # "none", UNCHANGED <<claims, servers>>,
           Loading(tasks[n]) => res = "ok",
           tasks[n].step = "write" => res = "failed",
           tasks[n].step = "list" => got = [list |-> ServerOf(tasks[n].kind)],
           tasks[n].step = "more" /\ tasks[n].kind = "home" => got.projects = tasks[n].got.projects
    PROVE  Listing'
<1>1. /\ DOMAIN tasks' = DOMAIN tasks
      /\ \A k \in DOMAIN tasks : k # n => tasks'[k] = tasks[k]
      /\ \A k \in DOMAIN tasks : Mine(tasks[k])' <=> Mine(tasks[k])
      /\ tasks'[n].kind = tasks[n].kind
      /\ tasks'[n].step = tasks[n].step /\ tasks'[n].res = res /\ tasks'[n].got = got
    BY MovesFacts
<1>2. KeepsList /\ KeepsPage /\ UNCHANGED servers /\ (page.kind = "team" => page'.members = page.members)
    BY DEF KeepsList, KeepsPage, PageShape
<1>3. \A k \in DOMAIN tasks : (MyLoad(k)' <=> MyLoad(k)) /\ tasks'[k].step = tasks[k].step
    BY <1>1 DEF MyLoad, Loading
<1>4. ReloadDue => ReloadDue'
    BY <1>1 DEF ReloadDue
<1>5. WritesAreMine' /\ OneLoad'
    BY <1>1, <1>3 DEF Listing, WritesAreMine, OneLoad
<1>6. LoadsGoWell'
    BY <1>1, <1>3 DEF Listing, LoadsGoWell, MyLoad
<1>7. \A k \in DOMAIN tasks : k # n /\ MyLoad(k) /\ ReadIsCurrent(tasks[k]) => ReadIsCurrent(tasks[k])'
    BY <1>1, <1>2, ReadKept DEF MyLoad
<1>8. ASSUME MyLoad(n), ReadIsCurrent(tasks[n]) PROVE ReadIsCurrent(tasks[n])'
    <2>1. res = "ok" /\ UNCHANGED <<fleet, access, keyring>>
        BY <1>8 DEF MyLoad, servers
    <2>2. tasks[n].step = "list" => got.list = ServerOf(tasks[n].kind)
        OBVIOUS
    <2>3. ServerOf(tasks[n].kind)' = ServerOf(tasks[n].kind)
        BY <1>1, <2>1 DEF ServerOf, ActiveKeys
    <2> QED BY <1>1, <1>8, <2>1, <2>2, <2>3 DEF ReadIsCurrent
<1>9. LoadsAreCurrent'
    BY <1>1, <1>3, <1>4, <1>7, <1>8 DEF Listing, LoadsAreCurrent
<1>10. ListIsCurrent => ListIsCurrent'
    BY <1>2, CurrentKept
<1>11. ListWillBeCurrent'
    BY <1>1, <1>3, <1>4, <1>10 DEF Listing, ListWillBeCurrent
<1> QED BY <1>5, <1>6, <1>9, <1>11 DEF Listing

\* A write is applied: a load will follow.
LEMMA ListApplied ==
    ASSUME TasksInv, Listing, NEW n \in DOMAIN tasks, NEW res, NEW got, Applies(n, res, got), ~lagging'
    PROVE  Listing'
<1>1. Moves(n, "write", res, got)
    BY ServingMoves
<1>2. /\ DOMAIN tasks' = DOMAIN tasks
      /\ \A k \in DOMAIN tasks : k # n => tasks'[k] = tasks[k]
      /\ \A k \in DOMAIN tasks : Mine(tasks[k])' <=> Mine(tasks[k])
      /\ tasks'[n].step = "write" /\ tasks'[n].res = res
    BY <1>1, MovesFacts
<1>3. Mine(tasks[n]) /\ tasks[n].step = "write"
    BY DEF Listing, WritesAreMine, Applies
<1>4. res = "ok"
    BY <1>3 DEF Applies
<1>5. ReloadDue'
    BY <1>2, <1>3, <1>4 DEF ReloadDue
<1>6. /\ \A k \in DOMAIN tasks : MyLoad(k)' <=> MyLoad(k)
      /\ ~MyLoad(n)
    BY <1>2, <1>3 DEF MyLoad, Loading
<1>7. WritesAreMine' /\ OneLoad' /\ LoadsGoWell'
    BY <1>2, <1>3, <1>6 DEF Listing, WritesAreMine, OneLoad, LoadsGoWell
<1> QED BY <1>5, <1>7 DEF Listing, LoadsAreCurrent, ListWillBeCurrent

\* It begins, and is the only one.
LEMMA ListReloads ==
    ASSUME TasksInv, Listing, NEW n \in DOMAIN tasks, Written(n), ~lagging'
    PROVE  Listing'
<1>1. Moves(n, "list", "none", None)
    BY ServingMoves
<1>2. /\ DOMAIN tasks' = DOMAIN tasks
      /\ \A k \in DOMAIN tasks : k # n => tasks'[k] = tasks[k]
      /\ \A k \in DOMAIN tasks : Mine(tasks[k])' <=> Mine(tasks[k])
      /\ tasks'[n].step = "list" /\ tasks'[n].res = "none"
    BY <1>1, MovesFacts
<1>3. Mine(tasks[n]) /\ tasks[n].step = "write"
    BY DEF Listing, WritesAreMine, Written
<1>4. ~Overlaps(tasks[n])
    BY <1>3 DEF Written
<1>5. \A k \in DOMAIN tasks : k # n => ~MyLoad(k)
    BY <1>3, <1>4 DEF Overlaps, MyLoad, Loading, Mine, TasksInv
<1>6. \A k \in DOMAIN tasks : MyLoad(k)' <=> k = n
    BY <1>2, <1>3, <1>5 DEF MyLoad, Loading
<1>7. WritesAreMine' /\ OneLoad' /\ LoadsGoWell'
    BY <1>2, <1>3, <1>6 DEF Listing, WritesAreMine, OneLoad, LoadsGoWell
<1>8. ReadIsCurrent(tasks[n])'
    BY <1>2 DEF ReadIsCurrent
<1> QED BY <1>2, <1>6, <1>7, <1>8 DEF Listing, LoadsAreCurrent, ListWillBeCurrent

\* A load has its list and asks for the devices.
LEMMA ListListed ==
    ASSUME TasksInv, PageShape, Listing, page.kind # "none",
           NEW n \in DOMAIN tasks, NEW got, Listed(n, got)
    PROVE  Listing'
<1>1. Moves(n, "more", "none", got)
    BY ServingMoves
<1>2. /\ DOMAIN tasks' = DOMAIN tasks
      /\ \A k \in DOMAIN tasks : k # n => tasks'[k] = tasks[k]
      /\ \A k \in DOMAIN tasks : Mine(tasks[k])' <=> Mine(tasks[k])
      /\ tasks'[n].kind = tasks[n].kind
      /\ tasks'[n].step = "more" /\ tasks'[n].res = "none" /\ tasks'[n].got = got
    BY <1>1, MovesFacts
<1>3. /\ tasks[n].step = "list" /\ tasks[n].res = "ok" /\ KeepsPage /\ UNCHANGED servers
      /\ UNCHANGED claims /\ UNCHANGED <<fleet, access, keyring>>
    BY DEF Listed, servers
<1>4. \A k \in DOMAIN tasks : MyLoad(k)' <=> MyLoad(k)
    BY <1>2, <1>3 DEF MyLoad, Loading
<1>5. ReloadDue <=> ReloadDue'
    BY <1>2, <1>3 DEF ReloadDue
<1>6. WritesAreMine' /\ OneLoad' /\ LoadsGoWell'
    BY <1>2, <1>4 DEF Listing, WritesAreMine, OneLoad, LoadsGoWell
<1>7. CASE Mine(tasks[n])
    <2>1. MyLoad(n) /\ \A k \in DOMAIN tasks : MyLoad(k) => k = n
        BY <1>3, <1>7 DEF MyLoad, Loading, Listing, OneLoad
    <2>2. ASSUME ReadIsCurrent(tasks[n]) PROVE ReadIsCurrent(tasks[n])'
        <3>1. tasks[n].got.list = ServerOf(tasks[n].kind)
            BY <1>3, <2>2 DEF ReadIsCurrent
        <3>2. tasks[n].kind = "home" => got.projects = fleet
            BY <3>1 DEF Listed, ServerOf
        <3>3. tasks[n].kind = "team" => page'.members = access
            BY <1>7, <3>1 DEF Listed, ServerOf
        <3> QED BY <1>2, <1>3, <3>2, <3>3 DEF ReadIsCurrent
    <2>3. LoadsAreCurrent'
        BY <1>2, <1>4, <1>5, <2>1, <2>2 DEF Listing, LoadsAreCurrent
    <2>4. ListWillBeCurrent'
        BY <1>2, <1>4, <2>1 DEF ListWillBeCurrent
    <2> QED BY <1>6, <2>3, <2>4 DEF Listing
<1>8. CASE ~Mine(tasks[n])
    <2>1. KeepsList
        BY <1>3, <1>8 DEF Listed, KeepsView, KeepsList, PageShape
    <2>2. page.kind = "team" => page'.members = page.members
        BY <1>3, <2>1 DEF KeepsList, KeepsPage, ListOf
    <2>3. \A k \in DOMAIN tasks : MyLoad(k) => k # n
        BY <1>8 DEF MyLoad
    <2>4. \A k \in DOMAIN tasks : MyLoad(k) /\ ReadIsCurrent(tasks[k]) => ReadIsCurrent(tasks[k])'
        BY <1>2, <1>3, <2>2, <2>3, ReadKept DEF MyLoad
    <2>5. LoadsAreCurrent'
        BY <1>2, <1>4, <1>5, <2>4 DEF Listing, LoadsAreCurrent
    <2>6. ListIsCurrent => ListIsCurrent'
        BY <1>3, <2>1, CurrentKept
    <2>7. ListWillBeCurrent'
        BY <1>2, <1>4, <1>5, <2>6 DEF Listing, ListWillBeCurrent
    <2> QED BY <1>6, <2>5, <2>7 DEF Listing
<1> QED BY <1>7, <1>8

\* A handler ends: with the list on the page, or with nothing new.
LEMMA ListEnded ==
    ASSUME TasksInv, PageShape, Listing, page.kind # "none", NEW n \in DOMAIN tasks, Ended(n)
    PROVE  Listing'
<1>1. /\ DOMAIN tasks' = DOMAIN tasks \ {n}
      /\ \A k \in DOMAIN tasks' : tasks'[k] = tasks[k] /\ (Mine(tasks[k])' <=> Mine(tasks[k]))
    BY RemovedFacts DEF Ended
<1>2. /\ KeepsPage /\ UNCHANGED servers /\ UNCHANGED claims /\ UNCHANGED <<fleet, access, keyring>>
      /\ page'.kind = page.kind /\ page.kind \in PageKinds
    BY DEF Ended, servers, KeepsPage, PageShape
<1>3. \A k \in DOMAIN tasks' : MyLoad(k)' <=> MyLoad(k)
    BY <1>1 DEF MyLoad, Loading
<1>4. ReloadDue => ReloadDue'
    <2>1. ~(tasks[n].step = "write" /\ tasks[n].res = "ok")
        BY DEF Ended
    <2> QED BY <1>1, <2>1 DEF ReloadDue
<1>5. WritesAreMine' /\ OneLoad' /\ LoadsGoWell'
    BY <1>1, <1>3 DEF Listing, WritesAreMine, OneLoad, LoadsGoWell
<1>6. CASE MyLoad(n)
    <2>1. \A k \in DOMAIN tasks' : ~MyLoad(k)'
        BY <1>1, <1>3, <1>6 DEF Listing, OneLoad
    <2>2. LoadsAreCurrent'
        BY <2>1 DEF LoadsAreCurrent
    <2>3. tasks[n].res = "ok" /\ tasks[n].kind = page.kind /\ Mine(tasks[n])
          /\ tasks[n].step \in {"list", "more"}
        BY <1>6 DEF Listing, LoadsGoWell, MyLoad, TasksInv, Loading, Ended
    <2>4. ASSUME ReadIsCurrent(tasks[n]) PROVE ListIsCurrent'
        <3>1. CASE page.kind = "home"
            <4>1. /\ tasks[n].step = "more" /\ page'.projects = Visible(tasks[n])
                BY <2>3, <3>1 DEF Ended
            <4>2. tasks[n].got.projects = fleet
                BY <2>3, <2>4, <3>1, <4>1 DEF ReadIsCurrent
            <4>3. claims.admin => page'.projects = fleet
                BY <4>1, <4>2 DEF Visible
            <4> QED BY <1>2, <3>1, <4>3 DEF ListIsCurrent
        <3>2. CASE page.kind = "team"
            <4>1. tasks[n].step = "more" /\ page'.members = page.members
                BY <2>3, <3>2 DEF Ended
            <4>2. page.members = access
                BY <2>3, <2>4, <3>2, <4>1 DEF ReadIsCurrent
            <4> QED BY <1>2, <3>2, <4>1, <4>2 DEF ListIsCurrent
        <3>3. CASE page.kind = "keys"
            <4>1. tasks[n].step = "list" /\ page'.keys = tasks[n].got.list
                BY <2>3, <3>3 DEF Ended
            <4>2. tasks[n].got.list = ActiveKeys
                BY <2>3, <2>4, <3>3, <4>1 DEF ReadIsCurrent, ServerOf
            <4>3. keyring' = keyring /\ page'.kind = "keys"
                BY <1>2, <3>3
            <4> QED BY <4>1, <4>2, <4>3 DEF ListIsCurrent, ActiveKeys
        <3> QED BY <1>2, <3>1, <3>2, <3>3 DEF PageKinds
    <2>5. ListWillBeCurrent'
        BY <1>4, <1>6, <2>4 DEF Listing, LoadsAreCurrent, ListWillBeCurrent
    <2> QED BY <1>5, <2>2, <2>5 DEF Listing
<1>7. CASE ~MyLoad(n)
    <2>1. KeepsList
        <3>1. CASE ~Mine(tasks[n])
            BY <1>2, <3>1 DEF Ended, KeepsView, KeepsList, PageKinds
        <3>2. CASE Mine(tasks[n])
            <4>1. tasks[n].step \notin {"list", "more"}
                BY <1>7, <3>2 DEF MyLoad, Loading
            <4>2. /\ page.kind = "home" => page'.projects = page.projects
                  /\ page.kind = "team" => page'.members = page.members
                  /\ page.kind = "keys" => page'.keys = page.keys
                BY <3>2, <4>1 DEF Ended
            <4> QED BY <1>2, <4>2 DEF KeepsList, ListOf, PageKinds
        <3> QED BY <3>1, <3>2
    <2>2. page.kind = "team" => page'.members = page.members
        BY <1>2, <2>1 DEF KeepsList, ListOf
    <2>3. \A k \in DOMAIN tasks' : MyLoad(k) /\ ReadIsCurrent(tasks[k]) => ReadIsCurrent(tasks[k])'
        BY <1>1, <1>2, <2>2, ReadKept DEF MyLoad
    <2>4. LoadsAreCurrent'
        BY <1>1, <1>3, <1>4, <2>3 DEF Listing, LoadsAreCurrent
    <2>5. ListIsCurrent => ListIsCurrent'
        BY <1>2, <2>1, CurrentKept
    <2>6. ListWillBeCurrent'
        BY <1>1, <1>3, <1>4, <1>7, <2>5 DEF Listing, ListWillBeCurrent
    <2> QED BY <1>5, <2>4, <2>6 DEF Listing
<1> QED BY <1>6, <1>7

\* Every step keeps ListInv.
LEMMA ListStep ==
    ASSUME TasksInv, PageShape, ListInv, PageStep
    PROVE  ListInv'
<1> SUFFICES ASSUME page'.kind # "none", ~lagging'
             PROVE  Listing'
    BY DEF ListInv, Listing
<1>0. ASSUME page.kind # "none", ~lagging PROVE Listing
    BY <1>0 DEF ListInv, Listing
<1>1. CASE Quiet \/ NewClaims
    <2>1. tasks' = tasks /\ UNCHANGED servers /\ KeepsPage
        BY <1>1 DEF Quiet, NewClaims, KeepsView
    <2>2. page.kind # "none" /\ page.kind \in PageKinds
        BY <2>1 DEF KeepsPage, PageShape
    <2>3. ~lagging
        BY <1>1 DEF Quiet, NewClaims
    <2>4. KeepsList
        BY <1>1, <2>1, <2>2 DEF Quiet, NewClaims, KeepsView, KeepsList
    <2>5. page.kind = "home" => (claims'.admin => claims.admin)
        BY <1>1, <2>3 DEF Quiet, NewClaims
    <2> QED BY <1>0, <2>1, <2>2, <2>3, <2>4, <2>5, ListKept
<1>2. CASE Leaves
    BY <1>2 DEF Leaves
<1>3. CASE Mounts
    BY <1>3, ListMounted
<1>4. ASSUME NEW what, NEW arg, Starts(what, arg) PROVE Listing'
    <2>1. page.kind # "none" /\ ~lagging
        BY <1>4 DEF Starts, PageKinds
    <2> QED BY <1>0, <1>4, <2>1, ListStarted
<1>5. ASSUME NEW n \in DOMAIN tasks, Serving(n) \/ Continuing(n) PROVE Listing'
    <2>1. page.kind # "none" /\ ~lagging
        <3>1. page'.kind = page.kind
            BY <1>5 DEF Serving, Continuing, Reads, ReadsMore, Applies, Breaks, Written, Listed, Ended,
                        KeepsPage, KeepsView
        <3>2. lagging => lagging'
            BY <1>5 DEF Serving, Continuing, Reads, ReadsMore, Applies, Breaks, Written, Listed, Ended
        <3> QED BY <3>1, <3>2
    <2>2. Listing
        BY <1>0, <2>1
    <2>3. CASE Reads(n)
        <3>1. Moves(n, "list", "ok", [list |-> ServerOf(tasks[n].kind)])
            BY <2>3, ServingMoves
        <3>2. /\ tasks[n].step = "list" /\ tasks[n].res = "none" /\ page' = page
              /\ UNCHANGED <<claims, servers>>
            BY <2>3 DEF Reads
        <3> DEFINE got == [list |-> ServerOf(tasks[n].kind)]
        <3>3. Moves(n, tasks[n].step, "ok", got) /\ got = [list |-> ServerOf(tasks[n].kind)]
            BY <3>1, <3>2
        <3> HIDE DEF got
        <3> QED BY <2>1, <2>2, <3>2, <3>3, ListAnswered
    <2>4. ASSUME NEW got, ReadsMore(n, got) PROVE Listing'
        <3>1. Moves(n, "more", "ok", got)
            BY <2>4, ServingMoves
        <3>2. /\ tasks[n].step = "more" /\ tasks[n].res = "none" /\ page' = page
              /\ UNCHANGED <<claims, servers>>
              /\ tasks[n].kind = "home" => got.projects = tasks[n].got.projects
            BY <2>4 DEF ReadsMore
        <3> QED BY <2>1, <2>2, <3>1, <3>2, ListAnswered
    <2>5. CASE Breaks(n)
        <3>1. Moves(n, tasks[n].step, "failed", tasks[n].got)
            BY <2>5, ServingMoves
        <3>2. /\ tasks[n].step = "write" /\ tasks[n].res = "none" /\ page' = page
              /\ UNCHANGED <<claims, servers>>
            BY <2>5 DEF Breaks
        <3>3. ~Loading(tasks[n])
            BY <3>2 DEF Loading
        <3> QED BY <2>1, <2>2, <3>1, <3>2, <3>3, ListAnswered
    <2>6. ASSUME NEW res, NEW got, Applies(n, res, got) PROVE Listing'
        BY <2>2, <2>6, ListApplied
    <2>7. CASE Written(n)
        BY <2>2, <2>7, ListReloads
    <2>8. ASSUME NEW got, Listed(n, got) PROVE Listing'
        BY <2>1, <2>2, <2>8, ListListed
    <2>9. CASE Ended(n)
        BY <2>1, <2>2, <2>9, ListEnded
    <2> QED BY <1>5, <2>3, <2>4, <2>5, <2>6, <2>7, <2>8, <2>9 DEF Serving, Continuing
<1> QED BY <1>1, <1>2, <1>3, <1>4, <1>5 DEF PageStep
-----------------------------------------------------------------------------
(* The list pages                                                          *)

PagesInv == PageShape /\ TasksInv /\ BusyInv /\ KeyInv /\ EntitledInv /\ ListInv

\* At the start no page is mounted and no handler is under way.
LEMMA PagesInit ==
    ASSUME Init PROVE PagesInv
<1>1. /\ page = [kind |-> "none", inst |-> 0] /\ tasks = <<>> /\ made = 0
      /\ keyring = [k \in {1} |-> "active"] /\ shown = {1}
    BY DEF Init, TasksInit, NoPage, KeysInit
<1>2. DOMAIN tasks = {} /\ page.kind = "none" /\ page.inst = 0
    BY <1>1
<1>3. PageShape
    BY <1>1 DEF PageShape, PageKinds
<1>4. TasksInv /\ BusyInv /\ EntitledInv /\ ListInv
    BY <1>1, <1>2 DEF TasksInv, BusyInv, EntitledInv, ListInv
<1>5. KeyInv
    BY <1>1 DEF KeyInv
<1> QED BY <1>3, <1>4, <1>5 DEF PagesInv

\* Every step keeps all of them.
LEMMA PagesInvStep ==
    ASSUME PagesInv, [Next]_vars PROVE PagesInv'
BY PagesStep, TasksStep, BusyStep, KeyStep, EntitledStep, ListStep DEF PagesInv

\* The invariant of the list pages.
LEMMA PagesInvariant == Spec => []PagesInv
BY PagesInit, PagesInvStep, PTL DEF Spec

\* The handlers of one kind, counted.
LEMMA CountOne ==
    ASSUME NEW what, NEW flag, OneOf(what, flag)
    PROVE  Cardinality({n \in DOMAIN tasks : Mine(tasks[n]) /\ tasks[n].what = what})
               = IF flag THEN 1 ELSE 0
<1> DEFINE S == {n \in DOMAIN tasks : Mine(tasks[n]) /\ tasks[n].what = what}
<1>1. CASE flag
    <2>1. PICK n \in DOMAIN tasks : Mine(tasks[n]) /\ tasks[n].what = what
        BY <1>1 DEF OneOf
    <2>2. S = {n}
        BY <2>1 DEF OneOf
    <2> HIDE DEF S
    <2>3. Cardinality(S) = 1
        BY <2>2, FS_Singleton
    <2> QED BY <1>1, <2>3 DEF S
<1>2. CASE ~flag
    <2>1. S = {}
        BY <1>2 DEF OneOf
    <2> HIDE DEF S
    <2>2. Cardinality(S) = 0
        BY <2>1, FS_EmptySet
    <2> QED BY <1>2, <2>2 DEF S
<1> QED BY <1>1, <1>2

\* TeamPage's inviting and saving are up exactly while one handler of theirs is
\* under way, the reload it awaits included: there is never a second invitation
\* or a second save, whatever fails, is closed or is left meanwhile.
THEOREM Busy == Spec => []BusyWhileWriting
<1>1. PagesInv => BusyWhileWriting
    <2> SUFFICES ASSUME PagesInv, page.kind = "team"
                 PROVE  \A b \in {<<"invite", page.inviting>>, <<"save", page.saving>>} :
                            Cardinality({n \in DOMAIN tasks : Mine(tasks[n]) /\ tasks[n].what = b[1]})
                                = IF b[2] THEN 1 ELSE 0
        BY DEF BusyWhileWriting
    <2>1. OneOf("invite", page.inviting) /\ OneOf("save", page.saving)
        BY DEF PagesInv, BusyInv
    <2>2. /\ Cardinality({n \in DOMAIN tasks : Mine(tasks[n]) /\ tasks[n].what = "invite"})
                = IF page.inviting THEN 1 ELSE 0
          /\ Cardinality({n \in DOMAIN tasks : Mine(tasks[n]) /\ tasks[n].what = "save"})
                = IF page.saving THEN 1 ELSE 0
        BY <2>1, CountOne
    <2> QED BY <2>2
<1> QED BY <1>1, PagesInvariant, PTL

\* Every key that was created was shown, will be by an answer under way, or had
\* its answer lost or come to a page that was gone: no order of dialogs being
\* closed and opened hides one (CreateKeyModal and onCreated in ApiKeysPage.tsx).
THEOREM Revealed == Spec => []KeyRevealed
<1>1. PagesInv => KeyRevealed
    BY DEF PagesInv, KeyInv, KeyRevealed
<1> QED BY <1>1, PagesInvariant, PTL

\* Somebody who is not an admin never sees a project without a vehicle of theirs
\* before the claims change under the page, although load() reads isAdmin() at
\* its end and vehicle_set at its start (HomePage.tsx).
THEOREM Entitled == Spec => []UnentitledOnlyAfterClaimsChange
<1>1. PagesInv => UnentitledOnlyAfterClaimsChange
    BY DEF PagesInv, EntitledInv, UnentitledOnlyAfterClaimsChange
<1> QED BY <1>1, PagesInvariant, PTL

\* A page at rest shows what the server has, after any sequence of writes,
\* reloads and visits in which no reload failed, overlapped another or was not
\* made: each handler loads the list again after its write.
THEOREM OwnWrites == Spec => []ListShowsOwnWrites
<1>1. PagesInv => ListShowsOwnWrites
    <2> SUFFICES ASSUME PagesInv, \A n \in DOMAIN tasks : ~Mine(tasks[n]), ~lagging
                 PROVE  ListIsCurrent
        BY DEF ListShowsOwnWrites
    <2>1. CASE page.kind = "none"
        BY <2>1 DEF ListIsCurrent
    <2>2. CASE page.kind # "none"
        <3>1. ListWillBeCurrent
            BY <2>2 DEF PagesInv, ListInv
        <3> QED BY <3>1 DEF ListWillBeCurrent, ReloadDue, MyLoad
    <2> QED BY <2>1, <2>2
<1> QED BY <1>1, PagesInvariant, PTL
-----------------------------------------------------------------------------
(* The session: what its invariants speak of                               *)

\* What the guards have let through: behind them somebody is signed in, and the
\* admin pages are an admin's.
GuardInv ==
    /\ guard # "none" => route \in Guarded
    /\ guard = "checked" => user # NoUser
    /\ guard = "checked" /\ route = "admin" => user.role = "admin"

\* The exchange of the code: awaited or decided, not both, on a page that has
\* made no request and seen no logout yet.
CallbackInv ==
    /\ callback.waiting + Len(landings) <= 1
    /\ ~callback.processed => callback.waiting = 0 /\ landings = << >>
    /\ callback.waiting > 0 => route = "callback"
    /\ route = "callback" =>
         calls = {} /\ ~loggedOut /\ guard = "none" /\ purpose # "signout" /\ landings = << >>

\* The store, local storage and the tokens of the requests under way.
StoreInv ==
    /\ user # NoUser => user = stored
    /\ stored # NoUser => stored.no > 0 /\ stored.no <= issued
    /\ \A c \in calls :
         c.tok = c.at /\ c.at <= issued /\ (stored # NoUser => c.at <= stored.no)

\* What a logout leaves behind.
LogoutInv ==
    loggedOut /\ ~overlap => user = NoUser /\ stored = NoUser /\ renewing = {}

SessionInv ==
    TypeOK /\ GuardInv /\ CallbackInv /\ StoreInv /\ LogoutInv
    /\ GoodSessionEndedByStaleOrRefused

USE SessionAssumption

\* A tab starts at the login page, with an empty store.
LEMMA SessionInit == AuthInit => SessionInv
<1> USE DEF AuthInit, CallbackStates, NoCallback, Users, Roles, Guarded
<1>1. AuthInit => TypeOK
  <2>1. NoCallback \in CallbackStates /\ << >> \in Seq({"home", "login"})
    OBVIOUS
  <2> QED BY <2>1 DEF TypeOK
<1>2. AuthInit => GuardInv /\ CallbackInv
  BY DEF GuardInv, CallbackInv
<1>3. AuthInit => StoreInv /\ LogoutInv /\ GoodSessionEndedByStaleOrRefused
  BY DEF StoreInv, LogoutInv, GoodSessionEndedByStaleOrRefused
<1> QED BY <1>1, <1>2, <1>3 DEF SessionInv

\* A page load gives the page's variables their first values.
LEMMA PageLoadType ==
    ASSUME TypeOK, NEW r \in Guarded \cup {"login", "callback"}, PageLoad(r)
    PROVE  /\ route' \in Guarded \cup {"login", "callback", "away"}
           /\ purpose' = "none" /\ guard' \in {"none", "checking", "checked"}
           /\ user' = NoUser /\ calls' = {} /\ landings' \in Seq({"home", "login"})
           /\ renewing' \subseteq {"auto", "expired", "error"}
           /\ callback' \in CallbackStates
           /\ loads' \in Nat /\ loggedOut' = FALSE /\ overlap' = FALSE
<1>1. ASSUME NEW b \in BOOLEAN
      PROVE  [NoCallback EXCEPT !.code = b] \in CallbackStates
  BY DEF NoCallback, CallbackStates
<1>2. callback' \in CallbackStates
  BY <1>1 DEF PageLoad
<1>3. renewing' \subseteq {"auto", "expired", "error"}
  BY DEF PageLoad
<1>4. loads' \in Nat
  BY DEF PageLoad, TypeOK
<1>5. << >> \in Seq({"home", "login"})
  OBVIOUS
<1> QED
  BY <1>2, <1>3, <1>4, <1>5 DEF PageLoad, Guarded

\* What the callback page does to its own state keeps its type.
LEMMA CallbackTypes ==
    ASSUME NEW s \in CallbackStates
    PROVE  /\ [s EXCEPT !.runs = @ + 1, !.processed = TRUE,
                        !.waiting = IF s.processed THEN @ ELSE @ + 1] \in CallbackStates
           /\ s.waiting > 0 => [s EXCEPT !.waiting = @ - 1, !.code = FALSE] \in CallbackStates
<1>1. ASSUME NEW p \in CallbackStates, NEW n \in Nat
      PROVE  [p EXCEPT !.runs = n] \in CallbackStates /\ [p EXCEPT !.waiting = n] \in CallbackStates
  BY DEF CallbackStates
<1>2. ASSUME NEW p \in CallbackStates
      PROVE  /\ [p EXCEPT !.processed = TRUE] \in CallbackStates
             /\ [p EXCEPT !.code = FALSE] \in CallbackStates
  BY DEF CallbackStates
<1>3. /\ s.runs + 1 \in Nat
      /\ (IF s.processed THEN s.waiting ELSE s.waiting + 1) \in Nat
      /\ s.waiting > 0 => s.waiting - 1 \in Nat
  BY DEF CallbackStates
<1> QED BY <1>1, <1>2, <1>3

\* A render shows one of the pages.
LEMMA RenderType ==
    ASSUME NEW r \in Guarded \cup {"login", "callback", "away"},
           NEW g \in {"none", "checking", "checked"}, NEW u \in Users \cup {NoUser},
           Render(r, g, u)
    PROVE  /\ route' \in Guarded \cup {"login", "callback", "away"}
           /\ guard' \in {"none", "checking", "checked"}
           /\ user' \in Users \cup {NoUser}
BY DEF Render, Settled, Guarded

\* A request carries the token in the store, or none.
LEMMA NewRequestType ==
    TypeOK => NewRequest \in [no : Nat, tok : Nat, at : Nat, open : BOOLEAN]
BY DEF TypeOK, NewRequest, BearerToken, SessionNo, Users

\* Every step keeps the types.
LEMMA TypeStep ==
    ASSUME TypeOK, GuardInv, [AuthNext]_authVars
    PROVE  TypeOK'
<1> USE DEF heap, idp
<1>1. CASE SignIn
  BY <1>1 DEF SignIn, Redirect, TypeOK
<1>2. CASE Return
  <2>1. PICK r \in {"login", "callback"} : PageLoad(r)
    BY <1>2 DEF Return
  <2>2. fails' \in Nat
    BY <1>2 DEF Return, MayFail, TypeOK
  <2>3. sso' \in BOOLEAN
    BY <1>2 DEF Return, TypeOK
  <2> QED
    BY <1>2, <2>1, <2>2, <2>3, PageLoadType DEF Return, TypeOK
<1>3. CASE CallbackEffect
  <2>1. callback' \in CallbackStates
    BY <1>3, CallbackTypes DEF CallbackEffect, TypeOK
  <2> QED
    BY <1>3, <2>1 DEF CallbackEffect, TypeOK
<1>4. CASE CallbackSucceeds
  <2>1. callback' \in CallbackStates
    BY <1>4, CallbackTypes DEF CallbackSucceeds, TypeOK
  <2>2. NextUser \in Users /\ issued' \in Nat
    BY <1>4 DEF NextUser, Users, CallbackSucceeds, IssueToken, TypeOK
  <2>3. /\ route' \in Guarded \cup {"login", "callback", "away"}
        /\ guard' \in {"none", "checking", "checked"} /\ user' \in Users \cup {NoUser}
    BY <1>4, <2>2, RenderType DEF CallbackSucceeds, Guarded
  <2>4. landings' \in Seq({"home", "login"})
    BY <1>4 DEF CallbackSucceeds, TypeOK
  <2> QED
    BY <1>4, <2>1, <2>2, <2>3, <2>4 DEF CallbackSucceeds, IssueToken, TypeOK
<1>5. CASE CallbackFails
  <2>1. callback' \in CallbackStates
    BY <1>5, CallbackTypes DEF CallbackFails, TypeOK
  <2>2. fails' \in Nat
    BY <1>5 DEF CallbackFails, TypeOK
  <2>3. /\ route' \in Guarded \cup {"login", "callback", "away"}
        /\ guard' \in {"none", "checking", "checked"} /\ user' \in Users \cup {NoUser}
    BY <1>5, RenderType DEF CallbackFails, TypeOK
  <2>4. landings' \in Seq({"home", "login"})
    BY <1>5 DEF CallbackFails, TypeOK
  <2> QED
    BY <1>5, <2>1, <2>2, <2>3, <2>4 DEF CallbackFails, TypeOK
<1>6. ASSUME NEW r \in Guarded \cup {"login"}, OpenUrl(r) PROVE TypeOK'
  BY <1>6, PageLoadType DEF OpenUrl, TypeOK
<1>7. ASSUME NEW r \in Guarded \cup {"login"}, History(r) PROVE TypeOK'
  BY <1>7 DEF History, Render, Settled, TypeOK, Guarded
<1>8. ASSUME NEW r \in Guarded, Follow(r) PROVE TypeOK'
  BY <1>8 DEF Follow, Render, Settled, Inside, TypeOK, Guarded
<1>9. CASE LoadExisting
  BY <1>9 DEF LoadExisting, Render, Settled, LiveUser, MayFail, TypeOK, Guarded
<1>10. CASE SignOut
  BY <1>10 DEF SignOut, logout, Render, Settled, Inside, TypeOK, Guarded
<1>11. CASE SignOutLeaves
  <2>1. fails' \in Nat
    BY <1>11 DEF SignOutLeaves, MayFail, TypeOK
  <2> QED
    BY <1>11, <2>1 DEF SignOutLeaves, Redirect, TypeOK
<1>12. CASE AutoRenew
  BY <1>12 DEF AutoRenew, TypeOK
<1>13. CASE Expire
  <2>1. expired' \subseteq Nat
    BY <1>13 DEF Expire, LiveUser, Users, TypeOK
  <2>2. renewing' \subseteq {"auto", "expired", "error"}
    BY <1>13 DEF Expire, TypeOK
  <2> QED
    BY <1>13, <2>1, <2>2 DEF Expire, TypeOK
<1>14. ASSUME NEW k \in renewing, RenewSucceeds(k) PROVE TypeOK'
  <2>1. NextUser \in Users /\ issued' \in Nat
    BY <1>14 DEF NextUser, Users, RenewSucceeds, IssueToken, TypeOK
  <2>2. /\ route' \in Guarded \cup {"login", "callback", "away"}
        /\ guard' \in {"none", "checking", "checked"} /\ user' \in Users \cup {NoUser}
    BY <1>14, <2>1, RenderType DEF RenewSucceeds, TypeOK
  <2> QED
    BY <1>14, <2>1, <2>2 DEF RenewSucceeds, IssueToken, TypeOK
<1>15. ASSUME NEW k \in renewing, RenewFails(k) PROVE TypeOK'
  <2>1. fails' \in Nat
    BY <1>15 DEF RenewFails, TypeOK
  <2>2. /\ route' \in Guarded \cup {"login", "callback", "away"}
        /\ guard' \in {"none", "checking", "checked"} /\ user' \in Users \cup {NoUser}
        /\ renewing' \subseteq {"auto", "expired", "error"}
    <3>1. CASE k = "auto"
      BY <1>15, <3>1 DEF RenewFails, TypeOK
    <3>2. CASE k # "auto"
      BY <1>15, <3>2, RenderType DEF RenewFails, TypeOK
    <3> QED BY <3>1, <3>2
  <2> QED
    BY <1>15, <2>1, <2>2 DEF RenewFails, TypeOK
<1>16. CASE RoleChanges
  BY <1>16 DEF RoleChanges, TypeOK, Roles
<1>17. CASE SsoEnds
  <2>1. fails' \in Nat
    BY <1>17 DEF SsoEnds, MayFail, TypeOK
  <2>2. sso' \in BOOLEAN
    BY <1>17 DEF SsoEnds
  <2> QED
    BY <1>17, <2>1, <2>2 DEF SsoEnds, TypeOK
<1>18. CASE Call
  <2>1. NewRequest \in [no : Nat, tok : Nat, at : Nat, open : BOOLEAN]
    BY NewRequestType
  <2>2. calls' \subseteq [no : Nat, tok : Nat, at : Nat, open : BOOLEAN]
    BY <1>18, <2>1 DEF Call, TypeOK
  <2>3. sent' \in Nat
    BY <1>18 DEF Call, TypeOK
  <2> QED
    BY <1>18, <2>2, <2>3 DEF Call, TypeOK
<1>19. ASSUME NEW c \in calls, CallAnswered(c) PROVE TypeOK'
  <2>1. /\ route' \in Guarded \cup {"login", "callback", "away"}
        /\ guard' \in {"none", "checking", "checked"} /\ user' \in Users \cup {NoUser}
        /\ stored' \in Users \cup {NoUser} /\ purpose' \in {"none", "signin", "signout"}
        /\ loggedOut' \in BOOLEAN /\ overlap' \in BOOLEAN
    <3>1. CASE logout(route, guard)
      BY <3>1, RenderType DEF logout, TypeOK
    <3>2. CASE UNCHANGED <<route, purpose, guard, user, stored, loggedOut, overlap>>
      BY <3>2 DEF TypeOK
    <3> QED BY <1>19, <3>1, <3>2 DEF CallAnswered
  <2>2. endedFresh' \subseteq [sentIn : Nat, ended : Nat, refused : BOOLEAN]
    <3>1. LiveUser(user) =>
            [sentIn |-> c.at, ended |-> user.no, refused |-> c.tok # 0 /\ c.tok \notin expired]
               \in [sentIn : Nat, ended : Nat, refused : BOOLEAN]
      BY DEF LiveUser, Users, TypeOK
    <3> QED BY <1>19, <3>1 DEF CallAnswered, TypeOK
  <2>3. calls' \subseteq [no : Nat, tok : Nat, at : Nat, open : BOOLEAN]
    <3>1. [c EXCEPT !.open = FALSE] \in [no : Nat, tok : Nat, at : Nat, open : BOOLEAN]
      BY DEF TypeOK
    <3> QED BY <1>19, <3>1 DEF CallAnswered, TypeOK
  <2> QED
    BY <1>19, <2>1, <2>2, <2>3 DEF CallAnswered, TypeOK
<1>21. ASSUME NEW c \in calls, CallAgain(c) PROVE TypeOK'
  <2>1. NewRequest \in [no : Nat, tok : Nat, at : Nat, open : BOOLEAN]
    BY NewRequestType
  <2>2. calls' \subseteq [no : Nat, tok : Nat, at : Nat, open : BOOLEAN]
    BY <1>21, <2>1 DEF CallAgain, TypeOK
  <2>3. sent' \in Nat
    BY <1>21 DEF CallAgain, TypeOK
  <2> QED
    BY <1>21, <2>2, <2>3 DEF CallAgain, TypeOK
<1>20. CASE UNCHANGED authVars
  BY <1>20 DEF authVars, TypeOK
<1> QED
  BY <1>1, <1>2, <1>3, <1>4, <1>5, <1>6, <1>7, <1>8, <1>9, <1>10, <1>11, <1>12,
     <1>13, <1>14, <1>15, <1>16, <1>17, <1>18, <1>19, <1>20, <1>21 DEF AuthNext

\* RoleGuard lets admins, and nobody below, to the admin pages.
LEMMA AdminRank == \A u \in Users : RoleGuard(u, "admin") <=> u.role = "admin"
BY DEF RoleGuard, ROLE_RANK, Users, Roles

\* A token of Keycloak makes a user.
LEMMA NextUserType == TypeOK => NextUser \in Users
BY DEF TypeOK, NextUser, Users

\* A render sends whoever may not be there away.
LEMMA RenderGuards ==
    ASSUME NEW r \in Guarded \cup {"login", "callback", "away"},
           NEW g \in {"none", "checking", "checked"}, NEW u \in Users \cup {NoUser},
           g # "none" => r \in Guarded, Render(r, g, u)
    PROVE  GuardInv'
<1>1. CASE u = NoUser
  BY <1>1 DEF GuardInv, Render, Settled, Guarded
<1>2. CASE u \in Users
  BY <1>2, AdminRank DEF GuardInv, Render, Settled, Guarded
<1> QED BY <1>1, <1>2

\* Every step leaves the tab at a page its user may see.
LEMMA GuardStep ==
    ASSUME TypeOK, GuardInv, CallbackInv, [AuthNext]_authVars
    PROVE  GuardInv'
<1> USE DEF TypeOK, GuardInv, CallbackInv, heap, idp, Guarded
<1>1. CASE SignIn
  BY <1>1 DEF SignIn, Redirect
<1>2. CASE Return
  BY <1>2 DEF Return, PageLoad, MayFail
<1>3. CASE CallbackEffect
  BY <1>3 DEF CallbackEffect
<1>4. CASE CallbackSucceeds
  BY <1>4, RenderGuards, NextUserType DEF CallbackSucceeds, IssueToken
<1>5. CASE CallbackFails
  BY <1>5, RenderGuards DEF CallbackFails
<1>6. ASSUME NEW r \in Guarded \cup {"login"}, OpenUrl(r) PROVE GuardInv'
  BY <1>6 DEF OpenUrl, PageLoad
<1>7. ASSUME NEW r \in Guarded \cup {"login"}, History(r) PROVE GuardInv'
  <2>1. (IF r \notin Guarded THEN "none" ELSE IF guard = "none" THEN "checking" ELSE guard)
            \in {"none", "checking", "checked"}
    OBVIOUS
  <2> QED
    BY <1>7, <2>1, RenderGuards DEF History
<1>8. ASSUME NEW r \in Guarded, Follow(r) PROVE GuardInv'
  BY <1>8, RenderGuards DEF Follow, Inside
<1>9. CASE LoadExisting
  BY <1>9, RenderGuards DEF LoadExisting, MayFail
<1>10. CASE SignOut
  BY <1>10, RenderGuards DEF SignOut, logout, Inside
<1>11. CASE SignOutLeaves
  BY <1>11 DEF SignOutLeaves, Redirect, MayFail
<1>12. CASE AutoRenew
  BY <1>12 DEF AutoRenew, LiveUser
<1>13. CASE Expire
  BY <1>13 DEF Expire, LiveUser
<1>14. ASSUME NEW k \in renewing, RenewSucceeds(k) PROVE GuardInv'
  BY <1>14, RenderGuards, NextUserType DEF RenewSucceeds, IssueToken
<1>15. ASSUME NEW k \in renewing, RenewFails(k) PROVE GuardInv'
  BY <1>15, RenderGuards DEF RenewFails
<1>16. CASE RoleChanges
  BY <1>16 DEF RoleChanges
<1>17. CASE SsoEnds
  BY <1>17 DEF SsoEnds, MayFail
<1>18. CASE Call
  BY <1>18 DEF Call, Inside
<1>19. ASSUME NEW c \in calls, CallAnswered(c) PROVE GuardInv'
  BY <1>19, RenderGuards DEF CallAnswered, logout, LiveUser
<1>21. ASSUME NEW c \in calls, CallAgain(c) PROVE GuardInv'
  BY <1>21 DEF CallAgain
<1>20. CASE UNCHANGED authVars
  BY <1>20 DEF authVars
<1> QED
  BY <1>1, <1>2, <1>3, <1>4, <1>5, <1>6, <1>7, <1>8, <1>9, <1>10, <1>11, <1>12,
     <1>13, <1>14, <1>15, <1>16, <1>17, <1>18, <1>19, <1>20, <1>21 DEF AuthNext

\* The effect asks once per page load, and what it awaits is decided once.
LEMMA CallbackStep ==
    ASSUME TypeOK, CallbackInv, [AuthNext]_authVars
    PROVE  CallbackInv'
<1> USE DEF TypeOK, CallbackInv, CallbackStates, heap, idp, NoCallback, Users, Roles, Guarded
<1>1. CASE SignIn
  BY <1>1 DEF SignIn, Redirect
<1>2. CASE Return
  BY <1>2 DEF Return, PageLoad, MayFail
<1>3. CASE CallbackEffect
  BY <1>3 DEF CallbackEffect
<1>4. CASE CallbackSucceeds
  BY <1>4 DEF CallbackSucceeds, IssueToken, NextUser, Render, Settled
<1>5. CASE CallbackFails
  BY <1>5 DEF CallbackFails, Render, Settled
<1>6. ASSUME NEW r \in Guarded \cup {"login"}, OpenUrl(r) PROVE CallbackInv'
  BY <1>6 DEF OpenUrl, PageLoad
<1>7. ASSUME NEW r \in Guarded \cup {"login"}, History(r) PROVE CallbackInv'
  BY <1>7 DEF History, Render, Settled
<1>8. ASSUME NEW r \in Guarded, Follow(r) PROVE CallbackInv'
  BY <1>8 DEF Follow, Render, Settled, Inside
<1>9. CASE LoadExisting
  BY <1>9 DEF LoadExisting, Render, Settled, LiveUser, MayFail
<1>10. CASE SignOut
  BY <1>10 DEF SignOut, logout, Render, Settled, Inside
<1>11. CASE SignOutLeaves
  BY <1>11 DEF SignOutLeaves, Redirect, MayFail
<1>12. CASE AutoRenew
  BY <1>12 DEF AutoRenew, LiveUser
<1>13. CASE Expire
  BY <1>13 DEF Expire, LiveUser
<1>14. ASSUME NEW k \in renewing, RenewSucceeds(k) PROVE CallbackInv'
  BY <1>14 DEF RenewSucceeds, IssueToken, NextUser, Render, Settled
<1>15. ASSUME NEW k \in renewing, RenewFails(k) PROVE CallbackInv'
  BY <1>15 DEF RenewFails, Render, Settled
<1>16. CASE RoleChanges
  BY <1>16 DEF RoleChanges
<1>17. CASE SsoEnds
  BY <1>17 DEF SsoEnds, MayFail
<1>18. CASE Call
  BY <1>18 DEF Call, Inside
<1>19. ASSUME NEW c \in calls, CallAnswered(c) PROVE CallbackInv'
  BY <1>19 DEF CallAnswered, logout, Render, Settled, LiveUser
<1>21. ASSUME NEW c \in calls, CallAgain(c) PROVE CallbackInv'
  BY <1>21 DEF CallAgain
<1>20. CASE UNCHANGED authVars
  BY <1>20 DEF authVars
<1> QED
  BY <1>1, <1>2, <1>3, <1>4, <1>5, <1>6, <1>7, <1>8, <1>9, <1>10, <1>11, <1>12,
     <1>13, <1>14, <1>15, <1>16, <1>17, <1>18, <1>19, <1>20, <1>21 DEF AuthNext

\* Local storage and the store get a new user together, with the newest token.
LEMMA StoreStep ==
    ASSUME TypeOK, GuardInv, CallbackInv, StoreInv, [AuthNext]_authVars
    PROVE  StoreInv'
<1> USE DEF TypeOK, GuardInv, CallbackInv, StoreInv, CallbackStates, heap, idp, NoCallback, Users, Roles, Guarded
<1>1. CASE SignIn
  BY <1>1 DEF SignIn, Redirect
<1>2. CASE Return
  BY <1>2 DEF Return, PageLoad, MayFail
<1>3. CASE CallbackEffect
  BY <1>3 DEF CallbackEffect
<1>4. CASE CallbackSucceeds
  BY <1>4 DEF CallbackSucceeds, IssueToken, NextUser, Render, Settled
<1>5. CASE CallbackFails
  BY <1>5 DEF CallbackFails, Render, Settled
<1>6. ASSUME NEW r \in Guarded \cup {"login"}, OpenUrl(r) PROVE StoreInv'
  BY <1>6 DEF OpenUrl, PageLoad
<1>7. ASSUME NEW r \in Guarded \cup {"login"}, History(r) PROVE StoreInv'
  BY <1>7 DEF History, Render, Settled
<1>8. ASSUME NEW r \in Guarded, Follow(r) PROVE StoreInv'
  BY <1>8 DEF Follow, Render, Settled, Inside
<1>9. CASE LoadExisting
  BY <1>9 DEF LoadExisting, Render, Settled, LiveUser, MayFail
<1>10. CASE SignOut
  BY <1>10 DEF SignOut, logout, Render, Settled, Inside
<1>11. CASE SignOutLeaves
  BY <1>11 DEF SignOutLeaves, Redirect, MayFail
<1>12. CASE AutoRenew
  BY <1>12 DEF AutoRenew, LiveUser
<1>13. CASE Expire
  BY <1>13 DEF Expire, LiveUser
<1>14. ASSUME NEW k \in renewing, RenewSucceeds(k) PROVE StoreInv'
  BY <1>14 DEF RenewSucceeds, IssueToken, NextUser, Render, Settled
<1>15. ASSUME NEW k \in renewing, RenewFails(k) PROVE StoreInv'
  BY <1>15 DEF RenewFails, Render, Settled
<1>16. CASE RoleChanges
  BY <1>16 DEF RoleChanges
<1>17. CASE SsoEnds
  BY <1>17 DEF SsoEnds, MayFail
<1>18. CASE Call
  BY <1>18 DEF Call, NewRequest, SessionNo, BearerToken
<1>19. ASSUME NEW c \in calls, CallAnswered(c) PROVE StoreInv'
  BY <1>19 DEF CallAnswered, logout, Render, Settled, LiveUser
<1>21. ASSUME NEW c \in calls, CallAgain(c) PROVE StoreInv'
  BY <1>21 DEF CallAgain, NewRequest, SessionNo, BearerToken
<1>20. CASE UNCHANGED authVars
  BY <1>20 DEF authVars
<1> QED
  BY <1>1, <1>2, <1>3, <1>4, <1>5, <1>6, <1>7, <1>8, <1>9, <1>10, <1>11, <1>12,
     <1>13, <1>14, <1>15, <1>16, <1>17, <1>18, <1>19, <1>20, <1>21 DEF AuthNext

\* Without a renewal that was under way nothing brings a user back.
LEMMA LogoutStep ==
    ASSUME TypeOK, CallbackInv, StoreInv, LogoutInv, [AuthNext]_authVars
    PROVE  LogoutInv'
<1> USE DEF TypeOK, CallbackInv, StoreInv, LogoutInv, CallbackStates, heap, idp, NoCallback, Users, Roles, Guarded
<1>1. CASE SignIn
  BY <1>1 DEF SignIn, Redirect
<1>2. CASE Return
  BY <1>2 DEF Return, PageLoad, MayFail
<1>3. CASE CallbackEffect
  BY <1>3 DEF CallbackEffect
<1>4. CASE CallbackSucceeds
  BY <1>4 DEF CallbackSucceeds, IssueToken, NextUser, Render, Settled
<1>5. CASE CallbackFails
  BY <1>5 DEF CallbackFails, Render, Settled
<1>6. ASSUME NEW r \in Guarded \cup {"login"}, OpenUrl(r) PROVE LogoutInv'
  BY <1>6 DEF OpenUrl, PageLoad
<1>7. ASSUME NEW r \in Guarded \cup {"login"}, History(r) PROVE LogoutInv'
  BY <1>7 DEF History, Render, Settled
<1>8. ASSUME NEW r \in Guarded, Follow(r) PROVE LogoutInv'
  BY <1>8 DEF Follow, Render, Settled, Inside
<1>9. CASE LoadExisting
  BY <1>9 DEF LoadExisting, Render, Settled, LiveUser, MayFail
<1>10. CASE SignOut
  BY <1>10 DEF SignOut, logout, Render, Settled, Inside
<1>11. CASE SignOutLeaves
  BY <1>11 DEF SignOutLeaves, Redirect, MayFail
<1>12. CASE AutoRenew
  BY <1>12 DEF AutoRenew, LiveUser
<1>13. CASE Expire
  BY <1>13 DEF Expire, LiveUser
<1>14. ASSUME NEW k \in renewing, RenewSucceeds(k) PROVE LogoutInv'
  BY <1>14 DEF RenewSucceeds, IssueToken, NextUser, Render, Settled
<1>15. ASSUME NEW k \in renewing, RenewFails(k) PROVE LogoutInv'
  BY <1>15 DEF RenewFails, Render, Settled
<1>16. CASE RoleChanges
  BY <1>16 DEF RoleChanges
<1>17. CASE SsoEnds
  BY <1>17 DEF SsoEnds, MayFail
<1>18. CASE Call
  BY <1>18 DEF Call, Inside
<1>19. ASSUME NEW c \in calls, CallAnswered(c) PROVE LogoutInv'
  <2>1. CASE logout(route, guard)
    BY <1>19, <2>1 DEF CallAnswered, logout, Render
  <2>2. CASE UNCHANGED <<route, purpose, guard, user, stored, loggedOut, overlap>>
    BY <1>19, <2>2 DEF CallAnswered
  <2> QED BY <1>19, <2>1, <2>2 DEF CallAnswered
<1>21. ASSUME NEW c \in calls, CallAgain(c) PROVE LogoutInv'
  BY <1>21 DEF CallAgain
<1>20. CASE UNCHANGED authVars
  BY <1>20 DEF authVars
<1> QED
  BY <1>1, <1>2, <1>3, <1>4, <1>5, <1>6, <1>7, <1>8, <1>9, <1>10, <1>11, <1>12,
     <1>13, <1>14, <1>15, <1>16, <1>17, <1>18, <1>19, <1>20, <1>21 DEF AuthNext

\* An answer that ends a live session refused a good token, or is about an
\* older one.
LEMMA FreshStep ==
    ASSUME TypeOK, StoreInv, GoodSessionEndedByStaleOrRefused, [AuthNext]_authVars
    PROVE  GoodSessionEndedByStaleOrRefused'
<1> USE DEF TypeOK, StoreInv, GoodSessionEndedByStaleOrRefused, CallbackStates, heap, idp, NoCallback, Users, Roles, Guarded
<1>1. CASE SignIn
  BY <1>1 DEF SignIn, Redirect
<1>2. CASE Return
  BY <1>2 DEF Return, PageLoad, MayFail
<1>3. CASE CallbackEffect
  BY <1>3 DEF CallbackEffect
<1>4. CASE CallbackSucceeds
  BY <1>4 DEF CallbackSucceeds, IssueToken, NextUser, Render, Settled
<1>5. CASE CallbackFails
  BY <1>5 DEF CallbackFails, Render, Settled
<1>6. ASSUME NEW r \in Guarded \cup {"login"}, OpenUrl(r) PROVE GoodSessionEndedByStaleOrRefused'
  BY <1>6 DEF OpenUrl, PageLoad
<1>7. ASSUME NEW r \in Guarded \cup {"login"}, History(r) PROVE GoodSessionEndedByStaleOrRefused'
  BY <1>7 DEF History, Render, Settled
<1>8. ASSUME NEW r \in Guarded, Follow(r) PROVE GoodSessionEndedByStaleOrRefused'
  BY <1>8 DEF Follow, Render, Settled, Inside
<1>9. CASE LoadExisting
  BY <1>9 DEF LoadExisting, Render, Settled, LiveUser, MayFail
<1>10. CASE SignOut
  BY <1>10 DEF SignOut, logout, Render, Settled, Inside
<1>11. CASE SignOutLeaves
  BY <1>11 DEF SignOutLeaves, Redirect, MayFail
<1>12. CASE AutoRenew
  BY <1>12 DEF AutoRenew, LiveUser
<1>13. CASE Expire
  BY <1>13 DEF Expire, LiveUser
<1>14. ASSUME NEW k \in renewing, RenewSucceeds(k) PROVE GoodSessionEndedByStaleOrRefused'
  BY <1>14 DEF RenewSucceeds, IssueToken, NextUser, Render, Settled
<1>15. ASSUME NEW k \in renewing, RenewFails(k) PROVE GoodSessionEndedByStaleOrRefused'
  BY <1>15 DEF RenewFails, Render, Settled
<1>16. CASE RoleChanges
  BY <1>16 DEF RoleChanges
<1>17. CASE SsoEnds
  BY <1>17 DEF SsoEnds, MayFail
<1>18. CASE Call
  BY <1>18 DEF Call, Inside
<1>19. ASSUME NEW c \in calls, CallAnswered(c) PROVE GoodSessionEndedByStaleOrRefused'
  BY <1>19 DEF CallAnswered, logout, Render, Settled, LiveUser
<1>21. ASSUME NEW c \in calls, CallAgain(c) PROVE GoodSessionEndedByStaleOrRefused'
  BY <1>21 DEF CallAgain
<1>20. CASE UNCHANGED authVars
  BY <1>20 DEF authVars
<1> QED
  BY <1>1, <1>2, <1>3, <1>4, <1>5, <1>6, <1>7, <1>8, <1>9, <1>10, <1>11, <1>12,
     <1>13, <1>14, <1>15, <1>16, <1>17, <1>18, <1>19, <1>20, <1>21 DEF AuthNext

-----------------------------------------------------------------------------
\* The inductive invariant holds for ever: whatever the operator, the network
\* and Keycloak do, and in whatever order renewals and answers come.
THEOREM SessionSafe == AuthSpec => []SessionInv
<1>1. SessionInv /\ [AuthNext]_authVars => SessionInv'
  BY TypeStep, GuardStep, CallbackStep, StoreStep, LogoutStep, FreshStep DEF SessionInv
<1> QED
  BY <1>1, SessionInit, PTL DEF AuthSpec

\* A page load decides once where the callback leads (AuthCallbackPage.tsx),
\* however often StrictMode runs the effect and however the exchange ends.
THEOREM CallbackOnce == AuthSpec => []CallbackLandsOnce
<1>1. SessionInv => CallbackLandsOnce
  BY DEF SessionInv, TypeOK, CallbackInv, CallbackStates, CallbackLandsOnce
<1> QED
  BY <1>1, SessionSafe, PTL

\* A session with a good token is ended by the answer to one of its own requests
\* only when the server refused that good token; any other answer that ends it is
\* to a request that left before its token was issued (client.ts, afterResponse).
THEOREM EndedByStaleOrRefused == AuthSpec => []GoodSessionEndedByStaleOrRefused
<1>1. SessionInv => GoodSessionEndedByStaleOrRefused
  BY DEF SessionInv
<1> QED
  BY <1>1, SessionSafe, PTL

\* A logout is undone, before the next page load, only by a renewal that was
\* under way (authStore.ts, logout and addUserLoaded).
THEOREM LogoutLasts == AuthSpec => []LogoutUndoneOnlyByRenewal
<1>1. SessionInv => LogoutUndoneOnlyByRenewal
  BY DEF SessionInv, TypeOK, LogoutInv, LogoutUndoneOnlyByRenewal
<1> QED
  BY <1>1, SessionSafe, PTL
=============================================================================
