----------------------------- MODULE PageTasks -----------------------------
(***************************************************************************)
(* What the dashboard's list pages (home, team, API keys) have in common:  *)
(* the router shows one of them at a time, and their handlers are          *)
(* asynchronous functions that await requests.  A task is such a handler   *)
(* under way; its step says which request it awaits, "write", "list" or    *)
(* "more" (the device lists that follow a list), and res whether that      *)
(* request has ended.                                                      *)
(*                                                                         *)
(* A request has two moments: the server reads or applies, and the answer  *)
(* arrives.  In between, other tasks may run.  A write may be applied and  *)
(* its answer lost.  ky gives every request 10 s, so each one ends.  A     *)
(* page that is no longer mounted ignores what its tasks set.              *)
(***************************************************************************)
EXTENDS Naturals, FiniteSets, Functions

CONSTANTS
    None,
    Devices,
    FirstClaims, \* the claims an operator may sign in with ...
    LaterClaims, \* ... and those a renewal may bring
    MaxTasks,    \* bound: handlers started
    MaxVisits,   \* bound: pages mounted
    MaxFailures  \* bound: requests that fail

ASSUME ClaimsAssumption ==
    FirstClaims \cup LaterClaims \subseteq [admin: BOOLEAN, vehicles: SUBSET Devices]

VARIABLES
    page,      \* the state of the mounted page; page.inst tells instances apart
    claims,    \* the auth store: [admin, vehicles]
    tasks,     \* the handlers under way, by number
    made,      \* number of handlers started so far
    failures,  \* number of failed requests so far
    lagging    \* history: a reload of this page failed, was skipped for want of
               \* an answer, overlapped another or was not made for new claims,
               \* so its list may be old

taskVars == <<tasks, made, failures>>

\* The function f, with x at a.
With(f, a, x) == [b \in DOMAIN f \cup {a} |-> IF b = a THEN x ELSE f[b]]

NoPage == [kind |-> "none", inst |-> 0]

TasksInit ==
    /\ page = NoPage
    /\ claims \in FirstClaims
    /\ tasks = <<>> /\ made = 0 /\ failures = 0 /\ lagging = FALSE

Task(p, what, arg, step) ==
    [no |-> made + 1, kind |-> p.kind, inst |-> p.inst, what |-> what, arg |-> arg,
     step |-> step, res |-> "none", got |-> None]

\* Of the page on the screen?
Mine(t) == page.kind # "none" /\ t.inst = page.inst

\* Is another load of the same page under way, whose answer may come late?
Overlaps(t) ==
    \E n \in DOMAIN tasks \ {t.no} :
        tasks[n].inst = t.inst /\ tasks[n].step \in {"list", "more"}

\* A handler of the mounted page begins with the given request.
Start(what, arg, step) ==
    /\ made < MaxTasks
    /\ made' = made + 1
    /\ tasks' = With(tasks, made + 1, Task(page, what, arg, step))
    /\ UNCHANGED failures

\* t continues by awaiting another request ...
GoesOn(t, step, got) ==
    /\ tasks' = [tasks EXCEPT ![t.no] = [t EXCEPT !.step = step, !.res = "none", !.got = got]]
    /\ UNCHANGED <<made, failures>>

\* ... or returns.
Ends(t) == tasks' = Restrict(tasks, DOMAIN tasks \ {t.no}) /\ UNCHANGED <<made, failures>>

\* The request of t ends with an answer.
Answered(t, res, got) ==
    /\ t.res = "none"
    /\ res = "failed" => failures < MaxFailures
    /\ failures' = IF res = "failed" THEN failures + 1 ELSE failures
    /\ tasks' = [tasks EXCEPT ![t.no] = [t EXCEPT !.res = res, !.got = got]]
    /\ UNCHANGED <<page, claims, made>>

\* The server refuses the request of t for what it asks.
Refused(t) ==
    /\ t.res = "none"
    /\ tasks' = [tasks EXCEPT ![t.no] = [t EXCEPT !.res = "failed"]]
    /\ UNCHANGED <<page, claims, made, failures, lagging>>

\* The request of t has no effect and fails: unreachable, timed out, an error.
\* Requests for device lists are caught one by one (see the pages).
Fails(t) ==
    /\ t.step \in {"write", "list"}
    /\ Answered(t, "failed", t.got)
    /\ lagging' = (lagging \/ t.step = "list")

\* A page is mounted; its effect starts the first load.
Mount(fresh) ==
    /\ page.inst < MaxVisits
    /\ made < MaxTasks
    /\ page' = fresh
    /\ made' = made + 1
    /\ tasks' = With(tasks, made + 1, Task(fresh, "load", claims'.vehicles, "list"))
    /\ lagging' = (\E n \in DOMAIN tasks : tasks[n].step = "write")
    /\ UNCHANGED failures

\* A link or the history leads away from the page.
Leave ==
    /\ page.kind # "none"
    /\ page' = [NoPage EXCEPT !.inst = page.inst]
    /\ lagging' = FALSE
    /\ UNCHANGED <<claims, taskVars>>
=============================================================================
