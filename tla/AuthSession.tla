---------------------------- MODULE AuthSession ----------------------------
(***************************************************************************)
(* The operator's session in one browser tab: the auth store               *)
(* (server/dashboard/src/store/authStore.ts), the guards and routes of     *)
(* App.tsx, the login and callback pages, the sidebar, and the HTTP client *)
(* (api/client.ts).  oidc-client-ts and Keycloak are external, modelled    *)
(* from how the store uses them: signinSilent runs until it succeeds or    *)
(* fails, several may run at once, and success stores the user and raises  *)
(* userLoaded.                                                             *)
(*                                                                         *)
(* The store sets user, token and claims together, so `user` stands for    *)
(* the three.  A step includes the render it causes (Settled).  Leaving    *)
(* for Keycloak, and opening a URL, end the page: its variables, requests  *)
(* and renewals are gone, and only local storage stays.                    *)
(***************************************************************************)
EXTENDS Naturals, Sequences

CONSTANTS
    NoUser,
    MaxTokens,   \* bound: access tokens issued
    MaxCalls,    \* bound: API requests
    MaxLoads,    \* bound: page loads
    MaxFails     \* bound: failures of the network or of Keycloak

Roles == {"viewer", "operator", "admin"}
Users == [no : Nat, role : Roles]   \* a token's number and its claims

ASSUME SessionAssumption == NoUser \notin Users

VARIABLES
    route,      \* where the tab is; "away" is Keycloak
    purpose,    \* why it is away
    guard,      \* AuthGuard: not mounted, checking, checked
    user,       \* the auth store
    stored,     \* the user in local storage
    expired,    \* numbers of the tokens that have expired
    issued,     \* number of the last token
    sso,        \* is there a Keycloak session?
    idpRole,    \* the role Keycloak has for the operator
    renewing,   \* the signinSilent calls that run, by what started them
    callback,   \* AuthCallbackPage: [runs, processed, waiting, code]
    calls,      \* handlers with their last API request: under way, or answered
    sent,       \* number of API requests so far
    loads, fails,
    landings,   \* history: where the callback page went to
    loggedOut,  \* history: this page load saw a logout ...
    overlap,    \* ... while a renewal ran
    endedFresh  \* history: answers that ended a session with a good token

heap == <<guard, user, renewing, callback, calls, landings, loggedOut, overlap>>
idp == <<sso, idpRole, expired, issued>>
authVars == <<route, purpose, stored, heap, idp, sent, loads, fails, endedFresh>>

Guarded == {"home", "admin"}   \* "/" and /projects; /team and /settings/api-keys
NoCallback == [runs |-> 0, processed |-> FALSE, waiting |-> 0, code |-> FALSE]

AuthInit ==
    /\ route = "login" /\ purpose = "none" /\ guard = "none"
    /\ user = NoUser /\ stored = NoUser
    /\ expired = {} /\ issued = 0
    /\ sso = FALSE /\ idpRole \in {"viewer", "admin"}
    /\ renewing = {} /\ callback = NoCallback
    /\ calls = {} /\ sent = 0 /\ loads = 0 /\ fails = 0
    /\ landings = <<>> /\ loggedOut = FALSE /\ overlap = FALSE /\ endedFresh = {}

\* The tab loads the application at route r.  The UserManager made with the
\* page reads the stored user, and an expired one raises accessTokenExpired.
PageLoad(r) ==
    /\ loads < MaxLoads
    /\ loads' = loads + 1
    /\ route' = r /\ purpose' = "none"
    /\ guard' = IF r \in Guarded THEN "checking" ELSE "none"
    /\ user' = NoUser /\ calls' = {}
    /\ renewing' = IF stored # NoUser /\ stored.no \in expired THEN {"expired"} ELSE {}
    /\ callback' = [NoCallback EXCEPT !.code = (r = "callback")]
    /\ landings' = <<>> /\ loggedOut' = FALSE /\ overlap' = FALSE

MayFail == fails < MaxFails /\ fails' = fails + 1
-----------------------------------------------------------------------------
(* Rendering                                                               *)

ROLE_RANK == [viewer |-> 0, operator |-> 1, admin |-> 2]
RoleGuard(u, role) == ROLE_RANK[u.role] >= ROLE_RANK[role]
isAdmin(u) == u # NoUser /\ u.role = "admin"

\* What AuthGuard and AdminGuard make of a route: without a token Navigate to
\* /login, which unmounts AuthGuard; below the admin role Navigate to "/".
Settled(r, g, u) ==
    IF r \in Guarded /\ g = "checked" /\ u = NoUser
    THEN [route |-> "login", guard |-> "none"]
    ELSE IF r = "admin" /\ g = "checked" /\ ~RoleGuard(u, "admin")
         THEN [route |-> "home", guard |-> g]
         ELSE [route |-> r, guard |-> g]

Render(r, g, u) ==
    /\ user' = u
    /\ route' = Settled(r, g, u).route
    /\ guard' = Settled(r, g, u).guard

\* A page with its requests and buttons is on the screen.
Inside == route \in Guarded /\ guard = "checked"
-----------------------------------------------------------------------------
(* Signing in                                                              *)

\* signinRedirect and signoutRedirect leave for Keycloak: the page is gone.
Redirect(why) ==
    /\ route' = "away" /\ purpose' = why
    /\ user' = NoUser /\ guard' = "none" /\ renewing' = {} /\ calls' = {}

\* The two buttons of LoginPage, login and signup.
SignIn ==
    /\ route = "login"
    /\ Redirect("signin")
    /\ UNCHANGED <<stored, callback, idp, sent, loads, fails, landings, loggedOut,
                   overlap, endedFresh>>

\* Keycloak sends the browser back (external).
Return ==
    /\ route = "away"
    /\ IF purpose = "signin"
       THEN \/ PageLoad("callback") /\ sso' = TRUE /\ UNCHANGED fails
            \/ PageLoad("login") /\ MayFail /\ UNCHANGED sso
       ELSE PageLoad("login") /\ sso' = FALSE /\ UNCHANGED fails
    /\ UNCHANGED <<stored, idpRole, expired, issued, sent, endedFresh>>

\* Mutant: without the ref, StrictMode's second run asks again.
CallbackEffect_NoRef ==
    /\ route = "callback" /\ callback.runs < 2
    /\ callback' = [callback EXCEPT !.runs = @ + 1, !.waiting = @ + 1]
    /\ UNCHANGED <<route, purpose, guard, user, stored, renewing, calls, landings, loggedOut,
                   overlap, idp, sent, loads, fails, endedFresh>>

\* AuthCallbackPage's effect; StrictMode runs it twice (main.tsx).
CallbackEffect ==
    /\ route = "callback" /\ callback.runs < 2
    /\ callback' = [callback EXCEPT
            !.runs = @ + 1,
            !.processed = TRUE,
            !.waiting = IF callback.processed THEN @ ELSE @ + 1]
    /\ UNCHANGED <<route, purpose, guard, user, stored, renewing, calls, landings, loggedOut,
                   overlap, idp, sent, loads, fails, endedFresh>>

\* A token from Keycloak, with the claims parseClaims takes from it.
NextUser == [no |-> issued + 1, role |-> idpRole]
IssueToken ==
    /\ issued < MaxTokens
    /\ issued' = issued + 1
    /\ UNCHANGED <<sso, idpRole, expired>>

\* handleCallback: the code is good for one exchange, and then "/" ...
CallbackSucceeds ==
    /\ callback.waiting > 0 /\ callback.code
    /\ callback' = [callback EXCEPT !.waiting = @ - 1, !.code = FALSE]
    /\ IssueToken
    /\ stored' = NextUser
    /\ Render("home", "checking", NextUser)
    /\ landings' = Append(landings, "home")
    /\ UNCHANGED <<purpose, renewing, calls, loggedOut, overlap, sent, loads, fails, endedFresh>>

\* ... or an error, and then /login.
CallbackFails ==
    /\ callback.waiting > 0
    /\ callback.code => fails < MaxFails
    /\ fails' = IF callback.code THEN fails + 1 ELSE fails
    /\ callback' = [callback EXCEPT !.waiting = @ - 1, !.code = FALSE]
    /\ Render("login", "none", user)
    /\ landings' = Append(landings, "login")
    /\ UNCHANGED <<purpose, stored, renewing, calls, loggedOut, overlap, idp, sent, loads,
                   endedFresh>>
-----------------------------------------------------------------------------
(* Moving about                                                            *)

\* A URL is typed or reloaded.
OpenUrl(r) ==
    /\ route # "away"
    /\ PageLoad(r)
    /\ UNCHANGED <<stored, idp, sent, fails, endedFresh>>

\* The links of NavSidebar, which shows the admin ones to admins.
Follow(r) ==
    /\ Inside /\ r # route
    /\ r = "admin" => isAdmin(user)
    /\ Render(r, guard, user)
    /\ UNCHANGED <<purpose, stored, renewing, callback, calls, landings, loggedOut, overlap,
                   idp, sent, loads, fails, endedFresh>>

\* Back and forward within the page load: AuthGuard is mounted anew when the
\* tab comes from outside it.
History(r) ==
    /\ route \in Guarded \cup {"login"} /\ r # route
    /\ loads < MaxLoads /\ loads' = loads + 1
    /\ Render(r, IF r \notin Guarded THEN "none" ELSE IF guard = "none" THEN "checking" ELSE guard,
              user)
    /\ UNCHANGED <<purpose, stored, renewing, callback, calls, landings, loggedOut, overlap,
                   idp, sent, fails, endedFresh>>

LiveUser(u) == u # NoUser /\ u.no \notin expired

\* loadExisting and the finally of AuthGuard's effect; getUser may reject.
LoadExisting ==
    /\ guard = "checking"
    /\ \/ Render(route, "checked", IF LiveUser(stored) THEN stored ELSE user) /\ UNCHANGED fails
       \/ Render(route, "checked", user) /\ MayFail
    /\ UNCHANGED <<purpose, stored, renewing, callback, calls, landings, loggedOut, overlap,
                   idp, sent, loads, endedFresh>>
-----------------------------------------------------------------------------
(* Signing out                                                             *)

\* Mutant: the store is cleared, the library is not asked to sign out.
logout_StoreOnly(r, g) ==
    /\ loggedOut' = TRUE
    /\ overlap' = (overlap \/ renewing # {})
    /\ Render(r, g, NoUser)
    /\ UNCHANGED <<stored, purpose>>

\* logout(): signoutRedirect removes the stored user at once and leaves for
\* Keycloak when it has built the request; the store is cleared meanwhile.
logout(r, g) ==
    /\ loggedOut' = TRUE
    /\ overlap' = (overlap \/ renewing # {})
    /\ stored' = NoUser
    /\ purpose' = "signout"
    /\ Render(r, g, NoUser)

\* NavSidebar's button: logout(), then navigate('/login').
SignOut ==
    /\ Inside
    /\ logout("login", "none")
    /\ UNCHANGED <<renewing, callback, calls, landings, idp, sent, loads, fails, endedFresh>>

\* signoutRedirect navigates, or fails for want of a network.
SignOutLeaves ==
    /\ purpose = "signout" /\ route # "away"
    /\ \/ Redirect("signout") /\ UNCHANGED fails
       \/ /\ MayFail
          /\ purpose' = "none"
          /\ UNCHANGED <<route, user, guard, renewing, calls>>
    /\ UNCHANGED <<stored, callback, landings, loggedOut, overlap, idp, sent, loads, endedFresh>>
-----------------------------------------------------------------------------
(* Renewal                                                                 *)

\* accessTokenExpiring: the library renews by itself (automaticSilentRenew).
AutoRenew ==
    /\ route # "away" /\ LiveUser(stored) /\ "auto" \notin renewing
    /\ issued < MaxTokens
    /\ renewing' = renewing \cup {"auto"}
    /\ UNCHANGED <<route, purpose, guard, user, stored, callback, calls, landings, loggedOut,
                   overlap, idp, sent, loads, fails, endedFresh>>

\* The stored token expires: accessTokenExpired, and the store's handler.
Expire ==
    /\ LiveUser(stored)
    /\ expired' = expired \cup {stored.no}
    /\ renewing' = IF route = "away" THEN renewing ELSE renewing \cup {"expired"}
    /\ UNCHANGED <<route, purpose, guard, user, stored, callback, calls, landings, loggedOut,
                   overlap, sso, idpRole, issued, sent, loads, fails, endedFresh>>

\* signinSilent succeeds: the user is stored, and userLoaded sets the store.
RenewSucceeds(k) ==
    /\ k \in renewing /\ sso
    /\ IssueToken
    /\ renewing' = renewing \ {k}
    /\ stored' = NextUser
    /\ Render(route, guard, NextUser)
    /\ UNCHANGED <<purpose, callback, calls, landings, loggedOut, overlap, sent, loads, fails,
                   endedFresh>>

\* Mutant: the handlers do not catch a failed renewal.
RenewFails_NotCaught(k) ==
    /\ k \in renewing
    /\ (sso /\ issued < MaxTokens) => fails < MaxFails
    /\ fails' = IF sso /\ issued < MaxTokens THEN fails + 1 ELSE fails
    /\ renewing' = (renewing \ {k}) \cup (IF k = "auto" THEN {"error"} ELSE {})
    /\ UNCHANGED <<route, guard, user, purpose, stored, callback, calls, landings, loggedOut,
                   overlap, idp, sent, loads, endedFresh>>

\* signinSilent fails.  The library's own renewal raises silentRenewError,
\* whose handler tries once more; the store's handlers clear the store, and
\* leave what is in local storage.
RenewFails(k) ==
    /\ k \in renewing
    /\ (sso /\ issued < MaxTokens) => fails < MaxFails
    /\ fails' = IF sso /\ issued < MaxTokens THEN fails + 1 ELSE fails
    /\ IF k = "auto"
       THEN /\ renewing' = (renewing \ {k}) \cup {"error"}
            /\ UNCHANGED <<route, guard, user>>
       ELSE /\ renewing' = renewing \ {k}
            /\ Render(route, guard, NoUser)
    /\ UNCHANGED <<purpose, stored, callback, calls, landings, loggedOut, overlap, idp, sent,
                   loads, endedFresh>>

\* Keycloak: the role is changed, or the session ends (external).
RoleChanges ==
    /\ idpRole = "admin" /\ idpRole' = "viewer"
    /\ UNCHANGED <<route, purpose, stored, heap, sso, expired, issued, sent, loads, fails,
                   endedFresh>>
SsoEnds ==
    /\ sso /\ MayFail /\ sso' = FALSE
    /\ UNCHANGED <<route, purpose, stored, heap, idpRole, expired, issued, sent, loads, endedFresh>>
-----------------------------------------------------------------------------
(* API requests                                                            *)

\* The number of the token in the store; 0 is none.
SessionNo == IF user = NoUser THEN 0 ELSE user.no

\* Mutant: the header keeps the first token of the page load.
BearerToken_First ==
    IF \E c \in calls : TRUE THEN (CHOOSE c \in calls : \A d \in calls : c.tok <= d.tok).tok
    ELSE SessionNo

\* beforeRequest reads the store for every request.
BearerToken == SessionNo

\* A request of a page; `at` is the session it was made in (history).
NewRequest == [no |-> sent + 1, tok |-> BearerToken, at |-> SessionNo, open |-> TRUE]

\* A page's handler sends its first request.
Call ==
    /\ Inside /\ sent < MaxCalls
    /\ sent' = sent + 1
    /\ calls' = calls \cup {NewRequest}
    /\ UNCHANGED <<route, purpose, guard, user, stored, renewing, callback, landings, loggedOut,
                   overlap, endedFresh, idp, loads, fails>>

\* A handler that has its answer sends another (the reload after a save, a
\* retry), whether or not its page is still mounted and anyone signed in.
CallAgain(c) ==
    /\ c \in calls /\ ~c.open /\ sent < MaxCalls
    /\ sent' = sent + 1
    /\ calls' = (calls \ {c}) \cup {NewRequest}
    /\ UNCHANGED <<route, purpose, guard, user, stored, renewing, callback, landings, loggedOut,
                   overlap, endedFresh, idp, loads, fails>>

\* The answer.  Any request may get a 401: its token has expired, it has none,
\* or the server refuses a good one (the signing key was rotated; the invite
\* handler passes on Keycloak's own status).  afterResponse calls logout() on
\* it, whoever is signed in.
CallAnswered(c) ==
    /\ c \in calls /\ c.open
    /\ calls' = (calls \ {c}) \cup {[c EXCEPT !.open = FALSE]}
    /\ \/ /\ logout(route, guard)
          /\ endedFresh' = IF LiveUser(user)
                           THEN endedFresh \cup
                                {[sentIn |-> c.at, ended |-> user.no,
                                  refused |-> c.tok # 0 /\ c.tok \notin expired]}
                           ELSE endedFresh
       \/ UNCHANGED <<route, purpose, guard, user, stored, loggedOut, overlap, endedFresh>>
    /\ UNCHANGED <<renewing, callback, landings, idp, sent, loads, fails>>
-----------------------------------------------------------------------------
AuthNext ==
    \/ SignIn \/ Return
    \/ CallbackEffect \/ CallbackSucceeds \/ CallbackFails
    \/ \E r \in Guarded \cup {"login"} : OpenUrl(r) \/ History(r)
    \/ \E r \in Guarded : Follow(r)
    \/ LoadExisting
    \/ SignOut \/ SignOutLeaves
    \/ AutoRenew \/ Expire
    \/ \E k \in renewing : RenewSucceeds(k) \/ RenewFails(k)
    \/ RoleChanges \/ SsoEnds
    \/ Call \/ \E c \in calls : CallAgain(c) \/ CallAnswered(c)

AuthSpec == AuthInit /\ [][AuthNext]_authVars

\* The browser resolves promises, and every renewal ends one way or the other.
AuthFairSpec ==
    /\ AuthSpec
    /\ WF_authVars(LoadExisting)
    /\ WF_authVars(\E k \in renewing : RenewSucceeds(k) \/ RenewFails(k))
-----------------------------------------------------------------------------
(* Properties                                                              *)

CallbackStates == [runs : Nat, processed : BOOLEAN, waiting : Nat, code : BOOLEAN]

TypeOK ==
    /\ route \in Guarded \cup {"login", "callback", "away"}
    /\ purpose \in {"none", "signin", "signout"}
    /\ guard \in {"none", "checking", "checked"}
    /\ user \in Users \cup {NoUser} /\ stored \in Users \cup {NoUser}
    /\ expired \subseteq Nat /\ issued \in Nat
    /\ sso \in BOOLEAN /\ idpRole \in Roles
    /\ renewing \subseteq {"auto", "expired", "error"}
    /\ callback \in CallbackStates
    /\ calls \subseteq [no : Nat, tok : Nat, at : Nat, open : BOOLEAN]
    /\ sent \in Nat /\ loads \in Nat /\ fails \in Nat
    /\ landings \in Seq({"home", "login"})
    /\ loggedOut \in BOOLEAN /\ overlap \in BOOLEAN
    /\ endedFresh \subseteq [sentIn : Nat, ended : Nat, refused : BOOLEAN]

\* The callback page decides once: whatever StrictMode runs twice, the code
\* is exchanged once and the operator who landed on "/" is not sent to /login
\* by a second, failing exchange (AuthCallbackPage.tsx, processed).
CallbackLandsOnce == Len(landings) <= 1

\* A session whose token is good can be ended by the answer to a request of
\* its own only when the server refused that good token: an answer about an
\* expired or missing token belongs to a request that left before the session's
\* token was issued, since every request carries the token of its own moment
\* (client.ts, authHooks).
GoodSessionEndedByStaleOrRefused ==
    \A e \in endedFresh : e.refused \/ e.sentIn < e.ended

\* After a logout nobody is signed in again before the next page load, by
\* going back or otherwise, unless a renewal was under way when logout was
\* called: its userLoaded fills the store again (authStore.ts, logout and
\* addUserLoaded).
LogoutUndoneOnlyByRenewal ==
    loggedOut /\ user # NoUser => overlap

\* An expired token does not stay in the store: it is renewed or the store is
\* cleared, whichever of the renewals fail (authStore.ts, the event handlers).
Stale == user # NoUser /\ ~LiveUser(user)
ExpiredIsHandled == Stale ~> ~Stale
=============================================================================
