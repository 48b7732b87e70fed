---------------------------- MODULE ApiKeysPage ----------------------------
(***************************************************************************)
(* The API keys of the organisation                                        *)
(* (server/dashboard/src/pages/ApiKeys/ApiKeysPage.tsx with                *)
(* api/apikeys.ts) and the key service's handlers                          *)
(* (server/api/auth/main.go), which list no revoked key: the list, the     *)
(* dialog that creates a key, the setup guide that shows the new key this  *)
(* once, and revocation.  The dialog is a component of its own, mounted    *)
(* while showCreate: page.dialog tells its instances apart, by the         *)
(* handlers started before each.  The guide's tabs, texts and copy buttons *)
(* are left out, and so is the badge of a revoked key, which is not        *)
(* listed.                                                                 *)
(***************************************************************************)
EXTENDS PageTasks

VARIABLES
    keyring,  \* the key service's keys: number -> "active" or "revoked"
    shown,    \* history: keys the guide has shown
    unseen    \* history: keys whose answer was lost, or came when the page was gone

keyVars == <<keyring, shown, unseen>>

KeysInit == keyring = [k \in {1} |-> "active"] /\ shown = {1} /\ unseen = {}

FreshKeys(inst) ==
    [kind |-> "keys", inst |-> inst, loading |-> TRUE, error |-> FALSE, keys |-> {},
     showCreate |-> FALSE, dialog |-> 0, creating |-> FALSE, createError |-> FALSE,
     newKey |-> None]

KeysShown == page.kind = "keys"
-----------------------------------------------------------------------------
(* Clicks: the page stays usable while its list loads.                     *)

ShowCreateKey ==
    /\ KeysShown /\ ~page.showCreate
    /\ page' = [page EXCEPT !.showCreate = TRUE, !.dialog = made,
                            !.creating = FALSE, !.createError = FALSE]
    /\ UNCHANGED <<claims, taskVars, lagging, keyVars>>
HideCreateKey ==
    /\ KeysShown /\ page.showCreate
    /\ page' = [page EXCEPT !.showCreate = FALSE]
    /\ UNCHANGED <<claims, taskVars, lagging, keyVars>>
Dismiss ==
    /\ KeysShown /\ ~page.showCreate /\ page.newKey # None
    /\ page' = [page EXCEPT !.newKey = None]
    /\ UNCHANGED <<claims, taskVars, lagging, keyVars>>

\* submit: the button is disabled while this dialog's request runs.
submit ==
    /\ KeysShown /\ page.showCreate /\ ~page.creating
    /\ page' = [page EXCEPT !.creating = TRUE, !.createError = FALSE]
    /\ Start("create", page.dialog, "write")
    /\ UNCHANGED <<claims, lagging, keyVars>>

\* Confirmed; the page shows a button on every key it lists.
revoke(k) ==
    /\ KeysShown /\ ~page.showCreate
    /\ k \in page.keys
    /\ Start("revoke", k, "write")
    /\ UNCHANGED <<page, claims, lagging, keyVars>>
-----------------------------------------------------------------------------
(* Requests                                                                *)

\* The rows the key service lists, and those it will revoke.
ActiveKeys == {k \in DOMAIN keyring : keyring[k] = "active"}

KeysServes(t) ==
    /\ t.kind = "keys"
    /\ \/ /\ t.what = "create" /\ t.step = "write"
          /\ LET k == Cardinality(DOMAIN keyring) + 1
             IN  /\ keyring' = With(keyring, k, "active")
                 /\ \/ Answered(t, "ok", [key |-> k]) /\ UNCHANGED <<unseen, lagging>>
                    \/ /\ Answered(t, "failed", None)
                       /\ unseen' = unseen \cup {k}
                       /\ lagging' = (lagging \/ Mine(t))
       \/ /\ t.what = "revoke" /\ t.step = "write" /\ t.arg \in ActiveKeys
          /\ keyring' = [keyring EXCEPT ![t.arg] = "revoked"]
          /\ \E res \in {"ok", "failed"} :
                /\ Answered(t, res, None)
                /\ lagging' = (lagging \/ (res = "failed" /\ Mine(t)))
          /\ UNCHANGED unseen
       \/ /\ t.what = "revoke" /\ t.step = "write" /\ t.arg \notin ActiveKeys
          /\ Refused(t)
          /\ UNCHANGED <<keyring, unseen>>
       \/ /\ t.step = "list"
          /\ Answered(t, "ok", [list |-> ActiveKeys])
          /\ UNCHANGED <<keyring, unseen, lagging>>
    /\ UNCHANGED shown

\* Mutant: only a dialog that is still open hands its key over.
KeyCreated_OnlyIfOpen(t) ==
    /\ page' = IF Mine(t) /\ page.showCreate /\ page.dialog = t.arg
               THEN [page EXCEPT !.newKey = t.got.key, !.showCreate = FALSE, !.creating = FALSE]
               ELSE page
    /\ shown' = IF Mine(t) /\ page.showCreate /\ page.dialog = t.arg
                THEN shown \cup {t.got.key} ELSE shown
    /\ unseen' = IF Mine(t) THEN unseen ELSE unseen \cup {t.got.key}

\* onCreated and onClose, also of a dialog that was closed meanwhile: the key
\* replaces the one the guide shows, and a dialog opened since is closed.
KeyCreated(t) ==
    /\ page' = IF Mine(t)
               THEN [page EXCEPT !.newKey = t.got.key, !.showCreate = FALSE, !.creating = FALSE]
               ELSE page
    /\ shown' = IF Mine(t) THEN shown \cup {t.got.key} ELSE shown
    /\ unseen' = IF Mine(t) THEN unseen ELSE unseen \cup {t.got.key}

\* The answer of a write.  The list is loaded again after either (submit does
\* not wait for it); a failed create is shown by its dialog, a failed revoke
\* by nothing.
KeysWritten(t) ==
    \/ /\ t.res = "ok" /\ t.what = "create"
       /\ KeyCreated(t)
       /\ GoesOn(t, "list", None)
       /\ lagging' = (lagging \/ (Mine(t) /\ Overlaps(t)))
    \/ /\ t.res = "ok" /\ t.what = "revoke"
       /\ GoesOn(t, "list", None)
       /\ lagging' = (lagging \/ (Mine(t) /\ Overlaps(t)))
       /\ UNCHANGED <<page, shown, unseen>>
    \/ /\ t.res = "failed"
       /\ page' = IF Mine(t) /\ t.what = "create" /\ page.dialog = t.arg
                  THEN [page EXCEPT !.createError = TRUE, !.creating = FALSE] ELSE page
       /\ Ends(t)
       /\ UNCHANGED <<lagging, shown, unseen>>

\* load
KeysListed(t) ==
    /\ page' = IF ~Mine(t) THEN page
               ELSE IF t.res = "ok"
                    THEN [page EXCEPT !.keys = t.got.list, !.error = FALSE, !.loading = FALSE]
                    ELSE [page EXCEPT !.error = TRUE, !.loading = FALSE]
    /\ Ends(t)

KeysContinues(t) ==
    /\ t.kind = "keys" /\ t.res # "none"
    /\ \/ t.step = "write" /\ KeysWritten(t)
       \/ t.step = "list" /\ KeysListed(t) /\ UNCHANGED <<lagging, shown, unseen>>
    /\ UNCHANGED <<claims, keyring>>

\* Everything on the page that can be clicked, but for tabs and copy buttons.
KeysClicks ==
    \/ ShowCreateKey \/ HideCreateKey \/ Dismiss \/ submit
    \/ \E k \in DOMAIN keyring : revoke(k)
=============================================================================
