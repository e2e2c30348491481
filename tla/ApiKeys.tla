------------------------------ MODULE ApiKeys ------------------------------
(***************************************************************************)
(* The API keys: the rows of api_keys and the statements on them           *)
(* (observability/storage.ts), the gate (guards/api-key.ts), the handlers  *)
(* of /api/keys (http/routes/keys.ts), the host's create-api-key.ts, and   *)
(* the dialogs of the dashboard's keys page (ui routes/keys.tsx), which    *)
(* show a plaintext once and may be closed while their call is under way.  *)
(*                                                                         *)
(* A plaintext is a number, the prefix and the digest are functions of it, *)
(* and no two are equal (256 random bits).  A key's id is its row.  Other  *)
(* processes may use the database: an administrator of another gateway     *)
(* process or page revokes, renames and rotates beside this page.          *)
(***************************************************************************)
EXTENDS Naturals, Sequences

CONSTANTS
    MaxCalls,       \* bound: calls the page has under way
    Label,          \* labels of keys
    MaxRows,        \* bound: rows
    MaxMinted       \* bound: plaintexts generated

(* What a model's values of the constants satisfy.                          *)
KeyConstantsOK == {MaxCalls, MaxRows, MaxMinted} \subseteq Nat \ {0}

VARIABLES
    keys,           \* the rows, by id: secret, label, admin, revoked
    minted,         \* plaintexts generated so far
    pageKey,         \* the key in the page's localStorage
    calls,          \* the page's calls
    dialog          \* the create, rotate and revoke dialogs

keyVars == <<keys, minted, pageKey, calls, dialog>>

None == 0                               \* no plaintext, no target
NewKey == MaxRows + 1                   \* what the create dialog is open for
AdminCall == 1..MaxCalls
Secret == 1..MaxMinted
Dialogs == {"create", "rotate", "revoke"}
Ops == Dialogs \cup {"rename"}

NoCall == [op |-> "create", id |-> None, key |-> None, step |-> "idle",
         full |-> None, ok |-> FALSE, heard |-> FALSE]
Closed == [target |-> None, shown |-> None, submitting |-> FALSE]

Row(secret, label, admin) ==
    [secret |-> secret, label |-> label, admin |-> admin, revoked |-> FALSE]

(* The operator starts with an admin key issued on the host.                *)
KeyInit ==
    /\ \E l \in Label : keys = <<Row(1, l, TRUE)>>
    /\ minted = 1 /\ pageKey = 1
    /\ calls = [c \in AdminCall |-> NoCall]
    /\ dialog = [d \in Dialogs |-> Closed]

----------------------------------------------------------------------------
(* Storage and gate.                                                        *)

(* getApiKeyByHash: an active row only; /api/ asks for an admin's.          *)
Passes(secret) ==
    \E i \in DOMAIN keys :
        keys[i].secret = secret /\ ~keys[i].revoked /\ keys[i].admin

(* WHERE id = ? AND revoked_at IS NULL                                      *)
Active(id) == id \in DOMAIN keys /\ ~keys[id].revoked

InsertApiKey(label, admin) ==
    /\ Len(keys) < MaxRows /\ minted < MaxMinted
    /\ minted' = minted + 1
    /\ keys' = Append(keys, Row(minted + 1, label, admin))

CallEnds(c, full, ok) ==
    calls' = [calls EXCEPT ![c].step = "done", ![c].full = full, ![c].ok = ok]

----------------------------------------------------------------------------
(* The handlers.                                                            *)

Refuse(c) ==
    /\ calls[c].step = "sent" /\ ~Passes(calls[c].key)
    /\ CallEnds(c, None, FALSE)
    /\ UNCHANGED <<keys, minted, pageKey, dialog>>

(* _handleKeysCreate; without a pepper it answers 500 before minting.       *)
Create(c) ==
    /\ calls[c].step = "sent" /\ calls[c].op = "create" /\ Passes(calls[c].key)
    /\ \/ /\ \E l \in Label : InsertApiKey(l, FALSE)
          /\ CallEnds(c, minted', TRUE)
       \/ UNCHANGED <<keys, minted>> /\ CallEnds(c, None, FALSE)
    /\ UNCHANGED <<pageKey, dialog>>

(* _handleKeysRevoke: idempotent, and an unknown id is a success too.       *)
Revoke(c) ==
    /\ calls[c].step = "sent" /\ calls[c].op = "revoke" /\ Passes(calls[c].key)
    /\ keys' = [i \in DOMAIN keys |->
                  IF i = calls[c].id THEN [keys[i] EXCEPT !.revoked = TRUE] ELSE keys[i]]
    /\ CallEnds(c, None, TRUE)
    /\ UNCHANGED <<minted, pageKey, dialog>>

(* The look-up with which rename and rotate tell 404 and 409 apart.         *)
Classify(c) ==
    /\ calls[c].step = "sent" /\ calls[c].op \in {"rename", "rotate"} /\ Passes(calls[c].key)
    /\ IF calls[c].id \in DOMAIN keys /\ ~keys[calls[c].id].revoked
       THEN calls' = [calls EXCEPT ![c].step = "classified"]
       ELSE CallEnds(c, None, FALSE)
    /\ UNCHANGED <<keys, minted, pageKey, dialog>>

(* updateApiKeyLabel, whose result the handler does not look at.            *)
Rename(c) ==
    /\ calls[c].step = "classified" /\ calls[c].op = "rename"
    /\ \E l \in Label :
         keys' = IF Active(calls[c].id) THEN [keys EXCEPT ![calls[c].id].label = l] ELSE keys
    /\ CallEnds(c, None, TRUE)
    /\ UNCHANGED <<minted, pageKey, dialog>>

\* Mutant of Rotate: the result of rotateApiKey is not looked at.
RotateUnasked(c) ==
    /\ calls[c].step = "classified" /\ calls[c].op = "rotate"
    /\ minted < MaxMinted /\ minted' = minted + 1
    /\ keys' = IF Active(calls[c].id) THEN [keys EXCEPT ![calls[c].id].secret = minted'] ELSE keys
    /\ CallEnds(c, minted', TRUE)
    /\ UNCHANGED <<pageKey, dialog>>

(* generateKey and rotateApiKey; the race lost to a revocation is a 409.    *)
Rotate(c) ==
    /\ calls[c].step = "classified" /\ calls[c].op = "rotate"
    /\ minted < MaxMinted /\ minted' = minted + 1
    /\ IF Active(calls[c].id)
       THEN keys' = [keys EXCEPT ![calls[c].id].secret = minted'] /\ CallEnds(c, minted', TRUE)
       ELSE keys' = keys /\ CallEnds(c, None, FALSE)
    /\ UNCHANGED <<pageKey, dialog>>

(* An answer is lost: the page sees an error, the row is as it is.          *)
LoseAnswer(c) ==
    /\ calls[c].step = "done" /\ calls[c].ok
    /\ CallEnds(c, None, FALSE)
    /\ UNCHANGED <<keys, minted, pageKey, dialog>>

(* scripts/create-api-key.ts, which alone issues an admin key.              *)
IssueOnHost ==
    /\ \E l \in Label, admin \in BOOLEAN : InsertApiKey(l, admin)
    /\ UNCHANGED <<pageKey, calls, dialog>>

(* The same statements, from another process or page.                       *)
Elsewhere ==
    /\ \E i \in DOMAIN keys :
         /\ Active(i)
         /\ \/ keys' = [keys EXCEPT ![i].revoked = TRUE] /\ UNCHANGED minted
            \/ \E l \in Label : keys' = [keys EXCEPT ![i].label = l] /\ UNCHANGED minted
            \/ /\ minted < MaxMinted /\ minted' = minted + 1
               /\ keys' = [keys EXCEPT ![i].secret = minted']
    /\ UNCHANGED <<pageKey, calls, dialog>>

----------------------------------------------------------------------------
(* The page.                                                                *)

NoDialog == \A d \in Dialogs : dialog[d].target = None

(* A row is as the last poll showed it: it may have been revoked since.     *)
(* The dialogs are modal.                                                   *)
OpenDialog(d) ==
    /\ NoDialog
    /\ \E t \in IF d = "create" THEN {NewKey} ELSE DOMAIN keys :
         dialog' = [dialog EXCEPT ![d].target = t]
    /\ UNCHANGED <<keys, minted, pageKey, calls>>

Send(op, id) ==
    \E c \in AdminCall :
        /\ calls[c].step = "idle" /\ \A b \in 1..(c - 1) : calls[b].step # "idle"
        /\ calls' = [calls EXCEPT ![c] =
             [NoCall EXCEPT !.op = op, !.id = id, !.key = pageKey, !.step = "sent",
                          !.heard = op # "rename"]]

SubmitDialog(d) ==
    /\ dialog[d].target # None /\ dialog[d].shown = None /\ ~dialog[d].submitting
    /\ Send(d, dialog[d].target)
    /\ dialog' = [dialog EXCEPT ![d].submitting = TRUE]
    /\ UNCHANGED <<keys, minted, pageKey>>

(* InlineRename's commit; what becomes of its answer is not modelled.       *)
SubmitLabel ==
    /\ NoDialog
    /\ \E i \in DOMAIN keys : Send("rename", i)
    /\ UNCHANGED <<keys, minted, pageKey, dialog>>

(* The awaited call returns to the component, whatever it shows by now.  A  *)
(* successful revocation closes the dialog.                                 *)
Deliver(c) ==
    /\ calls[c].step = "done"
    /\ calls' = [calls EXCEPT ![c] = NoCall]
    /\ dialog' =
         IF ~calls[c].heard THEN dialog
         ELSE [dialog EXCEPT ![calls[c].op] =
                 CASE ~calls[c].ok             -> [@ EXCEPT !.submitting = FALSE]
                   [] calls[c].ok /\ calls[c].op = "revoke"
                                               -> Closed
                   [] OTHER                    -> [@ EXCEPT !.shown = calls[c].full,
                                                            !.submitting = FALSE]]
    /\ UNCHANGED <<keys, minted, pageKey>>

(* handleOpenChange(false), by Escape, a click beside the dialog or its X,  *)
(* also while the call is under way; Cancel and Done, when they can be      *)
(* pressed, leave the same state.                                           *)
DismissDialog(d) ==
    /\ dialog[d].target # None
    /\ dialog' = [dialog EXCEPT ![d] = Closed]
    /\ UNCHANGED <<keys, minted, pageKey, calls>>

(* The page is left: its components are gone, and so are their states.      *)
LeavePage ==
    /\ dialog' = [d \in Dialogs |-> Closed]
    /\ calls' = [c \in AdminCall |-> [calls[c] EXCEPT !.heard = FALSE]]
    /\ UNCHANGED <<keys, minted, pageKey>>

(* AuthGate prompts for a key when the stored one is refused.               *)
SignIn ==
    /\ ~Passes(pageKey)
    /\ \E i \in DOMAIN keys : pageKey' = keys[i].secret
    /\ UNCHANGED <<keys, minted, calls, dialog>>

KeyNext ==
    \/ \E c \in AdminCall :
         \/ Refuse(c) \/ Create(c) \/ Revoke(c) \/ Classify(c) \/ Rename(c)
         \/ Rotate(c) \/ LoseAnswer(c) \/ Deliver(c)
    \/ IssueOnHost \/ Elsewhere
    \/ \E d \in Dialogs : OpenDialog(d) \/ SubmitDialog(d) \/ DismissDialog(d)
    \/ SubmitLabel \/ LeavePage \/ SignIn

KeySpec == KeyInit /\ [][KeyNext]_keyVars

----------------------------------------------------------------------------
RowType == [secret : Secret, label : Label, admin : BOOLEAN, revoked : BOOLEAN]
CallType ==
    [op : Ops, id : 0..NewKey, key : 0..MaxMinted, step : {"idle", "sent", "classified", "done"},
     full : 0..MaxMinted, ok : BOOLEAN, heard : BOOLEAN]
DialogType == [target : 0..NewKey, shown : 0..MaxMinted, submitting : BOOLEAN]

KeyTypeOK ==
    /\ keys \in Seq(RowType) /\ Len(keys) \in 1..MaxRows
    /\ minted \in Secret /\ pageKey \in Secret
    /\ calls \in [AdminCall -> CallType] /\ dialog \in [Dialogs -> DialogType]

(* A plaintext in an answer is, when the answer is given, the secret of an  *)
(* active row, the one the call was about when it was about one: a rotation *)
(* that lost the race to a revocation hands nothing out (routes/keys.ts     *)
(* lines 215-221).                                                          *)
HandedOutAuthenticates ==
    [][\A c \in AdminCall : calls'[c].full # None /\ calls[c].full = None =>
          \E i \in DOMAIN keys' :
             /\ keys'[i].secret = calls'[c].full /\ ~keys'[i].revoked
             /\ calls[c].op = "rotate" => i = calls[c].id]_keyVars

(* A revoked key stays as it was when it was revoked, whatever calls were   *)
(* under way: it is never renamed, rotated or active again (storage.ts      *)
(* lines 765-772, "a terminal audit artifact").                             *)
RevokedIsFinal ==
    [][\A i \in DOMAIN keys : keys[i].revoked => i \in DOMAIN keys' /\ keys'[i] = keys[i]]_keyVars

(* A dialog that is opened shows no plaintext yet (routes/keys.tsx line     *)
(* 426, "so a reopened dialog starts clean").                               *)
ReopensClean ==
    [][\A d \in Dialogs : dialog[d].target = None /\ dialog'[d].target # None =>
          dialog'[d].shown = None]_keyVars

(* Rows are what the answers said of them, for every order of statements.   *)
KeysHonoured == HandedOutAuthenticates /\ RevokedIsFinal
=============================================================================
