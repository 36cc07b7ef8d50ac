---------------------------- MODULE ApiKeysPage ----------------------------
(***************************************************************************)
(* The API key tab (web/src/pages/ApiKeysPage.tsx).                        *)
(*                                                                         *)
(* The full text of a key is in the answer to its creation and nowhere     *)
(* else: the dialog shows it until it is closed.  The dialog's state is    *)
(* the page's, so that it outlives the dialog.                             *)
(***************************************************************************)
EXTENDS ApiCalls

CONSTANTS
    MaxKeys,    \* bound on the key ids
    NoKey,      \* there is no such key
    MaxKeyActs  \* bound on the user's acts

ASSUME KeysAssumption ==
    MaxKeys \in Nat \ {0} /\ MaxKeyActs \in Nat /\ NoKey \notin BOOLEAN

VARIABLES
    keyTable,   \* the table: whether each key that is there is enabled
    keySerial,  \* the last id that was given out
    keysPage,   \* the state hooks of the page
    keyCalls,   \* the calls of the page
    keyActs     \* acts so far

keysVars == <<keyTable, keySerial, keysPage, keyCalls, keyActs>>

Key == 1 .. MaxKeys

KeyList == [Key -> BOOLEAN \union {NoKey}]

NoKeys == [k \in Key |-> NoKey]

(***************************************************************************)
(* filled: the dialog has a name and a permission.  created is the key     *)
(* whose full text is kept, or 0.                                          *)
(***************************************************************************)
KeysPageState ==
    [mounted : BOOLEAN, view : KeyList, loading : BOOLEAN, open : BOOLEAN,
     filled : BOOLEAN, created : 0 .. MaxKeys, submitting : BOOLEAN]

FreshKeysPage ==
    [mounted |-> TRUE, view |-> NoKeys, loading |-> TRUE, open |-> FALSE,
     filled |-> FALSE, created |-> 0, submitting |-> FALSE]

KeyCall ==
    [kind : {"idle", "list", "create", "delete", "toggle"}, mine : BOOLEAN,
     id : 0 .. MaxKeys, enabled : BOOLEAN, state : CallState, list : KeyList]

NoKeyCall ==
    [kind |-> "idle", mine |-> FALSE, id |-> 0, enabled |-> TRUE,
     state |-> "sent", list |-> NoKeys]

KeyAsk(kind, id) == [NoKeyCall EXCEPT !.kind = kind, !.mine = TRUE, !.id = id]

AskKeys == KeyAsk("list", 0)

KeysInit ==
    /\ \E k \in 0 .. MaxKeys :
        /\ keySerial = k
        /\ keyTable = [l \in Key |-> IF l <= k THEN TRUE ELSE NoKey]
    /\ keysPage = FreshKeysPage
    /\ keyCalls = [s \in Slot |-> IF s = 1 THEN AskKeys ELSE NoKeyCall]
    /\ keyActs = 0

-----------------------------------------------------------------------------
KeyAct == keyActs < MaxKeyActs /\ keyActs' = keyActs + 1

SendKeyCall(call) ==
    \E s \in Free(keyCalls) : keyCalls' = [keyCalls EXCEPT ![s] = call]

\* The table of keys; the dialog covers it.
KeyRows ==
    IF keysPage.mounted /\ ~keysPage.open
    THEN {k \in Key : keysPage.view[k] # NoKey} ELSE {}

\* loadKeys, from the header.
RefreshKeys ==
    /\ KeyAct
    /\ keysPage.mounted /\ ~keysPage.open
    /\ keysPage' = [keysPage EXCEPT !.loading = TRUE]
    /\ SendKeyCall(AskKeys)
    /\ UNCHANGED <<keyTable, keySerial>>

\* handleToggle sends the opposite of what the row shows.
ToggleKey(k) ==
    /\ KeyAct
    /\ k \in KeyRows
    /\ SendKeyCall([KeyAsk("toggle", k) EXCEPT !.enabled = ~keysPage.view[k]])
    /\ UNCHANGED <<keyTable, keySerial, keysPage>>

\* handleDelete, confirmed.
DeleteKey(k) ==
    /\ KeyAct
    /\ k \in KeyRows
    /\ SendKeyCall(KeyAsk("delete", k))
    /\ UNCHANGED <<keyTable, keySerial, keysPage>>

\* The button of the header starts the dialog afresh.
OpenKeyDialog ==
    /\ KeyAct
    /\ keysPage.mounted /\ ~keysPage.open
    /\ keysPage' = [keysPage EXCEPT !.open = TRUE, !.created = 0, !.filled = FALSE]
    /\ UNCHANGED <<keyTable, keySerial, keyCalls>>

\* The name and the permissions.
FillKeyDialog ==
    /\ KeyAct
    /\ keysPage.open /\ keysPage.created = 0
    /\ keysPage' = [keysPage EXCEPT !.filled = ~@]
    /\ UNCHANGED <<keyTable, keySerial, keyCalls>>

\* Mutant: the button stays enabled while a key is being made.
CanSubmitKeyAgain == keysPage.open /\ keysPage.created = 0 /\ keysPage.filled

\* The form is there until a key is, and its button is enabled.
CanSubmitKey ==
    /\ keysPage.open /\ keysPage.created = 0
    /\ keysPage.filled /\ ~keysPage.submitting

\* handleCreate up to its await.
SubmitKey ==
    /\ KeyAct
    /\ CanSubmitKey
    /\ keysPage' = [keysPage EXCEPT !.submitting = TRUE]
    /\ SendKeyCall(KeyAsk("create", 0))
    /\ UNCHANGED <<keyTable, keySerial>>

\* The two buttons that close the dialog forget the key; the form's cancel
\* button has none to forget.
CloseKeyDialog ==
    /\ KeyAct
    /\ keysPage.open
    /\ keysPage' = [keysPage EXCEPT !.open = FALSE, !.created = 0]
    /\ UNCHANGED <<keyTable, keySerial, keyCalls>>

LeaveKeys ==
    /\ KeyAct
    /\ keysPage.mounted /\ ~keysPage.open
    /\ keysPage' = [FreshKeysPage EXCEPT !.mounted = FALSE, !.loading = FALSE]
    /\ keyCalls' = Orphaned(keyCalls)
    /\ UNCHANGED <<keyTable, keySerial>>

ReturnToKeys ==
    /\ ~keysPage.mounted
    /\ keysPage' = FreshKeysPage
    /\ SendKeyCall(AskKeys)
    /\ UNCHANGED <<keyTable, keySerial, keyActs>>

-----------------------------------------------------------------------------
(***************************************************************************)
(* The server: listApiKeys, toggleApiKey, deleteApiKey, createApiKey.      *)
(***************************************************************************)

KeyServed(s, state, list, id) ==
    keyCalls' = [keyCalls EXCEPT
        ![s] = [@ EXCEPT !.state = state, !.list = list, !.id = id]]

ServeKeyList(s) ==
    /\ keyCalls[s].kind = "list" /\ keyCalls[s].state = "sent"
    /\ \/ KeyServed(s, "ok", keyTable, 0)
       \/ KeyServed(s, "error", NoKeys, 0)
    /\ UNCHANGED <<keyTable, keySerial, keysPage, keyActs>>

\* Neither statement looks whether the key is there.
ServeKeyUpdate(s) ==
    LET call == keyCalls[s]
        after == IF call.kind = "delete" THEN NoKey ELSE call.enabled
    IN  /\ call.kind \in {"toggle", "delete"} /\ call.state = "sent"
        /\ \E done \in BOOLEAN, state \in {"ok", "error"} :
            /\ state = "ok" => done
            /\ keyTable' = [keyTable EXCEPT
                   ![call.id] = IF done /\ @ # NoKey THEN after ELSE @]
            /\ KeyServed(s, state, NoKeys, call.id)
        /\ UNCHANGED <<keySerial, keysPage, keyActs>>

\* The answer holds the new key, and its full text.
ServeKeyCreate(s) ==
    /\ keyCalls[s].kind = "create" /\ keyCalls[s].state = "sent"
    /\ \E done \in BOOLEAN, state \in {"ok", "error"} :
        /\ state = "ok" => done
        /\ done => keySerial < MaxKeys
        /\ keySerial' = IF done THEN keySerial + 1 ELSE keySerial
        /\ keyTable' = IF done THEN [keyTable EXCEPT ![keySerial'] = TRUE] ELSE keyTable
        /\ KeyServed(s, state, NoKeys, IF state = "ok" THEN keySerial' ELSE 0)
    /\ UNCHANGED <<keysPage, keyActs>>

-----------------------------------------------------------------------------
(***************************************************************************)
(* The second halves of the handlers.                                      *)
(***************************************************************************)

\* The handler of call s goes on with page p, then ends or calls loadKeys.
EndKeyCall(s, p) ==
    /\ keyCalls' = [keyCalls EXCEPT ![s] = NoKeyCall]
    /\ keysPage' = IF keyCalls[s].mine THEN p ELSE keysPage
    /\ UNCHANGED <<keyTable, keySerial, keyActs>>

ReloadKeys(s, p) ==
    /\ keyCalls' = [keyCalls EXCEPT ![s] = [AskKeys EXCEPT !.mine = keyCalls[s].mine]]
    /\ keysPage' = IF keyCalls[s].mine THEN [p EXCEPT !.loading = TRUE] ELSE keysPage
    /\ UNCHANGED <<keyTable, keySerial, keyActs>>

\* The rest of loadKeys.
KeysListed(s) ==
    /\ Back(keyCalls, s, "list")
    /\ EndKeyCall(s, [keysPage EXCEPT
           !.loading = FALSE,
           !.view = IF Succeeded(keyCalls, s) THEN keyCalls[s].list ELSE @])

\* handleToggle and handleDelete.
KeyUpdated(s) ==
    /\ Back(keyCalls, s, "toggle") \/ Back(keyCalls, s, "delete")
    /\ \/ Succeeded(keyCalls, s) /\ ReloadKeys(s, keysPage)
       \/ ~Succeeded(keyCalls, s) /\ EndKeyCall(s, keysPage)

\* handleCreate: the key is kept for the dialog, whether it is open or not.
KeyCreated(s) ==
    /\ Back(keyCalls, s, "create")
    /\ \/ /\ Succeeded(keyCalls, s)
          /\ ReloadKeys(s, [keysPage EXCEPT
                 !.submitting = FALSE, !.created = keyCalls[s].id])
       \/ /\ ~Succeeded(keyCalls, s)
          /\ EndKeyCall(s, [keysPage EXCEPT !.submitting = FALSE])

-----------------------------------------------------------------------------
KeyCallStep(s) ==
    \/ ServeKeyList(s)
    \/ ServeKeyUpdate(s)
    \/ ServeKeyCreate(s)
    \/ KeysListed(s)
    \/ KeyUpdated(s)
    \/ KeyCreated(s)

KeysNext ==
    \/ RefreshKeys
    \/ \E k \in Key : ToggleKey(k) \/ DeleteKey(k)
    \/ OpenKeyDialog
    \/ FillKeyDialog
    \/ SubmitKey
    \/ CloseKeyDialog
    \/ LeaveKeys
    \/ ReturnToKeys
    \/ \E s \in Slot : KeyCallStep(s)

KeysSpec == KeysInit /\ [][KeysNext]_keysVars

-----------------------------------------------------------------------------
(***************************************************************************)
(* Properties.                                                             *)
(***************************************************************************)

\* Every variable stays in its domain.
KeysTypeOK ==
    /\ keyTable \in KeyList
    /\ keySerial \in 0 .. MaxKeys
    /\ keysPage \in KeysPageState
    /\ keyCalls \in [Slot -> KeyCall]
    /\ keyActs \in 0 .. MaxKeyActs

\* At most one creation of the page is out, and its button says so, also
\* when the dialog was closed and opened again meanwhile.
OneKeyAtATime ==
    /\ keysPage.submitting <=> Out(keyCalls, "create") # {}
    /\ \A r, s \in Out(keyCalls, "create") : r = s

\* The only copy of a key's text stays in the dialog until its user closes
\* it: no answer to another creation, whenever it comes, replaces it.
KeyStaysUntilClosed ==
    [][keysPage.open /\ keysPage.created # 0 /\ keysPage'.open
           => keysPage'.created = keysPage.created]_keysVars
=============================================================================
