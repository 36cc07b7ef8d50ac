---------------------------- MODULE AccountsPage ----------------------------
(***************************************************************************)
(* The account tab (web/src/pages/AccountsPage.tsx) and the accounts it    *)
(* manages over the HTTP API.                                              *)
(*                                                                         *)
(* The page never edits its list: it shows the last listing that came      *)
(* back, and asks for another one after each act that succeeded.  One      *)
(* spinner serves the tests of all accounts, and another one the           *)
(* initialisations.  The form copies the account when it opens and sends   *)
(* all of it back.                                                         *)
(***************************************************************************)
EXTENDS ApiCalls

CONSTANTS
    MaxAccounts,    \* bound on the account ids
    Priority,       \* what the priority column may hold
    NoRow,          \* there is no such account
    StartPools,     \* what the table may hold at first
    MaxAccountActs  \* bound on the user's acts and the changes elsewhere

Account == 1 .. MaxAccounts

\* exhausted: the status is QUOTA_EXHAUSTED.  enabled stands for every
\* column that the form sends back as it found it.
AccountRow == [enabled : BOOLEAN, priority : Priority, exhausted : BOOLEAN]

AccountList == [Account -> AccountRow \union {NoRow}]

ASSUME AccountsAssumption ==
    /\ MaxAccounts \in Nat \ {0} /\ MaxAccountActs \in Nat
    /\ Priority \subseteq Nat /\ 10 \in Priority
    /\ NoRow \notin AccountRow
    /\ StartPools \subseteq AccountList

VARIABLES
    pool,           \* the table of accounts
    serial,         \* the last id that was given out
    accountsPage,   \* the state hooks of the page and of its form
    accountCalls,   \* the calls of the page
    accountActs,    \* acts so far
    steady          \* history: no failure, no change elsewhere or left behind,
                    \* no two listings at once

accountsVars == <<pool, serial, accountsPage, accountCalls, accountActs, steady>>

NoAccounts == [a \in Account |-> NoRow]

NoForm == -1

NewForm == 0

Draft == [enabled : BOOLEAN, priority : Priority]

EmptyDraft == [enabled |-> TRUE, priority |-> 10]

(***************************************************************************)
(* form is the account being edited, or one of the two values above;       *)
(* testing, tested, initializing and initialized are account ids or 0.     *)
(***************************************************************************)
AccountsPageState ==
    [mounted : BOOLEAN, view : AccountList, loading : BOOLEAN,
     form : NoForm .. MaxAccounts, draft : Draft, submitting : BOOLEAN,
     testing : 0 .. MaxAccounts, tested : 0 .. MaxAccounts,
     initializing : 0 .. MaxAccounts, initialized : 0 .. MaxAccounts]

FreshAccountsPage ==
    [mounted |-> TRUE, view |-> NoAccounts, loading |-> TRUE,
     form |-> NoForm, draft |-> EmptyDraft, submitting |-> FALSE,
     testing |-> 0, tested |-> 0, initializing |-> 0, initialized |-> 0]

AccountKinds ==
    {"list", "toggle", "edit", "create", "delete", "test", "init", "reset"}

\* own: the form that sent the call is still the one that is open.
AccountCall ==
    [kind : AccountKinds \union {"idle"}, mine : BOOLEAN, own : BOOLEAN,
     id : 0 .. MaxAccounts, draft : Draft, state : CallState, list : AccountList]

NoAccountCall ==
    [kind |-> "idle", mine |-> FALSE, own |-> FALSE, id |-> 0,
     draft |-> EmptyDraft, state |-> "sent", list |-> NoAccounts]

AccountAsk(kind, id) ==
    [NoAccountCall EXCEPT !.kind = kind, !.mine = TRUE, !.id = id]

AskList == AccountAsk("list", 0)

AccountsInit ==
    /\ pool \in StartPools
    /\ serial \in Account /\ \A a \in Account : pool[a] # NoRow => a <= serial
    /\ accountsPage = FreshAccountsPage
    /\ accountCalls = [s \in Slot |-> IF s = 1 THEN AskList ELSE NoAccountCall]
    /\ accountActs = 0
    /\ steady = TRUE

-----------------------------------------------------------------------------
(***************************************************************************)
(* The user's acts.                                                        *)
(***************************************************************************)

AccountAct == accountActs < MaxAccountActs /\ accountActs' = accountActs + 1

\* The cards and the action bar; an open form covers them.
Cards == accountsPage.mounted /\ accountsPage.form = NoForm

SendAccountCall(call) ==
    \E s \in Free(accountCalls) : accountCalls' = [accountCalls EXCEPT ![s] = call]

Listed == {a \in Account : accountsPage.view[a] # NoRow}

\* loadAccounts, from the action bar.
RefreshAccounts ==
    /\ AccountAct
    /\ Cards
    /\ accountsPage' = [accountsPage EXCEPT !.loading = TRUE]
    /\ SendAccountCall(AskList)
    /\ UNCHANGED <<pool, serial, steady>>

\* handleToggleEnable sends the opposite of what the card shows.
ToggleEnable(a) ==
    /\ AccountAct
    /\ Cards /\ a \in Listed
    /\ SendAccountCall([AccountAsk("toggle", a) EXCEPT
           !.draft = [EmptyDraft EXCEPT !.enabled = ~accountsPage.view[a].enabled]])
    /\ UNCHANGED <<pool, serial, accountsPage, steady>>

\* The button is disabled while the page believes that a is being tested.
CanTest(a) == a \in Listed /\ accountsPage.testing # a

\* handleTestAccount up to its await.
TestAccount(a) ==
    /\ AccountAct
    /\ Cards /\ CanTest(a)
    /\ accountsPage' = [accountsPage EXCEPT !.testing = a, !.tested = 0]
    /\ SendAccountCall(AccountAsk("test", a))
    /\ UNCHANGED <<pool, serial, steady>>

\* handleInitializeAccount up to its await; it asks for no confirmation.
InitializeAccount(a) ==
    /\ AccountAct
    /\ Cards /\ a \in Listed /\ accountsPage.initializing # a
    /\ accountsPage' = [accountsPage EXCEPT !.initializing = a, !.initialized = 0]
    /\ SendAccountCall(AccountAsk("init", a))
    /\ UNCHANGED <<pool, serial, steady>>

\* handleResetQuota: the button is there for an exhausted account.
ResetAccountQuota(a) ==
    /\ AccountAct
    /\ Cards /\ a \in Listed /\ accountsPage.view[a].exhausted
    /\ SendAccountCall(AccountAsk("reset", a))
    /\ UNCHANGED <<pool, serial, accountsPage, steady>>

\* handleDelete, confirmed.
DeleteAccount(a) ==
    /\ AccountAct
    /\ Cards /\ a \in Listed
    /\ SendAccountCall(AccountAsk("delete", a))
    /\ UNCHANGED <<pool, serial, accountsPage, steady>>

\* AccountFormModal takes account?.priority || 10.
FormPriority(p) == IF p = 0 THEN 10 ELSE p

\* setShowAddModal(true), or setEditingAccount: the form starts from the
\* account of the card.
OpenForm(form) ==
    /\ AccountAct
    /\ Cards
    /\ form = NewForm \/ form \in Listed
    /\ accountsPage' = [accountsPage EXCEPT
           !.form = form,
           !.draft = IF form = NewForm THEN EmptyDraft
                     ELSE [enabled |-> accountsPage.view[form].enabled,
                           priority |-> FormPriority(accountsPage.view[form].priority)]]
    /\ UNCHANGED <<pool, serial, accountCalls, steady>>

\* One of the form's fields.  The browser refuses a priority below one.
EditForm(draft) ==
    /\ AccountAct
    /\ accountsPage.form # NoForm
    /\ draft.priority # 0 /\ draft # accountsPage.draft
    /\ accountsPage' = [accountsPage EXCEPT !.draft = draft]
    /\ UNCHANGED <<pool, serial, accountCalls, steady>>

\* handleSubmit of the form up to its await.
SubmitForm ==
    /\ AccountAct
    /\ accountsPage.form # NoForm /\ ~accountsPage.submitting
    /\ accountsPage' = [accountsPage EXCEPT !.submitting = TRUE]
    /\ SendAccountCall(
           [AccountAsk(IF accountsPage.form = NewForm THEN "create" ELSE "edit",
                       accountsPage.form)
                EXCEPT !.own = TRUE, !.draft = accountsPage.draft])
    /\ UNCHANGED <<pool, serial, steady>>

\* The form's state goes with it.
WithoutForm(p) ==
    [p EXCEPT !.form = NoForm, !.draft = EmptyDraft, !.submitting = FALSE]

Disowned(calls) == [s \in Slot |-> [calls[s] EXCEPT !.own = FALSE]]

\* onClose, also while a submission is under way.
CloseForm ==
    /\ AccountAct
    /\ accountsPage.form # NoForm
    /\ accountsPage' = WithoutForm(accountsPage)
    /\ accountCalls' = Disowned(accountCalls)
    /\ UNCHANGED <<pool, serial, steady>>

\* Another tab or page.
LeaveAccounts ==
    /\ AccountAct
    /\ Cards
    /\ accountsPage' = [FreshAccountsPage EXCEPT !.mounted = FALSE, !.loading = FALSE]
    /\ accountCalls' = Orphaned(accountCalls)
    /\ steady' = (steady /\ \A s \in Slot : accountCalls[s].kind \in {"idle", "list"})
    /\ UNCHANGED <<pool, serial>>

\* The effect of a fresh page calls loadAccounts.
ReturnToAccounts ==
    /\ ~accountsPage.mounted
    /\ accountsPage' = FreshAccountsPage
    /\ SendAccountCall(AskList)
    /\ UNCHANGED <<pool, serial, accountActs, steady>>

-----------------------------------------------------------------------------
(***************************************************************************)
(* The server.                                                             *)
(***************************************************************************)

Executed(s, state, list) ==
    accountCalls' = [accountCalls EXCEPT ![s] = [@ EXCEPT !.state = state, !.list = list]]

ServeList(s) ==
    /\ accountCalls[s].kind = "list" /\ accountCalls[s].state = "sent"
    /\ \/ Executed(s, "ok", pool) /\ UNCHANGED steady
       \/ Executed(s, "error", NoAccounts) /\ steady' = FALSE
    /\ UNCHANGED <<pool, serial, accountsPage, accountActs>>

\* The account after the call; a test, a reset and an initialisation all
\* take the status away from QUOTA_EXHAUSTED.
RowAfter(row, call) ==
    CASE call.kind = "toggle" -> [row EXCEPT !.enabled = call.draft.enabled]
      [] call.kind = "edit" ->
             [row EXCEPT !.enabled = call.draft.enabled, !.priority = call.draft.priority]
      [] call.kind = "delete" -> NoRow
      [] OTHER -> [row EXCEPT !.exhausted = FALSE]

\* updateAccount, deleteAccount, testAccount, resetQuota, initializeAccount.
\* An error may follow the effect, and a missing account is an error unless
\* the statement does not look.
ServeUpdate(s) ==
    LET call == accountCalls[s]
        there == pool[call.id] # NoRow
    IN  /\ call.kind \in AccountKinds \ {"list", "create"} /\ call.state = "sent"
        /\ \E done \in BOOLEAN, state \in {"ok", "error"} :
            /\ state = "ok" => done /\ (there \/ call.kind \in {"delete", "reset"})
            /\ pool' = [pool EXCEPT ![call.id] =
                            IF done /\ there THEN RowAfter(@, call) ELSE @]
            /\ Executed(s, state, NoAccounts)
            /\ steady' = (steady /\ state = "ok")
        /\ UNCHANGED <<serial, accountsPage, accountActs>>

\* The form sends no priority below one: the server's own default is not met.
ServeCreate(s) ==
    LET call == accountCalls[s]
        row == [enabled |-> call.draft.enabled, priority |-> call.draft.priority,
                exhausted |-> FALSE]
    IN  /\ call.kind = "create" /\ call.state = "sent"
        /\ \E done \in BOOLEAN, state \in {"ok", "error"} :
            /\ state = "ok" => done
            /\ done => serial < MaxAccounts
            /\ pool' = IF done THEN [pool EXCEPT ![serial + 1] = row] ELSE pool
            /\ serial' = IF done THEN serial + 1 ELSE serial
            /\ Executed(s, state, NoAccounts)
            /\ steady' = (steady /\ state = "ok")
        /\ UNCHANGED <<accountsPage, accountActs>>

\* A submission meets the account's daily limit, or it is deleted by
\* another administrator.
ChangeElsewhere(a) ==
    /\ AccountAct
    /\ pool[a] # NoRow /\ ~pool[a].exhausted
    /\ \E row \in {NoRow, [pool[a] EXCEPT !.exhausted = TRUE]} :
          pool' = [pool EXCEPT ![a] = row]
    /\ steady' = FALSE
    /\ UNCHANGED <<serial, accountsPage, accountCalls>>

-----------------------------------------------------------------------------
(***************************************************************************)
(* The second halves of the handlers.                                      *)
(***************************************************************************)

\* The handler of call s goes on with page p, and ends there.
EndAccountCall(s, p) ==
    /\ accountCalls' = [accountCalls EXCEPT ![s] = NoAccountCall]
    /\ accountsPage' = IF accountCalls[s].mine THEN p ELSE accountsPage
    /\ UNCHANGED <<pool, serial, accountActs>>

\* It goes on with page p, and calls loadAccounts.
Reload(s, p) ==
    /\ accountCalls' = [accountCalls EXCEPT
           ![s] = [AskList EXCEPT !.mine = accountCalls[s].mine]]
    /\ accountsPage' = IF accountCalls[s].mine THEN [p EXCEPT !.loading = TRUE]
                       ELSE accountsPage
    /\ UNCHANGED <<pool, serial, accountActs, steady>>

\* The rest of loadAccounts: a failure is logged, the old list stays.
AccountsListed(s) ==
    /\ Back(accountCalls, s, "list")
    /\ EndAccountCall(s, [accountsPage EXCEPT
           !.loading = FALSE,
           !.view = IF Succeeded(accountCalls, s) THEN accountCalls[s].list ELSE @])
    /\ steady' = (steady /\ \A r \in Out(accountCalls, "list") :
                                r = s \/ accountCalls[r].state = "sent")

\* Mutant: the page edits its list instead of asking again.
ToggledInPlace(s) ==
    /\ Back(accountCalls, s, "toggle")
    /\ EndAccountCall(s, [accountsPage EXCEPT !.view = [a \in Account |->
           IF a = accountCalls[s].id /\ @[a] # NoRow
           THEN [@[a] EXCEPT !.enabled = accountCalls[s].draft.enabled] ELSE @[a]]])
    /\ UNCHANGED steady

\* handleToggleEnable, handleResetQuota and handleDelete: a failure is
\* alerted.
Toggled(s) ==
    /\ Back(accountCalls, s, "toggle")
    /\ \/ Succeeded(accountCalls, s) /\ Reload(s, accountsPage)
       \/ ~Succeeded(accountCalls, s) /\ EndAccountCall(s, accountsPage) /\ UNCHANGED steady

QuotaReset(s) ==
    /\ Back(accountCalls, s, "reset")
    /\ \/ Succeeded(accountCalls, s) /\ Reload(s, accountsPage)
       \/ ~Succeeded(accountCalls, s) /\ EndAccountCall(s, accountsPage) /\ UNCHANGED steady

\* Mutant: the list is not asked for again.
DeletedOnly(s) ==
    /\ Back(accountCalls, s, "delete")
    /\ EndAccountCall(s, accountsPage)
    /\ UNCHANGED steady

AccountDeleted(s) ==
    /\ Back(accountCalls, s, "delete")
    /\ \/ Succeeded(accountCalls, s) /\ Reload(s, accountsPage)
       \/ ~Succeeded(accountCalls, s) /\ EndAccountCall(s, accountsPage) /\ UNCHANGED steady

\* handleTestAccount: the result goes to its card, the spinner is taken
\* from whichever card has it.
Tested(s) ==
    LET p == [accountsPage EXCEPT !.tested = accountCalls[s].id, !.testing = 0]
    IN  /\ Back(accountCalls, s, "test")
        /\ \/ Succeeded(accountCalls, s) /\ Reload(s, p)
           \/ ~Succeeded(accountCalls, s) /\ EndAccountCall(s, p) /\ UNCHANGED steady

\* Mutant: a failure leaves the spinner.
InitializedStuck(s) ==
    /\ Back(accountCalls, s, "init")
    /\ IF Succeeded(accountCalls, s)
       THEN Reload(s, [accountsPage EXCEPT
                !.initialized = accountCalls[s].id, !.initializing = 0])
       ELSE /\ EndAccountCall(s, [accountsPage EXCEPT !.initialized = accountCalls[s].id])
            /\ UNCHANGED steady

\* handleInitializeAccount, alike.
Initialized(s) ==
    LET p == [accountsPage EXCEPT !.initialized = accountCalls[s].id, !.initializing = 0]
    IN  /\ Back(accountCalls, s, "init")
        /\ \/ Succeeded(accountCalls, s) /\ Reload(s, p)
           \/ ~Succeeded(accountCalls, s) /\ EndAccountCall(s, p) /\ UNCHANGED steady

\* handleSubmit of the form.  onSuccess closes whichever form of the page is
\* open; a failure is shown in the form, if it is still there.
Saved(s) ==
    LET call == accountCalls[s]
        others == IF call.mine THEN Disowned(accountCalls) ELSE accountCalls
    IN
    /\ Back(accountCalls, s, "edit") \/ Back(accountCalls, s, "create")
    /\ IF Succeeded(accountCalls, s)
       THEN /\ accountCalls' = [others EXCEPT ![s] = [AskList EXCEPT !.mine = call.mine]]
            /\ accountsPage' = IF call.mine
                               THEN [WithoutForm(accountsPage) EXCEPT !.loading = TRUE]
                               ELSE accountsPage
            /\ UNCHANGED <<pool, serial, accountActs>>
       ELSE EndAccountCall(s, IF call.own
                              THEN [accountsPage EXCEPT !.submitting = FALSE]
                              ELSE accountsPage)
    /\ UNCHANGED steady

-----------------------------------------------------------------------------
OnAccount(a) ==
    \/ ToggleEnable(a)
    \/ TestAccount(a)
    \/ InitializeAccount(a)
    \/ ResetAccountQuota(a)
    \/ DeleteAccount(a)
    \/ ChangeElsewhere(a)

AccountCallStep(s) ==
    \/ ServeList(s)
    \/ ServeUpdate(s)
    \/ ServeCreate(s)
    \/ AccountsListed(s)
    \/ Toggled(s)
    \/ QuotaReset(s)
    \/ AccountDeleted(s)
    \/ Tested(s)
    \/ Initialized(s)
    \/ Saved(s)

AccountsNext ==
    \/ RefreshAccounts
    \/ \E a \in Account : OnAccount(a)
    \/ \E form \in 0 .. MaxAccounts : OpenForm(form)
    \/ \E draft \in Draft : EditForm(draft)
    \/ SubmitForm
    \/ CloseForm
    \/ LeaveAccounts
    \/ ReturnToAccounts
    \/ \E s \in Slot : AccountCallStep(s)

AccountsSpec == AccountsInit /\ [][AccountsNext]_accountsVars

-----------------------------------------------------------------------------
(***************************************************************************)
(* Properties.                                                             *)
(***************************************************************************)

\* Every variable stays in its domain.
AccountsTypeOK ==
    /\ pool \in AccountList
    /\ serial \in 0 .. MaxAccounts
    /\ accountsPage \in AccountsPageState
    /\ accountCalls \in [Slot -> AccountCall]
    /\ accountActs \in 0 .. MaxAccountActs
    /\ steady \in BOOLEAN

\* Every spinner and disabled button stands for a call of the page that is
\* still out, whatever accounts share it, however forms are closed and
\* opened and whatever fails.  The open form has one submission out at most,
\* and it is for what the form is open for.  A result is never shown beside
\* the spinner of a later test.
AccountFlagsMatchCalls ==
    /\ accountsPage.loading => Out(accountCalls, "list") # {}
    /\ accountsPage.testing # 0 =>
           /\ \E s \in Out(accountCalls, "test") : accountCalls[s].id = accountsPage.testing
           /\ accountsPage.tested = 0
    /\ accountsPage.initializing # 0 =>
           /\ \E s \in Out(accountCalls, "init") : accountCalls[s].id = accountsPage.initializing
           /\ accountsPage.initialized = 0
    /\ accountsPage.submitting <=> \E s \in Slot : accountCalls[s].own
    /\ \A r, s \in Slot : accountCalls[r].own /\ accountCalls[s].own => r = s
    /\ \A s \in Slot : accountCalls[s].own =>
           /\ accountCalls[s].mine /\ accountCalls[s].id = accountsPage.form
           /\ accountCalls[s].kind = IF accountsPage.form = NewForm THEN "create" ELSE "edit"

\* When nothing is out any more, nothing has failed, nobody else has touched
\* the accounts, the page was not left in the middle of a change and no two
\* listings came back at once, the page shows the accounts as they are: each
\* act that changes one asks for the list after it, also when its form has
\* been closed or another change is still under way.
SettledListCurrent ==
    accountsPage.mounted /\ AllIdle(accountCalls) /\ steady => accountsPage.view = pool

\* The listings on their way to the page.
AccountsFlying ==
    {accountCalls[s].list : s \in {r \in Slot : /\ accountCalls[r].kind = "list"
                                              /\ accountCalls[r].mine
                                              /\ accountCalls[r].state = "ok"}}

AccountsView ==
    INSTANCE ListView WITH Listing <- AccountList, Nothing <- NoAccounts,
        store <- pool, flying <- AccountsFlying, view <- accountsPage.view

\* The page only ever shows a listing that the server gave it since it was
\* opened: no handler edits the list, and no answer to a page that was left
\* reaches the next one.
AccountsNeverInvented == AccountsView!Spec
=============================================================================
